-------------------------------- MODULE AgentBus --------------------------------
(***************************************************************************)
(* The message bus between agents (multi_agency/agent_message_bus.py):     *)
(* mailboxes with priorities, direct, broadcast and topic messages,        *)
(* requests with replies, handlers that run inside the send that delivers  *)
(* to them, and receivers that wait on a mailbox.                          *)
(*                                                                         *)
(* Sends are the send/request calls of a run of the model.  The bus's lock *)
(* is never held across an await; a send can be overtaken while one of the *)
(* handlers it calls runs, and the model lets others in between any two    *)
(* deliveries.                                                             *)
(***************************************************************************)
EXTENDS Naturals, Sequences, FiniteSets, SequencesExt

CONSTANTS
    Agents,
    Handlers,     \* the agents with a handler (set_handler)
    Sends,        \* send and request calls
    Kind,         \* "direct", "request", "broadcast" or "topic"
    Sender, Recipient, Priority, \* of each send; Recipient matters for direct and request
    Waits,        \* receive_wait calls ...
    WaitFor,      \* ... and their agents
    MailboxSize,
    Epochs,       \* bound on the mailboxes an agent has one after the other
    ReplyBound    \* bound on the replies to one request

ASSUME BusAssumption ==
    /\ Handlers \subseteq Agents
    /\ Kind \in [Sends -> {"direct", "request", "broadcast", "topic"}]
    /\ Sender \in [Sends -> Agents] /\ Recipient \in [Sends -> Agents]
    /\ Priority \in [Sends -> {"urgent", "high", "normal"}]
    /\ WaitFor \in [Waits -> Agents]
    /\ MailboxSize \in Nat \ {0} /\ Epochs \in Nat \ {0} /\ ReplyBound \in Nat

VARIABLES
    epoch,       \* the number of the agent's mailbox; 0 while it has none
    born,        \* mailboxes the agent has had so far
    boxes,       \* inbox of every mailbox, also of those unregistered
    bell,        \* the mailboxes whose event is set
    subscribers, \* of the one topic
    pendingReplies,     \* _pending_replies: the requests whose future waits
    sendPc, targets, handledBy, \* each send: where it is, whom it still has to reach, whose handler runs
    outcome,     \* what a request returned
    waitPc, waitBox, got, \* each receiver: where it is, its mailbox, what it returned
    replies,     \* replies sent to each request
    dead,        \* _dead_letter_queue
    taken        \* ghost: the messages received

busVars == <<epoch, born, boxes, bell, subscribers, pendingReplies, sendPc, targets, handledBy, outcome,
             waitPc, waitBox, got, replies, dead, taken>>

Boxes == Agents \X (1 .. Epochs)

(* A message: the send it is of, whom it is for, and for a reply its number. *)
Mail == [send : Sends, to : Agents, reply : 0 .. ReplyBound]
MailOf(s, a) == [send |-> s, to |-> a, reply |-> 0]
Urgency(m) == CASE Priority[m.send] = "urgent" /\ m.reply = 0 -> 2
             [] Priority[m.send] = "high" /\ m.reply = 0 -> 1
             [] OTHER -> 0 \* reply() sends with normal priority

NoMail == [send |-> "none", to |-> "none", reply |-> 0]

BusTypeOK ==
    /\ epoch \in [Agents -> 0 .. Epochs] /\ born \in [Agents -> 0 .. Epochs]
    /\ \A a \in Agents : epoch[a] \in {0, born[a]}
    /\ \A b \in Boxes : Range(boxes[b]) \subseteq Mail /\ Len(boxes[b]) <= MailboxSize
    /\ bell \subseteq Boxes /\ subscribers \subseteq Agents /\ pendingReplies \subseteq Sends
    /\ sendPc \in [Sends -> {"new", "route", "handle", "echo", "await", "done", "cut"}]
    /\ targets \in [Sends -> SUBSET Agents]
    /\ outcome \in [Sends -> {"none", "reply", "timeout"}]
    /\ waitPc \in [Waits -> {"idle", "asleep", "awake", "done"}]
    /\ replies \in [Sends -> 0 .. ReplyBound]
    /\ dead \subseteq Mail /\ taken \subseteq Mail

BusInit ==
    /\ epoch = [a \in Agents |-> 0] /\ born = [a \in Agents |-> 0]
    /\ boxes = [b \in Boxes |-> <<>>] /\ bell = {}
    /\ subscribers = {} /\ pendingReplies = {}
    /\ sendPc = [s \in Sends |-> "new"] /\ targets = [s \in Sends |-> {}]
    /\ handledBy = [s \in Sends |-> "none"] /\ outcome = [s \in Sends |-> "none"]
    /\ waitPc = [w \in Waits |-> "idle"] /\ waitBox = [w \in Waits |-> <<WaitFor[w], 1>>]
    /\ got = [w \in Waits |-> NoMail]
    /\ replies = [s \in Sends |-> 0]
    /\ dead = {} /\ taken = {}

registerVars == <<epoch, born, subscribers>>
sendVars == <<pendingReplies, sendPc, targets, handledBy, outcome, replies>>
mailVars == <<boxes, bell, dead, taken>>
waitVars == <<waitPc, waitBox, got>>

-----------------------------------------------------------------------------
(* Registration and topics. *)

Register(a) ==
    /\ epoch[a] = 0 /\ born[a] < Epochs
    /\ born' = [born EXCEPT ![a] = @ + 1]
    /\ epoch' = [epoch EXCEPT ![a] = born[a] + 1]
    /\ UNCHANGED <<subscribers, sendVars, mailVars, waitVars>>

(* The mailbox goes with what is in it; a receiver that waits keeps it. *)
Unregister(a) ==
    /\ epoch[a] # 0
    /\ epoch' = [epoch EXCEPT ![a] = 0]
    /\ subscribers' = subscribers \ {a}
    /\ UNCHANGED <<born, sendVars, mailVars, waitVars>>

(* Nothing asks whether the subscriber is registered. *)
Subscribe(a) ==
    /\ a \notin subscribers
    /\ subscribers' = subscribers \cup {a}
    /\ UNCHANGED <<epoch, born, sendVars, mailVars, waitVars>>

Unsubscribe(a) ==
    /\ a \in subscribers
    /\ subscribers' = subscribers \ {a}
    /\ UNCHANGED <<epoch, born, sendVars, mailVars, waitVars>>

-----------------------------------------------------------------------------
(* Mailboxes. *)

(* URGENT in front of all, HIGH behind the URGENT ones, the rest at the end. *)
Placed(box, m) ==
    LET urgent == Cardinality({i \in DOMAIN box : Urgency(box[i]) = 2})
    IN  CASE Urgency(m) = 2 -> <<m>> \o box
          [] Urgency(m) = 1 -> InsertAt(box, urgent + 1, m)
          [] OTHER -> Append(box, m)

Accepts(a) == epoch[a] # 0 /\ Len(boxes[<<a, epoch[a]>>]) < MailboxSize

(* _deliver_direct up to the handler: into the mailbox, or a dead letter. *)
Deliver(m) ==
    IF Accepts(m.to)
      THEN LET box == <<m.to, epoch[m.to]>>
           IN  /\ boxes' = [boxes EXCEPT ![box] = Placed(@, m)]
               /\ bell' = bell \cup {box}
               /\ UNCHANGED dead
      ELSE dead' = dead \cup {m} /\ UNCHANGED <<boxes, bell>>

TakeHeadKeepingBell(box) ==
    /\ boxes' = [boxes EXCEPT ![box] = Tail(@)]
    /\ taken' = taken \cup {Head(boxes[box])}
    /\ UNCHANGED bell

(* dequeue *)
TakeHead(box) ==
    /\ boxes' = [boxes EXCEPT ![box] = Tail(@)]
    /\ bell' = IF Len(boxes[box]) = 1 THEN bell \ {box} ELSE bell
    /\ taken' = taken \cup {Head(boxes[box])}

(* receive: never waits.  It looks the mailbox up and takes in one go. *)
ReceiveMail(a) ==
    /\ epoch[a] # 0 /\ boxes[<<a, epoch[a]>>] # <<>>
    /\ TakeHead(<<a, epoch[a]>>)
    /\ UNCHANGED <<registerVars, sendVars, dead, waitVars>>

(* receive_wait: the mailbox is looked up, then its event is waited for. *)
StartWait(w) ==
    /\ waitPc[w] = "idle"
    /\ LET a == WaitFor[w]
       IN  IF epoch[a] = 0
             THEN waitPc' = [waitPc EXCEPT ![w] = "done"] /\ UNCHANGED waitBox
             ELSE /\ waitBox' = [waitBox EXCEPT ![w] = <<a, epoch[a]>>]
                  /\ waitPc' = [waitPc EXCEPT ![w] = IF <<a, epoch[a]>> \in bell THEN "awake" ELSE "asleep"]
    /\ UNCHANGED <<registerVars, sendVars, mailVars, got>>

WakeUp(w) ==
    /\ waitPc[w] = "asleep"
    /\ \/ waitBox[w] \in bell /\ waitPc' = [waitPc EXCEPT ![w] = "awake"]
       \/ waitPc' = [waitPc EXCEPT ![w] = "done"] \* the timer
    /\ UNCHANGED <<registerVars, sendVars, mailVars, waitBox, got>>

(* Another may have emptied the mailbox since. *)
TakeMail(w) ==
    /\ waitPc[w] = "awake"
    /\ waitPc' = [waitPc EXCEPT ![w] = "done"]
    /\ IF boxes[waitBox[w]] = <<>>
         THEN UNCHANGED <<mailVars, got>>
         ELSE /\ got' = [got EXCEPT ![w] = Head(boxes[waitBox[w]])]
              /\ TakeHead(waitBox[w]) /\ UNCHANGED dead
    /\ UNCHANGED <<registerVars, sendVars, waitBox>>

-----------------------------------------------------------------------------
(* Sending. *)

SendGoes(s, pc) == sendPc' = [sendPc EXCEPT ![s] = pc]

(* Whom the message is for is settled once, before the first delivery. *)
TargetsOf(s) ==
    CASE Kind[s] = "broadcast" -> {a \in Agents : epoch[a] # 0} \ {Sender[s]}
      [] Kind[s] = "topic" -> subscribers \ {Sender[s]}
      [] OTHER -> {Recipient[s]}

StartSend(s) ==
    /\ sendPc[s] = "new"
    /\ targets' = [targets EXCEPT ![s] = TargetsOf(s)]
    /\ pendingReplies' = IF Kind[s] = "request" THEN pendingReplies \cup {s} ELSE pendingReplies
    /\ SendGoes(s, "route")
    /\ UNCHANGED <<registerVars, mailVars, waitVars, handledBy, outcome, replies>>

(* One delivery; the handler of an agent that got the message is run at
   once, and the message stays in the mailbox as well. *)
DeliverNext(s, a) ==
    /\ sendPc[s] = "route" /\ a \in targets[s]
    /\ Deliver(MailOf(s, a))
    /\ targets' = [targets EXCEPT ![s] = @ \ {a}]
    /\ IF Accepts(a) /\ a \in Handlers
         THEN SendGoes(s, "handle") /\ handledBy' = [handledBy EXCEPT ![s] = a]
         ELSE UNCHANGED <<sendPc, handledBy>>
    /\ UNCHANGED <<registerVars, waitVars, pendingReplies, outcome, replies, taken>>

(* _deliver_reply: the future gets the first reply while the request waits;
   the requester's mailbox gets every one. *)
ReplyTo(s) ==
    /\ replies[s] < ReplyBound
    /\ replies' = [replies EXCEPT ![s] = @ + 1]
    /\ pendingReplies' = pendingReplies \ {s}
    /\ outcome' = IF s \in pendingReplies THEN [outcome EXCEPT ![s] = "reply"] ELSE outcome
    /\ Deliver([send |-> s, to |-> Sender[s], reply |-> replies[s] + 1])

(* The handler returns: a value answers a request, and the reply may run the
   requester's own handler inside this send. *)
HandlerReplies(s) ==
    /\ sendPc[s] = "handle" /\ Kind[s] = "request"
    /\ ReplyTo(s)
    /\ SendGoes(s, IF Accepts(Sender[s]) /\ Sender[s] \in Handlers THEN "echo" ELSE "route")
    /\ UNCHANGED <<registerVars, waitVars, targets, handledBy, taken>>

(* Or it returns nothing, fails or times out; none of it reaches the sender. *)
HandlerEnds(s) ==
    /\ sendPc[s] \in {"handle", "echo"}
    /\ SendGoes(s, "route")
    /\ UNCHANGED <<registerVars, mailVars, waitVars, pendingReplies, targets, handledBy, outcome, replies>>

EndSend(s) ==
    /\ sendPc[s] = "route" /\ targets[s] = {}
    /\ SendGoes(s, IF Kind[s] = "request" THEN "await" ELSE "done")
    /\ UNCHANGED <<registerVars, mailVars, waitVars, pendingReplies, targets, handledBy, outcome, replies>>

(* The sender is cancelled while the message is being delivered. *)
CutSend(s) ==
    /\ sendPc[s] \in {"handle", "echo"}
    /\ SendGoes(s, "cut")
    /\ UNCHANGED <<registerVars, mailVars, waitVars, pendingReplies, targets, handledBy, outcome, replies>>

(* request: the reply came, or the time is up; the entry goes either way. *)
EndRequest(s) ==
    /\ sendPc[s] = "await"
    /\ SendGoes(s, "done")
    /\ pendingReplies' = pendingReplies \ {s}
    /\ outcome' = IF s \in pendingReplies THEN [outcome EXCEPT ![s] = "timeout"] ELSE outcome
    /\ UNCHANGED <<registerVars, mailVars, waitVars, targets, handledBy, replies>>

(* An agent answers a request it received. *)
Answer(s) ==
    /\ Kind[s] = "request"
    /\ MailOf(s, Recipient[s]) \in taken
    /\ ReplyTo(s)
    /\ UNCHANGED <<registerVars, waitVars, sendPc, targets, handledBy, taken>>

SendStep(s) ==
    \/ StartSend(s) \/ EndSend(s) \/ EndRequest(s) \/ HandlerReplies(s) \/ HandlerEnds(s)
    \/ \E a \in Agents : DeliverNext(s, a)

BusNext ==
    \/ \E a \in Agents : Register(a) \/ Unregister(a) \/ Subscribe(a) \/ Unsubscribe(a) \/ ReceiveMail(a)
    \/ \E w \in Waits : StartWait(w) \/ WakeUp(w) \/ TakeMail(w)
    \/ \E s \in Sends : SendStep(s) \/ CutSend(s) \/ Answer(s)

BusSpec == BusInit /\ [][BusNext]_busVars

-----------------------------------------------------------------------------
(* Properties. *)

(* Urgent messages come out first, then high ones ("urgent messages
   processed first"), however the sends and receivers interleave. *)
UrgentFirst ==
    \A b \in Boxes : \A i, k \in DOMAIN boxes[b] : i < k => Urgency(boxes[b][i]) >= Urgency(boxes[b][k])

(* A mailbox's event is set exactly while there is something in it: no
   receiver sleeps on a filled mailbox, and none spins on an empty one. *)
BellMatchesInbox == \A b \in Boxes : b \in bell <=> boxes[b] # <<>>

(* No copy is lost or doubled: what a send has got rid of is in one mailbox,
   was received, or is a dead letter, and only one of these. *)
CopiesAccounted ==
    \A s \in Sends : \A a \in Agents :
        LET m == MailOf(s, a)
            places == {b \in Boxes : m \in Range(boxes[b])}
        IN  /\ Cardinality(places) + (IF m \in taken THEN 1 ELSE 0) + (IF m \in dead THEN 1 ELSE 0)
                 <= 1
            /\ Kind[s] \in {"direct", "request"} /\ sendPc[s] \in {"await", "done"} /\ a = Recipient[s]
                 => places # {} \/ m \in taken \cup dead

(* A request that is over has no entry left in _pending_replies, except one
   whose sender was cancelled while a handler ran (request() opens its try
   after the send, so that the entry is never removed). *)
NoStalePending ==
    \A s \in pendingReplies : outcome[s] = "none" /\ sendPc[s] \notin {"new", "done"}

(* Messages are kept in order of urgency, counted once and signalled, and
   no request that is over is still waited for. *)
MailSound == BusTypeOK /\ UrgentFirst /\ BellMatchesInbox /\ CopiesAccounted /\ NoStalePending

(* At rest: every send and every request has come back, whatever the
   handlers did. *)
BusQuiet == \A s \in Sends : sendPc[s] \in {"new", "done", "cut"}
=============================================================================
