------------------------------ MODULE WsSession ------------------------------
(***************************************************************************)
(* One WebSocket connection (ws_handler.py): the receive loop, the inbox   *)
(* it fills (services/session_inbox_service.py), the worker that drains    *)
(* it, and the state documents of the runs both of them open and close.    *)
(* A connection accepts one session id, so there is one queue, one worker  *)
(* and at most one pending clarification.                                  *)
(*                                                                         *)
(* The loop and the worker are asyncio tasks: what one does between two    *)
(* awaits is one action.  A send succeeds while the socket is up and       *)
(* raises ClientDisconnectedError afterwards; consecutive sends with no    *)
(* state change between them are one send.                                 *)
(***************************************************************************)
EXTENDS Naturals, Sequences, SequencesExt

CONSTANTS
    Messages,     \* inbound messages; each opens the run of the same name
    KindOf,       \* "wait", "follow_up" (queue modes of a user message),
                  \* "clarification" (a response), "direct" (spawn, runtime switch),
                  \* "forbidden" (its directives are refused), "unsupported" (its type
                  \* is), "refused" (turned away before a run is opened)
    OutcomesOf,   \* how the agent run of each message may end
    MaxQueue,     \* session_inbox_max_queue_length
    MaxDeferrals, \* session_follow_up_max_deferrals
    MayExpire,    \* may a queued message outlive session_inbox_ttl_seconds?
    SendsHardFail, \* run_state_violation_hard_fail_enabled
    NoRun

ASSUME WsAssumption ==
    /\ NoRun \notin Messages
    /\ KindOf \in [Messages -> {"wait", "follow_up", "clarification", "direct",
                                "forbidden", "unsupported", "refused"}]
    /\ OutcomesOf \in [Messages -> SUBSET {"ok", "ask", "error", "command"}]
    /\ MaxQueue \in Nat \ {0} /\ MaxDeferrals \in Nat \ {0}
    /\ MayExpire \in BOOLEAN /\ SendsHardFail \in BOOLEAN

VARIABLES
    socket,    \* is the client connected?
    doc,       \* status of each run's state document
    recvPc,    \* where the receive loop is
    recvRun,   \* the message it handles
    inbox,     \* the session's queue
    workerPc,  \* where the session worker is; "none" when there is no task
    workerRun, \* the message it dequeued
    deferrals, \* follow_up_deferrals
    pending,   \* pending_clarifications: the run whose question is open
    asked,     \* ghost: the runs that asked for a clarification
    commands,  \* ghost: the runs that were a /run chat command
    expired,   \* ghost: the messages the inbox dropped for their age
    broken,    \* ghost: the runs a send of their own job hard-failed
    overtaken  \* ghost: how often each follow-up was passed over while it was the oldest

recvVars == <<recvPc, recvRun>>
workerVars == <<workerPc, workerRun, deferrals>>
ghostVars == <<asked, commands, expired, broken, overtaken>>
wsVars == <<socket, doc, recvVars, inbox, workerVars, pending, ghostVars>>

WsTypeOK ==
    /\ socket \in {"up", "down"}
    /\ doc \in [Messages -> {"none", "active", "completed", "failed", "rejected"}]
    /\ recvPc \in {"receive", "announce", "direct", "done", "enqueued", "notify", "closing", "closed"}
    /\ recvRun \in Messages \cup {NoRun}
    /\ inbox \in Seq(Messages) /\ Len(inbox) <= MaxQueue
    /\ workerPc \in {"none", "dequeue", "prelude", "job", "asked", "finish", "excuse"}
    /\ workerRun \in Messages \cup {NoRun}
    /\ deferrals \in 0 .. MaxDeferrals
    /\ pending \in Messages \cup {NoRun}
    /\ asked \subseteq Messages /\ commands \subseteq Messages
    /\ expired \subseteq Messages /\ broken \subseteq Messages
    /\ overtaken \in [Messages -> Nat]

WsInit ==
    /\ socket = "up"
    /\ doc = [m \in Messages |-> "none"]
    /\ recvPc = "receive" /\ recvRun = NoRun
    /\ inbox = <<>>
    /\ workerPc = "none" /\ workerRun = NoRun /\ deferrals = 0
    /\ pending = NoRun
    /\ asked = {} /\ commands = {} /\ expired = {} /\ broken = {}
    /\ overtaken = [m \in Messages |-> 0]

-----------------------------------------------------------------------------
(* The inbox. *)

(* _purge_expired_locked drops a prefix of the queue, whose head is oldest. *)
Purged == IF MayExpire THEN {SubSeq(inbox, k, Len(inbox)) : k \in 1 .. Len(inbox) + 1}
          ELSE {inbox}

Dropped(queue) == {inbox[k] : k \in 1 .. Len(inbox) - Len(queue)}

FollowUps(queue) == {k \in DOMAIN queue : KindOf[queue[k]] = "follow_up"}
Others(queue) == DOMAIN queue \ FollowUps(queue)

First(positions) == CHOOSE k \in positions : \A j \in positions : k <= j

SelectedNeverForced(queue, force) ==
    IF Others(queue) # {} THEN First(Others(queue)) ELSE 1

(* dequeue_prioritized: the position taken. *)
Selected(queue, force) ==
    LET preferred == IF force THEN FollowUps(queue) ELSE Others(queue)
    IN  IF preferred # {} THEN First(preferred) ELSE 1

(* Was a follow-up passed over when the message at position k was taken? *)
PassedOver(queue, k) ==
    /\ KindOf[queue[k]] # "follow_up"
    /\ \E j \in FollowUps(queue) : j < k

Deferred(queue, force) == ~force /\ PassedOver(queue, Selected(queue, force))

-----------------------------------------------------------------------------
(* The receive loop. *)

GoTo(pc) == recvPc' = pc /\ UNCHANGED recvRun

(* A send by the loop: on failure the loop breaks and tears down. *)
LoopSend(pc) == GoTo(IF socket = "up" THEN pc ELSE "closing")

MarkRun(m, status) == doc' = [doc EXCEPT ![m] = status]

(* A session id that is not of this connection: the message is turned away
   before a run is opened for it, as is one too large, too frequent or
   for an unknown agent. *)
Foreign(m) == KindOf[m] = "refused"

(* So is an answer while no question is open. *)
TurnedAway(m) == Foreign(m) \/ (KindOf[m] = "clarification" /\ pending = NoRun)

(* A message is read.  A user message forgets an open question, a response
   takes it; the run's document is opened. *)
Receive(m) ==
    /\ recvPc = "receive" /\ socket = "up" /\ doc[m] = "none"
    /\ IF TurnedAway(m)
         THEN MarkRun(m, "rejected") /\ recvPc' = "notify" /\ UNCHANGED pending
         ELSE /\ MarkRun(m, "active")
              /\ recvPc' = "announce"
              /\ pending' = IF KindOf[m] \in {"wait", "follow_up", "clarification"} THEN NoRun ELSE pending
    /\ recvRun' = m
    /\ UNCHANGED <<socket, inbox, workerVars, ghostVars>>

(* A run that was opened only to be refused: once "request_received" is sent,
   a type that is not served is reported and then closed, a directive that is
   not allowed closes the run before it is reported. *)
Refuse(kind, pc) ==
    /\ recvPc = "announce" /\ KindOf[recvRun] = kind
    /\ LoopSend(pc)
    /\ IF socket = "up" THEN MarkRun(recvRun, "failed") ELSE UNCHANGED doc
    /\ UNCHANGED <<socket, inbox, workerVars, pending, ghostVars>>

RefuseType == Refuse("unsupported", "receive")
RefuseDirective == Refuse("forbidden", "notify")

(* "request_received" is sent; a queued kind goes into the inbox at once. *)
Announce ==
    /\ recvPc = "announce" /\ KindOf[recvRun] \notin {"unsupported", "forbidden"}
    /\ IF socket = "down" \/ KindOf[recvRun] = "direct"
         THEN LoopSend("direct") /\ UNCHANGED <<doc, inbox, expired>>
         ELSE \E queue \in Purged :
                /\ expired' = expired \cup Dropped(queue)
                /\ IF Len(queue) >= MaxQueue
                     THEN /\ inbox' = queue
                          /\ MarkRun(recvRun, "failed")
                          /\ GoTo("notify")
                     ELSE /\ inbox' = Append(queue, recvRun)
                          /\ UNCHANGED doc
                          /\ GoTo("enqueued")
    /\ UNCHANGED <<socket, workerVars, pending, asked, commands, broken, overtaken>>

(* "inbox_enqueued" is sent, then ensure_session_worker starts a task unless
   one is there. *)
EnsureWorker ==
    /\ recvPc = "enqueued"
    /\ LoopSend("receive")
    /\ workerPc' = IF socket = "up" /\ workerPc = "none" THEN "dequeue" ELSE workerPc
    /\ UNCHANGED <<socket, doc, inbox, workerRun, deferrals, pending, ghostVars>>

(* A subrun is spawned or the runtime switched, by the loop itself. *)
Direct ==
    /\ recvPc = "direct"
    /\ GoTo("done")
    /\ UNCHANGED <<socket, doc, inbox, workerVars, pending, ghostVars>>

(* Or that raises: each except clause closes the run before it reports it. *)
DirectFails ==
    /\ recvPc = "direct"
    /\ MarkRun(recvRun, "failed") /\ GoTo("notify")
    /\ UNCHANGED <<socket, inbox, workerVars, pending, ghostVars>>

(* "request_completed" is sent before the document is closed. *)
DirectDone ==
    /\ recvPc = "done"
    /\ LoopSend("receive")
    /\ IF socket = "up" THEN MarkRun(recvRun, "completed") ELSE UNCHANGED doc
    /\ UNCHANGED <<socket, inbox, workerVars, pending, ghostVars>>

Notify ==
    /\ recvPc = "notify"
    /\ LoopSend("receive")
    /\ UNCHANGED <<socket, doc, inbox, workerVars, pending, ghostVars>>

ReceiveFails ==
    /\ recvPc = "receive" /\ socket = "down"
    /\ GoTo("closing")
    /\ UNCHANGED <<socket, doc, inbox, workerVars, pending, ghostVars>>

TearDownFailing ==
    /\ recvPc = "closing"
    /\ GoTo("closed")
    /\ doc' = IF workerRun = NoRun THEN doc ELSE [doc EXCEPT ![workerRun] = "failed"]
    /\ workerPc' = "none" /\ workerRun' = NoRun /\ deferrals' = 0
    /\ UNCHANGED <<socket, inbox, pending, ghostVars>>

(* The finally clause: the worker is cancelled at its await; CancelledError
   passes its except clauses, and its own finally forgets it. *)
TearDown ==
    /\ recvPc = "closing"
    /\ GoTo("closed")
    /\ workerPc' = "none" /\ workerRun' = NoRun /\ deferrals' = 0
    /\ UNCHANGED <<socket, doc, inbox, pending, ghostVars>>

-----------------------------------------------------------------------------
(* The session worker: drain_session_queue. *)

WorkerGoes(pc) == workerPc' = pc /\ UNCHANGED <<workerRun, deferrals>>

WorkerEnds == workerPc' = "none" /\ workerRun' = NoRun /\ deferrals' = 0

(* The worker takes a message and settles the deferral count, or ends. *)
Dequeue ==
    /\ workerPc = "dequeue"
    /\ \E queue \in Purged :
         /\ expired' = expired \cup Dropped(queue)
         /\ IF queue = <<>>
              THEN WorkerEnds /\ inbox' = queue /\ UNCHANGED overtaken
              ELSE LET force == deferrals >= MaxDeferrals
                       k == Selected(queue, force)
                   IN  /\ inbox' = RemoveAt(queue, k)
                       /\ workerRun' = queue[k]
                       /\ workerPc' = "prelude"
                       /\ deferrals' = IF Deferred(queue, force) THEN deferrals + 1 ELSE 0
                       /\ overtaken' = IF PassedOver(queue, k)
                                         THEN [overtaken EXCEPT ![queue[First(FollowUps(queue))]] = @ + 1]
                                         ELSE overtaken
    /\ UNCHANGED <<socket, doc, recvVars, pending, asked, commands, broken>>

(* "follow_up_deferred", "run_dequeued": sent outside the inner try, so a
   disconnect here ends the worker as it stands. *)
Prelude ==
    /\ workerPc = "prelude"
    /\ IF socket = "up" THEN WorkerGoes("job") ELSE WorkerEnds
    /\ UNCHANGED <<socket, doc, recvVars, inbox, pending, ghostVars>>

(* The inner except clause: the run fails and the queue is emptied. *)
Disconnected ==
    /\ MarkRun(workerRun, "failed")
    /\ inbox' = <<>>
    /\ WorkerEnds

(* "/run <workflow>" in the content starts the workflow in place of the agent,
   or says why not; either way nobody closes the message's own run. *)
TryRunCommand ==
    /\ commands' = commands \cup {workerRun} /\ WorkerGoes("dequeue")
    /\ UNCHANGED <<doc, pending, asked>>

(* The agent asks the user: the question is kept for the answer. *)
AskUser ==
    /\ pending' = workerRun /\ asked' = asked \cup {workerRun} /\ WorkerGoes("asked")
    /\ UNCHANGED <<doc, commands>>

(* handle_request_failure: whatever was raised, the run is closed before the
   first word about it is sent. *)
HandleRequestFailure ==
    /\ MarkRun(workerRun, "failed") /\ WorkerGoes("excuse")
    /\ UNCHANGED <<pending, asked, commands>>

(* execute_user_message_job up to its last send: the agent runs. *)
JobEnds(outcome) ==
    /\ workerPc = "job"
    /\ IF socket = "down" /\ outcome # "error"
         THEN Disconnected /\ UNCHANGED <<pending, asked, commands>>
         ELSE /\ \/ outcome = "ok" /\ WorkerGoes("finish") /\ UNCHANGED <<doc, pending, asked, commands>>
                 \/ outcome = "ask" /\ AskUser
                 \/ outcome = "error" /\ HandleRequestFailure
                 \/ outcome = "command" /\ TryRunCommand
              /\ UNCHANGED inbox
    /\ UNCHANGED <<socket, recvVars, expired, broken, overtaken>>

(* send_event records a lifecycle event before it sends it, on a dead socket
   too.  When the stage does not follow from the run's state,
   _append_derived_stage_and_run_state_events closes the document; nobody tells the job,
   which goes on. *)
HardFailInSend ==
    /\ SendsHardFail /\ workerPc \in {"job", "finish"} /\ workerRun \notin broken
    /\ MarkRun(workerRun, "failed")
    /\ broken' = broken \cup {workerRun}
    /\ UNCHANGED <<socket, recvVars, inbox, workerVars, pending, asked, commands, expired, overtaken>>

(* The last send of the job, or of handle_request_failure, which has closed
   the document already: "request_completed" closes it, whatever it says by
   then, a question does not. *)
JobReports ==
    /\ workerPc \in {"finish", "asked", "excuse"}
    /\ IF socket = "up"
         THEN /\ WorkerGoes("dequeue")
              /\ IF workerPc = "finish" THEN MarkRun(workerRun, "completed") ELSE UNCHANGED doc
              /\ UNCHANGED inbox
         ELSE Disconnected
    /\ UNCHANGED <<socket, recvVars, pending, ghostVars>>

Disconnect ==
    /\ socket = "up"
    /\ socket' = "down"
    /\ UNCHANGED <<doc, recvVars, inbox, workerVars, pending, ghostVars>>

LoopStep ==
    \/ RefuseType \/ RefuseDirective \/ Announce \/ EnsureWorker
    \/ Direct \/ DirectFails \/ DirectDone \/ Notify \/ ReceiveFails \/ TearDown

WorkerStep ==
    \/ Dequeue \/ Prelude \/ JobReports
    \/ workerRun # NoRun /\ \E outcome \in OutcomesOf[workerRun] : JobEnds(outcome)

WsNext ==
    \/ \E m \in Messages : Receive(m)
    \/ LoopStep
    \/ WorkerStep
    \/ HardFailInSend
    \/ Disconnect

WsSpec == WsInit /\ [][WsNext]_wsVars

(* The event loop runs both tasks; an agent run ends (its calls time out). *)
WsFairness == WF_wsVars(LoopStep) /\ WF_wsVars(WorkerStep)

-----------------------------------------------------------------------------
(* Properties. *)

Queued(m) == \E k \in DOMAIN inbox : inbox[k] = m

InLoop(m) == recvRun = m /\ recvPc \in {"announce", "direct", "done"}

InWorker(m) == workerRun = m /\ workerPc \notin {"none", "dequeue"}

(* While the client is connected no open run is forgotten: each is being
   received, queued, or worked on, unless it asked a question, was a /run
   command, or its message expired in the queue. *)
OpenRunsTracked ==
    socket = "up" =>
        \A m \in Messages : doc[m] = "active" =>
            \/ InLoop(m) \/ Queued(m) \/ InWorker(m)
            \/ m \in asked \cup commands \cup expired

(* A message is in one place only: the queue holds no run twice, none that
   the worker has, and none whose document is closed. *)
QueuedOnce ==
    \A k \in DOMAIN inbox :
        /\ doc[inbox[k]] = "active"
        /\ ~InWorker(inbox[k])
        /\ \A j \in DOMAIN inbox : inbox[j] = inbox[k] => j = k

(* No lost wake-up: while the client is connected a filled queue has a
   worker, or the loop is about to start one. *)
FilledQueueHasWorker ==
    socket = "up" /\ inbox # <<>> => workerPc # "none" \/ recvPc = "enqueued"

(* The oldest follow-up is passed over at most MaxDeferrals times, however
   many ordinary messages arrive. *)
FollowUpsWaitBounded ==
    FollowUps(inbox) # {} => overtaken[inbox[First(FollowUps(inbox))]] <= MaxDeferrals

(* A document that was closed is not changed again, whichever of the loop,
   the worker and the teardown meets the run next.  The one exception is a run
   that a send of its own job hard-failed: the job does not look, and when
   it ends well it closes the document once more, as completed.  No one else
   reopens or relabels that run either. *)
ClosedRunsStay ==
    [][\A m \in Messages : doc[m] \in {"completed", "failed"} =>
          \/ doc'[m] = doc[m]
          \/ m \in broken /\ workerRun = m /\ workerPc = "finish" /\ doc'[m] = "completed"]_wsVars

(* The inbox loses no run, holds none twice or too late, is never left
   without a worker and does not starve a follow-up. *)
InboxSound == WsTypeOK /\ OpenRunsTracked /\ QueuedOnce /\ FilledQueueHasWorker /\ FollowUpsWaitBounded

(* At rest: while the client stays, every queued message was taken and the
   worker is gone; after a disconnect both tasks have ended. *)
WsQuiet ==
    /\ workerPc = "none"
    /\ socket = "up" => inbox = <<>>
    /\ socket = "down" => recvPc = "closed"
=============================================================================
