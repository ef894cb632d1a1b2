-------------------------------- MODULE ReplPool --------------------------------
(***************************************************************************)
(* The persistent Python REPLs of code_execute and code_reset (tools.py):  *)
(* the manager that keeps a bounded number of them                         *)
(* (services/repl_session_manager.py) and the REPL with its subprocess and *)
(* its pipe (services/persistent_repl.py).  The tool's own timeout or a    *)
(* cancelled run may cut a call off wherever it waits (agent.py); the end  *)
(* of a session's WebSocket shuts its REPL down (ws_handler.py).           *)
(*                                                                         *)
(* The manager's lock is held across shutdown and start; a REPL's lock     *)
(* across an execution.  The manager does not take the REPL's lock.        *)
(***************************************************************************)
EXTENDS Naturals, Sequences, FiniteSets, SequencesExt

CONSTANTS
    ReplCalls,      \* tool calls, and shutdowns of a session's REPL
    SessionOf,      \* the session of each
    Resets,         \* those that are code_reset
    Closes,         \* those that are shutdowns
    Repls,          \* PersistentRepl objects; their number bounds the creations
    MaxSessions,
    Cuttable,       \* the calls that may be cut off
    NoCall, NoRepl

ASSUME ReplAssumption ==
    /\ Resets \subseteq ReplCalls /\ Closes \subseteq ReplCalls \ Resets
    /\ \A c \in ReplCalls : SessionOf[c] # "none"
    /\ MaxSessions \in Nat \ {0}
    /\ Cuttable \subseteq ReplCalls
    /\ NoCall \notin ReplCalls /\ NoRepl \notin Repls

VARIABLES
    lru,        \* _sessions: the managed REPLs, least recently used first
    owner,      \* the session each REPL was created for
    managerOf,  \* the call that holds the manager's lock
    holder,     \* the call that holds each REPL's lock
    alive,      \* is _proc a live process?
    pipe,       \* the answers each process has yet to be asked for
    replPc, using, \* each call: where it is, and its REPL
    heard       \* the call whose answer each execution read

replVars == <<lru, owner, managerOf, holder, alive, pipe, replPc, using, heard>>

ReplPlaces == {"idle", "evict", "start", "kill", "restart", "close",
               "queue", "boot", "run", "stop", "done", "cut"}

ReplTypeOK ==
    /\ Range(lru) \subseteq Repls
    /\ owner \in [Repls -> {SessionOf[c] : c \in ReplCalls} \cup {"none"}]
    /\ managerOf \in ReplCalls \cup {NoCall}
    /\ holder \in [Repls -> ReplCalls \cup {NoCall}]
    /\ alive \in [Repls -> BOOLEAN]
    /\ \A r \in Repls : Range(pipe[r]) \subseteq ReplCalls
    /\ replPc \in [ReplCalls -> ReplPlaces]
    /\ using \in [ReplCalls -> Repls \cup {NoRepl}]
    /\ heard \in [ReplCalls -> ReplCalls \cup {NoCall}]

ReplInit ==
    /\ lru = <<>> /\ owner = [r \in Repls |-> "none"]
    /\ managerOf = NoCall /\ holder = [r \in Repls |-> NoCall]
    /\ alive = [r \in Repls |-> FALSE]
    /\ pipe = [r \in Repls |-> <<>>]
    /\ replPc \in [ReplCalls -> {"idle", "done"}] \* some never come
    /\ using = [c \in ReplCalls |-> NoRepl]
    /\ heard = [c \in ReplCalls |-> NoCall]

ReplGoes(c, pc) == replPc' = [replPc EXCEPT ![c] = pc]

Managed(session) == {r \in Range(lru) : owner[r] = session}

Unmade == {r \in Repls : owner[r] = "none"}

Place(r) == CHOOSE i \in DOMAIN lru : lru[i] = r
Unmanaged(r) == RemoveAt(lru, Place(r))
ToEnd(r) == Append(Unmanaged(r), r) \* move_to_end

Executes(c) == c \in ReplCalls \ (Resets \cup Closes)

(* _kill_proc: _proc is None at once, the process goes a little later. *)
Kill(r) ==
    /\ alive' = [alive EXCEPT ![r] = FALSE]
    /\ pipe' = [pipe EXCEPT ![r] = <<>>]

(* A process comes up and is _proc, in place of one that may be there. *)
Boot(r) ==
    /\ alive' = [alive EXCEPT ![r] = TRUE]
    /\ pipe' = [pipe EXCEPT ![r] = <<>>]

-----------------------------------------------------------------------------
(* The manager. *)

(* get_or_create finds the session's REPL, ... *)
Find(c) ==
    /\ replPc[c] = "idle" /\ Executes(c) /\ managerOf = NoCall
    /\ \E r \in Managed(SessionOf[c]) :
         /\ lru' = ToEnd(r)
         /\ using' = [using EXCEPT ![c] = r]
    /\ ReplGoes(c, "queue")
    /\ UNCHANGED <<owner, managerOf, holder, alive, pipe, heard>>

(* ... or makes room by shutting the oldest down ... *)
Evict(c) ==
    /\ replPc[c] = "idle" /\ Executes(c) /\ managerOf = NoCall
    /\ Managed(SessionOf[c]) = {} /\ Len(lru) >= MaxSessions
    /\ managerOf' = c
    /\ using' = [using EXCEPT ![c] = Head(lru)]
    /\ Kill(Head(lru))
    /\ lru' = Tail(lru)
    /\ ReplGoes(c, "evict")
    /\ UNCHANGED <<owner, holder, heard>>

(* ... and creates one.  It starts under the manager's lock. *)
Create(c) ==
    /\ \/ replPc[c] = "idle" /\ Executes(c) /\ managerOf = NoCall
          /\ Managed(SessionOf[c]) = {} /\ Len(lru) < MaxSessions
       \/ replPc[c] = "evict" \* the kill is over
    /\ managerOf' = c
    /\ Unmade # {}
    /\ LET r == CHOOSE x \in Unmade : TRUE
       IN  /\ owner' = [owner EXCEPT ![r] = SessionOf[c]]
           /\ using' = [using EXCEPT ![c] = r]
    /\ ReplGoes(c, "start")
    /\ UNCHANGED <<lru, holder, alive, pipe, heard>>

(* The REPL is stored only when it is up; a start may fail. *)
Started(c) ==
    /\ replPc[c] = "start"
    /\ managerOf' = NoCall
    /\ \/ /\ Boot(using[c])
          /\ lru' = Append(lru, using[c])
          /\ ReplGoes(c, "queue")
       \/ ReplGoes(c, "done") /\ UNCHANGED <<lru, alive, pipe>>
    /\ UNCHANGED <<owner, holder, using, heard>>

(* code_reset: kills and starts under the manager's lock. *)
StartReset(c) ==
    /\ replPc[c] = "idle" /\ c \in Resets /\ managerOf = NoCall
    /\ IF Managed(SessionOf[c]) = {}
         THEN ReplGoes(c, "done") /\ UNCHANGED <<managerOf, using, alive, pipe>>
         ELSE \E r \in Managed(SessionOf[c]) :
                /\ managerOf' = c
                /\ using' = [using EXCEPT ![c] = r]
                /\ Kill(r)
                /\ ReplGoes(c, "kill")
    /\ UNCHANGED <<lru, owner, holder, heard>>

(* start() does nothing if a call has brought a process up meanwhile. *)
ResetKilled(c) ==
    /\ replPc[c] = "kill"
    /\ IF alive[using[c]]
         THEN ReplGoes(c, "done") /\ managerOf' = NoCall /\ lru' = ToEnd(using[c])
         ELSE ReplGoes(c, "restart") /\ UNCHANGED <<managerOf, lru>>
    /\ UNCHANGED <<owner, holder, alive, pipe, using, heard>>

ResetDone(c) ==
    /\ replPc[c] = "restart"
    /\ Boot(using[c])
    /\ lru' = ToEnd(using[c])
    /\ managerOf' = NoCall
    /\ ReplGoes(c, "done")
    /\ UNCHANGED <<owner, holder, using, heard>>

(* shutdown_session: the REPL is the pool's no longer, whoever waits for it. *)
StartClose(c) ==
    /\ replPc[c] = "idle" /\ c \in Closes /\ managerOf = NoCall
    /\ IF Managed(SessionOf[c]) = {}
         THEN ReplGoes(c, "done") /\ UNCHANGED <<managerOf, lru, using, alive, pipe>>
         ELSE \E r \in Managed(SessionOf[c]) :
                /\ managerOf' = c
                /\ using' = [using EXCEPT ![c] = r]
                /\ lru' = Unmanaged(r)
                /\ Kill(r)
                /\ ReplGoes(c, "close")
    /\ UNCHANGED <<owner, holder, heard>>

CloseDone(c) ==
    /\ replPc[c] = "close"
    /\ managerOf' = NoCall
    /\ ReplGoes(c, "done")
    /\ UNCHANGED <<lru, owner, holder, alive, pipe, using, heard>>

-----------------------------------------------------------------------------
(* PersistentRepl.execute, under the REPL's lock. *)

(* The code is written to the process; one that is not alive is started. *)
EnterRepl(c) ==
    /\ replPc[c] = "queue" /\ holder[using[c]] = NoCall
    /\ holder' = [holder EXCEPT ![using[c]] = c]
    /\ IF alive[using[c]]
         THEN ReplGoes(c, "run") /\ pipe' = [pipe EXCEPT ![using[c]] = Append(@, c)]
         ELSE ReplGoes(c, "boot") /\ UNCHANGED pipe
    /\ UNCHANGED <<lru, owner, managerOf, alive, using, heard>>

Booted(c) ==
    /\ replPc[c] = "boot"
    /\ alive' = [alive EXCEPT ![using[c]] = TRUE]
    /\ pipe' = [pipe EXCEPT ![using[c]] = <<c>>]
    /\ ReplGoes(c, "run")
    /\ UNCHANGED <<lru, owner, managerOf, holder, using, heard>>

Leave(c, pc) ==
    /\ holder' = [holder EXCEPT ![using[c]] = NoCall]
    /\ ReplGoes(c, pc)

(* The first answer in the pipe is read.  If the process is not the one the
   code went to, or is gone, or the code ends it, reading fails and so does
   the call. *)
Hear(c) ==
    /\ replPc[c] = "run"
    /\ LET r == using[c]
       IN  \/ /\ alive[r] /\ pipe[r] # <<>>
              /\ heard' = [heard EXCEPT ![c] = Head(pipe[r])]
              /\ pipe' = [pipe EXCEPT ![r] = Tail(@)]
              /\ UNCHANGED alive
           \/ /\ ~alive[r] \/ pipe[r] = <<>>
              /\ UNCHANGED <<heard, pipe, alive>>
           \/ /\ alive' = [alive EXCEPT ![r] = FALSE]
              /\ pipe' = [pipe EXCEPT ![r] = <<>>]
              /\ UNCHANGED heard
    /\ Leave(c, "done")
    /\ UNCHANGED <<lru, owner, managerOf, using>>

ReplTimesOutLeaving(c) ==
    /\ replPc[c] = "run"
    /\ ReplGoes(c, "stop")
    /\ UNCHANGED <<lru, owner, managerOf, holder, alive, pipe, using, heard>>

(* The REPL's own timeout kills the process, so that a late answer cannot
   be read by the next call. *)
ReplTimesOut(c) ==
    /\ replPc[c] = "run"
    /\ Kill(using[c])
    /\ ReplGoes(c, "stop")
    /\ UNCHANGED <<lru, owner, managerOf, holder, using, heard>>

Stopped(c) ==
    /\ replPc[c] = "stop"
    /\ Leave(c, "done")
    /\ UNCHANGED <<lru, owner, managerOf, alive, pipe, using, heard>>

(* The call is cancelled from outside while it waits: its locks are given
   back, but nothing is done about the process, whose answer will come, nor
   about one that was coming up. *)
Cut(c) ==
    /\ c \in Cuttable /\ replPc[c] \notin {"idle", "done", "cut"}
    /\ managerOf' = IF managerOf = c THEN NoCall ELSE managerOf
    /\ holder' = [r \in Repls |-> IF holder[r] = c THEN NoCall ELSE holder[r]]
    /\ ReplGoes(c, "cut")
    /\ UNCHANGED <<lru, owner, alive, pipe, using, heard>>

ReplStep(c) ==
    \/ Find(c) \/ Evict(c) \/ Create(c) \/ Started(c) \/ StartReset(c) \/ ResetKilled(c) \/ ResetDone(c)
    \/ StartClose(c) \/ CloseDone(c) \/ EnterRepl(c) \/ Booted(c) \/ Hear(c) \/ ReplTimesOut(c) \/ Stopped(c)

ReplNext == \E c \in ReplCalls : ReplStep(c) \/ Cut(c)

ReplSpec == ReplInit /\ [][ReplNext]_replVars

-----------------------------------------------------------------------------
(* Properties. *)

(* A session has one managed REPL, there are no more than MaxSessions, and
   the manager's lock is held by a call that is in the manager. *)
OneReplPerSession ==
    /\ Len(lru) <= MaxSessions
    /\ \A i, k \in DOMAIN lru : i # k => owner[lru[i]] # owner[lru[k]]
    /\ managerOf # NoCall => replPc[managerOf] \in {"evict", "start", "kill", "restart", "close"}

(* An execution returns the result of its own code.  Only after a call of
   its session has been cut off may it be the answer of a call before it,
   which nobody else reads; a timeout, a reset, an eviction and the restart
   of a dead process leave no answer behind. *)
AnswersMatch ==
    \A c \in ReplCalls : heard[c] # NoCall =>
        /\ heard[c] # c => \E d \in ReplCalls : replPc[d] = "cut" /\ SessionOf[d] = SessionOf[c]
        /\ SessionOf[heard[c]] = SessionOf[c]
        /\ \A d \in ReplCalls \ {c} : heard[d] # heard[c]

(* The pool keeps one REPL to a session and within its bound, and no call
   reads another's answer, as long as none is cut off. *)
ReplSound == ReplTypeOK /\ OneReplPerSession /\ AnswersMatch

(* At rest: every call has come back and neither lock is held. *)
ReplQuiet ==
    /\ \A c \in ReplCalls : replPc[c] \in {"idle", "done", "cut"}
    /\ managerOf = NoCall /\ \A r \in Repls : holder[r] = NoCall
=============================================================================
