------------------------------ MODULE RunControl ------------------------------
(***************************************************************************)
(* Runs started over REST (handlers/run_handlers.py): the idempotency      *)
(* registry (Idempotency), the background task, the                        *)
(* run state its lifecycle events imply (orchestrator/run_state_machine.py)*)
(* and the caller that polls for the result.                               *)
(*                                                                         *)
(* A request opens the run of the same name.  Starting a run has no await, *)
(* so it is one action; the background task awaits between two events of   *)
(* the agent, whose stages are taken from the states they resolve to.      *)
(***************************************************************************)
EXTENDS Naturals, Sequences, Idempotency

CONSTANTS
    Requests,    \* start requests, and the runs they open
    KeyOfRequest, PrintOf, \* idempotency key (or NoKey) and fingerprint of each
    StageStates, \* the run states the agent's stages resolve to, or "none"
    HardFail,    \* run_state_violation_hard_fail_enabled
    StoreFails,  \* may a write of the state store fail?
    RegistryCap, \* max_entries of the registry
    EventBound,  \* bound on the agent's events per run
    RestartBound,
    NoKey, NoReply, Conflict

Order == <<"received", "queued", "planning", "tool_loop", "synthesis", "finalizing", "persisted">>
EndStates == {"completed", "failed", "cancelled"}
RunStates == {Order[k] : k \in DOMAIN Order} \cup EndStates

ASSUME RunControlAssumption ==
    /\ {NoKey, NoReply, Conflict} \cap Requests = {}
    /\ StageStates \subseteq RunStates \cup {"none"}
    /\ HardFail \in BOOLEAN /\ StoreFails \in BOOLEAN
    /\ RegistryCap \in Nat \ {0} /\ EventBound \in Nat /\ RestartBound \in Nat

VARIABLES
    runDoc,      \* status of each run's document
    runState,    \* meta["run_state"]
    hardFailed,  \* the runs whose meta has run_state_hard_failed
    runPc,       \* where the background task is
    events,      \* events the agent has sent
    registry,    \* the idempotency registry, oldest entry first
    reply,       \* what each request was answered: its run, another's, or Conflict
    verdict,     \* what the caller polling for the run was told
    runRestarts,
    unsaved,     \* ghost: the runs whose closing was lost (store error, restart)
    unflagged    \* ghost: the runs a violation closed while their meta could not be written

runVars == <<runDoc, runState, hardFailed, runPc, events, registry, reply, verdict, runRestarts, unsaved, unflagged>>

RunTypeOK ==
    /\ runDoc \in [Requests -> {"none", "active", "completed", "failed"}]
    /\ runState \in [Requests -> RunStates \cup {"none"}]
    /\ hardFailed \subseteq Requests
    /\ runPc \in [Requests -> {"none", "start", "agent", "ended", "raised", "done"}]
    /\ events \in [Requests -> 0 .. EventBound]
    /\ Len(registry) <= RegistryCap
    /\ reply \in [Requests -> Requests \cup {NoReply, Conflict}]
    /\ verdict \in [Requests -> {"none", "ok", "error", "timeout", "not_found"}]
    /\ unsaved \subseteq Requests /\ unflagged \subseteq Requests

RunInit ==
    /\ runDoc = [q \in Requests |-> "none"]
    /\ runState = [q \in Requests |-> "none"]
    /\ hardFailed = {}
    /\ runPc = [q \in Requests |-> "none"]
    /\ events = [q \in Requests |-> 0]
    /\ registry = <<>>
    /\ reply = [q \in Requests |-> NoReply]
    /\ verdict = [q \in Requests |-> "none"]
    /\ runRestarts = 0
    /\ unsaved = {} /\ unflagged = {}

-----------------------------------------------------------------------------
Entry(q) == [key |-> KeyOfRequest[q], print |-> PrintOf[q], run |-> q]

(* start_run_background: the document is opened, "accepted" resolves to
   "queued", and the task is scheduled. *)
OpenRun(q) ==
    /\ runDoc' = [runDoc EXCEPT ![q] = "active"]
    /\ \/ runState' = [runState EXCEPT ![q] = "queued"]
       \/ StoreFails /\ UNCHANGED runState
    /\ runPc' = [runPc EXCEPT ![q] = "start"]
    /\ reply' = [reply EXCEPT ![q] = q]

(* api_control_run_start without a key, or with one the registry does not
   hold (any more): a new run, registered under its key. *)
StartRun(q) ==
    /\ reply[q] = NoReply
    /\ OpenRun(q)
    /\ IF KeyOfRequest[q] = NoKey THEN UNCHANGED registry
       ELSE \E kept \in Pruned(registry, RegistryCap) :
              /\ Hits(kept, KeyOfRequest[q]) = {}
              /\ registry' \in Registered(kept, Entry(q), RegistryCap)
    /\ UNCHANGED <<hardFailed, events, verdict, runRestarts, unsaved, unflagged>>

ReplayAnyPrint(q) ==
    /\ reply[q] = NoReply /\ KeyOfRequest[q] # NoKey
    /\ \E kept \in Pruned(registry, RegistryCap) :
         /\ \E hit \in Hits(kept, KeyOfRequest[q]) : reply' = [reply EXCEPT ![q] = hit.run]
         /\ registry' = kept
    /\ UNCHANGED <<runDoc, runState, runPc, hardFailed, events, verdict, runRestarts, unsaved, unflagged>>

(* With a key that is held: the earlier run, or a conflict. *)
ReplayRun(q) ==
    /\ reply[q] = NoReply /\ KeyOfRequest[q] # NoKey
    /\ \E kept \in Pruned(registry, RegistryCap) :
         /\ \E hit \in Hits(kept, KeyOfRequest[q]) :
               reply' = [reply EXCEPT ![q] = IF hit.print = PrintOf[q] THEN hit.run ELSE Conflict]
         /\ registry' = kept
    /\ UNCHANGED <<runDoc, runState, runPc, hardFailed, events, verdict, runRestarts, unsaved, unflagged>>

-----------------------------------------------------------------------------
(* Run states. *)

Rank(s) == CHOOSE k \in DOMAIN Order : Order[k] = s

AllowedTransition(previous, next) ==
    \/ previous = "none"
    \/ previous = next /\ next \notin EndStates
    \/ /\ previous \notin EndStates
       /\ next \in EndStates \/ Rank(next) >= Rank(previous)

(* A violation, if that is configured: the document is closed, then its meta
   says why. *)
HardFails(q) ==
    /\ runDoc' = [runDoc EXCEPT ![q] = "failed"]
    /\ \/ hardFailed' = hardFailed \cup {q} /\ UNCHANGED unflagged
       \/ StoreFails /\ unflagged' = unflagged \cup {q} /\ UNCHANGED hardFailed

(* state_append_event_safe: an error of the store is only logged, and what
   was to be written after it is not.  A violation leaves the state. *)
Derive(q, target) ==
    \/ /\ target = "none" \/ StoreFails
       /\ UNCHANGED <<runState, hardFailed, runDoc, unflagged>>
    \/ /\ target # "none"
       /\ IF AllowedTransition(runState[q], target)
            THEN runState' = [runState EXCEPT ![q] = target] /\ UNCHANGED <<hardFailed, runDoc, unflagged>>
            ELSE /\ UNCHANGED runState
                 /\ IF HardFail THEN HardFails(q) ELSE UNCHANGED <<hardFailed, runDoc, unflagged>>

-----------------------------------------------------------------------------
(* The background task: _run_background_message. *)

RunGoes(q, pc) == runPc' = [runPc EXCEPT ![q] = pc]

(* "processing_started" resolves to no state. *)
BeginRun(q) ==
    /\ runPc[q] = "start"
    /\ RunGoes(q, "agent")
    /\ UNCHANGED <<runDoc, runState, hardFailed, events, registry, reply, verdict, runRestarts, unsaved, unflagged>>

(* collect_event refuses a hard-failed run before and after it appends.  The
   error may be swallowed on its way (the hooks of agent_end, a retried model
   call), so the agent may go on. *)
AgentEvent(q, target) ==
    /\ runPc[q] = "agent" /\ events[q] < EventBound
    /\ events' = [events EXCEPT ![q] = @ + 1]
    /\ IF q \in hardFailed THEN UNCHANGED <<runState, hardFailed, runDoc, unflagged>> ELSE Derive(q, target)
    /\ IF q \in hardFailed' THEN \/ RunGoes(q, "raised")
                                 \/ UNCHANGED runPc
                            ELSE UNCHANGED runPc
    /\ UNCHANGED <<registry, reply, verdict, runRestarts, unsaved>>

AgentReturnsAnyway(q) ==
    /\ runPc[q] = "agent"
    /\ RunGoes(q, "ended")
    /\ UNCHANGED <<runDoc, runState, hardFailed, events, registry, reply, verdict, runRestarts, unsaved, unflagged>>

(* The agent returns: "lane_released" is the last event of every run, and
   its error is raised unless another one is. *)
AgentReturns(q) ==
    /\ runPc[q] = "agent"
    /\ RunGoes(q, IF q \in hardFailed THEN "raised" ELSE "ended")
    /\ UNCHANGED <<runDoc, runState, hardFailed, events, registry, reply, verdict, runRestarts, unsaved, unflagged>>

AgentRaises(q) ==
    /\ runPc[q] \in {"start", "agent"}
    /\ RunGoes(q, "raised")
    /\ UNCHANGED <<runDoc, runState, hardFailed, events, registry, reply, verdict, runRestarts, unsaved, unflagged>>

(* A document is marked; an error of the store is only logged. *)
Mark(q, status) ==
    \/ runDoc' = [runDoc EXCEPT ![q] = status] /\ UNCHANGED unsaved
    \/ StoreFails /\ UNCHANGED runDoc /\ unsaved' = unsaved \cup {q}

(* "processing_completed" resolves to no state. *)
CompleteRun(q) ==
    /\ runPc[q] = "ended"
    /\ Mark(q, "completed")
    /\ RunGoes(q, "done")
    /\ UNCHANGED <<runState, hardFailed, events, registry, reply, verdict, runRestarts, unflagged>>

FailRunIfAllowed(q) ==
    /\ runPc[q] = "raised"
    /\ runState[q] \notin EndStates
    /\ Mark(q, "failed")
    /\ runState' = [runState EXCEPT ![q] = "failed"]
    /\ RunGoes(q, "done")
    /\ UNCHANGED <<hardFailed, events, registry, reply, verdict, runRestarts, unflagged>>

(* "processing_failed" resolves to "failed", which an ended run refuses. *)
FailRun(q) ==
    /\ runPc[q] = "raised"
    /\ Mark(q, "failed")
    /\ \/ StoreFails /\ UNCHANGED <<runState, hardFailed>>
       \/ IF runState[q] \in EndStates
            THEN UNCHANGED runState /\ hardFailed' = IF HardFail THEN hardFailed \cup {q} ELSE hardFailed
            ELSE runState' = [runState EXCEPT ![q] = "failed"] /\ UNCHANGED hardFailed
    /\ RunGoes(q, "done")
    /\ UNCHANGED <<events, registry, reply, verdict, runRestarts, unflagged>>

(* Shutdown cancels the tasks, which no except clause closes; a crash has
   the same effect.  The registry is memory. *)
RestartRuns ==
    /\ runRestarts < RestartBound
    /\ runRestarts' = runRestarts + 1
    /\ runPc' = [q \in Requests |-> IF runPc[q] = "none" THEN "none" ELSE "done"]
    /\ registry' = <<>>
    /\ unsaved' = unsaved \cup {q \in Requests : runPc[q] \notin {"none", "done"}}
    /\ UNCHANGED <<runDoc, runState, hardFailed, events, reply, verdict, unflagged>>

(* wait_for_run_result: one poll, of the run the request was answered with.  A
   task leaves active_run_tasks in its last step, so a poll meets a task that
   is done only when it was cancelled before it began, by a shutdown. *)
Poll(q) ==
    /\ reply[q] \in Requests /\ verdict[q] = "none"
    /\ \/ /\ runDoc[reply[q]] \in {"completed", "failed"}
          /\ verdict' = [verdict EXCEPT ![q] = IF runDoc[reply[q]] = "completed" THEN "ok" ELSE "error"]
       \/ /\ runDoc[reply[q]] = "active"
          /\ verdict' = [verdict EXCEPT ![q] = "timeout"]
    /\ UNCHANGED <<runDoc, runState, hardFailed, runPc, events, registry, reply, runRestarts, unsaved, unflagged>>

RunStep(q) ==
    \/ BeginRun(q) \/ AgentReturns(q) \/ AgentRaises(q) \/ CompleteRun(q) \/ FailRun(q)
    \/ \E target \in StageStates : AgentEvent(q, target)

RunNext ==
    \/ \E q \in Requests : StartRun(q) \/ ReplayRun(q) \/ RunStep(q) \/ Poll(q)
    \/ RestartRuns

RunSpec == RunInit /\ [][RunNext]_runVars

-----------------------------------------------------------------------------
(* Properties. *)

(* A document that was closed keeps its status: a run that was hard-failed
   while its agent went on is not reported completed afterwards, unless the
   store took the failure and then refused the note of it that the task looks for. *)
ClosedDocsStay ==
    [][\A q \in Requests : runDoc[q] \in {"completed", "failed"} =>
          \/ runDoc'[q] = runDoc[q]
          \/ q \in unflagged /\ runPc[q] = "ended" /\ runDoc'[q] = "completed"]_runVars

(* A task that ended has closed its run's document, unless the store failed
   or the backend stopped in between. *)
EndedRunsClosed ==
    \A q \in Requests : runPc[q] = "done" /\ q \notin unsaved => runDoc[q] \in {"completed", "failed"}

(* A replay hands out the run of a request with the same key and the same
   payload, also after entries were pruned and keys registered again. *)
ReplaysMatch ==
    \A q \in Requests : reply[q] \in Requests =>
        /\ PrintOf[q] = PrintOf[reply[q]]
        /\ reply[q] # q => KeyOfRequest[q] # NoKey /\ KeyOfRequest[q] = KeyOfRequest[reply[q]]

(* Every answer to a start request is accounted for: it names a run of the
   same request, and a run whose task is over is closed. *)
RunsAccounted == RunTypeOK /\ ReplaysMatch /\ EndedRunsClosed

(* At rest: every run that was started has ended. *)
RunQuiet == \A q \in Requests : runPc[q] \in {"none", "done"}
=============================================================================
