--------------------------------- MODULE FanOut ---------------------------------
(***************************************************************************)
(* Running several agents' tasks at once (multi_agency/                    *)
(* parallel_executor.py): all of them, a race, a quorum, or the steps of a *)
(* dependency graph, through one semaphore.  What a task does is external: *)
(* it ends with a value, fails, or is cut off by its timeout, which is the *)
(* same as failing.                                                        *)
(***************************************************************************)
EXTENDS Naturals, Sequences, FiniteSets, SequencesExt

CONSTANTS
    FanModes,       \* of {"all", "race", "quorum", "dag"}; "best" is "all"
    Tasks,
    DependsOn,      \* depends_on of every step of the graph; ids that are no step included
    Values,         \* what a task may return
    Confidence,
    MaxConcurrent, QuorumThreshold,
    NoTask

ASSUME FanAssumption ==
    /\ FanModes \subseteq {"all", "race", "quorum", "dag"}
    /\ NoTask \notin Tasks /\ IsFiniteSet(Tasks)
    /\ Confidence \in [Tasks -> Nat]
    /\ MaxConcurrent \in Nat \ {0} /\ QuorumThreshold \in Nat \ {0}

VARIABLES
    mode,
    callerPc,    \* the caller: "rounds" between batches of a graph, "gather", "cancelling", "done"
    queued,      \* the tasks waiting for the semaphore
    slots,       \* the tasks that hold it
    taskStatus,
    value,       \* the value of a completed task
    satisfied,   \* completed_ids
    reported,    \* the steps in all_results
    winner,
    chosen,      \* the task whose result is returned
    order        \* ghost: the tasks in the order they completed

fanVars == <<mode, callerPc, queued, slots, taskStatus, value, satisfied, reported, winner, chosen, order>>

FanTypeOK ==
    /\ mode \in FanModes
    /\ callerPc \in {"rounds", "gather", "cancelling", "done"}
    /\ queued \subseteq Tasks /\ slots \subseteq Tasks \ queued
    /\ taskStatus \in [Tasks -> {"pending", "running", "completed", "failed", "cancelled"}]
    /\ value \in [Tasks -> Values \cup {NoTask}]
    /\ satisfied \subseteq Tasks /\ reported \subseteq Tasks
    /\ {winner, chosen} \subseteq Tasks \cup {NoTask}
    /\ order \in Seq(Tasks)

FanInit ==
    /\ mode \in FanModes
    /\ callerPc = IF mode = "dag" THEN "rounds" ELSE "gather"
    /\ queued = IF mode = "dag" THEN {} ELSE Tasks
    /\ slots = {}
    /\ taskStatus = [t \in Tasks |-> "pending"]
    /\ value = [t \in Tasks |-> NoTask]
    /\ satisfied = {} /\ reported = {}
    /\ winner = NoTask /\ chosen = NoTask /\ order = <<>>

Became(t, s) == taskStatus' = [taskStatus EXCEPT ![t] = s]

(* A task gets the semaphore; a step of a graph is "running" before that. *)
Enter(t) ==
    /\ t \in queued /\ Cardinality(slots) < MaxConcurrent /\ callerPc = "gather"
    /\ queued' = queued \ {t} /\ slots' = slots \cup {t}
    /\ Became(t, "running")
    /\ UNCHANGED <<mode, callerPc, value, satisfied, reported, winner, chosen, order>>

CompleteLastWins(t, v) ==
    /\ t \in slots /\ callerPc = "gather"
    /\ slots' = slots \ {t}
    /\ Became(t, "completed")
    /\ value' = [value EXCEPT ![t] = v]
    /\ order' = Append(order, t)
    /\ winner' = IF mode = "race" THEN t ELSE winner
    /\ UNCHANGED <<mode, callerPc, queued, satisfied, reported, chosen>>

(* It returns a value: in a race the first one wins. *)
Complete(t, v) ==
    /\ t \in slots /\ callerPc = "gather"
    /\ slots' = slots \ {t}
    /\ Became(t, "completed")
    /\ value' = [value EXCEPT ![t] = v]
    /\ order' = Append(order, t)
    /\ winner' = IF mode = "race" /\ winner = NoTask THEN t ELSE winner
    /\ UNCHANGED <<mode, callerPc, queued, satisfied, reported, chosen>>

FailTask(t) ==
    /\ t \in slots /\ callerPc = "gather"
    /\ slots' = slots \ {t}
    /\ Became(t, "failed")
    /\ UNCHANGED <<mode, callerPc, queued, value, satisfied, reported, winner, chosen, order>>

-----------------------------------------------------------------------------
(* A race. *)

(* The winner's event, or the timeout, wakes the caller, which cancels every
   task that is not over; tasks may complete before it gets to run. *)
StopRace ==
    /\ mode = "race" /\ callerPc = "gather"
    /\ callerPc' = "cancelling"
    /\ UNCHANGED <<mode, queued, slots, taskStatus, value, satisfied, reported, winner, chosen, order>>

(* A cancelled task gives its slot back; one that never got one stays
   "pending". *)
CancelTask(t) ==
    /\ callerPc = "cancelling" /\ t \in slots \cup queued
    /\ IF t \in slots THEN Became(t, "cancelled") ELSE UNCHANGED taskStatus
    /\ slots' = slots \ {t} /\ queued' = queued \ {t}
    /\ UNCHANGED <<mode, callerPc, value, satisfied, reported, winner, chosen, order>>

-----------------------------------------------------------------------------
(* What is returned. *)

Completed == {t \in Tasks : taskStatus[t] = "completed"}
Surest(ts) == {t \in ts : \A u \in ts : Confidence[u] <= Confidence[t]}
Agreeing(t) == {u \in Completed : value[u] = value[t]}
InQuorum == {t \in Completed : Cardinality(Agreeing(t)) >= QuorumThreshold}

Returned ==
    CASE mode = "race" -> {winner}
      [] mode # "race" /\ Completed = {} -> {NoTask}
      [] mode = "quorum" /\ InQuorum # {} -> UNION {Surest(Agreeing(t)) : t \in InQuorum}
      [] OTHER -> Surest(Completed)

Return ==
    /\ mode # "dag" /\ queued = {} /\ slots = {}
    /\ callerPc = "cancelling" \/ (callerPc = "gather" /\ mode # "race")
    /\ callerPc' = "done"
    /\ chosen' \in Returned
    /\ UNCHANGED <<mode, queued, slots, taskStatus, value, satisfied, reported, winner, order>>

-----------------------------------------------------------------------------
(* A dependency graph, round by round. *)

Ready == {t \in Tasks : taskStatus[t] = "pending" /\ DependsOn[t] \subseteq satisfied}

StartRound ==
    /\ callerPc = "rounds" /\ Ready # {}
    /\ taskStatus' = [t \in Tasks |-> IF t \in Ready THEN "running" ELSE taskStatus[t]]
    /\ queued' = Ready
    /\ callerPc' = "gather"
    /\ UNCHANGED <<mode, slots, value, satisfied, reported, winner, chosen, order>>

(* The whole round is over: a step that failed has returned None, which
   satisfies its dependents as a result would. *)
EndRound ==
    /\ mode = "dag" /\ callerPc = "gather" /\ queued = {} /\ slots = {}
    /\ LET over == {t \in Tasks : taskStatus[t] # "pending"}
       IN satisfied' = over /\ reported' = over
    /\ callerPc' = "rounds"
    /\ UNCHANGED <<mode, queued, slots, taskStatus, value, winner, chosen, order>>

(* Nothing is ready: what is pending can never run and fails, unreported. *)
EndDag ==
    /\ callerPc = "rounds" /\ Ready = {}
    /\ taskStatus' = [t \in Tasks |-> IF taskStatus[t] = "pending" THEN "failed" ELSE taskStatus[t]]
    /\ callerPc' = "done"
    /\ UNCHANGED <<mode, queued, slots, value, satisfied, reported, winner, chosen, order>>

FanNext ==
    \/ \E t \in Tasks : Enter(t) \/ FailTask(t) \/ CancelTask(t) \/ \E v \in Values : Complete(t, v)
    \/ StopRace \/ Return \/ StartRound \/ EndRound \/ EndDag

FanSpec == FanInit /\ [][FanNext]_fanVars

-----------------------------------------------------------------------------
(* Properties. *)

(* A race returns the first result there was ("return first to complete
   successfully"), and none only if no task had completed, although others
   may complete while the caller is on its way to cancel them. *)
FirstWins ==
    mode = "race" /\ callerPc = "done" =>
        chosen = IF order = <<>> THEN NoTask ELSE Head(order)

(* When the call returns no task is left running or waiting for the
   semaphore: a cancelled race leaks no slot. *)
NothingLeftRunning ==
    callerPc = "done" =>
        slots = {} /\ queued = {} /\ \A t \in Tasks : taskStatus[t] # "running"

(* If agents agree in sufficient number, one of theirs is returned, however
   sure another agent is of something else. *)
QuorumHeeded ==
    mode = "quorum" /\ callerPc = "done" /\ InQuorum # {} => chosen \in InQuorum

(* A step runs only when all its dependencies are over; a step that never
   ran and is reported as failed depends on one that never ran or is no step. *)
GraphOrder ==
    mode = "dag" => \A t \in Tasks :
        /\ taskStatus[t] \in {"running", "completed"} =>
             \A d \in DependsOn[t] : d \in Tasks /\ taskStatus[d] \in {"completed", "failed"}
        /\ callerPc = "done" /\ t \notin reported => DependsOn[t] \ reported # {}

(* Each strategy returns what it promises, leaves nothing behind, and a
   graph is executed in its order. *)
ResultsSound == FanTypeOK /\ FirstWins /\ NothingLeftRunning /\ QuorumHeeded /\ GraphOrder

(* At rest: the call has returned; no semaphore, graph or race kept it. *)
FanQuiet == callerPc = "done"
=============================================================================
