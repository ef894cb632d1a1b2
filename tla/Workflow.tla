-------------------------------- MODULE Workflow --------------------------------
(***************************************************************************)
(* Executing workflows (handlers/workflow_handlers.py): the idempotency    *)
(* lookup, the sequential engine (orchestrator/workflow_engine.py) with    *)
(* the run store it saves to (services/workflow_run_store.py), the         *)
(* parallel branch that spawns one subrun per step, and the registration   *)
(* of the response.  Lookup and registration have awaits between them.     *)
(*                                                                         *)
(* An execution is one request; several of them interleave.  Subruns are   *)
(* external: they end when they do, in whatever way.                       *)
(***************************************************************************)
EXTENDS Naturals, Sequences, FiniteSets, Idempotency

CONSTANTS
    Executions,   \* execute requests
    WfKeyOf, WfPrintOf, \* idempotency key and fingerprint of each
    ModeOf,       \* "sequential" or "parallel"
    Steps, EntryStep,
    NoStep, MissingStep, \* the end of a path, and an id the graph lacks
    TypeOf,       \* "agent", "await" (connector, delay), "sync" (transform) or "condition"
    NextOf,       \* next_step of each step; NoStep ends the workflow
    BranchesOf,   \* [true, false] successors of a condition
    SpawnCap,     \* subrun_max_children_per_parent
    WfRegistryCap,
    SaveFails,    \* may saving the execution state fail?
    MayCrash,
    NoAnswer, WfConflict

ASSUME WorkflowAssumption ==
    /\ NoStep \notin Steps /\ MissingStep \notin Steps
    /\ EntryStep \in Steps \cup {MissingStep}
    /\ NextOf \in [Steps -> Steps \cup {NoStep, MissingStep}]
    /\ ModeOf \in [Executions -> {"sequential", "parallel"}]
    /\ TypeOf \in [Steps -> {"agent", "await", "sync", "condition"}]
    /\ BranchesOf \in [Steps -> [{"true", "false"} -> Steps \cup {NoStep, MissingStep}]]
    /\ NoAnswer \notin Executions /\ WfConflict \notin Executions
    /\ SpawnCap \in Nat \ {0} /\ WfRegistryCap \in Nat \ {0}
    /\ SaveFails \in BOOLEAN /\ MayCrash \in BOOLEAN

VARIABLES
    wfPc,      \* where each execution is
    current,   \* current_step_id
    result,    \* state.step_results: status of each step
    branch,    \* what a condition chose
    wfStatus,  \* state.status in memory
    file,      \* status in the run store's file, and the steps it has results for
    children,  \* the step whose subrun is waited for, while that is active
    late,      \* steps with a subrun that outlived its wait
    spawnedAt, \* parallel: the number of the step spawned next
    wfRegistry,
    answered,  \* what each request was answered
    crashed

wfVars == <<wfPc, current, result, branch, wfStatus, file, children, late, spawnedAt, wfRegistry, answered, crashed>>

WfTypeOK ==
    /\ wfPc \in [Executions -> {"new", "step", "poll", "await", "settled", "finish", "spawn", "done", "lost"}]
    /\ current \in [Executions -> Steps \cup {NoStep, MissingStep}]
    /\ result \in [Executions -> [Steps -> {"none", "success", "error", "timeout"}]]
    /\ branch \in [Executions -> [Steps -> {"none", "true", "false"}]]
    /\ wfStatus \in [Executions -> {"running", "completed", "failed"}]
    /\ file \in [Executions -> [status : {"none", "running", "completed", "failed"}, steps : SUBSET Steps]]
    /\ children \in [Executions -> SUBSET Steps] /\ late \in [Executions -> SUBSET Steps]
    /\ spawnedAt \in [Executions -> 0 .. SpawnCap]
    /\ answered \in [Executions -> Executions \cup {NoAnswer, WfConflict}]
    /\ crashed \in BOOLEAN

WfInit ==
    /\ wfPc = [e \in Executions |-> "new"]
    /\ current = [e \in Executions |-> NoStep]
    /\ result = [e \in Executions |-> [s \in Steps |-> "none"]]
    /\ branch = [e \in Executions |-> [s \in Steps |-> "none"]]
    /\ wfStatus = [e \in Executions |-> "running"]
    /\ file = [e \in Executions |-> [status |-> "none", steps |-> {}]]
    /\ children = [e \in Executions |-> {}] /\ late = [e \in Executions |-> {}]
    /\ spawnedAt = [e \in Executions |-> 0]
    /\ wfRegistry = <<>>
    /\ answered = [e \in Executions |-> NoAnswer]
    /\ crashed = FALSE

WfGoes(e, pc) == wfPc' = [wfPc EXCEPT ![e] = pc]

(* WorkflowRunStore.save writes the state as it is. *)
Saved(e, status, results) ==
    [file EXCEPT ![e] = [status |-> status, steps |-> {s \in Steps : results[s] # "none"}]]

(* A save inside send_event: an error is swallowed by _emit. *)
SaveQuietly(e, status, results) ==
    \/ file' = Saved(e, status, results)
    \/ SaveFails /\ UNCHANGED file

-----------------------------------------------------------------------------
(* The handler. *)

(* The lookup misses: a sequential execution saves its state and enters the
   engine, a parallel one opens its root run and starts to spawn. *)
ExecuteWorkflow(e) ==
    /\ wfPc[e] = "new" /\ ~crashed
    /\ \E kept \in Pruned(wfRegistry, WfRegistryCap) :
         Hits(kept, WfKeyOf[e]) = {} /\ wfRegistry' = kept
    /\ IF ModeOf[e] = "sequential"
         THEN /\ WfGoes(e, "step")
              /\ current' = [current EXCEPT ![e] = EntryStep]
              /\ file' = Saved(e, "running", result[e])
         ELSE WfGoes(e, "spawn") /\ UNCHANGED <<current, file>>
    /\ UNCHANGED <<result, branch, wfStatus, children, late, spawnedAt, answered, crashed>>

(* It hits: the earlier response, or a conflict. *)
ReplayWorkflow(e) ==
    /\ wfPc[e] = "new" /\ ~crashed
    /\ \E kept \in Pruned(wfRegistry, WfRegistryCap) :
         /\ \E hit \in Hits(kept, WfKeyOf[e]) :
               answered' = [answered EXCEPT ![e] = IF hit.print = WfPrintOf[e] THEN hit.run ELSE WfConflict]
         /\ wfRegistry' = kept
    /\ WfGoes(e, "done")
    /\ UNCHANGED <<current, result, branch, wfStatus, file, children, late, spawnedAt, crashed>>

(* The response is built and registered in one go. *)
Respond(e) ==
    /\ answered' = [answered EXCEPT ![e] = e]
    /\ wfRegistry' \in UNION {Registered(kept, [key |-> WfKeyOf[e], print |-> WfPrintOf[e], run |-> e],
                                         WfRegistryCap) : kept \in Pruned(wfRegistry, WfRegistryCap)}

(* Parallel: the next step's subrun is spawned, or a warning is kept. *)
SpawnNext(e) ==
    /\ wfPc[e] = "spawn" /\ spawnedAt[e] < SpawnCap
    /\ spawnedAt' = [spawnedAt EXCEPT ![e] = @ + 1]
    /\ UNCHANGED <<wfPc, current, result, branch, wfStatus, file, children, late, wfRegistry, answered, crashed>>

AllSpawned(e) ==
    /\ wfPc[e] = "spawn" /\ spawnedAt[e] = SpawnCap
    /\ Respond(e)
    /\ WfGoes(e, "done")
    /\ UNCHANGED <<current, result, branch, wfStatus, file, children, late, spawnedAt, crashed>>

-----------------------------------------------------------------------------
(* The engine: WorkflowEngine.execute. *)

(* A step starts; one that the graph lacks fails the run. *)
StartStep(e) ==
    /\ wfPc[e] = "step"
    /\ IF current[e] \notin Steps
         THEN /\ wfStatus' = [wfStatus EXCEPT ![e] = "failed"]
              /\ WfGoes(e, "finish")
              /\ UNCHANGED children
         ELSE /\ WfGoes(e, IF TypeOf[current[e]] = "agent" THEN "poll" ELSE "await")
              /\ children' = IF TypeOf[current[e]] = "agent"
                               THEN [children EXCEPT ![e] = @ \cup {current[e]}] ELSE children
              /\ UNCHANGED wfStatus
    /\ UNCHANGED <<current, result, branch, file, late, spawnedAt, wfRegistry, answered, crashed>>

(* The results a step may have: a poll ends in success as soon as the subrun
   is over, however it ended, and in a timeout otherwise; a spawn may fail. *)
ResultsOf(e) ==
    IF wfPc[e] = "poll"
      THEN {"timeout"} \cup (IF current[e] \in children[e] THEN {} ELSE {"success", "error"})
      ELSE {"success", "error"} \cup (IF TypeOf[current[e]] = "await" THEN {"timeout"} ELSE {})

(* The result is kept; "workflow_step_failed" or "_completed" saves. *)
EndStep(e, r) ==
    /\ wfPc[e] \in {"poll", "await"}
    /\ r \in ResultsOf(e)
    /\ LET s == current[e]
           results == [result[e] EXCEPT ![s] = r]
       IN  /\ result' = [result EXCEPT ![e] = results]
           /\ branch' \in IF TypeOf[s] = "condition" /\ r = "success"
                            THEN {[branch EXCEPT ![e][s] = b] : b \in {"true", "false"}}
                            ELSE {branch}
           /\ SaveQuietly(e, "running", results)
           /\ wfStatus' = [wfStatus EXCEPT ![e] = IF r = "error" THEN "failed" ELSE @]
           /\ WfGoes(e, IF r = "error" THEN "finish" ELSE "settled")
    /\ children' = [children EXCEPT ![e] = {}]
    /\ late' = [late EXCEPT ![e] = @ \cup children[e]]
    /\ UNCHANGED <<current, spawnedAt, wfRegistry, answered, crashed>>

(* _resolve_next_step: a condition that succeeded branches. *)
Successor(s, b) ==
    IF b = "none" THEN NextOf[s] ELSE BranchesOf[s][b]

NextStepUnbranched(e) ==
    /\ wfPc[e] = "settled"
    /\ IF NextOf[current[e]] = NoStep
         THEN wfStatus' = [wfStatus EXCEPT ![e] = "completed"] /\ WfGoes(e, "finish") /\ UNCHANGED current
         ELSE current' = [current EXCEPT ![e] = NextOf[@]] /\ WfGoes(e, "step") /\ UNCHANGED wfStatus
    /\ UNCHANGED <<result, branch, file, children, late, spawnedAt, wfRegistry, answered, crashed>>

NextStep(e) ==
    /\ wfPc[e] = "settled"
    /\ LET next == Successor(current[e], branch[e][current[e]])
       IN  IF next = NoStep
             THEN /\ wfStatus' = [wfStatus EXCEPT ![e] = "completed"]
                  /\ WfGoes(e, "finish")
                  /\ UNCHANGED current
             ELSE /\ current' = [current EXCEPT ![e] = next]
                  /\ WfGoes(e, "step")
                  /\ UNCHANGED wfStatus
    /\ UNCHANGED <<result, branch, file, children, late, spawnedAt, wfRegistry, answered, crashed>>

(* "workflow_completed" saves, the handler saves again and responds.  If the
   handler's own save fails the request ends with an error. *)
FinishWorkflow(e) ==
    /\ wfPc[e] = "finish"
    /\ \/ /\ file' = Saved(e, wfStatus[e], result[e])
          /\ Respond(e)
       \/ /\ SaveFails
          /\ SaveQuietly(e, wfStatus[e], result[e])
          /\ UNCHANGED <<wfRegistry, answered>>
    /\ WfGoes(e, "done")
    /\ UNCHANGED <<current, result, branch, wfStatus, children, late, spawnedAt, crashed>>

(* A subrun ends; the lane's own timeout makes sure it does. *)
ChildEnds(e, s) ==
    /\ \/ s \in children[e] /\ children' = [children EXCEPT ![e] = @ \ {s}] /\ UNCHANGED late
       \/ s \in late[e] /\ late' = [late EXCEPT ![e] = @ \ {s}] /\ UNCHANGED children
    /\ UNCHANGED <<wfPc, current, result, branch, wfStatus, file, spawnedAt, wfRegistry, answered, crashed>>

(* The backend dies: files stay, nothing resumes an execution. *)
Crash ==
    /\ MayCrash /\ ~crashed
    /\ crashed' = TRUE
    /\ wfPc' = [e \in Executions |-> IF wfPc[e] \in {"new", "done"} THEN wfPc[e] ELSE "lost"]
    /\ children' = [e \in Executions |-> {}] /\ late' = [e \in Executions |-> {}]
    /\ wfRegistry' = <<>>
    /\ UNCHANGED <<current, result, branch, wfStatus, file, spawnedAt, answered>>

WfStep(e) ==
    \/ SpawnNext(e) \/ AllSpawned(e) \/ StartStep(e) \/ NextStep(e) \/ FinishWorkflow(e)
    \/ \E r \in {"success", "error", "timeout"} : EndStep(e, r)

WfNext ==
    \/ \E e \in Executions :
        \/ ExecuteWorkflow(e) \/ ReplayWorkflow(e) \/ WfStep(e)
        \/ \E s \in Steps : ChildEnds(e, s)
    \/ Crash

WfSpec == WfInit /\ [][WfNext]_wfVars

-----------------------------------------------------------------------------
(* Properties. *)

Ran(e) == {s \in Steps : result[e][s] # "none"}

\* The steps that may follow a step, the steps a path leads to, and cycles.
Edges(s) == ({NextOf[s]} \cup IF TypeOf[s] = "condition" THEN {BranchesOf[s][b] : b \in {"true", "false"}} ELSE {}) \cap Steps
Reaches(s, t) == \A C \in SUBSET Steps : (s \in C /\ \A x \in C : Edges(x) \subseteq C) => t \in C
OnCycle(s) == \E t \in Edges(s) : Reaches(t, s)

(* The steps that ran form a path of the graph from its entry: the branch a
   condition did not choose is never executed, and nothing runs behind a
   step that failed.  A step on a cycle may have run with another result. *)
StepsFormPath ==
    \A e \in Executions : \A s \in Ran(e) :
        s = EntryStep \/ \E p \in Ran(e) :
            /\ s \in Edges(p)
            /\ (result[e][p] # "error" /\ Successor(p, branch[e][p]) = s) \/ OnCycle(p)

(* A run that is reported failed stopped at the step that failed, or at a
   step its graph lacks; a completed one has no failed step. *)
FailedMeansError ==
    \A e \in Executions :
        /\ wfStatus[e] = "failed" =>
             current[e] \notin Steps \/ result[e][current[e]] = "error"
        /\ \A s \in Ran(e) : result[e][s] = "error" => s = current[e] /\ wfStatus[e] = "failed"

(* The file never tells more than happened: no status and no step the
   execution has not reached, whichever saves were lost. *)
FileNotAhead ==
    \A e \in Executions :
        /\ file[e].steps \subseteq Ran(e)
        /\ file[e].status \in {"completed", "failed"} => file[e].status = wfStatus[e]

(* Steps of one execution do not overlap: besides the current step's, only
   subruns whose step timed out are still active. *)
StepsDoNotOverlap ==
    \A e \in Executions :
        /\ children[e] \subseteq {current[e]} /\ (children[e] # {} => wfPc[e] = "poll")
        /\ \A s \in late[e] : result[e][s] = "timeout" \/ OnCycle(s)

(* A replayed response belongs to an execution of the same key and payload
   that has responded itself. *)
ReplayedHasEnded ==
    \A e \in Executions : answered[e] \in Executions =>
        /\ WfPrintOf[answered[e]] = WfPrintOf[e] /\ WfKeyOf[answered[e]] = WfKeyOf[e]
        /\ wfPc[answered[e]] = "done" /\ answered[answered[e]] = answered[e]

(* An execution does what its graph says, and neither its file nor a
   replayed response tells more than it did. *)
ExecutionSound ==
    WfTypeOK /\ StepsFormPath /\ FailedMeansError /\ FileNotAhead /\ StepsDoNotOverlap /\ ReplayedHasEnded

(* At rest: every execution has ended or was lost in a crash (of a graph
   without cycles). *)
WfQuiet == \A e \in Executions : wfPc[e] \in {"new", "done", "lost"}
=============================================================================
