---------------------------- MODULE ModelFallback ----------------------------
(***************************************************************************)
(* The fallback state machine of a request                                 *)
(* (orchestrator/fallback_state_machine.py) together with the circuit      *)
(* breakers all requests share.  Request r tries the models of its route   *)
(* in order; pc[r] names the await in which its run() is suspended:        *)
(*                                                                         *)
(*   select     before the next turn of SELECT_MODEL and EXECUTE_ATTEMPT   *)
(*   rejecting  sending circuit_breaker_rejected                           *)
(*   opening    sending circuit_breaker_state_changed before the call      *)
(*   retrying   sending the retry events before the call                   *)
(*   calling    in agent.run                                               *)
(*   reporting  sending circuit_breaker_state_changed after a success      *)
(*   lost, odd  sending it after an LlmClientError, another exception      *)
(*   failing    in the events and the backoff of HANDLE_FAILURE            *)
(*   idle       run() has returned or raised                               *)
(***************************************************************************)
EXTENDS CircuitBreaker, Sequences

CONSTANTS
    Requests,     \* slots for concurrent requests
    Routes,       \* sequences of models: the primary and its fallbacks
    MaxAttempts,  \* pipeline_runner_max_attempts
    SendErrors,   \* how send_event may raise: "disconnected", "other"
    MayCancel     \* the task of a request may be cancelled

ASSUME FallbackAssumption ==
    /\ Routes \subseteq Seq(Models) \ {<<>>}
    /\ MaxAttempts \in Nat \ {0}
    /\ SendErrors \subseteq {"disconnected", "other"}
    /\ MayCancel \in BOOLEAN

VARIABLES
    pc,
    route,     \* _models
    idx,       \* _current_model_index, from 1
    attempts,  \* _attempt.attempts
    pending,   \* _transform_retry_pending
    probing    \* the request was let through as the probe of its model

rvars == <<pc, route, idx, attempts, pending, probing>>
vars == <<circuits, tracked, pc, route, idx, attempts, pending, probing>>

Model(r) == route[r][idx[r]]
Goto(r, label) == pc' = [pc EXCEPT ![r] = label]

Init ==
    /\ BInit
    /\ pc = [r \in Requests |-> "idle"]
    /\ route \in [Requests -> Routes]
    /\ idx = [r \in Requests |-> 1]
    /\ attempts = [r \in Requests |-> 0]
    /\ pending = [r \in Requests |-> FALSE]
    /\ probing = [r \in Requests |-> FALSE]

-----------------------------------------------------------------------------
(* SELECT_MODEL and EXECUTE_ATTEMPT *)

Start(r) ==
    /\ pc[r] = "idle"
    /\ Goto(r, "select")
    /\ \E q \in Routes : route' = [route EXCEPT ![r] = q]
    /\ UNCHANGED <<circuits, tracked, idx, attempts, pending, probing>>

Exhausted(r) == attempts[r] >= MaxAttempts \/ idx[r] > Len(route[r])

\* run() ends, and the state machine with it; the slot is free for another.
End(r) ==
    /\ Goto(r, "idle")
    /\ idx' = [idx EXCEPT ![r] = 1]
    /\ attempts' = [attempts EXCEPT ![r] = 0]
    /\ pending' = [pending EXCEPT ![r] = FALSE]
    /\ probing' = [probing EXCEPT ![r] = FALSE]
    /\ UNCHANGED route

GiveUp(r) ==
    /\ pc[r] = "select" /\ Exhausted(r)
    /\ End(r)
    /\ UNCHANGED bvars

\* The attempt is counted; a fallback model is announced before it is called.
Attempt(r) ==
    /\ attempts' = [attempts EXCEPT ![r] = @ + 1]
    /\ Goto(r, IF idx[r] > 1 THEN "retrying" ELSE "calling")

Ask(r) ==
    /\ pc[r] = "select" /\ ~Exhausted(r)
    /\ AllowRequest(Model(r))
    /\ probing' = [probing EXCEPT ![r] = Probes(Model(r))]
    /\ \/ ~Admits(Model(r)) /\ Goto(r, "rejecting") /\ UNCHANGED attempts
       \/ Recovers(Model(r)) /\ Goto(r, "opening") /\ UNCHANGED attempts
       \/ Admits(Model(r)) /\ ~Recovers(Model(r)) /\ Attempt(r)
    /\ UNCHANGED <<route, idx, pending>>

\* A rejected model is skipped without consuming an attempt.
RejectedSent(r) ==
    /\ pc[r] = "rejecting"
    /\ Goto(r, "select")
    /\ idx' = [idx EXCEPT ![r] = @ + 1]
    /\ UNCHANGED <<circuits, tracked, route, attempts, pending, probing>>

OpeningSent(r) ==
    /\ pc[r] = "opening"
    /\ Attempt(r)
    /\ UNCHANGED <<circuits, tracked, route, idx, pending, probing>>

RetrySent(r) ==
    /\ pc[r] = "retrying"
    /\ Goto(r, "calling")
    /\ UNCHANGED <<circuits, tracked, route, idx, attempts, pending, probing>>

\* A failure of request r is recorded; the change of state is reported from
\* the except clause, at label.
Failed(r, label) ==
    /\ \E n \in Counts(Model(r)) :
          /\ RecordFailure(Model(r), n)
          /\ Goto(r, IF Trips(Model(r), n) THEN label ELSE "failing")
    /\ probing' = [probing EXCEPT ![r] = FALSE]
    /\ UNCHANGED <<route, idx, attempts, pending>>

\* The agent answered.
Succeeds(r) ==
    /\ pc[r] = "calling"
    /\ RecordSuccess(Model(r))
    /\ IF Closes(Model(r))
       THEN /\ Goto(r, "reporting")
            /\ probing' = [probing EXCEPT ![r] = FALSE]
            /\ UNCHANGED <<route, idx, attempts, pending>>
       ELSE End(r)

\* A guardrail, a cancelled approval or a lost client ended the call.
Aborts(r) ==
    /\ pc[r] = "calling"
    /\ ReleaseProbe(Model(r))
    /\ End(r)

CallFails(r) == pc[r] = "calling" /\ (Failed(r, "lost") \/ Failed(r, "odd"))

\* send_event raises within the try: a lost client releases the probe; any
\* other error counts as a failure of the model, but before the first attempt
\* the handler itself fails, for its start time is unbound.
SendRaises(r) ==
    /\ pc[r] \in {"rejecting", "opening", "retrying", "reporting"}
    /\ \/ "disconnected" \in SendErrors /\ ReleaseProbe(Model(r)) /\ End(r)
       \/ "other" \in SendErrors /\ attempts[r] > 0 /\ Failed(r, "odd")
       \/ "other" \in SendErrors /\ attempts[r] = 0 /\ End(r) /\ UNCHANGED bvars

SuccessReported(r) == pc[r] = "reporting" /\ End(r) /\ UNCHANGED bvars

\* An error of this report is swallowed in the catch-all clause only.
FailureReported(r) ==
    /\ pc[r] \in {"lost", "odd"}
    /\ \/ Goto(r, "failing") /\ UNCHANGED <<route, idx, attempts, pending, probing>>
       \/ pc[r] = "lost" /\ SendErrors # {} /\ End(r)
    /\ UNCHANGED bvars

-----------------------------------------------------------------------------
(* HANDLE_FAILURE *)

\* The recovery strategy says whether to retry and whether it shortened the
\* message; a shortened message is tried once more with the same model.
HandleFailure(r, retryable, transformed) ==
    /\ pc[r] = "failing"
    /\ IF ~retryable \/ (idx[r] >= Len(route[r]) /\ ~transformed)
       THEN End(r)
       ELSE LET again == transformed /\ ~pending[r] IN
            /\ Goto(r, "select")
            /\ pending' = [pending EXCEPT ![r] = again]
            /\ idx' = [idx EXCEPT ![r] = IF again THEN @ ELSE @ + 1]
            /\ UNCHANGED <<route, attempts, probing>>
    /\ UNCHANGED bvars

FailureHandlingRaises(r) ==
    /\ pc[r] = "failing" /\ SendErrors # {}
    /\ End(r)
    /\ UNCHANGED bvars

\* CancelledError is no Exception: no clause of run() catches it.
Cancel(r) ==
    /\ MayCancel
    /\ pc[r] # "idle"
    /\ End(r)
    /\ UNCHANGED bvars

-----------------------------------------------------------------------------
Step(r) ==
    \/ GiveUp(r) \/ Ask(r) \/ RejectedSent(r) \/ OpeningSent(r) \/ RetrySent(r)
    \/ Succeeds(r) \/ Aborts(r) \/ CallFails(r) \/ SendRaises(r)
    \/ SuccessReported(r) \/ FailureReported(r)
    \/ \E retryable, transformed \in BOOLEAN : HandleFailure(r, retryable, transformed)
    \/ FailureHandlingRaises(r)

Next ==
    \/ \E r \in Requests : Start(r) \/ Step(r) \/ Cancel(r)
    \/ \E m \in Models : RecoveryElapses(m) /\ UNCHANGED rvars

Spec == Init /\ [][Next]_vars

\* Sends, calls of models and backoffs end, and the event loop runs on.
FairSpec == Spec /\ \A r \in Requests : WF_vars(Step(r))

-----------------------------------------------------------------------------
(* Properties *)

\* Type invariant of the breakers and the state machines.
TypeOK ==
    /\ BTypeOK
    /\ pc \in [Requests -> {"idle", "select", "rejecting", "opening", "retrying", "calling",
                            "reporting", "lost", "odd", "failing"}]
    /\ route \in [Requests -> Routes]
    /\ idx \in [Requests -> Nat \ {0}]
    /\ \A r \in Requests : idx[r] <= Len(route[r]) + 1
    /\ attempts \in [Requests -> 0 .. MaxAttempts]
    /\ pending \in [Requests -> BOOLEAN]
    /\ probing \in [Requests -> BOOLEAN]

\* A model whose probe is in flight is being called by the request that was
\* let through as its probe: a flag without an owner would block the model for
\* ever, since a half-open circuit has no timeout.
ProbeHasOwner ==
    \A m \in Models : circuits[m].probe =>
        \E r \in Requests : probing[r] /\ Model(r) = m

\* An open circuit closes only by way of half-open, through counted successes:
\* neither eviction nor a late answer makes the breaker forget that it opened.
OpenClosesByProbing ==
    [][\A m \in Models :
          /\ circuits[m].state = "open" => circuits'[m].state # "closed"
          /\ (circuits[m].state = "half_open" /\ circuits'[m].state = "closed")
                => circuits[m].wins = SuccessThreshold - 1]_vars

\* Every probe comes back: a flag is cleared in the end, whatever the requests
\* that share the model do.
ProbesReturn == \A m \in Models : circuits[m].probe ~> ~circuits[m].probe

\* Every run() ends, although rejected models and transformed messages are
\* tried without a counter of their own.
RequestsEnd == \A r \in Requests : pc[r] # "idle" ~> pc[r] = "idle"

\* What was begun ends: the probes of the models and the requests.
FallbackSettles == ProbesReturn /\ RequestsEnd
=============================================================================
