--------------------------- MODULE CircuitBreaker ---------------------------
(***************************************************************************)
(* The circuit breakers of the language models                             *)
(* (services/circuit_breaker.py): closed, open and half-open per model,    *)
(* one probe at a time while half-open.  Every method runs in one section  *)
(* of self._lock that never suspends, so each is one action here.          *)
(* reset() has no caller in the program and is left out.                   *)
(***************************************************************************)
EXTENDS Integers, FiniteSets

CONSTANTS
    Models,
    FailureThreshold,  \* failures within the window that open a circuit
    SuccessThreshold,  \* successes that close a half-open circuit
    MaxTracked         \* _MAX_TRACKED_MODELS

ASSUME BreakerAssumption ==
    /\ IsFiniteSet(Models)
    /\ {FailureThreshold, SuccessThreshold, MaxTracked} \subseteq Nat \ {0}

VARIABLES
    circuits,  \* the circuit of each model; a fresh one when untracked
    tracked    \* the keys of _circuits

bvars == <<circuits, tracked>>

-----------------------------------------------------------------------------
\* fails counts failure_timestamps up to the threshold, wins is
\* half_open_successes, probe is half_open_probe_in_flight, and ripe says that
\* recovery_timeout_seconds have passed since opened_at_mono.
Circuit ==
    [state : {"closed", "open", "half_open"}, fails : 0 .. FailureThreshold,
     wins : 0 .. SuccessThreshold - 1, probe : BOOLEAN, ripe : BOOLEAN]

Fresh == [state |-> "closed", fails |-> 0, wins |-> 0, probe |-> FALSE, ripe |-> FALSE]

BInit == circuits = [m \in Models |-> Fresh] /\ tracked = {}

\* Seeded fault: circuits go whatever their state.
EvictionsOfAny(m) ==
    LET surplus == Cardinality(tracked) - MaxTracked + 1 IN
    IF m \in tracked \/ surplus <= 0 THEN {{}}
    ELSE {E \in SUBSET tracked : Cardinality(E) = surplus}

\* _evict_stale_circuits makes room for a new model: closed circuits without
\* failures go first, then other closed ones; if there are too few, the table
\* grows beyond its limit.
Evictions(m) ==
    LET closed == {n \in tracked : circuits[n].state = "closed"}
        unused == {n \in closed : circuits[n].fails = 0}
        surplus == Cardinality(tracked) - MaxTracked + 1
    IN  IF m \in tracked \/ surplus <= 0 THEN {{}}
        ELSE {E \in SUBSET closed :
                 /\ Cardinality(E) <= surplus
                 /\ Cardinality(E) = surplus \/ E = closed
                 /\ E \subseteq unused \/ unused \subseteq E}

\* A method leaves circuit c for model m, which _ensure_circuit tracks.
Store(m, c) ==
    \E E \in Evictions(m) :
        /\ circuits' = [n \in Models |->
                           IF n = m THEN c ELSE IF n \in E THEN Fresh ELSE circuits[n]]
        /\ tracked' = (tracked \ E) \cup {m}

-----------------------------------------------------------------------------
\* allow_request: is the model's request let through, as what, and does the
\* call change the state of the circuit?
Recovers(m) == circuits[m].state = "open" /\ circuits[m].ripe
Probes(m) == Recovers(m) \/ (circuits[m].state = "half_open" /\ ~circuits[m].probe)
Admits(m) == circuits[m].state = "closed" \/ Probes(m)

AllowRequest(m) ==
    Store(m, IF ~Probes(m) THEN circuits[m]
             ELSE [circuits[m] EXCEPT !.state = "half_open", !.probe = TRUE, !.ripe = FALSE,
                                      !.wins = IF Recovers(m) THEN 0 ELSE @])

\* Seeded fault: one success too many is asked for.
ClosesLate(m) == circuits[m].state = "half_open" /\ circuits[m].wins >= SuccessThreshold

\* record_success; a success closes a half-open circuit when it is the last of
\* the threshold.
Closes(m) == circuits[m].state = "half_open" /\ circuits[m].wins + 1 >= SuccessThreshold

\* Seeded fault: the flag of the probe is kept.
RecordSuccessKeepingProbe(m) ==
    Store(m, IF Closes(m) THEN Fresh
             ELSE IF circuits[m].state = "half_open"
                  THEN [circuits[m] EXCEPT !.wins = @ + 1]
                  ELSE circuits[m])

RecordSuccess(m) ==
    Store(m, IF Closes(m) THEN Fresh
             ELSE IF circuits[m].state = "half_open"
                  THEN [circuits[m] EXCEPT !.wins = @ + 1, !.probe = FALSE]
                  ELSE circuits[m])

\* record_failure with n failures left in the window, the new one included.
\* An open circuit takes the same path as a closed one, so a late failure may
\* stamp opened_at_mono anew.
Counts(m) == 1 .. (IF circuits[m].fails < FailureThreshold
                   THEN circuits[m].fails + 1 ELSE FailureThreshold)

Trips(m, n) == circuits[m].state = "half_open" \/ n >= FailureThreshold

RecordFailure(m, n) ==
    Store(m, IF circuits[m].state = "half_open"
             THEN [circuits[m] EXCEPT !.state = "open", !.wins = 0, !.probe = FALSE, !.ripe = FALSE]
             ELSE IF n >= FailureThreshold
                  THEN [circuits[m] EXCEPT !.state = "open", !.fails = n, !.ripe = FALSE]
                  ELSE [circuits[m] EXCEPT !.fails = n])

\* Seeded fault: only the probe flag of an open circuit is released.
ReleaseProbeOfOpen(m) ==
    Store(m, IF circuits[m].state = "open" THEN [circuits[m] EXCEPT !.probe = FALSE]
             ELSE circuits[m])

ReleaseProbe(m) ==
    Store(m, IF circuits[m].state = "half_open" THEN [circuits[m] EXCEPT !.probe = FALSE]
             ELSE circuits[m])

\* recovery_timeout_seconds pass.
RecoveryElapses(m) ==
    /\ circuits[m].state = "open" /\ ~circuits[m].ripe
    /\ circuits' = [circuits EXCEPT ![m].ripe = TRUE]
    /\ UNCHANGED tracked

\* Type of the breaker's table.
BTypeOK == circuits \in [Models -> Circuit] /\ tracked \in SUBSET Models
=============================================================================
