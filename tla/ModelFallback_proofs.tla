------------------------ MODULE ModelFallback_proofs ------------------------
(***************************************************************************)
(* Proofs about the models behind the agents, for every value of the        *)
(* constants: the breakers under any number of requests, models and routes  *)
(* (types, the way an open circuit closes, the owner of a probe flag), the  *)
(* switch between runtimes (RuntimeSwitch), and the strategies a failed     *)
(* call is recovered with (Recovery).                                       *)
(***************************************************************************)
EXTENDS ModelFallback, RuntimeSwitch, Recovery, Lists_proofs

-----------------------------------------------------------------------------
(* The operations of the breaker *)

\* The table after Store(m, c): circuit c for m, and of the other circuits
\* only closed ones are forgotten.
Stored(m, c) ==
    /\ circuits' \in [Models -> Circuit] /\ tracked' \in SUBSET Models
    /\ circuits'[m] = c
    /\ \A n \in Models \ {m} :
          \/ circuits'[n] = circuits[n]
          \/ circuits[n].state = "closed" /\ circuits'[n] = Fresh

LEMMA FreshCircuit == Fresh \in Circuit
BY BreakerAssumption DEF Fresh, Circuit

LEMMA StoreSound ==
    ASSUME BTypeOK, NEW m \in Models, NEW c \in Circuit, Store(m, c)
    PROVE  Stored(m, c)
<1>1. PICK E \in Evictions(m) :
          /\ circuits' = [n \in Models |->
                             IF n = m THEN c ELSE IF n \in E THEN Fresh ELSE circuits[n]]
          /\ tracked' = (tracked \ E) \cup {m}
  BY DEF Store
<1>2. \A n \in E : circuits[n].state = "closed"
  BY DEF Evictions
<1> QED
  BY <1>1, <1>2, FreshCircuit DEF Stored, BTypeOK

\* What each operation makes of the circuit of its model.
LEMMA AllowSound ==
    ASSUME BTypeOK, NEW m \in Models, AllowRequest(m)
    PROVE  /\ BTypeOK'
           /\ Stored(m, circuits'[m])
           /\ ~Probes(m) => circuits'[m] = circuits[m]
           /\ Probes(m) => circuits'[m].state = "half_open" /\ circuits[m].state # "closed"
<1> DEFINE c == IF ~Probes(m) THEN circuits[m]
                ELSE [circuits[m] EXCEPT !.state = "half_open", !.probe = TRUE, !.ripe = FALSE,
                                         !.wins = IF Recovers(m) THEN 0 ELSE @]
<1>0. circuits[m] \in Circuit /\ 0 \in 0 .. SuccessThreshold - 1
  BY BreakerAssumption DEF BTypeOK
<1>1. c \in Circuit
  <2>1. CASE Probes(m) /\ Recovers(m)
    BY <1>0, <2>1 DEF Circuit
  <2>2. CASE Probes(m) /\ ~Recovers(m)
    BY <1>0, <2>2 DEF Circuit
  <2> QED
    BY <1>0, <2>1, <2>2
<1>2. Stored(m, c)
  BY <1>1, StoreSound DEF AllowRequest
<1>3. circuits'[m] = c /\ BTypeOK' /\ Stored(m, circuits'[m])
  BY <1>2 DEF Stored, BTypeOK
<1>4. circuits[m] \in Circuit
  BY DEF BTypeOK
<1>5. ~Probes(m) => circuits'[m] = circuits[m]
  BY <1>3
<1>6. Probes(m) => circuits'[m].state = "half_open" /\ circuits[m].state # "closed"
  BY <1>3, <1>4 DEF Circuit, Probes, Recovers
<1> QED
  BY <1>3, <1>5, <1>6

LEMMA SuccessSound ==
    ASSUME BTypeOK, NEW m \in Models, RecordSuccess(m)
    PROVE  /\ BTypeOK'
           /\ Stored(m, circuits'[m])
           /\ circuits[m].state = "half_open" => ~circuits'[m].probe
           /\ circuits[m].state # "half_open" => circuits'[m] = circuits[m]
           /\ circuits'[m].state # circuits[m].state =>
                 circuits[m].state = "half_open" /\ circuits[m].wins + 1 >= SuccessThreshold
<1> DEFINE c == IF Closes(m) THEN Fresh
                ELSE IF circuits[m].state = "half_open"
                     THEN [circuits[m] EXCEPT !.wins = @ + 1, !.probe = FALSE]
                     ELSE circuits[m]
<1>0. circuits[m] \in Circuit
  BY DEF BTypeOK
<1>1. c \in Circuit
  <2>1. CASE ~Closes(m) /\ circuits[m].state = "half_open"
    <3>1. circuits[m].wins + 1 \in 0 .. SuccessThreshold - 1
      BY <1>0, <2>1, BreakerAssumption DEF Circuit, Closes
    <3> QED
      BY <1>0, <2>1, <3>1 DEF Circuit
  <2> QED
    BY <1>0, <2>1, FreshCircuit
<1>2. Stored(m, c)
  BY <1>1, StoreSound DEF RecordSuccess
<1>3. circuits'[m] = c /\ BTypeOK' /\ Stored(m, circuits'[m])
  BY <1>2 DEF Stored, BTypeOK
<1>4. circuits[m] \in Circuit
  BY DEF BTypeOK
<1> HIDE DEF c
<1>5. CASE Closes(m)
  <2>1. c = Fresh
    BY <1>5 DEF c
  <2> QED
    BY <1>3, <1>5, <2>1 DEF Closes, Fresh
<1>6. CASE ~Closes(m) /\ circuits[m].state = "half_open"
  <2>1. c = [circuits[m] EXCEPT !.wins = @ + 1, !.probe = FALSE]
    BY <1>6 DEF c
  <2>2. c.state = "half_open" /\ ~c.probe
    BY <1>4, <1>6, <2>1 DEF Circuit
  <2> QED
    BY <1>3, <1>6, <2>2
<1>7. CASE circuits[m].state # "half_open"
  <2>1. c = circuits[m]
    BY <1>7 DEF c, Closes
  <2> QED
    BY <1>3, <1>7, <2>1
<1> QED
  BY <1>5, <1>6, <1>7

LEMMA FailureSound ==
    ASSUME BTypeOK, NEW m \in Models, NEW k \in Counts(m), RecordFailure(m, k)
    PROVE  /\ BTypeOK'
           /\ Stored(m, circuits'[m])
           /\ circuits[m].state = "half_open" => ~circuits'[m].probe
           /\ circuits[m].state # "half_open" => circuits'[m].probe = circuits[m].probe
           /\ circuits'[m].state \in {circuits[m].state, "open"}
           /\ circuits[m].state = "half_open" => circuits'[m].state = "open"
<1> DEFINE c == IF circuits[m].state = "half_open"
                THEN [circuits[m] EXCEPT !.state = "open", !.wins = 0, !.probe = FALSE, !.ripe = FALSE]
                ELSE IF k >= FailureThreshold
                     THEN [circuits[m] EXCEPT !.state = "open", !.fails = k, !.ripe = FALSE]
                     ELSE [circuits[m] EXCEPT !.fails = k]
<1>1. k \in 0 .. FailureThreshold
  BY BreakerAssumption DEF Counts, BTypeOK, Circuit
<1>0. circuits[m] \in Circuit /\ 0 \in 0 .. SuccessThreshold - 1
  BY BreakerAssumption DEF BTypeOK
<1>2. c \in Circuit
  <2>1. CASE circuits[m].state = "half_open"
    BY <1>0, <2>1 DEF Circuit
  <2>2. CASE circuits[m].state # "half_open" /\ k >= FailureThreshold
    BY <1>0, <1>1, <2>2 DEF Circuit
  <2>3. CASE circuits[m].state # "half_open" /\ ~(k >= FailureThreshold)
    BY <1>0, <1>1, <2>3 DEF Circuit
  <2> QED
    BY <2>1, <2>2, <2>3
<1>3. Stored(m, c)
  BY <1>2, StoreSound DEF RecordFailure
<1>4. circuits'[m] = c /\ BTypeOK' /\ Stored(m, circuits'[m])
  BY <1>3 DEF Stored, BTypeOK
<1>5. circuits[m] \in Circuit
  BY DEF BTypeOK
<1>6. CASE circuits[m].state = "half_open"
  BY <1>4, <1>5, <1>6 DEF Circuit
<1>7. CASE circuits[m].state # "half_open" /\ k >= FailureThreshold
  BY <1>4, <1>5, <1>7 DEF Circuit
<1>8. CASE circuits[m].state # "half_open" /\ ~(k >= FailureThreshold)
  BY <1>4, <1>5, <1>8 DEF Circuit
<1> QED
  BY <1>6, <1>7, <1>8

LEMMA ReleaseSound ==
    ASSUME BTypeOK, NEW m \in Models, ReleaseProbe(m)
    PROVE  /\ BTypeOK'
           /\ Stored(m, circuits'[m])
           /\ circuits'[m].state = circuits[m].state
           /\ circuits[m].state = "half_open" => ~circuits'[m].probe
           /\ circuits[m].state # "half_open" => circuits'[m] = circuits[m]
<1> DEFINE c == IF circuits[m].state = "half_open" THEN [circuits[m] EXCEPT !.probe = FALSE]
                ELSE circuits[m]
<1>1. c \in Circuit
  BY DEF BTypeOK, Circuit
<1>2. Stored(m, c)
  BY <1>1, StoreSound DEF ReleaseProbe
<1> QED
  BY <1>2 DEF Stored, BTypeOK, Circuit
-----------------------------------------------------------------------------
(* The inductive invariant *)

InFlight == {"opening", "retrying", "calling"}

\* The state of each machine: it has a current model wherever it uses one, an
\* attempt left before it counts one, and it is a probe only until its call
\* is settled.
Books ==
    /\ pc \in [Requests -> {"idle", "select", "rejecting", "opening", "retrying", "calling",
                            "reporting", "lost", "odd", "failing"}]
    /\ route \in [Requests -> Routes]
    /\ idx \in [Requests -> Nat \ {0}]
    /\ \A r \in Requests : idx[r] <= Len(route[r]) + 1
    /\ attempts \in [Requests -> 0 .. MaxAttempts]
    /\ pending \in [Requests -> BOOLEAN]
    /\ probing \in [Requests -> BOOLEAN]
    /\ \A r \in Requests :
          /\ pc[r] = "idle" => idx[r] = 1
          /\ pc[r] \notin {"idle", "select"} => idx[r] <= Len(route[r])
          /\ pc[r] = "opening" => attempts[r] < MaxAttempts
          /\ probing[r] => pc[r] \in InFlight

\* Only a half-open circuit has a probe in flight.
FlagHalfOpen == \A m \in Models : circuits[m].probe => circuits[m].state = "half_open"

IInv == BTypeOK /\ FlagHalfOpen /\ Books

LEMMA RoutesHaveModels ==
    ASSUME Books, NEW r \in Requests
    PROVE  /\ Len(route[r]) \in Nat \ {0}
           /\ idx[r] <= Len(route[r]) => Model(r) \in Models
<1>1. route[r] \in Seq(Models) /\ route[r] # <<>>
  BY FallbackAssumption DEF Books
<1> QED
  BY <1>1 DEF Books, Model

LEMMA InitIInv == Init => IInv
<1> SUFFICES ASSUME Init PROVE IInv
  OBVIOUS
<1>1. BTypeOK /\ FlagHalfOpen
  BY FreshCircuit DEF Init, BInit, BTypeOK, FlagHalfOpen, Fresh
<1>2. \A r \in Requests : Len(route[r]) \in Nat \ {0}
  <2> SUFFICES ASSUME NEW r \in Requests PROVE Len(route[r]) \in Nat \ {0}
    OBVIOUS
  <2>1. route[r] \in Seq(Models) /\ route[r] # <<>>
    BY FallbackAssumption DEF Init
  <2> QED
    BY <2>1
<1>3. Books
  BY <1>2, FallbackAssumption DEF Init, Books, InFlight
<1> QED
  BY <1>1, <1>3 DEF IInv

-----------------------------------------------------------------------------
(* The breaker through a step of request r *)

\* Request r settles its call with the breaker of its model m.
Settles(m) ==
    \/ RecordSuccess(m)
    \/ \E k \in Counts(m) : RecordFailure(m, k)
    \/ ReleaseProbe(m)

LEMMA SettlesClears ==
    ASSUME IInv, NEW m \in Models, Settles(m)
    PROVE  /\ BTypeOK'
           /\ Stored(m, circuits'[m])
           /\ ~circuits'[m].probe
<1>1. BTypeOK /\ (circuits[m].probe => circuits[m].state = "half_open")
  BY DEF IInv, FlagHalfOpen
<1>2. CASE RecordSuccess(m)
  BY <1>1, <1>2, SuccessSound
<1>3. CASE \E k \in Counts(m) : RecordFailure(m, k)
  BY <1>1, <1>3, FailureSound
<1>4. CASE ReleaseProbe(m)
  BY <1>1, <1>4, ReleaseSound
<1> QED
  BY <1>2, <1>3, <1>4 DEF Settles

LEMMA BreakerPreserved ==
    ASSUME IInv, NEW m \in Models,
           AllowRequest(m) \/ Settles(m) \/ RecoveryElapses(m) \/ UNCHANGED bvars
    PROVE  BTypeOK' /\ FlagHalfOpen'
<1>1. BTypeOK /\ FlagHalfOpen
  BY DEF IInv
<1>2. \A n \in Models : circuits[n] \in Circuit
  BY <1>1 DEF BTypeOK
<1>3. ~Fresh.probe
  BY DEF Fresh
<1>4. CASE AllowRequest(m)
  BY <1>1, <1>3, <1>4, AllowSound DEF FlagHalfOpen, Stored
<1>5. CASE Settles(m)
  BY <1>1, <1>3, <1>5, SettlesClears DEF FlagHalfOpen, Stored
<1>6. CASE RecoveryElapses(m)
  <2>1. [circuits[m] EXCEPT !.ripe = TRUE] \in Circuit
    BY <1>2 DEF Circuit
  <2>2. /\ circuits' \in [Models -> Circuit] /\ tracked' = tracked
        /\ \A n \in Models : /\ circuits'[n].probe = circuits[n].probe
                             /\ circuits'[n].state = circuits[n].state
    BY <1>1, <1>2, <1>6, <2>1 DEF RecoveryElapses, BTypeOK, Circuit
  <2> QED
    BY <1>1, <2>2 DEF BTypeOK, FlagHalfOpen
<1>7. CASE UNCHANGED bvars
  BY <1>1, <1>7 DEF bvars, BTypeOK, FlagHalfOpen
<1> QED
  BY <1>4, <1>5, <1>6, <1>7

\* What a step of a request does to the breaker, with the model it is at.
LEMMA StepBreaker ==
    ASSUME IInv, NEW r \in Requests, Start(r) \/ Step(r) \/ Cancel(r)
    PROVE  \/ UNCHANGED bvars
           \/ Model(r) \in Models /\ (AllowRequest(Model(r)) \/ Settles(Model(r)))
<1>1. Books
  BY DEF IInv
<1>2. pc[r] \notin {"idle", "select"} => Model(r) \in Models
  BY <1>1, RoutesHaveModels DEF Books
<1>3. CASE Start(r) \/ GiveUp(r) \/ RejectedSent(r) \/ OpeningSent(r) \/ RetrySent(r)
             \/ SuccessReported(r) \/ FailureReported(r) \/ FailureHandlingRaises(r) \/ Cancel(r)
  BY <1>3 DEF Start, GiveUp, RejectedSent, OpeningSent, RetrySent, SuccessReported,
              FailureReported, FailureHandlingRaises, Cancel, bvars
<1>4. CASE \E retryable, transformed \in BOOLEAN : HandleFailure(r, retryable, transformed)
  BY <1>4 DEF HandleFailure, bvars
<1>5. CASE Ask(r)
  <2>1. idx[r] <= Len(route[r])
    BY <1>1, <1>5, RoutesHaveModels DEF Ask, Exhausted, Books
  <2> QED
    BY <1>1, <1>5, <2>1, RoutesHaveModels DEF Ask
<1>6. CASE Succeeds(r)
  BY <1>2, <1>6 DEF Succeeds, Settles
<1>7. CASE Aborts(r)
  BY <1>2, <1>7 DEF Aborts, Settles
<1>8. CASE CallFails(r)
  BY <1>2, <1>8 DEF CallFails, Failed, Settles
<1>9. CASE SendRaises(r)
  BY <1>2, <1>9 DEF SendRaises, Failed, Settles, bvars
<1> QED
  BY <1>3, <1>4, <1>5, <1>6, <1>7, <1>8, <1>9 DEF Step
-----------------------------------------------------------------------------
(* The books through a step of request r *)

LEMMA EndBooks ==
    ASSUME Books, NEW r \in Requests, End(r)
    PROVE  Books'
<1>1. 1 <= Len(route[r]) /\ route' = route
  BY RoutesHaveModels DEF End
<1>2. 0 \in 0 .. MaxAttempts
  BY FallbackAssumption
<1> QED
  BY <1>1, <1>2 DEF Books, End, Goto, InFlight

LEMMA FailedBooks ==
    ASSUME Books, NEW r \in Requests, NEW label \in {"lost", "odd"},
           pc[r] \notin {"idle", "select"}, Failed(r, label)
    PROVE  Books'
BY DEF Books, Failed, Goto, InFlight

LEMMA AdvanceBooks ==
    ASSUME Books, NEW r \in Requests, pc[r] \in {"rejecting", "failing"}, Goto(r, "select"),
           idx' = [idx EXCEPT ![r] = @ + 1], pending' \in [Requests -> BOOLEAN],
           UNCHANGED <<route, attempts, probing>>
    PROVE  Books'
<1>1. /\ idx[r] \in Nat /\ idx[r] <= Len(route[r]) /\ Len(route[r]) \in Nat
      /\ idx'[r] = idx[r] + 1
  BY RoutesHaveModels DEF Books
<1>2. idx'[r] <= Len(route[r]) + 1 /\ idx' \in [Requests -> Nat \ {0}]
  BY <1>1 DEF Books
<1>3. \A s \in Requests \ {r} : idx'[s] = idx[s]
  BY DEF Books
<1> QED
  BY <1>2, <1>3 DEF Books, Goto, InFlight

LEMMA StepBooks ==
    ASSUME Books, NEW r \in Requests, Start(r) \/ Step(r) \/ Cancel(r)
    PROVE  Books'
<1>1. Len(route[r]) \in Nat \ {0} /\ MaxAttempts \in Nat \ {0}
  BY RoutesHaveModels, FallbackAssumption
<1>2. CASE Start(r)
  <2>1. PICK q \in Routes : route' = [route EXCEPT ![r] = q]
    BY <1>2 DEF Start
  <2>2. q \in Seq(Models) /\ q # <<>>
    BY FallbackAssumption
  <2>3. idx[r] = 1
    BY <1>2 DEF Books, Start
  <2> QED
    BY <1>2, <2>1, <2>2, <2>3 DEF Books, Start, Goto, InFlight
<1>3. CASE GiveUp(r) \/ Aborts(r) \/ SuccessReported(r) \/ FailureHandlingRaises(r) \/ Cancel(r)
  BY <1>3, EndBooks DEF GiveUp, Aborts, SuccessReported, FailureHandlingRaises, Cancel
<1>4. CASE Ask(r)
  <2>1. idx[r] <= Len(route[r]) /\ attempts[r] < MaxAttempts
    BY <1>1, <1>4 DEF Books, Ask, Exhausted
  <2>2. probing' = [probing EXCEPT ![r] = Probes(Model(r))] /\ UNCHANGED <<route, idx, pending>>
    BY <1>4 DEF Ask
  <2>3. Probes(Model(r)) \in BOOLEAN
    BY DEF Probes, Recovers
  <2>4. CASE ~Admits(Model(r)) /\ Goto(r, "rejecting") /\ UNCHANGED attempts
    <3>1. probing' = [probing EXCEPT ![r] = FALSE]
      <4>1. Probes(Model(r)) = FALSE
        BY <2>4 DEF Admits, Probes, Recovers
      <4> QED
        BY <2>2, <4>1
    <3>2. pc[r] = "select"
      BY <1>4 DEF Ask
    <3> QED
      BY <2>1, <2>2, <2>4, <3>1, <3>2 DEF Books, Goto, InFlight
  <2>5. CASE Goto(r, "opening") /\ UNCHANGED attempts
    BY <1>4, <2>1, <2>2, <2>3, <2>5 DEF Books, Ask, Goto, InFlight
  <2>6. CASE Attempt(r)
    BY <1>1, <1>4, <2>1, <2>2, <2>3, <2>6 DEF Books, Ask, Attempt, Goto, InFlight
  <2>7. \/ ~Admits(Model(r)) /\ Goto(r, "rejecting") /\ UNCHANGED attempts
        \/ Goto(r, "opening") /\ UNCHANGED attempts
        \/ Attempt(r)
    BY <1>4, Zenon DEF Ask
  <2> QED
    BY <2>4, <2>5, <2>6, <2>7
<1>5. CASE RejectedSent(r)
  <2>1. pending' \in [Requests -> BOOLEAN]
    BY <1>5 DEF Books, RejectedSent
  <2> QED
    BY <1>5, <2>1, AdvanceBooks DEF RejectedSent
<1>6. CASE OpeningSent(r)
  BY <1>1, <1>6 DEF Books, OpeningSent, Attempt, Goto, InFlight
<1>7. CASE RetrySent(r)
  BY <1>1, <1>7 DEF Books, RetrySent, Goto, InFlight
<1>8. CASE Succeeds(r)
  <2>1. CASE Closes(Model(r))
    BY <1>8, <2>1 DEF Books, Succeeds, Goto, InFlight
  <2>2. CASE ~Closes(Model(r))
    BY <1>8, <2>2, EndBooks DEF Succeeds
  <2> QED
    BY <2>1, <2>2
<1>9. CASE CallFails(r)
  BY <1>9, FailedBooks DEF CallFails
<1>10. CASE SendRaises(r)
  BY <1>10, EndBooks, FailedBooks DEF SendRaises
<1>11. CASE FailureReported(r)
  <2>1. CASE End(r)
    BY <2>1, EndBooks
  <2>2. CASE ~End(r)
    BY <1>11, <2>2 DEF Books, FailureReported, Goto, InFlight
  <2> QED
    BY <2>1, <2>2
<1>12. ASSUME NEW retryable \in BOOLEAN, NEW transformed \in BOOLEAN,
              HandleFailure(r, retryable, transformed)
       PROVE  Books'
  <2>1. CASE End(r)
    BY <2>1, EndBooks
  <2> DEFINE again == transformed /\ ~pending[r]
  <2>2. CASE ~End(r) /\ again
    BY <1>12, <2>2 DEF Books, HandleFailure, Goto, InFlight
  <2>3. CASE ~End(r) /\ ~again
    <3>1. /\ pc[r] = "failing" /\ Goto(r, "select")
          /\ idx' = [idx EXCEPT ![r] = @ + 1]
          /\ pending' = [pending EXCEPT ![r] = again]
          /\ UNCHANGED <<route, attempts, probing>>
      BY <1>12, <2>3 DEF HandleFailure
    <3>2. pending' \in [Requests -> BOOLEAN]
      BY <2>3, <3>1 DEF Books
    <3> QED
      BY <3>1, <3>2, AdvanceBooks
  <2> QED
    BY <2>1, <2>2, <2>3
<1> QED
  BY <1>2, <1>3, <1>4, <1>5, <1>6, <1>7, <1>8, <1>9, <1>10, <1>11, <1>12 DEF Step

-----------------------------------------------------------------------------
(* Invariance and types *)

LEMMA NextIInv == IInv /\ [Next]_vars => IInv'
<1> SUFFICES ASSUME IInv, [Next]_vars PROVE IInv'
  OBVIOUS
<1>1. ASSUME NEW r \in Requests, Start(r) \/ Step(r) \/ Cancel(r)
      PROVE  IInv'
  <2>1. Books'
    BY <1>1, StepBooks DEF IInv
  <2>2. BTypeOK' /\ FlagHalfOpen'
    <3>1. CASE UNCHANGED bvars
      BY <3>1 DEF IInv, BTypeOK, FlagHalfOpen, bvars
    <3>2. CASE Model(r) \in Models /\ (AllowRequest(Model(r)) \/ Settles(Model(r)))
      BY <3>2, BreakerPreserved
    <3> QED
      BY <1>1, <3>1, <3>2, StepBreaker
  <2> QED
    BY <2>1, <2>2 DEF IInv
<1>2. ASSUME NEW m \in Models, RecoveryElapses(m), UNCHANGED rvars
      PROVE  IInv'
  BY <1>2, BreakerPreserved DEF IInv, Books, rvars
<1>3. CASE UNCHANGED vars
  BY <1>3 DEF IInv, BTypeOK, FlagHalfOpen, Books, vars
<1> QED
  BY <1>1, <1>2, <1>3 DEF Next

THEOREM Invariance == Spec => []IInv
BY InitIInv, NextIInv, PTL DEF Spec

\* Breakers and state machines keep their types: no request runs off its route
\* or exceeds its attempts, no circuit counts beyond its thresholds.
THEOREM TypeCorrect == Spec => []TypeOK
<1>1. IInv => TypeOK
  BY DEF IInv, Books, TypeOK
<1> QED
  BY <1>1, Invariance, PTL

-----------------------------------------------------------------------------
(* How an open circuit closes *)

LEMMA OperationClosesByProbing ==
    ASSUME IInv, NEW m \in Models, AllowRequest(m) \/ Settles(m), NEW n \in Models
    PROVE  /\ circuits[n].state = "open" => circuits'[n].state # "closed"
           /\ (circuits[n].state = "half_open" /\ circuits'[n].state = "closed")
                 => circuits[n].wins = SuccessThreshold - 1
<1>1. BTypeOK /\ circuits[n] \in Circuit
  BY DEF IInv, BTypeOK
<1>2. circuits[n].wins \in 0 .. SuccessThreshold - 1 /\ SuccessThreshold \in Nat
  BY <1>1, BreakerAssumption DEF Circuit
<1>3. CASE n # m
  BY <1>1, <1>3, AllowSound, SettlesClears DEF Stored
<1>4. CASE n = m /\ AllowRequest(m)
  BY <1>1, <1>4, AllowSound
<1>5. CASE n = m /\ RecordSuccess(m)
  BY <1>1, <1>2, <1>5, SuccessSound
<1>6. CASE n = m /\ \E k \in Counts(m) : RecordFailure(m, k)
  BY <1>1, <1>6, FailureSound
<1>7. CASE n = m /\ ReleaseProbe(m)
  BY <1>1, <1>7, ReleaseSound
<1> QED
  BY <1>3, <1>4, <1>5, <1>6, <1>7 DEF Settles

\* Neither eviction, a late answer, a cancelled request nor a failing send
\* closes an open circuit; a half-open one closes at its last success only.
THEOREM OpenClosesByProbingHolds == Spec => OpenClosesByProbing
<1> DEFINE A == \A m \in Models :
          /\ circuits[m].state = "open" => circuits'[m].state # "closed"
          /\ (circuits[m].state = "half_open" /\ circuits'[m].state = "closed")
                => circuits[m].wins = SuccessThreshold - 1
<1>1. IInv /\ [Next]_vars => A
  <2> SUFFICES ASSUME IInv, [Next]_vars PROVE A
    OBVIOUS
  <2>1. CASE UNCHANGED bvars
    BY <2>1 DEF bvars
  <2>2. ASSUME NEW r \in Requests, Start(r) \/ Step(r) \/ Cancel(r)
        PROVE  A
    BY <2>1, <2>2, StepBreaker, OperationClosesByProbing
  <2>3. ASSUME NEW m \in Models, RecoveryElapses(m)
        PROVE  A
    <3>1. \A n \in Models : circuits'[n].state = circuits[n].state
      BY <2>3 DEF RecoveryElapses, IInv, BTypeOK, Circuit
    <3> QED
      BY <3>1
  <2> QED
    BY <2>1, <2>2, <2>3 DEF Next, vars, bvars
<1>2. IInv /\ [Next]_vars => [A]_vars
  BY <1>1
<1> QED
  BY <1>2, Invariance, PTL DEF Spec, OpenClosesByProbing

-----------------------------------------------------------------------------
(* The owner of a probe *)

\* A request that is nobody's probe keeps every owner when it moves on; one
\* that settles its call clears its own flag only.
LEMMA OwnersKept ==
    ASSUME IInv, ProbeHasOwner, NEW r \in Requests, UNCHANGED bvars,
           probing[r] => probing'[r] /\ Model(r)' = Model(r),
           \A s \in Requests \ {r} : probing'[s] = probing[s] /\ Model(s)' = Model(s)
    PROVE  ProbeHasOwner'
BY DEF ProbeHasOwner, bvars

LEMMA OwnersSettled ==
    ASSUME IInv, ProbeHasOwner, NEW r \in Requests,
           Model(r) \in Models, Settles(Model(r)),
           \A s \in Requests \ {r} : probing'[s] = probing[s] /\ Model(s)' = Model(s)
    PROVE  ProbeHasOwner'
<1>1. Stored(Model(r), circuits'[Model(r)]) /\ ~circuits'[Model(r)].probe
  BY SettlesClears
<1>2. \A n \in Models : circuits'[n].probe => n # Model(r) /\ circuits[n].probe
  BY <1>1 DEF Stored, Fresh
<1> QED
  BY <1>2 DEF ProbeHasOwner

LEMMA OwnersAsked ==
    ASSUME IInv, ProbeHasOwner, NEW r \in Requests, Ask(r), Model(r) \in Models
    PROVE  ProbeHasOwner'
<1> DEFINE m == Model(r)
<1>1. /\ BTypeOK /\ Books /\ AllowRequest(m)
      /\ probing' = [probing EXCEPT ![r] = Probes(m)] /\ UNCHANGED <<route, idx>>
  BY DEF IInv, Ask
<1>2. ~probing[r] /\ \A s \in Requests : Model(s)' = Model(s)
  BY <1>1 DEF Books, Ask, InFlight, Model
<1>3. \A s \in Requests \ {r} : probing'[s] = probing[s]
  BY <1>1 DEF Books
<1>4. /\ Stored(m, circuits'[m])
      /\ ~Probes(m) => circuits'[m] = circuits[m]
  BY <1>1, AllowSound
<1>5. Probes(m) => probing'[r]
  BY <1>1 DEF Books
<1> SUFFICES ASSUME NEW n \in Models, circuits'[n].probe
             PROVE  \E s \in Requests : probing'[s] /\ Model(s)' = n
  BY DEF ProbeHasOwner
<1>6. CASE n = m /\ Probes(m)
  BY <1>2, <1>5, <1>6
<1>7. CASE circuits[n].probe
  <2>1. PICK s \in Requests : probing[s] /\ Model(s) = n
    BY <1>7 DEF ProbeHasOwner
  <2> QED
    BY <1>2, <1>3, <2>1
<1> QED
  BY <1>4, <1>6, <1>7 DEF Stored, Fresh

LEMMA OthersKept ==
    ASSUME Books, NEW r \in Requests, Start(r) \/ Step(r) \/ Cancel(r)
    PROVE  \A s \in Requests \ {r} : probing'[s] = probing[s] /\ Model(s)' = Model(s)
<1>1. ASSUME NEW s \in Requests \ {r}
      PROVE  probing'[s] = probing[s] /\ route'[s] = route[s] /\ idx'[s] = idx[s]
  <2>1. CASE Start(r)
    BY <2>1 DEF Books, Start
  <2>2. CASE End(r)
    BY <2>2 DEF Books, End
  <2>3. CASE ~End(r) /\ (Step(r) \/ Cancel(r))
    <3>1. CASE GiveUp(r) \/ Ask(r) \/ RejectedSent(r) \/ OpeningSent(r) \/ RetrySent(r)
      BY <2>3, <3>1 DEF Books, GiveUp, Ask, RejectedSent, OpeningSent, RetrySent
    <3>2. CASE Succeeds(r) \/ Aborts(r) \/ CallFails(r) \/ SendRaises(r)
      BY <2>3, <3>2 DEF Books, Succeeds, Aborts, CallFails, SendRaises, Failed
    <3>3. CASE SuccessReported(r) \/ FailureReported(r) \/ FailureHandlingRaises(r) \/ Cancel(r)
      BY <2>3, <3>3 DEF Books, SuccessReported, FailureReported, FailureHandlingRaises, Cancel
    <3>4. CASE \E retryable, transformed \in BOOLEAN : HandleFailure(r, retryable, transformed)
      BY <2>3, <3>4 DEF Books, HandleFailure
    <3> QED
      BY <2>3, <3>1, <3>2, <3>3, <3>4 DEF Step
  <2> QED
    BY <2>1, <2>2, <2>3
<1> QED
  BY <1>1 DEF Model

LEMMA NextOwner ==
    ASSUME ~MayCancel, "other" \notin SendErrors, IInv, ProbeHasOwner, [Next]_vars
    PROVE  ProbeHasOwner'
<1>1. ASSUME NEW r \in Requests, Start(r) \/ Step(r)
      PROVE  ProbeHasOwner'
  <2>1. /\ Books
        /\ \A s \in Requests \ {r} : probing'[s] = probing[s] /\ Model(s)' = Model(s)
    BY <1>1, OthersKept DEF IInv
  <2>2. pc[r] \notin {"idle", "select"} => Model(r) \in Models
    BY <2>1, RoutesHaveModels DEF Books
  <2>3. CASE ~probing[r] /\ UNCHANGED bvars
    BY <2>1, <2>3, OwnersKept
  <2>4. CASE OpeningSent(r) \/ RetrySent(r)
    <3>1. /\ UNCHANGED bvars /\ probing'[r] = probing[r]
          /\ route'[r] = route[r] /\ idx'[r] = idx[r]
      BY <2>4 DEF OpeningSent, RetrySent, bvars
    <3> QED
      BY <2>1, <3>1, OwnersKept DEF Model
  <2>5. CASE Start(r) \/ GiveUp(r) \/ RejectedSent(r) \/ SuccessReported(r)
               \/ FailureReported(r) \/ FailureHandlingRaises(r)
    BY <2>1, <2>3, <2>5 DEF Books, InFlight, Start, GiveUp, RejectedSent, SuccessReported,
                            FailureReported, FailureHandlingRaises, bvars
  <2>6. CASE \E retryable, transformed \in BOOLEAN : HandleFailure(r, retryable, transformed)
    BY <2>1, <2>3, <2>6 DEF Books, InFlight, HandleFailure
  <2>7. CASE Ask(r)
    <3>1. Model(r) \in Models
      BY <2>1, <2>7, RoutesHaveModels DEF Ask, Exhausted, Books
    <3> QED
      BY <2>7, <3>1, OwnersAsked
  <2>8. CASE Succeeds(r) \/ Aborts(r) \/ CallFails(r) \/ SendRaises(r)
    <3>1. Model(r) \in Models /\ Settles(Model(r))
      BY <2>2, <2>8 DEF Succeeds, Aborts, CallFails, SendRaises, Failed, Settles
    <3> QED
      BY <2>1, <3>1, OwnersSettled
  <2> QED
    BY <1>1, <2>4, <2>5, <2>6, <2>7, <2>8 DEF Step
<1>2. ASSUME NEW m \in Models, RecoveryElapses(m), UNCHANGED rvars
      PROVE  ProbeHasOwner'
  <2>1. \A n \in Models : circuits'[n].probe = circuits[n].probe
    BY <1>2 DEF RecoveryElapses, IInv, BTypeOK, Circuit
  <2> QED
    BY <1>2, <2>1 DEF ProbeHasOwner, Model, rvars
<1>3. CASE UNCHANGED vars
  BY <1>3 DEF ProbeHasOwner, Model, vars
<1> QED
  BY <1>1, <1>2, <1>3 DEF Next, Cancel

\* If no request is cancelled and sends fail by disconnecting only, a model is
\* never blocked by a probe nobody makes: for any number of requests and
\* models, any routes, thresholds and size of the table.
THEOREM ProbeHasOwnerHolds ==
    ASSUME ~MayCancel, "other" \notin SendErrors
    PROVE  Spec => []ProbeHasOwner
<1>1. Init => ProbeHasOwner
  BY DEF Init, BInit, Fresh, ProbeHasOwner
<1>2. IInv /\ ProbeHasOwner /\ [Next]_vars => ProbeHasOwner'
  BY NextOwner
<1> QED
  BY <1>1, <1>2, Invariance, PTL DEF Spec

-----------------------------------------------------------------------------
(* RuntimeSwitch: the inductive invariant *)

RealModels == {LocalModel, Alias, ApiModel}
SomeModels == RealModels \union {"none"}
Endpoints == [runtime : Runtimes \union {"none"}, model : SomeModels]
States2 == [runtime : Runtimes, model : RealModels, flags : Flags]
Held == Attempt2 \union {"failing", "rolledback"}
SwitchPlaces == Held \union {"idle", "lock", "done", "failed", "broken"}
JobPlaces == {"new", "refused", "ensure", "note", "ready", "running", "over"}
SwitchRecords == [at : SwitchPlaces, target : Runtimes, attempt : 0 .. 2, before : States2 \union {NoClient}]
JobRecords == [at : JobPlaces, shares : BOOLEAN, seen : Endpoints, model : SomeModels, used : Endpoints]

RuntimeShapes ==
    /\ current \in States2
    /\ lock \in Switches \union {"none"} /\ trouble \in 0 .. MaxTrouble
    /\ switch \in [Switches -> SwitchRecords] /\ job \in [Jobs -> JobRecords]
    /\ client \in [Agents -> Endpoints]
    /\ asked \in Flags /\ overlapped \in BOOLEAN /\ crossed \in BOOLEAN

\* A state whose model is one of its runtime, and whose flags were asked for.
Fits(state) == state.runtime = "api" <=> state.model = ApiModel

\* The file holds the state in use, or an earlier one when writing it failed.
FileOk ==
    /\ stateFile \in States2 /\ unkept \in BOOLEAN /\ lost \in 0 .. MaxTrouble
    /\ StateKept /\ (~crossed => Fits(stateFile))

\* A switch past the lock holds it, and what it would go back to is as good
\* as the state in use was when it began.
SwitchOk(s) ==
    /\ switch[s].at \in Held <=> lock = s
    /\ switch[s].at \in Held =>
         /\ switch[s].before \in States2
         /\ ~crossed => Fits(switch[s].before)
         /\ ~overlapped => switch[s].before.flags = asked
    /\ switch[s].at = "model" => switch[s].target = "local"
    /\ switch[s].at = "chosen" => switch[s].target = "api"

\* A request looks for a model of the local runtime only, in the state it
\* took; what it took stays what it was when another replaces it.
JobOk(j) ==
    /\ job[j].at \notin {"ensure", "note"} => ~job[j].shares
    /\ job[j].at \in {"ensure", "note"} =>
         /\ Took(j).runtime = "local" /\ job[j].model \in RealModels
         /\ ~crossed => job[j].model \in {LocalModel, Alias}
    /\ job[j].at = "running" => client[AgentOf[j]] = job[j].used

RuntimeInv ==
    /\ RuntimeShapes /\ FileOk
    /\ ~crossed => Fits(current)
    /\ FlagsKept
    /\ \A s \in Switches : SwitchOk(s)
    /\ \A j \in Jobs : JobOk(j)

LEMMA RuntimeBegins == RuntimeInit => RuntimeInv
<1> SUFFICES ASSUME RuntimeInit PROVE RuntimeInv
  OBVIOUS
<1>1. Unasked \in Flags
  BY RuntimeSwitchAssumption DEF Unasked
<1>2. NoClient \in Endpoints /\ Resting("idle") \in SwitchRecords /\ Resting("done") \in SwitchRecords
  BY DEF NoClient, Resting, Switching, Endpoints, SwitchRecords, SwitchPlaces, Held, Runtimes, SomeModels, RealModels
<1>3. JobAt("new") \in JobRecords /\ JobAt("over") \in JobRecords
  BY <1>2 DEF JobAt, Job, JobRecords, JobPlaces, SomeModels, RealModels
<1>4. current \in States2
  BY <1>1 DEF RuntimeInit, State, States2, Runtimes, SomeModels, RealModels
<1>5. /\ switch \in [Switches -> SwitchRecords] /\ \A s \in Switches : switch[s].at \in {"idle", "done"}
      /\ job \in [Jobs -> JobRecords] /\ \A j \in Jobs : job[j].at \in {"new", "over"} /\ ~job[j].shares
  <2>1. PICK x \in {CHOOSE s \in Switches : TRUE, CHOOSE j \in Jobs : TRUE} :
         /\ switch = [s \in Switches |-> IF s = x THEN Resting("done") ELSE Resting("idle")]
         /\ job = [j \in Jobs |-> IF j = x THEN JobAt("over") ELSE JobAt("new")]
    BY DEF RuntimeInit
  <2>2. switch \in [Switches -> SwitchRecords] /\ job \in [Jobs -> JobRecords]
    BY <1>2, <1>3, <2>1
  <2>3. Resting("idle").at = "idle" /\ Resting("done").at = "done"
    BY DEF Resting, Switching
  <2>4. JobAt("new").at = "new" /\ JobAt("over").at = "over" /\ ~JobAt("new").shares /\ ~JobAt("over").shares
    BY DEF JobAt, Job
  <2> QED
    BY <2>1, <2>2, <2>3, <2>4
<1>6. RuntimeShapes
  <2>1. /\ stateFile = current /\ lock = "none" /\ trouble = 0 /\ client = [a \in Agents |-> NoClient]
        /\ asked = Unasked /\ overlapped = FALSE /\ crossed = FALSE
    BY DEF RuntimeInit
  <2>2. client \in [Agents -> Endpoints]
    BY <1>2, <2>1
  <2>3. trouble \in 0 .. MaxTrouble
    BY <2>1, RuntimeSwitchAssumption
  <2> QED
    BY <1>1, <1>4, <1>5, <2>1, <2>2, <2>3 DEF RuntimeShapes
<1>7. Fits(current) /\ FlagsKept
  BY RuntimeSwitchAssumption DEF RuntimeInit, State, Fits, FlagsKept
<1>10. FileOk
  <2>1. stateFile = current /\ unkept = FALSE /\ lost = 0
    BY DEF RuntimeInit
  <2>2. lost \in 0 .. MaxTrouble
    BY <2>1, RuntimeSwitchAssumption
  <2> QED
    BY <1>4, <1>7, <2>1, <2>2 DEF FileOk, StateKept
<1>8. \A s \in Switches : SwitchOk(s)
  BY <1>5, RuntimeSwitchAssumption DEF RuntimeInit, SwitchOk, Held, Attempt2
<1>9. \A j \in Jobs : JobOk(j)
  BY <1>5 DEF JobOk
<1> QED
  BY <1>6, <1>7, <1>8, <1>9, <1>10 DEF RuntimeInv

\* What the writing of a new state leaves, whether it fails or not.
LEMMA FileMoves ==
    ASSUME RuntimeInv, current' \in States2, crossed => crossed', ~crossed' => Fits(current'),
           Kept \/ Loses \/ (NotKept /\ UNCHANGED lost), trouble \in 0 .. MaxTrouble
    PROVE  FileOk'
<1>1. stateFile \in States2 /\ lost \in 0 .. MaxTrouble /\ (~crossed => Fits(stateFile))
  BY DEF RuntimeInv, FileOk
<1>2. CASE Kept
  BY <1>1, <1>2 DEF Kept, FileOk, StateKept, Fits
<1>3. CASE Loses \/ (NotKept /\ UNCHANGED lost)
  <2>1. lost' \in 0 .. MaxTrouble
    BY <1>1, <1>3, RuntimeSwitchAssumption DEF Loses
  <2> QED
    BY <1>1, <1>3, <2>1 DEF Loses, NotKept, FileOk, StateKept, Fits
<1> QED
  BY <1>2, <1>3

LEMMA FileRests ==
    ASSUME RuntimeInv, UNCHANGED <<current, stateFile, unkept, lost>>, crossed => crossed'
    PROVE  FileOk'
BY DEF RuntimeInv, FileOk, StateKept, Fits

\* What keeps the requests as they are.
LEMMA JobsKept ==
    ASSUME RuntimeInv, job' = job, client' = client, current'.runtime = current.runtime, crossed => crossed'
    PROVE  \A j \in Jobs : JobOk(j)'
<1> SUFFICES ASSUME NEW j \in Jobs PROVE JobOk(j)'
  OBVIOUS
<1>1. JobOk(j)
  BY DEF RuntimeInv
<1>2. Took(j)'.runtime = Took(j).runtime
  BY DEF Took, Endpoint
<1> QED
  BY <1>1, <1>2 DEF JobOk

\* A step of a switch: it gets the lock, keeps it, or leaves it.
LEMMA SwitchMoves ==
    ASSUME RuntimeInv, NEW s \in Switches, NEW r \in SwitchRecords,
           switch' = [switch EXCEPT ![s] = r],
           (lock' = lock) \/ (lock = "none" /\ lock' = s) \/ (lock = s /\ lock' = "none"),
           r.at \in Held <=> lock' = s,
           r.at \in Held => /\ r.before \in States2
                            /\ ~crossed => Fits(r.before)
                            /\ ~overlapped => r.before.flags = asked,
           r.at = "model" => r.target = "local", r.at = "chosen" => r.target = "api",
           UNCHANGED <<asked, overlapped, crossed>>
    PROVE  /\ switch' \in [Switches -> SwitchRecords] /\ lock' \in Switches \union {"none"}
           /\ \A x \in Switches : SwitchOk(x)'
<1>1. /\ switch \in [Switches -> SwitchRecords] /\ lock \in Switches \union {"none"}
      /\ \A x \in Switches : SwitchOk(x)
  BY DEF RuntimeInv, RuntimeShapes
<1>2. switch' \in [Switches -> SwitchRecords] /\ lock' \in Switches \union {"none"}
  BY <1>1
<1>3. ASSUME NEW x \in Switches PROVE SwitchOk(x)'
  <2>1. CASE x = s
    <3>1. switch'[x] = r
      BY <1>1, <2>1
    <3> QED
      BY <2>1, <3>1 DEF SwitchOk, Fits
  <2>2. CASE x # s
    <3>1. switch'[x] = switch[x] /\ SwitchOk(x)
      BY <1>1, <2>2
    <3>2. lock' = x <=> lock = x
      BY <2>2, RuntimeSwitchAssumption
    <3> QED
      BY <3>1, <3>2 DEF SwitchOk, Fits
  <2> QED
    BY <2>1, <2>2
<1> QED
  BY <1>2, <1>3

\* Such a step that leaves the state in use alone.
LEMMA SwitchRests ==
    ASSUME RuntimeInv, NEW s \in Switches, NEW r \in SwitchRecords,
           switch' = [switch EXCEPT ![s] = r],
           (lock' = lock) \/ (lock = "none" /\ lock' = s) \/ (lock = s /\ lock' = "none"),
           r.at \in Held <=> lock' = s,
           r.at \in Held => /\ r.before \in States2
                            /\ ~crossed => Fits(r.before)
                            /\ ~overlapped => r.before.flags = asked,
           r.at = "model" => r.target = "local", r.at = "chosen" => r.target = "api",
           UNCHANGED <<current, stateFile, unkept, lost, job, client, asked, overlapped, crossed>>,
           trouble' \in 0 .. MaxTrouble
    PROVE  RuntimeInv'
<1>1. /\ switch' \in [Switches -> SwitchRecords] /\ lock' \in Switches \union {"none"}
      /\ \A x \in Switches : SwitchOk(x)'
  BY SwitchMoves
<1>2. \A j \in Jobs : JobOk(j)'
  BY JobsKept
<1>3. RuntimeShapes'
  BY <1>1 DEF RuntimeInv, RuntimeShapes
<1>4. (~crossed => Fits(current))' /\ FlagsKept'
  BY DEF RuntimeInv, Fits, FlagsKept
<1> QED
  BY <1>1, <1>2, <1>3, <1>4, FileRests DEF RuntimeInv

LEMMA SwitchFacts ==
    ASSUME RuntimeInv, NEW s \in Switches
    PROVE  /\ switch[s] \in SwitchRecords /\ SwitchOk(s) /\ s # "none"
           /\ current \in States2 /\ (~crossed => Fits(current)) /\ (~overlapped => current.flags = asked)
           /\ trouble \in 0 .. MaxTrouble /\ MaxTrouble \in Nat
BY RuntimeSwitchAssumption DEF RuntimeInv, RuntimeShapes, FlagsKept

LEMMA Moved ==
    ASSUME NEW r \in SwitchRecords, NEW at \in SwitchPlaces
    PROVE  [r EXCEPT !.at = at] \in SwitchRecords
BY DEF SwitchRecords

LEMMA RequestKeeps ==
    ASSUME RuntimeInv, NEW s \in Switches, Request(s) PROVE RuntimeInv'
<1>1. PICK target \in Runtimes : switch' = [switch EXCEPT ![s] = Switching("lock", target, 0, NoClient)]
  BY DEF Request
<1> DEFINE r == Switching("lock", target, 0, NoClient)
<1>2. r \in SwitchRecords /\ r.at = "lock"
  BY DEF Switching, SwitchRecords, SwitchPlaces
<1>3. "lock" \notin Held /\ lock # s
  BY SwitchFacts DEF Request, SwitchOk, Held, Attempt2
<1>4. UNCHANGED <<current, stateFile, unkept, lost, job, client, asked, overlapped, crossed, lock, trouble>>
  BY DEF Request
<1> HIDE DEF r
<1> QED
  BY <1>1, <1>2, <1>3, <1>4, SwitchRests, SwitchFacts DEF r

LEMMA AcquireKeeps ==
    ASSUME RuntimeInv, NEW s \in Switches, Acquire(s) PROVE RuntimeInv'
<1> DEFINE r == Switching("begin", switch[s].target, 1, current)
<1>1. switch[s] \in SwitchRecords /\ current \in States2
  BY SwitchFacts
<1>2. switch' = [switch EXCEPT ![s] = r]
  BY DEF Acquire
<1>3. r \in SwitchRecords /\ r.at = "begin" /\ r.before = current
  BY <1>1 DEF Switching, SwitchRecords, SwitchPlaces, Held, Attempt2
<1>4. "begin" \in Held /\ lock = "none" /\ lock' = s
  BY DEF Acquire, Held, Attempt2
<1>5. UNCHANGED <<current, stateFile, unkept, lost, job, client, asked, overlapped, crossed, trouble>>
  BY DEF Acquire
<1> HIDE DEF r
<1> QED
  BY <1>1, <1>2, <1>3, <1>4, <1>5, SwitchRests, SwitchFacts

\* A switch goes on, still holding the lock.
LEMMA SwitchGoesOn ==
    ASSUME RuntimeInv, NEW s \in Switches, NEW at \in Held, switch[s].at \in Held, Goes(s, at), lock' = lock,
           at = "model" => switch[s].target = "local", at = "chosen" => switch[s].target = "api",
           UNCHANGED <<current, stateFile, unkept, lost, job, client, asked, overlapped, crossed>>,
           trouble' \in 0 .. MaxTrouble
    PROVE  RuntimeInv'
<1> DEFINE r == [switch[s] EXCEPT !.at = at]
<1>1. r \in SwitchRecords /\ switch[s] \in SwitchRecords
  BY SwitchFacts, Moved DEF SwitchPlaces
<1>2. r.at = at /\ r.before = switch[s].before /\ r.target = switch[s].target
  BY <1>1 DEF SwitchRecords
<1>3. switch' = [switch EXCEPT ![s] = r]
  BY DEF Goes
<1>4. SwitchOk(s)
  BY DEF RuntimeInv
<1>5. lock = s
  BY <1>4 DEF SwitchOk
<1>6. /\ switch[s].before \in States2
      /\ ~crossed => Fits(switch[s].before)
      /\ ~overlapped => switch[s].before.flags = asked
  BY <1>4 DEF SwitchOk
<1> HIDE DEF r
<1> QED
  BY <1>1, <1>2, <1>3, <1>5, <1>6, SwitchRests

\* A switch ends, and leaves the lock.
LEMMA SwitchEnds ==
    ASSUME RuntimeInv, NEW s \in Switches, NEW at \in {"done", "broken", "failed"},
           switch[s].at \in Held, Leaves(s, at),
           UNCHANGED <<current, stateFile, unkept, lost, job, client, asked, overlapped, crossed>>,
           trouble' \in 0 .. MaxTrouble
    PROVE  RuntimeInv'
<1> DEFINE r == Resting(at)
<1>2. r \in SwitchRecords /\ r.at = at
  BY DEF Resting, Switching, SwitchRecords, SwitchPlaces, Runtimes
<1>3. switch' = [switch EXCEPT ![s] = r] /\ lock' = "none" /\ lock = s /\ s # "none"
  BY SwitchFacts DEF Leaves, SwitchOk
<1>4. at \notin Held /\ at \notin {"model", "chosen"}
  BY DEF Held, Attempt2
<1> HIDE DEF r
<1> QED
  BY <1>2, <1>3, <1>4, SwitchRests

LEMMA BeginKeeps ==
    ASSUME RuntimeInv, NEW s \in Switches, Begin(s) PROVE RuntimeInv'
<1>1. /\ switch[s].at \in Held /\ "gateway" \in Held /\ Goes(s, "gateway")
      /\ UNCHANGED <<lock, current, stateFile, unkept, lost, job, client, asked, overlapped, crossed, trouble>>
  BY DEF Begin, Held, Attempt2
<1> QED
  BY <1>1, SwitchGoesOn, SwitchFacts

LEMMA GatewayReadyKeeps ==
    ASSUME RuntimeInv, NEW s \in Switches, GatewayReady(s) PROVE RuntimeInv'
<1>1. /\ switch[s].at \in Held /\ "model" \in Held /\ "chosen" \in Held
      /\ UNCHANGED <<lock, current, stateFile, unkept, lost, job, client, asked, overlapped, crossed, trouble>>
  BY DEF GatewayReady, Held, Attempt2
<1>2. switch[s].target \in Runtimes
  BY SwitchFacts DEF SwitchRecords
<1>3. CASE switch[s].target = "local"
  BY <1>1, <1>3, SwitchGoesOn, SwitchFacts DEF GatewayReady
<1>4. CASE switch[s].target = "api"
  BY <1>1, <1>4, SwitchGoesOn, SwitchFacts DEF GatewayReady
<1> QED
  BY <1>2, <1>3, <1>4 DEF Runtimes

LEMMA SucceedKeeps ==
    ASSUME RuntimeInv, NEW s \in Switches, Succeed(s) \/ RolledBack(s) PROVE RuntimeInv'
<1>1. switch[s].at \in Held
  BY DEF Succeed, RolledBack, Held, Attempt2
<1>2. UNCHANGED <<current, stateFile, unkept, lost, job, client, asked, overlapped, crossed, trouble>>
  BY DEF Succeed, RolledBack
<1>3. Leaves(s, "done") \/ Leaves(s, "failed")
  BY DEF Succeed, RolledBack
<1> QED
  BY <1>1, <1>2, <1>3, SwitchEnds, SwitchFacts

LEMMA AttemptFailsKeeps ==
    ASSUME RuntimeInv, NEW s \in Switches, AttemptFails(s) \/ Unreported(s) PROVE RuntimeInv'
<1>1. switch[s].at \in Held /\ "failing" \in Held
  BY DEF AttemptFails, Unreported, Held, Attempt2
<1>2. UNCHANGED <<current, stateFile, unkept, lost, job, client, asked, overlapped, crossed>>
  BY DEF AttemptFails, Unreported
<1>3. trouble' \in 0 .. MaxTrouble
  <2>1. trouble + lost < MaxTrouble /\ trouble' = trouble + 1 /\ lost \in Nat
    BY DEF AttemptFails, Unreported, Trouble, RuntimeInv, FileOk
  <2> QED
    BY <2>1, SwitchFacts
<1>4. (Goes(s, "failing") /\ lock' = lock) \/ Leaves(s, "broken")
  BY DEF AttemptFails, Unreported
<1> QED
  BY <1>1, <1>2, <1>3, <1>4, SwitchEnds, SwitchGoesOn

\* Another state in use: the requests that took the old one keep what it said.
LEMMA JobsKeepWhatTheyTook ==
    ASSUME RuntimeInv, NEW new \in States2, Replaced(new), client' = client, crossed' = crossed
    PROVE  job' \in [Jobs -> JobRecords] /\ \A j \in Jobs : JobOk(j)'
<1>1. job \in [Jobs -> JobRecords] /\ current \in States2
  BY DEF RuntimeInv, RuntimeShapes
<1>2. Endpoint(current) \in Endpoints
  BY <1>1 DEF Endpoint, Endpoints, States2, SomeModels
<1>3. ASSUME NEW j \in Jobs PROVE job'[j] \in JobRecords /\ JobOk(j)'
  <2>1. JobOk(j) /\ job[j] \in JobRecords
    BY <1>1 DEF RuntimeInv
  <2>2. CASE job[j].shares
    <3> DEFINE r == Job(job[j].at, FALSE, Endpoint(current), job[j].model, job[j].used)
    <3>1. job'[j] = r
      BY <2>2 DEF Replaced
    <3>2. /\ r \in JobRecords /\ ~r.shares /\ r.seen = Endpoint(current)
          /\ r.at = job[j].at /\ r.model = job[j].model
      BY <1>2, <2>1 DEF Job, JobRecords
    <3>3. Took(j) = Endpoint(current) /\ Took(j)' = Endpoint(current)
      BY <2>2, <3>1, <3>2 DEF Took
    <3>4. job[j].at \in {"ensure", "note"}
      BY <2>1, <2>2 DEF JobOk
    <3>5. /\ Took(j).runtime = "local" /\ job[j].model \in RealModels
          /\ ~crossed => job[j].model \in {LocalModel, Alias}
      BY <2>1, <3>4 DEF JobOk
    <3> HIDE DEF r
    <3> QED
      BY <3>1, <3>2, <3>3, <3>4, <3>5 DEF JobOk
  <2>3. CASE ~job[j].shares
    <3>1. job'[j] = job[j]
      BY <2>3 DEF Replaced
    <3>2. Took(j)' = Took(j)
      BY <2>3, <3>1 DEF Took
    <3> QED
      BY <2>1, <3>1, <3>2 DEF JobOk
  <2> QED
    BY <2>2, <2>3
<1>4. job' = [j \in Jobs |-> job'[j]]
  BY DEF Replaced
<1> QED
  BY <1>3, <1>4

\* A switch that holds the lock puts a state in use that is as good as the
\* one before, and goes on or leaves the lock.
LEMMA SwitchReplaces ==
    ASSUME RuntimeInv, NEW s \in Switches, NEW r \in SwitchRecords, NEW new \in States2,
           switch[s].at \in Held, switch' = [switch EXCEPT ![s] = r],
           \/ lock' = lock /\ r.at \in Held /\ r.before = switch[s].before
           \/ lock' = "none" /\ r.at \notin Held,
           r.at \notin {"model", "chosen"}, Replaced(new),
           Kept \/ Loses \/ (NotKept /\ UNCHANGED lost),
           ~crossed => Fits(new), ~overlapped => new.flags = asked,
           UNCHANGED <<client, asked, overlapped, crossed>>, trouble' \in 0 .. MaxTrouble
    PROVE  RuntimeInv'
<1>1. SwitchOk(s) /\ s # "none" /\ trouble \in 0 .. MaxTrouble
  BY SwitchFacts
<1>5. /\ lock = s /\ switch[s].before \in States2
      /\ ~crossed => Fits(switch[s].before)
      /\ ~overlapped => switch[s].before.flags = asked
  BY <1>1 DEF SwitchOk
<1>6. /\ switch' \in [Switches -> SwitchRecords] /\ lock' \in Switches \union {"none"}
      /\ \A x \in Switches : SwitchOk(x)'
  <2>1. CASE lock' = lock /\ r.at \in Held /\ r.before = switch[s].before
    BY <1>5, <2>1, SwitchMoves
  <2>2. CASE lock' = "none" /\ r.at \notin Held
    BY <1>1, <1>5, <2>2, SwitchMoves
  <2> QED
    BY <2>1, <2>2
<1>7. job' \in [Jobs -> JobRecords] /\ \A j \in Jobs : JobOk(j)'
  BY JobsKeepWhatTheyTook
<1>8. current' = new
  BY DEF Replaced
<1>9. RuntimeShapes'
  BY <1>6, <1>7, <1>8 DEF RuntimeInv, RuntimeShapes
<1>10. (~crossed => Fits(current))' /\ FlagsKept'
  BY <1>8 DEF Fits, FlagsKept
<1>11. FileOk'
  BY <1>1, <1>8, <1>10, FileMoves
<1> QED
  BY <1>6, <1>7, <1>9, <1>10, <1>11 DEF RuntimeInv

\* Such a switch goes on.
LEMMA SwitchReplacesAndGoes ==
    ASSUME RuntimeInv, NEW s \in Switches, NEW at \in {"committed", "failing", "rolledback"}, NEW new \in States2,
           switch[s].at \in Held, Goes(s, at), Replaced(new), lock' = lock, Kept \/ Loses,
           ~crossed => Fits(new), ~overlapped => new.flags = asked,
           UNCHANGED <<client, asked, overlapped, crossed>>, trouble' \in 0 .. MaxTrouble
    PROVE  RuntimeInv'
<1> DEFINE r == [switch[s] EXCEPT !.at = at]
<1>1. at \in SwitchPlaces /\ at \in Held /\ at \notin {"model", "chosen"}
  BY DEF SwitchPlaces, Held, Attempt2
<1>2. r \in SwitchRecords /\ switch[s] \in SwitchRecords
  BY <1>1, SwitchFacts, Moved
<1>3. r.at = at /\ r.before = switch[s].before
  BY <1>2 DEF SwitchRecords
<1>4. switch' = [switch EXCEPT ![s] = r]
  BY DEF Goes
<1> HIDE DEF r
<1> QED
  BY <1>1, <1>2, <1>3, <1>4, SwitchReplaces

LEMMA CommitKeeps ==
    ASSUME RuntimeInv, NEW s \in Switches, CommitLocal(s) \/ CommitApi(s) PROVE RuntimeInv'
<1>1. switch[s].at \in Held /\ SwitchOk(s)
  BY SwitchFacts DEF CommitLocal, CommitApi, Held, Attempt2
<1>2. /\ switch[s].before \in States2
      /\ ~overlapped => switch[s].before.flags = asked
  BY <1>1 DEF SwitchOk
<1>3. switch[s].before.flags \in Flags
  BY <1>2 DEF States2
<1>4. /\ (Kept /\ Goes(s, "committed")) \/ (Loses /\ Goes(s, "failing"))
      /\ lock' = lock /\ UNCHANGED <<client, asked, overlapped, crossed>>
  BY DEF CommitLocal, CommitApi, Committed
<1>5. CASE CommitLocal(s)
  <2>1. PICK got \in {LocalModel, Alias} : Found(LocalModel, got) /\ Commit2(s, got)
    BY <1>5 DEF CommitLocal
  <2>2. switch[s].target = "local"
    BY <1>1, <1>5 DEF CommitLocal, SwitchOk
  <2> DEFINE new == State("local", got, switch[s].before.flags)
  <2>3. new \in States2 /\ Fits(new) /\ new.flags = switch[s].before.flags
    BY <1>3, RuntimeSwitchAssumption DEF State, States2, Fits, Runtimes, SomeModels, RealModels
  <2>4. Replaced(new)
    BY <2>1, <2>2 DEF Commit2
  <2>5. trouble' \in 0 .. MaxTrouble
    BY <2>1, SwitchFacts DEF Found, Trouble, RuntimeInv, FileOk
  <2> HIDE DEF new
  <2> QED
    BY <1>1, <1>2, <1>4, <2>3, <2>4, <2>5, SwitchReplacesAndGoes
<1>6. CASE CommitApi(s)
  <2>1. switch[s].target = "api" /\ Commit2(s, ApiModel) /\ trouble' = trouble
    BY <1>1, <1>6 DEF CommitApi, SwitchOk
  <2> DEFINE new == State("api", ApiModel, switch[s].before.flags)
  <2>2. new \in States2 /\ Fits(new) /\ new.flags = switch[s].before.flags
    BY <1>3 DEF State, States2, Fits, Runtimes, SomeModels, RealModels
  <2>3. Replaced(new)
    BY <2>1 DEF Commit2
  <2> HIDE DEF new
  <2> QED
    BY <1>1, <1>2, <1>4, <2>1, <2>2, <2>3, SwitchReplacesAndGoes, SwitchFacts
<1> QED
  BY <1>5, <1>6

LEMMA ReportedKeeps ==
    ASSUME RuntimeInv, NEW s \in Switches, Reported(s) PROVE RuntimeInv'
<1>1. /\ switch[s] \in SwitchRecords /\ switch[s].at \in Held /\ SwitchOk(s)
      /\ UNCHANGED <<client, asked, overlapped, crossed, trouble>>
  BY SwitchFacts DEF Reported, Held, Attempt2
<1>2. /\ lock = s /\ switch[s].before \in States2
      /\ ~crossed => Fits(switch[s].before)
      /\ ~overlapped => switch[s].before.flags = asked
  BY <1>1 DEF SwitchOk
<1>3. CASE switch[s].attempt = 1
  <2> DEFINE r == Switching("begin", switch[s].target, 2, switch[s].before)
  <2>1. switch' = [switch EXCEPT ![s] = r] /\ UNCHANGED <<current, stateFile, unkept, lost, lock, job>>
    BY <1>3 DEF Reported
  <2>2. r \in SwitchRecords /\ r.at = "begin" /\ r.before = switch[s].before /\ "begin" \in Held
    BY <1>1, <1>2 DEF Switching, SwitchRecords, SwitchPlaces, Held, Attempt2
  <2> HIDE DEF r
  <2> QED
    BY <1>1, <1>2, <2>1, <2>2, SwitchRests, SwitchFacts
<1>4. CASE switch[s].attempt # 1
  <2>1. /\ Replaced(switch[s].before)
        /\ \/ Kept /\ Goes(s, "rolledback") /\ lock' = lock
           \/ NotKept /\ Leaves(s, "broken") /\ UNCHANGED lost
    BY <1>4 DEF Reported
  <2>2. CASE Kept /\ Goes(s, "rolledback") /\ lock' = lock
    BY <1>1, <1>2, <2>1, <2>2, SwitchReplacesAndGoes, SwitchFacts
  <2>3. CASE NotKept /\ Leaves(s, "broken") /\ UNCHANGED lost
    <3> DEFINE r == Resting("broken")
    <3>1. r \in SwitchRecords /\ r.at = "broken"
      BY DEF Resting, Switching, SwitchRecords, SwitchPlaces, Runtimes
    <3>2. switch' = [switch EXCEPT ![s] = r] /\ lock' = "none"
      BY <2>3 DEF Leaves
    <3>3. "broken" \notin Held
      BY DEF Held, Attempt2
    <3> HIDE DEF r
    <3> QED
      BY <1>1, <1>2, <2>1, <2>3, <3>1, <3>2, <3>3, SwitchReplaces, SwitchFacts
  <2> QED
    BY <2>1, <2>2, <2>3
<1> QED
  BY <1>3, <1>4

LEMMA GatewayAnswersKeeps ==
    ASSUME RuntimeInv, GatewayAnswers PROVE RuntimeInv'
<1>1. UNCHANGED <<current, stateFile, unkept, lost, lock, switch, job, client, trouble, asked, overlapped, crossed>>
  BY DEF GatewayAnswers
<1>2. \A j \in Jobs : JobOk(j)'
  BY <1>1, JobsKept
<1>3. \A s \in Switches : SwitchOk(s)'
  BY <1>1 DEF RuntimeInv, SwitchOk, Fits
<1> QED
  BY <1>1, <1>2, <1>3, FileRests DEF RuntimeInv, RuntimeShapes, Fits, FlagsKept

LEMMA SetFlagsKeeps ==
    ASSUME RuntimeInv, NEW f \in Flags, SetFlags(f) PROVE RuntimeInv'
<1>1. /\ current' = State(current.runtime, current.model, f) /\ (Kept \/ Loses)
      /\ asked' = f /\ UNCHANGED <<lock, switch, job, client, trouble, crossed>>
      /\ overlapped' = (overlapped \/ lock # "none")
  BY DEF SetFlags
<1>2. current \in States2
  BY DEF RuntimeInv, RuntimeShapes
<1>3. /\ current' \in States2 /\ current'.runtime = current.runtime
      /\ current'.model = current.model /\ current'.flags = f
  BY <1>1, <1>2 DEF State, States2
<1>4. \A j \in Jobs : JobOk(j)'
  BY <1>1, <1>3, JobsKept
<1>5. overlapped' \in BOOLEAN
  BY <1>1
<1>6. (overlapped \/ lock # "none") => overlapped'
  BY <1>1
<1>7. ASSUME NEW s \in Switches PROVE SwitchOk(s)'
  <2>1. SwitchOk(s) /\ s # "none"
    BY SwitchFacts
  <2>2. switch[s].at \in Held => overlapped'
    BY <1>6, <2>1 DEF SwitchOk
  <2> QED
    BY <1>1, <2>1, <2>2 DEF SwitchOk, Fits
<1>8. RuntimeShapes'
  BY <1>1, <1>3, <1>5 DEF RuntimeInv, RuntimeShapes
<1>9. (~crossed => Fits(current))' /\ FlagsKept'
  BY <1>1, <1>3 DEF RuntimeInv, Fits, FlagsKept
<1>10. FileOk'
  BY <1>1, <1>3, <1>9, FileMoves DEF RuntimeInv, RuntimeShapes
<1> QED
  BY <1>4, <1>7, <1>8, <1>9, <1>10 DEF RuntimeInv

\* A step of a request.
LEMMA JobMoves ==
    ASSUME RuntimeInv, NEW j \in Jobs, NEW r \in JobRecords,
           job' = [job EXCEPT ![j] = r],
           UNCHANGED <<switch, lock, asked, overlapped>>, trouble' \in 0 .. MaxTrouble,
           current' \in States2, FileOk', current'.runtime = current.runtime,
           current'.flags = current.flags,
           crossed' \in BOOLEAN, crossed => crossed', ~crossed' => Fits(current'),
           client' \in [Agents -> Endpoints],
           \A k \in Jobs \ {j} : job[k].at = "running" => client'[AgentOf[k]] = client[AgentOf[k]],
           r.at \notin {"ensure", "note"} => ~r.shares,
           r.at \in {"ensure", "note"} =>
              /\ IF r.shares THEN current.runtime = "local" ELSE r.seen.runtime = "local"
              /\ r.model \in RealModels
              /\ ~crossed' => r.model \in {LocalModel, Alias},
           r.at = "running" => client'[AgentOf[j]] = r.used
    PROVE  RuntimeInv'
<1>1. job \in [Jobs -> JobRecords] /\ \A k \in Jobs : JobOk(k)
  BY DEF RuntimeInv, RuntimeShapes
<1>2. job' \in [Jobs -> JobRecords]
  BY <1>1
<1>3. ASSUME NEW k \in Jobs PROVE JobOk(k)'
  <2>1. CASE k = j
    <3>1. job'[k] = r
      BY <1>1, <2>1
    <3>2. Took(k)'.runtime = IF r.shares THEN current.runtime ELSE r.seen.runtime
      BY <3>1 DEF Took, Endpoint
    <3> QED
      BY <2>1, <3>1, <3>2 DEF JobOk
  <2>2. CASE k # j
    <3>1. job'[k] = job[k] /\ JobOk(k)
      BY <1>1, <2>2
    <3>2. Took(k)'.runtime = Took(k).runtime
      BY <3>1 DEF Took, Endpoint
    <3> QED
      BY <2>2, <3>1, <3>2 DEF JobOk
  <2> QED
    BY <2>1, <2>2
<1>4. \A s \in Switches : SwitchOk(s)'
  BY DEF RuntimeInv, SwitchOk, Fits
<1>5. RuntimeShapes'
  BY <1>2 DEF RuntimeInv, RuntimeShapes
<1>6. (~crossed => Fits(current))' /\ FlagsKept'
  BY DEF RuntimeInv, Fits, FlagsKept
<1> QED
  BY <1>3, <1>4, <1>5, <1>6 DEF RuntimeInv

LEMMA JobFacts ==
    ASSUME RuntimeInv, NEW j \in Jobs
    PROVE  /\ job[j] \in JobRecords /\ JobOk(j) /\ AgentOf[j] \in Agents
           /\ current \in States2 /\ FileOk /\ crossed \in BOOLEAN /\ (~crossed => Fits(current))
           /\ client \in [Agents -> Endpoints] /\ trouble \in 0 .. MaxTrouble
BY DEF RuntimeInv, RuntimeShapes, Agents

LEMMA JobAtRecord ==
    ASSUME NEW at \in JobPlaces
    PROVE  JobAt(at) \in JobRecords /\ JobAt(at).at = at /\ ~JobAt(at).shares
BY DEF JobAt, Job, JobRecords, NoClient, Endpoints, SomeModels, RealModels

\* A request that only goes on to a place where it takes no state.
LEMMA JobGoes ==
    ASSUME RuntimeInv, NEW j \in Jobs, NEW at \in JobPlaces \ {"ensure", "note", "running"},
           job' = [job EXCEPT ![j] = JobAt(at)],
           UNCHANGED <<current, stateFile, unkept, lost, switch, lock, client, asked, overlapped, crossed>>,
           trouble' \in 0 .. MaxTrouble
    PROVE  RuntimeInv'
<1> DEFINE r == JobAt(at)
<1>1. r \in JobRecords /\ r.at = at /\ ~r.shares
  BY JobAtRecord
<1>2. job' = [job EXCEPT ![j] = r]
  OBVIOUS
<1>3. /\ current' \in States2 /\ FileOk' /\ current'.runtime = current.runtime
      /\ current'.flags = current.flags /\ crossed' \in BOOLEAN /\ (crossed => crossed')
      /\ (~crossed' => Fits(current')) /\ client' \in [Agents -> Endpoints]
  BY JobFacts, FileRests
<1> HIDE DEF r
<1> QED
  BY <1>1, <1>2, <1>3, JobMoves

LEMMA PrepareKeeps ==
    ASSUME RuntimeInv, NEW j \in Jobs, Prepare(j) PROVE RuntimeInv'
<1> DEFINE a == AgentOf[j]
<1>1. UNCHANGED <<current, stateFile, unkept, lost, lock, switch, trouble, asked, overlapped, crossed>>
  BY DEF Prepare
<1>2. /\ current' \in States2 /\ FileOk' /\ current'.runtime = current.runtime
      /\ current'.flags = current.flags /\ crossed' \in BOOLEAN /\ (crossed => crossed')
      /\ (~crossed' => Fits(current')) /\ trouble' \in 0 .. MaxTrouble
  BY <1>1, JobFacts, FileRests
<1>3. CASE ~MayConfigure(a)
  <2>1. job' = [job EXCEPT ![j] = JobAt("refused")] /\ client' = client
    BY <1>3 DEF Prepare
  <2> QED
    BY <1>1, <1>2, <2>1, JobGoes DEF JobPlaces
<1>4. CASE MayConfigure(a)
  <2>1. client' = [client EXCEPT ![a] = Endpoint(current)]
    BY <1>4 DEF Prepare
  <2>2. Endpoint(current) \in Endpoints
    BY JobFacts DEF Endpoint, Endpoints, States2, SomeModels
  <2>3. client' \in [Agents -> Endpoints]
    BY <2>1, <2>2, JobFacts
  <2>4. \A k \in Jobs \ {j} : job[k].at = "running" => client'[AgentOf[k]] = client[AgentOf[k]]
    <3>1. \A k \in Jobs : job[k].at = "running" => AgentOf[k] # a
      BY <1>4 DEF MayConfigure, Running
    <3> QED
      BY <2>1, <3>1, JobFacts
  <2>5. CASE current.runtime = "local"
    <3> DEFINE r == Job("ensure", TRUE, NoClient, current.model, NoClient)
    <3>1. job' = [job EXCEPT ![j] = r]
      BY <1>4, <2>5 DEF Prepare
    <3>2. /\ r \in JobRecords /\ r.at = "ensure" /\ r.shares = TRUE /\ r.model = current.model
      BY JobFacts DEF Job, JobRecords, JobPlaces, NoClient, Endpoints, States2, SomeModels, RealModels
    <3>3. current.model \in RealModels
      BY JobFacts DEF States2
    <3>4. ~crossed' => current.model \in {LocalModel, Alias}
      <4>1. current.model \in RealModels /\ (~crossed => Fits(current))
        BY JobFacts DEF States2
      <4> QED
        BY <1>1, <2>5, <4>1 DEF Fits, RealModels
    <3> HIDE DEF r
    <3> QED
      BY <1>1, <1>2, <2>3, <2>4, <2>5, <3>1, <3>2, <3>3, <3>4, JobMoves
  <2>6. CASE current.runtime # "local"
    <3>1. job' = [job EXCEPT ![j] = JobAt("ready")]
      BY <1>4, <2>6 DEF Prepare
    <3> DEFINE r == JobAt("ready")
    <3>2. r \in JobRecords /\ r.at = "ready" /\ ~r.shares
      BY JobAtRecord DEF JobPlaces
    <3> HIDE DEF r
    <3> QED
      BY <1>1, <1>2, <2>3, <2>4, <3>1, <3>2, JobMoves DEF r
  <2> QED
    BY <2>5, <2>6
<1> QED
  BY <1>3, <1>4

LEMMA EnsureKeeps ==
    ASSUME RuntimeInv, NEW j \in Jobs, Ensure2(j) PROVE RuntimeInv'
<1>1. /\ job[j].at = "ensure"
      /\ UNCHANGED <<current, stateFile, unkept, lost, lock, switch, client, asked, overlapped, crossed>>
  BY DEF Ensure2
<1>2. PICK got \in RealModels :
         /\ Found(job[j].model, got)
         /\ job' = [job EXCEPT ![j] = IF got = job[j].model THEN JobAt("ready")
                                      ELSE Job("note", job[j].shares, job[j].seen, got, job[j].used)]
  BY DEF Ensure2, RealModels
<1>3. trouble' \in 0 .. MaxTrouble
  <2>1. trouble' = trouble \/ (trouble + lost < MaxTrouble /\ trouble' = trouble + 1)
    BY <1>2 DEF Found, Trouble
  <2> QED
    BY <2>1, JobFacts, RuntimeSwitchAssumption DEF FileOk
<1>4. CASE got = job[j].model
  <2>1. job' = [job EXCEPT ![j] = JobAt("ready")]
    BY <1>2, <1>4
  <2> QED
    BY <1>1, <1>3, <2>1, JobGoes DEF JobPlaces
<1>5. CASE got # job[j].model
  <2> DEFINE r == Job("note", job[j].shares, job[j].seen, got, job[j].used)
  <2>1. job' = [job EXCEPT ![j] = r]
    BY <1>2, <1>5
  <2>2. /\ r \in JobRecords /\ r.at = "note" /\ r.shares = job[j].shares
        /\ r.seen = job[j].seen /\ r.model = got
    BY <1>2, JobFacts DEF Job, JobRecords, JobPlaces, SomeModels
  <2>3. /\ IF r.shares THEN current.runtime = "local" ELSE r.seen.runtime = "local"
        /\ ~crossed' => r.model \in {LocalModel, Alias}
    <3>1. /\ Took(j).runtime = "local"
          /\ ~crossed => job[j].model \in {LocalModel, Alias}
      BY <1>1, JobFacts DEF JobOk
    <3>2. IF r.shares THEN current.runtime = "local" ELSE r.seen.runtime = "local"
      BY <2>2, <3>1 DEF Took, Endpoint
    <3>3. ~crossed => got \in {LocalModel, Alias}
      <4>1. job[j].model \in {LocalModel, Alias} => got \in {LocalModel, Alias}
        BY <1>2 DEF Found, FirstInstalled, Names
      <4> QED
        BY <3>1, <4>1
    <3> QED
      BY <1>1, <2>2, <3>2, <3>3
  <2>4. /\ current' \in States2 /\ FileOk' /\ current'.runtime = current.runtime
        /\ current'.flags = current.flags /\ crossed' \in BOOLEAN /\ (crossed => crossed')
        /\ (~crossed' => Fits(current')) /\ client' \in [Agents -> Endpoints]
    BY <1>1, JobFacts, FileRests
  <2> HIDE DEF r
  <2> QED
    BY <1>1, <1>2, <1>3, <2>1, <2>2, <2>3, <2>4, JobMoves
<1> QED
  BY <1>4, <1>5

LEMMA NoteKeeps ==
    ASSUME RuntimeInv, NEW j \in Jobs, Note(j) PROVE RuntimeInv'
<1>1. /\ job[j].at = "note"
      /\ UNCHANGED <<lock, switch, client, trouble, asked, overlapped>>
  BY DEF Note
<1>2. CASE Took(j).model = job[j].model
  <2>1. UNCHANGED <<current, stateFile, unkept, lost, crossed>> /\ job' = [job EXCEPT ![j] = JobAt("ready")]
    BY <1>2 DEF Note
  <2>2. "ready" \in JobPlaces \ {"ensure", "note", "running"} /\ trouble' \in 0 .. MaxTrouble
    BY <1>1, JobFacts DEF JobPlaces
  <2> QED
    BY <1>1, <2>1, <2>2, JobGoes
<1>3. CASE Took(j).model # job[j].model
  <2>1. /\ current' = State(current.runtime, job[j].model, current.flags)
        /\ \/ Kept /\ job' = [job EXCEPT ![j] = JobAt("ready")]
           \/ Loses /\ job' = [job EXCEPT ![j] = JobAt("refused")]
        /\ crossed' = (crossed \/ current.runtime # Took(j).runtime)
    BY <1>3 DEF Note
  <2>2. /\ Took(j).runtime = "local" /\ job[j].model \in RealModels
        /\ ~crossed => job[j].model \in {LocalModel, Alias}
    BY <1>1, JobFacts DEF JobOk
  <2>3. /\ current' \in States2 /\ current'.runtime = current.runtime /\ current'.flags = current.flags
        /\ current'.model = job[j].model
    BY <2>1, <2>2, JobFacts DEF State, States2
  <2>4. crossed' \in BOOLEAN
    BY <2>1
  <2>5. crossed \/ current.runtime # "local" => crossed'
    BY <2>1, <2>2
  <2>6. ~crossed' => Fits(current')
    BY <2>2, <2>3, <2>5, RuntimeSwitchAssumption DEF Fits
  <2>9. FileOk'
    BY <2>1, <2>3, <2>5, <2>6, FileMoves, JobFacts
  <2>10. PICK at \in {"ready", "refused"} : job' = [job EXCEPT ![j] = JobAt(at)]
    BY <2>1
  <2> DEFINE r == JobAt(at)
  <2>7. r \in JobRecords /\ r.at = at /\ ~r.shares
    BY JobAtRecord DEF JobPlaces
  <2>8. job' = [job EXCEPT ![j] = r] /\ client' \in [Agents -> Endpoints] /\ trouble' \in 0 .. MaxTrouble
    BY <1>1, <2>10, JobFacts
  <2> HIDE DEF r
  <2> QED
    BY <1>1, <2>3, <2>4, <2>5, <2>6, <2>7, <2>8, <2>9, JobMoves
<1> QED
  BY <1>2, <1>3

LEMMA RunKeeps ==
    ASSUME RuntimeInv, NEW j \in Jobs, EnsureFails(j) \/ RunBegins(j) \/ RunEnds(j) PROVE RuntimeInv'
<1>1. UNCHANGED <<current, stateFile, unkept, lost, lock, switch, client, asked, overlapped, crossed>>
  BY DEF EnsureFails, RunBegins, RunEnds
<1>2. trouble' \in 0 .. MaxTrouble
  <2>1. trouble' = trouble \/ (trouble + lost < MaxTrouble /\ trouble' = trouble + 1)
    BY DEF EnsureFails, RunBegins, RunEnds, Trouble
  <2> QED
    BY <2>1, JobFacts, RuntimeSwitchAssumption DEF FileOk
<1>3. CASE EnsureFails(j) \/ RunEnds(j)
  <2>1. job' = [job EXCEPT ![j] = JobAt("refused")] \/ job' = [job EXCEPT ![j] = JobAt("over")]
    BY <1>3 DEF EnsureFails, RunEnds
  <2> QED
    BY <1>1, <1>2, <2>1, JobGoes DEF JobPlaces
<1>4. CASE RunBegins(j)
  <2> DEFINE r == Job("running", FALSE, NoClient, "none", client[AgentOf[j]])
  <2>1. job' = [job EXCEPT ![j] = r]
    BY <1>4 DEF RunBegins
  <2>2. r \in JobRecords /\ r.at = "running" /\ r.shares = FALSE /\ r.used = client[AgentOf[j]]
    BY JobFacts DEF Job, JobRecords, JobPlaces, NoClient, Endpoints, SomeModels
  <2>3. /\ current' \in States2 /\ FileOk' /\ current'.runtime = current.runtime
        /\ current'.flags = current.flags /\ crossed' \in BOOLEAN /\ (crossed => crossed')
        /\ (~crossed' => Fits(current')) /\ client' \in [Agents -> Endpoints]
    BY <1>1, JobFacts, FileRests
  <2> HIDE DEF r
  <2> QED
    BY <1>1, <1>2, <2>1, <2>2, <2>3, JobMoves
<1> QED
  BY <1>3, <1>4

LEMMA RuntimeInvSound == RuntimeInv => RuntimeSound
<1> SUFFICES ASSUME RuntimeInv PROVE RuntimeSound
  OBVIOUS
<1>1. RuntimeTypeOK
  BY DEF RuntimeInv, RuntimeShapes, FileOk, RuntimeTypeOK, States2, SwitchRecords, JobOk
<1>2. OneSwitch
  BY DEF RuntimeInv, OneSwitch, SwitchOk, Held
<1>3. StateKept /\ FlagsKept
  BY DEF RuntimeInv, FileOk
<1>4. ModelFits /\ ClientStable
  BY DEF RuntimeInv, FileOk, ModelFits, Fits, ClientStable, JobOk
<1> QED
  BY <1>1, <1>2, <1>3, <1>4 DEF RuntimeSound

\* For any number of switches, requests, agents and failures: one switch at a
\* time is past the lock, what a restart would load is the state in use, or an
\* earlier one when writing failed, whose model its runtime serves, the flags in
\* use are those asked for but for the ways the state keeps note of, and no running agent is pointed elsewhere.
THEOREM RuntimeSoundHolds == RuntimeSpec => []RuntimeSound
<1>1. RuntimeInv /\ [RuntimeNext]_runtimeVars => RuntimeInv'
  <2> SUFFICES ASSUME RuntimeInv, [RuntimeNext]_runtimeVars PROVE RuntimeInv'
    OBVIOUS
  <2>1. CASE \E s \in Switches :
               \/ Request(s) \/ Acquire(s) \/ Begin(s) \/ GatewayReady(s)
               \/ CommitLocal(s) \/ CommitApi(s) \/ Succeed(s)
               \/ AttemptFails(s) \/ Reported(s) \/ Unreported(s) \/ RolledBack(s)
    BY <2>1, RequestKeeps, AcquireKeeps, BeginKeeps, GatewayReadyKeeps, CommitKeeps, SucceedKeeps,
       AttemptFailsKeeps, ReportedKeeps
  <2>2. CASE GatewayAnswers \/ \E f \in Flags : SetFlags(f)
    BY <2>2, GatewayAnswersKeeps, SetFlagsKeeps
  <2>3. CASE \E j \in Jobs : \/ Prepare(j) \/ Ensure2(j) \/ EnsureFails(j) \/ Note(j)
                            \/ RunBegins(j) \/ RunEnds(j)
    BY <2>3, PrepareKeeps, EnsureKeeps, NoteKeeps, RunKeeps
  <2>4. CASE UNCHANGED runtimeVars
    BY <2>4, FileRests DEF runtimeVars, RuntimeInv, RuntimeShapes, Fits, FlagsKept, SwitchOk, JobOk, Took, Endpoint
  <2> QED
    BY <2>1, <2>2, <2>3, <2>4 DEF RuntimeNext
<1> QED
  BY <1>1, RuntimeBegins, RuntimeInvSound, PTL DEF RuntimeSpec

-----------------------------------------------------------------------------
(* Recovery: the order of the strategies *)

\* An order: every element once.
Order(seq, S) == seq \in Seq(S) /\ IsInjective(seq) /\ ToSet(seq) = S

LEMMA OrderMoves ==
    ASSUME NEW S, NEW seq, Order(seq, S), NEW x \in S
    PROVE  Order(ToFront(seq, x), S) /\ Order(ToBack(seq, x), S)
<1> DEFINE w == Without(seq, x)
<1>1. w \in Seq(S) /\ ToSet(w) = S \ {x} /\ IsInjective(w)
  BY WithoutHas DEF Order
<1>2. ToFront(seq, x) = <<x>> \o w /\ ToBack(seq, x) = Append(w, x)
  BY DEF ToFront, ToBack
<1> HIDE DEF w
<1>3. Len(w) \in Nat /\ DOMAIN w = 1 .. Len(w) /\ \A i \in 1 .. Len(w) : w[i] \in S /\ w[i] # x
  BY <1>1 DEF ToSet
<1>4. \A y \in S \ {x} : \E i \in 1 .. Len(w) : w[i] = y
  BY <1>1, <1>3 DEF ToSet
<1>5. \A i, k \in 1 .. Len(w) : w[i] = w[k] => i = k
  BY <1>1, <1>3 DEF IsInjective
<1>6. Order(<<x>> \o w, S)
  <2> DEFINE f == <<x>> \o w
  <2>1. f \in Seq(S) /\ Len(f) = Len(w) + 1 /\ f[1] = x /\ \A i \in 1 .. Len(w) : f[i + 1] = w[i]
    BY <1>1, <1>3
  <2> HIDE DEF f
  <2>2. DOMAIN f = 1 .. Len(w) + 1
    BY <2>1
  <2>3. \A i \in 2 .. Len(w) + 1 : i - 1 \in 1 .. Len(w) /\ f[i] = w[i - 1]
    BY <1>3, <2>1
  <2>4. IsInjective(f)
    <3> SUFFICES ASSUME NEW i \in DOMAIN f, NEW k \in DOMAIN f, f[i] = f[k] PROVE i = k
      BY DEF IsInjective
    <3>1. CASE i = 1 /\ k # 1
      BY <3>1, <1>3, <2>1, <2>2, <2>3
    <3>2. CASE i # 1 /\ k = 1
      BY <3>2, <1>3, <2>1, <2>2, <2>3
    <3>3. CASE i # 1 /\ k # 1
      <4>1. i - 1 = k - 1
        BY <3>3, <1>3, <1>5, <2>2, <2>3
      <4> QED
        BY <4>1, <1>3, <2>2
    <3> QED
      BY <3>1, <3>2, <3>3
  <2>5. ToSet(f) = S
    <3>1. \A i \in DOMAIN f : f[i] \in S
      BY <2>1
    <3>2. ASSUME NEW y \in S PROVE \E i \in DOMAIN f : f[i] = y
      <4>1. CASE y = x
        BY <4>1, <1>3, <2>1, <2>2
      <4>2. CASE y # x
        <5>1. PICK i \in 1 .. Len(w) : w[i] = y
          BY <1>4, <4>2
        <5>2. f[i + 1] = y /\ i + 1 \in DOMAIN f
          BY <5>1, <1>3, <2>1, <2>2
        <5> QED
          BY <5>2
      <4> QED
        BY <4>1, <4>2
    <3> QED
      BY <3>1, <3>2 DEF ToSet
  <2> QED
    BY <2>1, <2>4, <2>5 DEF Order, f
<1>7. Order(Append(w, x), S)
  <2> DEFINE f == Append(w, x)
  <2>1. f \in Seq(S) /\ DOMAIN f = 1 .. Len(w) + 1 /\ f[Len(w) + 1] = x /\ \A i \in 1 .. Len(w) : f[i] = w[i]
    BY <1>1, <1>3, AppendProperties
  <2> HIDE DEF f
  <2>2. IsInjective(f)
    <3> SUFFICES ASSUME NEW i \in DOMAIN f, NEW k \in DOMAIN f, f[i] = f[k] PROVE i = k
      BY DEF IsInjective
    <3> QED
      BY <1>3, <1>5, <2>1
  <2>3. ToSet(f) = S
    <3>1. \A i \in DOMAIN f : f[i] \in S
      BY <1>3, <2>1
    <3>2. ASSUME NEW y \in S PROVE \E i \in DOMAIN f : f[i] = y
      <4>1. CASE y = x
        BY <4>1, <1>3, <2>1
      <4>2. CASE y # x
        <5>1. PICK i \in 1 .. Len(w) : w[i] = y
          BY <1>4, <4>2
        <5> QED
          BY <5>1, <1>3, <2>1
      <4> QED
        BY <4>1, <4>2
    <3> QED
      BY <3>1, <3>2 DEF ToSet
  <2> QED
    BY <2>1, <2>2, <2>3 DEF Order, f
<1> QED
  BY <1>2, <1>6, <1>7
-----------------------------------------------------------------------------
(* Recovery: the order of the strategies *)

LEMMA StepsTwo ==
    ASSUME NEW r
    PROVE  \E a, b : a # b /\ StepsFor(r) = {a, b} /\ a \in Strategies /\ b \in Strategies
BY DEF StepsFor, Overflow, Truncation, Strategies

LEMMA UsualOrder == ASSUME NEW r PROVE Order(Usual(r), StepsFor(r))
<1> DEFINE local == IF r = "context_overflow"
                    THEN <<"prompt_compaction", "overflow_fallback_retry">>
                    ELSE <<"payload_truncation", "truncation_fallback_retry">>
<1>1. PICK a, b : a # b /\ StepsFor(r) = {a, b} /\ local = <<a, b>>
  BY DEF StepsFor, Overflow, Truncation
<1>2. Usual(r) = local \/ Usual(r) = Reverse(local)
  BY DEF Usual
<1> HIDE DEF local
<1>3. Usual(r) \in {<<a, b>>, <<b, a>>}
  BY <1>1, <1>2 DEF Reverse
<1>4. \A x, y : x # y => Order(<<x, y>>, {x, y})
  BY DEF Order, IsInjective, ToSet
<1>5. {a, b} = {b, a}
  OBVIOUS
<1> QED
  BY <1>1, <1>3, <1>4, <1>5

LEMMA NormalizedOrder ==
    ASSUME NEW r \in Ranked
    PROVE  /\ Order(Normalized(r), ToSet(Normalized(r)))
           /\ ToSet(Normalized(r)) \subseteq StepsFor(r)
<1> DEFINE list == Configured[r]
           firsts == {i \in DOMAIN list : list[i] \in StepsFor(r) /\ \A j \in 1..(i - 1) : list[j] # list[i]}
           all == ToSet(list)
<1>1. list \in Seq(all)
  BY RecoveryAssumption
<1>2. Normalized(r) = IF firsts = {} THEN Usual(r) ELSE OnlyAt(list, firsts)
  BY DEF Normalized
<1>3. CASE firsts = {}
  BY <1>2, <1>3, UsualOrder DEF Order
<1>4. CASE firsts # {}
  <2>1. firsts \in SUBSET DOMAIN list /\ \A i \in firsts : list[i] \in StepsFor(r)
    OBVIOUS
  <2>2. ASSUME NEW i \in firsts, NEW k \in firsts, list[i] = list[k] PROVE i = k
    <3>1. i \in 1 .. Len(list) /\ k \in 1 .. Len(list) /\ Len(list) \in Nat
      BY <1>1
    <3>2. ~(i < k) /\ ~(k < i)
      BY <2>2, <3>1
    <3> QED
      BY <3>1, <3>2
  <2> HIDE DEF list, firsts, all
  <2>3. /\ OnlyAt(list, firsts) \in Seq(all) /\ ToSet(OnlyAt(list, firsts)) = {list[i] : i \in firsts}
        /\ IsInjective(OnlyAt(list, firsts))
    BY <1>1, <2>1, <2>2, OnlyAtFits, OnlyAtHas
  <2>4. Normalized(r) = OnlyAt(list, firsts)
    BY <1>2, <1>4
  <2> DEFINE n == Normalized(r)
  <2>5. n \in Seq(all) /\ ToSet(n) = {list[i] : i \in firsts} /\ IsInjective(n)
    BY <2>3, <2>4
  <2> HIDE DEF n
  <2>6. n \in Seq(ToSet(n))
    BY <2>5 DEF ToSet
  <2> QED
    BY <2>1, <2>5, <2>6 DEF Order, n
<1> QED
  BY <1>3, <1>4

\* Of the strategies that have a record, one leads: there are two at most.
LEMMA OneLeads ==
    ASSUME NEW known, known \subseteq {1, 2}, known # {}, NEW R
    PROVE  \E i \in known : \A j \in known \ {i} : <<i, j>> \in R \/ (<<j, i>> \notin R /\ i < j)
<1>1. \A x \in known : x = 1 \/ x = 2
  OBVIOUS
<1>2. CASE 1 \notin known \/ 2 \notin known
  <2>1. PICK i \in known : known \ {i} = {}
    BY <1>1, <1>2
  <2> QED
    BY <2>1
<1>3. CASE 1 \in known /\ 2 \in known
  <2>1. \A j \in known \ {1} : j = 2 /\ 1 < j
    BY <1>1
  <2>2. \A j \in known \ {2} : j = 1
    BY <1>1
  <2>3. CASE <<2, 1>> \in R
    BY <1>3, <2>2, <2>3
  <2>4. CASE <<2, 1>> \notin R
    BY <1>3, <2>1, <2>4
  <2> QED
    BY <2>3, <2>4
<1> QED
  BY <1>2, <1>3

LEMMA ByMetricsKeeps ==
    ASSUME NEW r, NEW m, NEW S, S \subseteq StepsFor(r), NEW steps, Order(steps, S)
    PROVE  Order(ByMetrics(steps, r, m), S)
<1> DEFINE rec(i) == Read(r, m, steps[i])
           known == {i \in DOMAIN steps : rec(i).n >= MinSamples}
           Leads(i) == \A j \in known \ {i} : Better(rec(i), rec(j)) \/ (~Better(rec(j), rec(i)) /\ i < j)
<1>1. ByMetrics(steps, r, m) =
        IF ~MetricsOn \/ Len(steps) < 2 \/ known = {} THEN steps
        ELSE ToFront(steps, steps[CHOOSE i \in known : Leads(i)])
  BY DEF ByMetrics
<1>2. DOMAIN steps = 1 .. Len(steps) /\ Len(steps) \in Nat /\ \A i \in DOMAIN steps : steps[i] \in S
  BY DEF Order
<1>3. Len(steps) <= 2
  <2>1. PICK a, b : StepsFor(r) = {a, b}
    BY StepsTwo
  <2>2. ASSUME Len(steps) >= 3 PROVE FALSE
    <3>1. {1, 2, 3} \subseteq DOMAIN steps
      BY <1>2, <2>2
    <3>2. steps[1] \in {a, b} /\ steps[2] \in {a, b} /\ steps[3] \in {a, b}
      BY <1>2, <2>1, <3>1
    <3>3. steps[1] # steps[2] /\ steps[1] # steps[3] /\ steps[2] # steps[3]
      BY <3>1 DEF Order, IsInjective
    <3> QED
      BY <3>2, <3>3
  <2> QED
    BY <1>2, <2>2
<1>4. known \in SUBSET {1, 2} /\ known \subseteq DOMAIN steps
  BY <1>2, <1>3
<1>5. ASSUME known # {} PROVE steps[CHOOSE i \in known : Leads(i)] \in S
  <2> DEFINE R == {p \in known \X known : Better(rec(p[1]), rec(p[2]))}
  <2> HIDE DEF rec, known
  <2>a. \A i, j \in known : <<i, j>> \in R <=> Better(rec(i), rec(j))
    OBVIOUS
  <2> HIDE DEF R
  <2>b. PICK k \in known : \A j \in known \ {k} : <<k, j>> \in R \/ (<<j, k>> \notin R /\ k < j)
    BY <1>4, <1>5, OneLeads
  <2>1. Leads(k)
    BY <2>a, <2>b
  <2>2. (CHOOSE i \in known : Leads(i)) \in known
    BY <2>1
  <2> QED
    BY <1>2, <1>4, <2>2
<1> HIDE DEF known, rec, Leads
<1> QED
  BY <1>1, <1>5, OrderMoves

LEMMA OrderedKeeps ==
    ASSUME NEW r \in Ranked, NEW m, NEW hits
    PROVE  Order(Ordered(r, m, hits), ToSet(Normalized(r)))
<1> DEFINE base == Normalized(r)
           S == ToSet(base)
           signalled == BySignal(base)
           fed == ByFeedback(signalled, r)
           measured == ByMetrics(fed, r, m)
<1>1. Order(base, S) /\ S \subseteq StepsFor(r)
  BY NormalizedOrder
<1>2. Order(signalled, S)
  <2> DEFINE wanted == {s \in ToSet(base) : \/ signal = "weak" /\ s \notin Shortening
                                            \/ signal = "slow" /\ s \in Shortening}
  <2>1. signalled = IF Len(base) < 2 \/ wanted = {} THEN base ELSE ToFront(base, CHOOSE s \in wanted : TRUE)
    BY DEF BySignal
  <2>2. wanted # {} => (CHOOSE s \in wanted : TRUE) \in S
    OBVIOUS
  <2> HIDE DEF wanted, base, signalled, S
  <2> QED
    BY <1>1, <2>1, <2>2, OrderMoves
<1>3. Order(fed, S)
  <2>1. ToSet(signalled) = S
    BY <1>2 DEF Order
  <2>2. fed = signalled \/ (failed[r] \in ToSet(signalled) /\ fed = ToBack(signalled, failed[r]))
    BY DEF ByFeedback
  <2> HIDE DEF base, signalled, S, fed
  <2> QED
    BY <1>2, <2>1, <2>2, OrderMoves
<1>4. Order(measured, S)
  <2> HIDE DEF base, signalled, S, fed
  <2> QED
    BY <1>1, <1>3, ByMetricsKeeps
<1>5. Len(base) > 1 => Order(Append(Tail(base), Head(base)), S)
  <2> SUFFICES ASSUME Len(base) > 1 PROVE Order(Append(Tail(base), Head(base)), S)
    OBVIOUS
  <2>1. base \in Seq(S) /\ Len(base) \in Nat /\ ToSet(base) = S /\ IsInjective(base)
    BY <1>1 DEF Order
  <2> HIDE DEF base, S
  <2> DEFINE f == Append(Tail(base), Head(base))
             n == Len(base)
  <2>2. /\ f \in Seq(S) /\ DOMAIN f = 1 .. n /\ f[n] = base[1] /\ n \in Nat /\ n > 1 /\ DOMAIN base = 1 .. n
        /\ \A i \in 1 .. n - 1 : f[i] = base[i + 1]
    BY <2>1
  <2> HIDE DEF f, n
  <2>3. IsInjective(f)
    <3>1. \A i \in 1 .. n : f[i] = base[IF i = n THEN 1 ELSE i + 1]
      BY <2>2
    <3>2. \A i, k \in 1 .. n : base[i] = base[k] => i = k
      BY <2>1, <2>2 DEF IsInjective
    <3>3. ASSUME NEW i \in 1 .. n, NEW k \in 1 .. n, f[i] = f[k] PROVE i = k
      <4>1. (IF i = n THEN 1 ELSE i + 1) = (IF k = n THEN 1 ELSE k + 1)
        BY <2>2, <3>1, <3>2, <3>3
      <4> QED
        BY <2>2, <4>1
    <3> QED
      BY <2>2, <3>3 DEF IsInjective
  <2>4. ToSet(f) = S
    <3>1. \A i \in DOMAIN f : f[i] \in S
      BY <2>2
    <3>2. ASSUME NEW y \in S PROVE \E i \in DOMAIN f : f[i] = y
      <4>1. PICK k \in 1 .. n : base[k] = y
        BY <2>1, <2>2 DEF ToSet
      <4>2. CASE k = 1
        BY <4>1, <4>2, <2>2
      <4>3. CASE k # 1
        <5>1. k - 1 \in 1 .. n - 1 /\ f[k - 1] = base[(k - 1) + 1] /\ (k - 1) + 1 = k
          BY <4>3, <2>2
        <5> QED
          BY <4>1, <5>1, <2>2
      <4> QED
        BY <4>2, <4>3
    <3> QED
      BY <3>1, <3>2 DEF ToSet
  <2> QED
    BY <2>2, <2>3, <2>4 DEF Order, f
<1>6. Ordered(r, m, hits) \in {measured} \/ (Len(base) > 1 /\ Ordered(r, m, hits) = Append(Tail(base), Head(base)))
  BY DEF Ordered
<1> HIDE DEF measured
<1> QED
  BY <1>4, <1>5, <1>6
-----------------------------------------------------------------------------
(* Recovery: the route *)

LEMMA CandidatesFit ==
    /\ Order(Candidates, ModelsOf) /\ Candidates # <<>> /\ Len(Candidates) \in Nat \ {0}
    /\ IsFiniteSet(ModelsOf) /\ Head(Candidates) \in ModelsOf
<1>1. Candidates \in Seq(ModelsOf) /\ Candidates # <<>> /\ IsInjective(Candidates) /\ ToSet(Candidates) = ModelsOf
  BY RecoveryAssumption DEF ModelsOf
<1>2. Len(Candidates) \in Nat \ {0} /\ Head(Candidates) \in ModelsOf
  BY <1>1
<1>3. IsFiniteSet(ModelsOf)
  <2>1. ModelsOf = {Candidates[i] : i \in 1 .. Len(Candidates)}
    BY <1>1 DEF ToSet
  <2>2. IsFiniteSet(1 .. Len(Candidates))
    BY <1>2, FS_Interval
  <2>3. [i \in 1 .. Len(Candidates) |-> Candidates[i]] \in Surjection(1 .. Len(Candidates), ModelsOf)
    BY <2>1 DEF Surjection
  <2> QED
    BY <2>2, <2>3, FS_Surjection
<1> QED
  BY <1>1, <1>2, <1>3 DEF Order

\* A best model exists: one that the fewest are better than.
LEMMA BestFits ==
    ASSUME NEW models \in SUBSET ModelsOf, models # {}
    PROVE  Best(models) \in models
<1> DEFINE over(m) == {n \in models : Score[n] > Score[m]}
           T == {Cardinality(over(m)) : m \in models}
<1>1. IsFiniteSet(models) /\ \A m \in models : Score[m] \in Int
  BY CandidatesFit, FS_Subset, RecoveryAssumption DEF ModelsOf
<1>2. \A m \in models : over(m) \subseteq models
  OBVIOUS
<1> HIDE DEF over
<1>3. \A m \in models : IsFiniteSet(over(m)) /\ Cardinality(over(m)) \in Nat
  BY <1>1, <1>2, FS_Subset, FS_CardinalityType
<1>4. T \subseteq Nat /\ T # {}
  BY <1>3
<1>5. PICK x \in T : \A y \in T : x <= y
  <2> HIDE DEF T
  <2> QED
    BY <1>4, LeastNumber
<1>6. PICK m \in models : x = Cardinality(over(m))
  BY <1>5
<1>7. \A n \in models : Cardinality(over(m)) <= Cardinality(over(n))
  BY <1>5, <1>6
<1>8. ASSUME NEW n \in over(m) PROVE FALSE
  <2>1. n \in models /\ Score[n] > Score[m]
    BY <1>8 DEF over
  <2>2. over(n) \subseteq over(m) /\ n \notin over(n)
    BY <1>1, <2>1 DEF over
  <2>3. over(n) # over(m)
    BY <1>8, <2>2
  <2>4. Cardinality(over(n)) < Cardinality(over(m))
    BY <1>3, <2>1, <2>2, <2>3, FS_Subset
  <2> QED
    BY <1>3, <1>7, <2>1, <2>4
<1>9. \A n \in models : Score[n] <= Score[m]
  BY <1>1, <1>8 DEF over
<1> QED
  BY <1>9 DEF Best

LEMMA CheapestFits == Cheapest \in ModelsOf
<1> DEFINE T == {CostOf[m] : m \in ModelsOf}
<1>1. \A m \in ModelsOf : CostOf[m] \in Nat
  BY RecoveryAssumption DEF ModelsOf
<1>2. T \subseteq Nat /\ T # {}
  BY <1>1, CandidatesFit
<1>3. PICK x \in T : \A y \in T : x <= y
  <2> HIDE DEF T
  <2> QED
    BY <1>2, LeastNumber
<1>4. PICK m \in ModelsOf : x = CostOf[m]
  BY <1>3
<1>5. \A n \in ModelsOf : CostOf[m] <= CostOf[n]
  BY <1>3, <1>4
<1> QED
  BY <1>5 DEF Cheapest

LEMMA AdaptedFits == ASSUME NEW limit PROVE Order(Adapted(limit), ModelsOf)
<1> DEFINE fits == {m \in ModelsOf : CostOf[m] <= limit}
           first == IF Head(Candidates) \in fits THEN Head(Candidates)
                    ELSE IF fits # {} THEN Best(fits) ELSE Cheapest
<1>1. fits \in SUBSET ModelsOf
  OBVIOUS
<1>2. fits # {} => Best(fits) \in ModelsOf
  <2> HIDE DEF fits
  <2> QED
    BY <1>1, BestFits
<1>3. first \in ModelsOf
  BY <1>2, CheapestFits, CandidatesFit
<1>4. Adapted(limit) = ToFront(Candidates, first)
  BY DEF Adapted
<1> HIDE DEF first, fits
<1> QED
  BY <1>3, <1>4, CandidatesFit, OrderMoves

-----------------------------------------------------------------------------
(* Recovery: the books *)

Events == [outcome : {"success", "failure"}, age : {"new", "old", "stale"}]
Histories == {h \in Seq(Events) : Len(h) <= WindowSize}
Records == [events : Histories, wins : Nat, losses : Nat]
Ledger(m) == DOMAIN m \subseteq Keys /\ \A k \in DOMAIN m : m[k] \in Records

LEMMA EventFits ==
    /\ \A o \in {"success", "failure"} : Event(o, "new") \in Events
    /\ \A e \in Events : Older(e) \in Events
BY DEF Event, Events, Older

LEMMA SamplesFit ==
    ASSUME NEW h \in Histories, NEW w \in Nat, NEW l \in Nat
    PROVE  Samples(h, w, l) \in Records
BY DEF Samples, Records

LEMMA RecordParts ==
    ASSUME NEW b \in Records
    PROVE  /\ b.events \in Seq(Events) /\ Len(b.events) \in Nat /\ Len(b.events) <= WindowSize
           /\ b.wins \in Nat /\ b.losses \in Nat
BY DEF Records, Histories

LEMMA PrunedFits ==
    ASSUME NEW events \in Seq(Events)
    PROVE  Pruned(events) \in Histories
<1> DEFINE P == {i \in DOMAIN events : events[i].age # "stale"}
           fresh == OnlyAt(events, P)
<1>1. fresh \in Seq(Events)
  <2>1. P \in SUBSET DOMAIN events
    OBVIOUS
  <2> HIDE DEF P
  <2> QED
    BY <2>1, OnlyAtFits
<1>2. Pruned(events) = Latest(fresh, WindowSize)
  BY DEF Pruned
<1>3. WindowSize \in Nat
  BY RecoveryAssumption
<1> HIDE DEF fresh
<1>4. Len(fresh) \in Nat
  BY <1>1
<1> QED
  BY <1>1, <1>2, <1>3, <1>4, LatestFits DEF Histories

LEMMA CreditedFits ==
    ASSUME Ledger(metrics), credit \in Keys \union {<<>>}, NEW o \in {"success", "failure"}
    PROVE  Ledger(Credited(o))
<1>1. CASE credit = <<>>
  BY <1>1 DEF Credited
<1>2. CASE credit # <<>>
  <2> DEFINE b == Bucket(credit)
             One(x) == IF o = x THEN 1 ELSE 0
             h == Pruned(Append(b.events, Event(o, "new")))
             more == Samples(h, b.wins + One("success"), b.losses + One("failure"))
  <2>1. credit \in Keys
    BY <1>2
  <2>2. b \in Records
    <3>1. NoSamples \in Records
      <4>1. <<>> \in Histories
        BY RecoveryAssumption DEF Histories
      <4> QED
        BY <4>1, SamplesFit DEF NoSamples
    <3> QED
      BY <3>1 DEF Bucket, Ledger
  <2> HIDE DEF b
  <2>3. h \in Histories
    <3>1. b.events \in Seq(Events) /\ Event(o, "new") \in Events
      BY <2>2, RecordParts, EventFits
    <3>2. Append(b.events, Event(o, "new")) \in Seq(Events)
      BY <3>1, AppendProperties
    <3> QED
      BY <3>2, PrunedFits
  <2>4. b.wins + One("success") \in Nat /\ b.losses + One("failure") \in Nat
    BY <2>2, RecordParts
  <2>5. more \in Records
    <3> HIDE DEF h, One
    <3> QED
      BY <2>3, <2>4, SamplesFit
  <2>6. Credited(o) = [k \in DOMAIN metrics \union {credit} |-> IF k = credit THEN more ELSE metrics[k]]
    BY <1>2 DEF Credited, b
  <2> HIDE DEF more
  <2> QED
    BY <2>1, <2>5, <2>6 DEF Ledger
<1> QED
  BY <1>1, <1>2

LEMMA AgedFits == ASSUME NEW b \in Records PROVE Aged(b) \in Records
<1> DEFINE h == [i \in DOMAIN b.events |-> Older(b.events[i])]
<1>1. b.events \in Seq(Events) /\ Len(b.events) \in Nat /\ Len(b.events) <= WindowSize /\ b.wins \in Nat /\ b.losses \in Nat
  BY RecordParts
<1>2. DOMAIN b.events = 1 .. Len(b.events) /\ \A i \in DOMAIN b.events : Older(b.events[i]) \in Events
  BY <1>1, EventFits
<1>3. h \in Seq(Events) /\ Len(h) = Len(b.events)
  BY <1>1, <1>2
<1>4. Aged(b) = Samples(h, b.wins, b.losses)
  BY DEF Aged
<1> HIDE DEF h
<1>5. h \in Histories
  BY <1>1, <1>3 DEF Histories
<1> QED
  BY <1>1, <1>4, <1>5, SamplesFit
-----------------------------------------------------------------------------
(* Recovery: the inductive invariant *)

\* The request is on its route, within its limits, and has the credit of the
\* strategy it took last.
OnRoute ==
    /\ Order(lineup, ModelsOf) /\ tried \in 1 .. (Len(lineup) + 1)
    /\ phase \in {"calling", "handling"} => tried <= Len(lineup)
Spent ==
    calls \in 0 .. CallBudget /\ size \in 1 .. MessageSize /\ applied \in [Strategies -> Nat] /\ WithinBudget
Credits ==
    /\ credit \in Keys \union {<<>>} /\ (credit # <<>> => decision.took # NoStrategy)
    /\ OrderComplete
RecoveryInv ==
    /\ phase \in {"idle", "planned", "calling", "handling", "retrying"}
    /\ tasks \in {"none", "open", "completed", "failed", "left"} /\ TasksFollow
    /\ OnRoute /\ Spent /\ Credits /\ Ledger(metrics) /\ Ledger(saved)

LEMMA DecisionParts ==
    ASSUME NEW a, NEW b, NEW c, NEW d, NEW e
    PROVE  Decision(a, b, c, d, e).order = c /\ Decision(a, b, c, d, e).took = d
           /\ Decision(a, b, c, d, e).retry = a /\ Decision(a, b, c, d, e).shortened = b
BY DEF Decision

LEMMA NewRequest ==
    ASSUME FreshRequest
    PROVE  /\ Spent' /\ Credits' /\ tried' = 1
<1>1. Spent'
  BY RecoveryAssumption DEF FreshRequest, Spent, WithinBudget, Strategies, Overflow, Truncation
<1>2. Credits'
  <2>1. credit' = <<>> /\ decision'.order = <<>>
    BY DEF FreshRequest, NoDecision, Decision
  <2>2. OrderComplete'
    BY <2>1 DEF OrderComplete
  <2>3. credit' \in Keys' \union {<<>>}
    BY <2>1
  <2> QED
    BY <2>1, <2>2, <2>3 DEF Credits
<1> QED
  BY <1>1, <1>2 DEF FreshRequest

LEMMA LeaveKeeps ==
    ASSUME Leave, tasks' \in {"completed", "failed", "left"}, Ledger(metrics'), Ledger(saved')
    PROVE  RecoveryInv'
<1>1. Spent' /\ Credits' /\ tried' = 1
  BY NewRequest DEF Leave
<1>2. OnRoute'
  <2>1. lineup' = Candidates /\ phase' = "idle"
    BY DEF Leave
  <2> QED
    BY <1>1, <2>1, CandidatesFit DEF OnRoute, ModelsOf, Order
<1> QED
  BY <1>1, <1>2 DEF Leave, RecoveryInv, TasksFollow, Ledger, Keys, ModelsOf

\* What a step that does not touch the request leaves alone.
LEMMA RequestStays ==
    ASSUME UNCHANGED requestVars
    PROVE  (Spent => Spent') /\ (Credits => Credits')
           /\ (OnRoute /\ (phase' \in {"calling", "handling"} => phase \in {"calling", "handling"}) => OnRoute')
<1>1. Spent => Spent'
  BY DEF requestVars, Spent, WithinBudget
<1>2. Credits => Credits'
  BY DEF requestVars, Credits, OrderComplete, Normalized, Usual, Keys, ModelsOf
<1>3. OnRoute /\ (phase' \in {"calling", "handling"} => phase \in {"calling", "handling"}) => OnRoute'
  BY DEF requestVars, OnRoute, Order, ModelsOf
<1> QED
  BY <1>1, <1>2, <1>3

LEMMA RecoveryStart == RecoveryInit => RecoveryInv
<1> SUFFICES ASSUME RecoveryInit PROVE RecoveryInv
  OBVIOUS
<1>1. Spent
  BY RecoveryAssumption DEF RecoveryInit, Spent, WithinBudget, Strategies, Overflow, Truncation
<1>2. Credits
  <2>1. credit = <<>> /\ decision.order = <<>>
    BY DEF RecoveryInit, NoDecision, Decision
  <2>2. OrderComplete
    BY <2>1 DEF OrderComplete
  <2>3. credit \in Keys \union {<<>>}
    BY <2>1
  <2> QED
    BY <2>1, <2>2, <2>3 DEF Credits
<1>3. OnRoute
  BY CandidatesFit DEF RecoveryInit, OnRoute, Order
<1>4. Ledger(metrics) /\ Ledger(saved)
  BY DEF RecoveryInit, Ledger
<1> QED
  BY <1>1, <1>2, <1>3, <1>4 DEF RecoveryInit, RecoveryInv, TasksFollow

\* What the strategy that is picked may be.
LEMMA PickFits ==
    ASSUME NEW S \in SUBSET Strategies, NEW list \in Seq(S), NEW others
    PROVE  \/ Pick(list, others) = NoStrategy
           \/ Pick(list, others) \in S /\ Usable(Pick(list, others), others)
<1> DEFINE open == {i \in DOMAIN list : Usable(list[i], others)}
<1>1. Pick(list, others) = IF open = {} THEN NoStrategy ELSE list[FirstAt(open)]
  BY DEF Pick
<1>2. open \subseteq Nat /\ \A i \in open : list[i] \in S /\ Usable(list[i], others)
  OBVIOUS
<1> HIDE DEF open
<1> QED
  BY <1>1, <1>2, FirstAtFits

LEMMA FailKeeps ==
    ASSUME RecoveryInv, NEW r \in Failures, Fail(r)
    PROVE  RecoveryInv'
<1> DEFINE model == lineup[tried]
           hits == IF streak.reason = r THEN streak.hits + 1 ELSE 1
           order == IF r \in Ranked THEN Ordered(r, model, hits) ELSE <<>>
           only == IF r = "compaction_failure" THEN <<"compaction_fallback_retry">> ELSE order
           others == tried < Len(lineup)
           took == Pick(only, others)
<1>1. /\ phase = "calling" /\ phase' = "handling"
      /\ metrics' = Credited("failure") /\ Persist
      /\ applied' = IF took = NoStrategy THEN applied ELSE [applied EXCEPT ![took] = @ + 1]
      /\ size' = IF took \in Shortening THEN size - 1 ELSE size
      /\ credit' = IF took = NoStrategy THEN <<>> ELSE <<r, model, NotedAs(took)>>
      /\ \E a, b, e : decision' = Decision(a, b, order, took, e)
      /\ UNCHANGED <<tasks, runtime, signal, lineup, tried, calls, doubling, runs>>
  BY DEF Fail
<1>2. Ledger(metrics') /\ Ledger(saved')
  <2>1. Ledger(Credited("failure"))
    BY CreditedFits DEF RecoveryInv, Credits
  <2> QED
    BY <1>1, <2>1 DEF Persist, RecoveryInv, Ledger, Keys, ModelsOf
<1>3. r \in Ranked => Order(order, ToSet(Normalized(r))) /\ ToSet(Normalized(r)) \subseteq StepsFor(r)
  BY OrderedKeeps, NormalizedOrder
<1>4. \E S \in SUBSET Strategies : only \in Seq(S)
  <2>1. CASE r = "compaction_failure"
    <3>1. "compaction_fallback_retry" \in Strategies
      BY DEF Strategies
    <3>2. only = <<"compaction_fallback_retry">>
      BY <2>1
    <3>3. only \in Seq(Strategies)
      BY <3>1, <3>2
    <3> QED
      BY <3>3
  <2>2. CASE r # "compaction_failure" /\ r \in Ranked
    <3>1. ToSet(Normalized(r)) \in SUBSET Strategies
      BY <2>2, <1>3 DEF StepsFor, Strategies
    <3>2. only \in Seq(ToSet(Normalized(r)))
      BY <2>2, <1>3 DEF Order
    <3> QED
      BY <3>1, <3>2
  <2>3. CASE r # "compaction_failure" /\ r \notin Ranked
    BY <2>3
  <2> QED
    BY <2>1, <2>2, <2>3
<1> HIDE DEF only, order
<1>5. took = NoStrategy \/ (took \in Strategies /\ Usable(took, others))
  BY <1>4, PickFits
<1>6. NoStrategy \notin Strategies
  BY DEF NoStrategy, Strategies, Overflow, Truncation
<1> HIDE DEF took
<1>7. Spent'
  <2>0. calls \in 0 .. CallBudget /\ calls' = calls
    BY <1>1 DEF RecoveryInv, Spent
  <2>1. /\ size \in 1 .. MessageSize /\ MessageSize \in Nat
        /\ applied \in [Strategies -> Nat] /\ \A s \in Strategies : applied[s] <= Budget[s] /\ Budget[s] \in Nat
        /\ MessageSize - size = applied["prompt_compaction"] + applied["payload_truncation"]
    BY RecoveryAssumption DEF RecoveryInv, Spent, WithinBudget
  <2>2. "prompt_compaction" \in Strategies /\ "payload_truncation" \in Strategies
    BY DEF Strategies, Overflow, Truncation
  <2>3. CASE took = NoStrategy
    <3>1. took \notin Shortening
      BY <2>3 DEF NoStrategy, Shortening
    <3> QED
      BY <1>1, <2>0, <2>1, <2>3, <3>1 DEF Spent, WithinBudget
  <2>4. CASE took # NoStrategy /\ took \in Shortening
    <3>1. /\ took \in Strategies /\ applied[took] < Budget[took] /\ size > 1
      BY <1>5, <2>4 DEF Usable
    <3>2. applied' = [applied EXCEPT ![took] = applied[took] + 1] /\ size' = size - 1
      BY <1>1, <2>4
    <3>3. size' \in 1 .. MessageSize /\ applied' \in [Strategies -> Nat]
      BY <2>1, <3>1, <3>2
    <3>4. \A s \in Strategies : applied'[s] <= Budget[s]
      BY <2>1, <3>1, <3>2
    <3>5. took = "prompt_compaction" \/ took = "payload_truncation"
      BY <2>4 DEF Shortening
    <3>6. MessageSize - size' = applied'["prompt_compaction"] + applied'["payload_truncation"]
      BY <2>1, <2>2, <3>1, <3>2, <3>5
    <3> QED
      BY <2>0, <3>3, <3>4, <3>6 DEF Spent, WithinBudget
  <2>5. CASE took # NoStrategy /\ took \notin Shortening
    <3>1. took \in Strategies /\ applied[took] < Budget[took]
      BY <1>5, <2>5 DEF Usable
    <3>2. applied' = [applied EXCEPT ![took] = applied[took] + 1] /\ size' = size
      BY <1>1, <2>5
    <3>3. applied' \in [Strategies -> Nat] /\ \A s \in Strategies : applied'[s] <= Budget[s]
      BY <2>1, <3>1, <3>2
    <3>4. took # "prompt_compaction" /\ took # "payload_truncation"
      BY <2>5 DEF Shortening
    <3>5. applied'["prompt_compaction"] = applied["prompt_compaction"]
          /\ applied'["payload_truncation"] = applied["payload_truncation"]
      BY <2>1, <2>2, <3>2, <3>4
    <3> QED
      BY <2>0, <2>1, <3>2, <3>3, <3>5 DEF Spent, WithinBudget
  <2> QED
    BY <2>3, <2>4, <2>5
<1>8. OnRoute' /\ model \in ModelsOf
  <2>1. Order(lineup, ModelsOf) /\ tried \in 1 .. Len(lineup) + 1 /\ tried <= Len(lineup)
    BY <1>1 DEF RecoveryInv, OnRoute
  <2>2. model \in ModelsOf
    BY <2>1 DEF Order
  <2> QED
    BY <1>1, <2>1, <2>2 DEF OnRoute, Order, ModelsOf
<1>9. Credits'
  <2>1. decision'.order = order /\ decision'.took = took
    BY <1>1, DecisionParts
  <2>2. credit' \in Keys \union {<<>>}
    BY <1>1, <1>5, <1>8 DEF Keys
  <2>3. credit' # <<>> => decision'.took # NoStrategy
    BY <1>1, <2>1
  <2>4. OrderComplete'
    <3>1. CASE r \in Ranked
      <4>1. IsInjective(order) /\ ToSet(order) = ToSet(Normalized(r))
        BY <1>3, <3>1 DEF Order
      <4>2. Normalized(r)' = Normalized(r)
        BY <1>1 DEF Normalized, Usual
      <4> QED
        BY <2>1, <3>1, <4>1, <4>2 DEF OrderComplete
    <3>2. CASE r \notin Ranked
      BY <2>1, <3>2 DEF OrderComplete, order
    <3> QED
      BY <3>1, <3>2
  <2> QED
    BY <2>2, <2>3, <2>4 DEF Credits, Keys, ModelsOf
<1> QED
  BY <1>1, <1>2, <1>7, <1>8, <1>9 DEF RecoveryInv, TasksFollow

LEMMA RecoveryKept == RecoveryInv /\ [RecoveryNext]_recoveryVars => RecoveryInv'
<1> SUFFICES ASSUME RecoveryInv, [RecoveryNext]_recoveryVars PROVE RecoveryInv'
  OBVIOUS
<1>a. /\ tasks \in {"none", "open", "completed", "failed", "left"} /\ TasksFollow
      /\ Ledger(metrics) /\ Ledger(saved)
      /\ phase \in {"idle", "planned", "calling", "handling", "retrying"} /\ OnRoute /\ Spent /\ Credits
  BY DEF RecoveryInv
<1>b. UNCHANGED <<metrics, saved>> => Ledger(metrics)' /\ Ledger(saved)'
  BY <1>a DEF Ledger, Keys, ModelsOf
<1>1. CASE Plan
  <2>1. /\ phase' = "planned" /\ tasks' = "open" /\ FreshRequest /\ UNCHANGED <<metrics, saved>>
        /\ \E limit : lineup' = Adapted(limit)
    BY <1>1 DEF Plan
  <2>2. Order(lineup', ModelsOf)
    BY <2>1, AdaptedFits
  <2>3. Len(lineup') \in Nat
    BY <2>2 DEF Order
  <2>4. OnRoute'
    BY <2>1, <2>2, <2>3, NewRequest DEF OnRoute, Order, ModelsOf
  <2> QED
    BY <1>b, <2>1, <2>4, NewRequest DEF RecoveryInv, TasksFollow
<1>2. CASE Refuse
  BY <1>2, <1>a, <1>b, LeaveKeeps DEF Refuse
<1>3. CASE Call
  <2>1. UNCHANGED <<metrics, saved>>
    BY <1>3 DEF Call
  <2>2. CASE calls < CallBudget /\ tried <= Len(lineup)
    <3>1. /\ phase' = "calling" /\ calls' = calls + 1
          /\ UNCHANGED <<tasks, runtime, signal, lineup, tried, doubling, size, applied, streak, failed, credit, decision>>
      BY <1>3, <2>2 DEF Call
    <3>2. Spent'
      <4>1. calls' \in 0 .. CallBudget
        BY <1>a, <2>2, <3>1, RecoveryAssumption DEF Spent
      <4> QED
        BY <1>a, <3>1, <4>1 DEF Spent, WithinBudget
    <3>3. Credits'
      BY <1>a, <3>1 DEF Credits, OrderComplete, Normalized, Usual, Keys, ModelsOf
    <3>4. OnRoute'
      BY <1>a, <2>2, <3>1 DEF OnRoute, Order, ModelsOf
    <3> QED
      <4>1. phase \in {"planned", "retrying"}
        BY <1>3 DEF Call
      <4> QED
        BY <1>a, <1>b, <2>1, <3>1, <3>2, <3>3, <3>4, <4>1 DEF RecoveryInv, TasksFollow
  <2>3. CASE ~(calls < CallBudget /\ tried <= Len(lineup))
    BY <1>3, <1>b, <2>1, <2>3, LeaveKeeps DEF Call, Over
  <2> QED
    BY <2>2, <2>3
<1>4. CASE Answer
  <2>1. Ledger(metrics') /\ Ledger(saved')
    <3>1. Ledger(Credited("success"))
      BY <1>a, CreditedFits DEF Credits
    <3> QED
      BY <1>4, <1>a, <3>1 DEF Answer, Persist, Ledger, Keys, ModelsOf
  <2> QED
    BY <1>4, <2>1, LeaveKeeps DEF Answer, Over
<1>5. CASE \E r \in Failures : Fail(r)
  BY <1>5, FailKeeps
<1>6. CASE Recover
  <2>1. phase = "handling" /\ UNCHANGED <<metrics, saved>>
    BY <1>6 DEF Recover
  <2>2. CASE GivesUp
    BY <1>6, <1>b, <2>1, <2>2, LeaveKeeps DEF Recover, Over
  <2>3. CASE ~GivesUp
    <3>1. /\ phase' = "retrying" /\ tried' \in {tried, tried + 1}
          /\ UNCHANGED <<tasks, runtime, signal, lineup, calls, size, applied, streak, failed, credit, decision>>
      BY <1>6, <2>3 DEF Recover
    <3>2. Spent' /\ Credits'
      BY <1>a, <3>1 DEF Spent, WithinBudget, Credits, OrderComplete, Normalized, Usual, Keys, ModelsOf
    <3>3. OnRoute'
      <4>1. Order(lineup, ModelsOf) /\ tried \in 1 .. Len(lineup) + 1 /\ tried <= Len(lineup) /\ Len(lineup) \in Nat
        BY <1>a, <2>1 DEF OnRoute, Order
      <4>2. tried' \in 1 .. Len(lineup) + 1
        BY <3>1, <4>1
      <4> QED
        BY <3>1, <4>1, <4>2 DEF OnRoute, Order, ModelsOf
    <3> QED
      BY <1>a, <1>b, <2>1, <3>1, <3>2, <3>3 DEF RecoveryInv, TasksFollow
  <2> QED
    BY <2>2, <2>3
<1>7. CASE Disturb
  BY <1>7, <1>a, <1>b, LeaveKeeps DEF Disturb, Over
<1>8. CASE Elapse
  <2>1. /\ metrics' = [k \in DOMAIN metrics |-> Aged(metrics[k])]
        /\ UNCHANGED <<phase, tasks, requestVars, saved, runs>>
    BY <1>8 DEF Elapse
  <2>2. Ledger(metrics')
    BY <1>a, <2>1, AgedFits DEF Ledger
  <2>3. Ledger(saved') /\ Ledger(metrics)'
    BY <1>a, <2>1, <2>2 DEF Ledger, Keys, ModelsOf
  <2>4. Spent' /\ Credits' /\ OnRoute'
    BY <1>a, <2>1, RequestStays
  <2> QED
    BY <1>a, <2>1, <2>3, <2>4 DEF RecoveryInv, TasksFollow
<1>9. CASE Reload
  <2>1. metrics' = saved /\ UNCHANGED <<phase, tasks, requestVars, saved, runs>>
    BY <1>9 DEF Reload
  <2>2. Ledger(metrics') /\ Ledger(saved')
    BY <1>a, <2>1 DEF Ledger, Keys, ModelsOf
  <2>4. Spent' /\ Credits' /\ OnRoute'
    BY <1>a, <2>1, RequestStays
  <2> QED
    BY <1>a, <2>1, <2>2, <2>4 DEF RecoveryInv, TasksFollow
<1>10. CASE UNCHANGED recoveryVars
  <2>1. UNCHANGED <<phase, tasks, requestVars, metrics, saved>>
    BY <1>10 DEF recoveryVars
  <2>2. Spent' /\ Credits' /\ OnRoute'
    BY <1>a, <2>1, RequestStays
  <2> QED
    BY <1>a, <1>b, <2>1, <2>2 DEF RecoveryInv, TasksFollow
<1>11. CASE AbortCall
  BY <1>11, <1>b, LeaveKeeps DEF AbortCall, Over
<1> QED
  BY <1>1, <1>2, <1>3, <1>4, <1>5, <1>6, <1>7, <1>8, <1>9, <1>10, <1>11 DEF RecoveryNext, RecoveryStep

LEMMA RecoveryInvSound == RecoveryInv => RecoverySound
<1> SUFFICES ASSUME RecoveryInv PROVE RecoverySound
  OBVIOUS
<1>1. OrderComplete /\ WithinBudget /\ CreditsOnce /\ TasksFollow
  BY DEF RecoveryInv, Spent, Credits, CreditsOnce
<1>2. RouteComplete
  BY DEF RecoveryInv, OnRoute, Order, RouteComplete
<1>3. RecoveryTypeOK
  <2>1. \A k \in DOMAIN metrics : Len(metrics[k].events) <= WindowSize
    BY RecordParts DEF RecoveryInv, Ledger
  <2> QED
    BY <2>1 DEF RecoveryInv, RecoveryTypeOK, OnRoute, Spent, Credits, Ledger
<1> QED
  BY <1>1, <1>2, <1>3 DEF RecoverySound

(* Whatever calls fail for, whatever signals, feedback, metrics and flips do
   to the order, and however often sends fail or the process restarts: no
   strategy is lost from the order or tried twice, none exceeds its budget,
   credit is given once, and every model of the route is there once. *)
THEOREM RecoverySoundHolds == RecoverySpec => []RecoverySound
<1> QED
  BY RecoveryStart, RecoveryKept, RecoveryInvSound, PTL DEF RecoverySpec
=============================================================================
