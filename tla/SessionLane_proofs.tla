------------------------- MODULE SessionLane_proofs -------------------------
(***************************************************************************)
(* How the work of a session waits for its turn: proofs about the lane     *)
(* that runs it and about the inbox its messages come through.             *)
(*                                                                         *)
(* The lane, for any number of calls, sessions and permits and any size of *)
(* the lock cache: the runs of one session exclude each other, the lane    *)
(* implements SessionTurns, it keeps its types, and the locks of idle      *)
(* sessions are bounded.                                                   *)
(*                                                                         *)
(* The inbox of a connection, for any number of messages and any limits:   *)
(* no open run is lost, none is queued twice, a filled queue has a worker, *)
(* a follow-up is not starved, and a closed run stays as it was closed.    *)
(*                                                                         *)
(* What sessions leave on disk, for any sessions, runs and limits: what    *)
(* memory and run documents keep between turns (SessionStoreSoundHolds).   *)
(***************************************************************************)
EXTENDS SessionLane, WsSession, SessionStore, Lists_proofs

-----------------------------------------------------------------------------
(* The inductive invariant *)

\* The variables the argument is about.
Shapes ==
    /\ table \in [Sessions -> Locks \cup {NoLock}]
    /\ active \in [Sessions -> Nat]
    /\ holder \in [Locks -> Calls \cup {NoCall}]
    /\ pc \in [Calls -> {"idle", "locking", "permit", "running"}]
    /\ key \in [Calls -> Sessions \cup {NoSession}]
    /\ lock \in [Calls -> Locks \cup {NoLock}]

\* A call in progress refers to the lock its session's entry names now: the
\* entry is never replaced under it.
Current ==
    \A c \in Calls :
        IF pc[c] = "idle"
        THEN key[c] = NoSession /\ lock[c] = NoLock
        ELSE key[c] \in Sessions /\ lock[c] \in Locks /\ lock[c] = table[key[c]]

Users(k, s) == {c \in Calls : k[c] = s}

\* _session_active_counts counts the calls in progress, which is what keeps
\* their locks from being evicted.
Counted == \A s \in Sessions : active[s] = Cardinality(Users(key, s))

\* Past its lock, a call is the one the lock records.
Held == \A c \in Calls : pc[c] \in {"permit", "running"} => holder[lock[c]] = c

IInv == Shapes /\ Current /\ Counted /\ Held

-----------------------------------------------------------------------------
LEMMA UsersFinite ==
    ASSUME NEW k, NEW s
    PROVE  IsFiniteSet(Users(k, s)) /\ Cardinality(Users(k, s)) \in Nat
BY FS_Subset, FS_CardinalityType, SessionAssumption DEF Users

\* A release takes one call out of its session's count and evicts only entries
\* no remaining call refers to.
LEMMA ReleaseFacts ==
    ASSUME IInv, NEW c \in Calls, pc[c] # "idle", MarkReleased(key[c]), Return(c)
    PROVE  /\ table' \in [Sessions -> Locks \cup {NoLock}]
           /\ active' \in [Sessions -> Nat]
           /\ pc' \in [Calls -> {"idle", "locking", "permit", "running"}]
           /\ key' \in [Calls -> Sessions \cup {NoSession}]
           /\ lock' \in [Calls -> Locks \cup {NoLock}]
           /\ Current' /\ Counted'
<1> DEFINE s == key[c]
           counts == [active EXCEPT ![s] = IF @ <= 1 THEN 0 ELSE @ - 1]
<1>1. /\ Shapes /\ s \in Sessions
  BY DEF IInv, Current
<1>2. PICK E \in Evictions(s, counts) :
          /\ table' = [t \in Sessions |-> IF t \in E THEN NoLock ELSE table[t]]
          /\ active' = [t \in Sessions |-> IF t \in E THEN 0 ELSE counts[t]]
  BY DEF MarkReleased
<1>3. \A t \in E : t \in Sessions \ {s} /\ counts[t] = 0
  BY DEF Evictions, Idle
<1>4. /\ key' = [key EXCEPT ![c] = NoSession]
      /\ lock' = [lock EXCEPT ![c] = NoLock]
      /\ pc' = [pc EXCEPT ![c] = "idle"]
  BY DEF Return
<1>5. counts \in [Sessions -> Nat]
  BY <1>1 DEF Shapes
<1>6. \A t \in Sessions : counts[t] = Cardinality(Users(key', t))
  <2> SUFFICES ASSUME NEW t \in Sessions PROVE counts[t] = Cardinality(Users(key', t))
    OBVIOUS
  <2>1. CASE t = s
    <3>1. Users(key', t) = Users(key, t) \ {c} /\ c \in Users(key, t)
      BY <1>1, <1>4, <2>1, SessionAssumption DEF Users, Shapes
    <3>2. Cardinality(Users(key', t)) = Cardinality(Users(key, t)) - 1
      BY <3>1, UsersFinite, FS_RemoveElement
    <3>3. active[s] = Cardinality(Users(key, s)) /\ active[s] \in Nat
      BY <1>1 DEF IInv, Counted, Shapes
    <3>4. Cardinality(Users(key', t)) \in Nat
      BY UsersFinite
    <3>5. counts[s] = IF active[s] <= 1 THEN 0 ELSE active[s] - 1
      BY <1>1 DEF Shapes
    <3> HIDE DEF counts
    <3> QED BY <2>1, <3>2, <3>3, <3>4, <3>5
  <2>2. CASE t # s
    <3>1. Users(key', t) = Users(key, t)
      BY <1>1, <1>4, <2>2, SessionAssumption DEF Users, Shapes
    <3> QED BY <1>1, <2>2, <3>1 DEF IInv, Counted, Shapes
  <2> QED BY <2>1, <2>2
<1>7. \A d \in Calls : key'[d] \in Sessions => key'[d] \notin E
  <2> SUFFICES ASSUME NEW d \in Calls, key'[d] \in E PROVE FALSE
    OBVIOUS
  <2>1. key'[d] \in Sessions /\ counts[key'[d]] = 0
    BY <1>3
  <2>2. d \in Users(key', key'[d])
    BY DEF Users
  <2>3. Cardinality(Users(key', key'[d])) = 0
    BY <1>6, <2>1
  <2> QED BY <2>2, <2>3, UsersFinite, FS_EmptySet
<1>8. Counted'
  <2> SUFFICES ASSUME NEW t \in Sessions PROVE active'[t] = Cardinality(Users(key', t))
    BY DEF Counted, Users
  <2>1. t \in E => counts[t] = 0
    BY <1>3
  <2> HIDE DEF counts
  <2> QED BY <1>2, <1>6, <2>1
<1>9. Current'
  <2> SUFFICES ASSUME NEW d \in Calls
               PROVE  IF pc'[d] = "idle"
                      THEN key'[d] = NoSession /\ lock'[d] = NoLock
                      ELSE key'[d] \in Sessions /\ lock'[d] \in Locks
                           /\ lock'[d] = table'[key'[d]]
    BY DEF Current
  <2>1. CASE d = c
    BY <1>1, <1>4, <2>1 DEF Shapes
  <2>2. CASE d # c
    <3>1. pc'[d] = pc[d] /\ key'[d] = key[d] /\ lock'[d] = lock[d]
      BY <1>1, <1>4, <2>2 DEF Shapes
    <3>2. key[d] \in Sessions => table'[key[d]] = table[key[d]]
      BY <1>2, <1>7, <3>1
    <3> QED BY <3>1, <3>2 DEF IInv, Current
  <2> QED BY <2>1, <2>2
<1>10. /\ table' \in [Sessions -> Locks \cup {NoLock}]
       /\ active' \in [Sessions -> Nat]
  <2> HIDE DEF counts
  <2> QED BY <1>1, <1>2, <1>5 DEF Shapes
<1> QED BY <1>1, <1>4, <1>8, <1>9, <1>10 DEF Shapes

\* Releasing a call, its lock (held or only waited for) and its count.
LEMMA ReturnPreserves ==
    ASSUME IInv, NEW c \in Calls, pc[c] # "idle", MarkReleased(key[c]), Return(c),
           \/ pc[c] = "locking" /\ UNCHANGED holder
           \/ pc[c] # "locking" /\ holder' = [holder EXCEPT ![lock[c]] = NoCall]
    PROVE  IInv'
<1>1. Shapes /\ Current /\ Held
  BY DEF IInv
<1>2. Shapes' /\ Current' /\ Counted'
  BY <1>1, ReleaseFacts DEF Shapes
<1>3. Held'
  <2> SUFFICES ASSUME NEW d \in Calls, pc'[d] \in {"permit", "running"}
               PROVE  holder'[lock'[d]] = d
    BY DEF Held
  <2>1. d # c /\ pc'[d] = pc[d] /\ lock'[d] = lock[d]
    BY <1>1 DEF Return, Shapes
  <2>2. holder[lock[d]] = d /\ lock[d] \in Locks /\ lock[c] \in Locks
    BY <1>1, <2>1 DEF Held, Current
  <2>3. pc[c] # "locking" => lock[d] # lock[c]
    BY <1>1, <2>1, <2>2 DEF Held, Shapes
  <2> QED BY <1>1, <2>1, <2>2, <2>3 DEF Shapes
<1> QED BY <1>2, <1>3 DEF IInv

\* Asking for a permit moves the call alone.
LEMMA TakePermitMoves ==
    ASSUME Shapes, NEW c \in Calls, TakePermit(c)
    PROVE  \E label \in {"permit", "running"} : pc' = [pc EXCEPT ![c] = label]
BY DEF TakePermit

LEMMA EnterPreserves ==
    ASSUME IInv, NEW c \in Calls, NEW s \in Sessions, Enter(c, s)
    PROVE  IInv'
<1>1. Shapes /\ Current /\ Counted /\ Held
  BY DEF IInv
<1>2. PICK o \in Locks :
          /\ IF table[s] = NoLock THEN NewLock(o) ELSE o = table[s]
          /\ table' = [table EXCEPT ![s] = o]
          /\ lock' = [lock EXCEPT ![c] = o]
          /\ \/ /\ holder[o] = NoCall
                /\ holder' = [holder EXCEPT ![o] = c]
                /\ TakePermit(c)
             \/ /\ pc' = [pc EXCEPT ![c] = "locking"]
                /\ UNCHANGED holder
  BY DEF Enter
<1>3. /\ pc[c] = "idle" /\ active' = [active EXCEPT ![s] = @ + 1]
      /\ key' = [key EXCEPT ![c] = s]
  BY DEF Enter
<1>4. PICK label \in {"locking", "permit", "running"} :
          /\ pc' = [pc EXCEPT ![c] = label]
          /\ \/ label = "locking" /\ UNCHANGED holder
             \/ holder[o] = NoCall /\ holder' = [holder EXCEPT ![o] = c]
  BY <1>1, <1>2, TakePermitMoves
<1>5. Shapes'
  BY <1>1, <1>2, <1>3, <1>4 DEF Shapes
<1>6. ASSUME NEW d \in Calls \ {c}
      PROVE  pc'[d] = pc[d] /\ key'[d] = key[d] /\ lock'[d] = lock[d]
  BY <1>1, <1>2, <1>3, <1>4 DEF Shapes
<1>7. Current'
  <2> SUFFICES ASSUME NEW d \in Calls
               PROVE  IF pc'[d] = "idle"
                      THEN key'[d] = NoSession /\ lock'[d] = NoLock
                      ELSE key'[d] \in Sessions /\ lock'[d] \in Locks
                           /\ lock'[d] = table'[key'[d]]
    BY DEF Current
  <2>1. CASE d = c
    BY <1>1, <1>2, <1>3, <1>4, <2>1 DEF Shapes
  <2>2. CASE d # c
    <3>1. pc[d] # "idle" => lock[d] = table[key[d]] /\ key[d] \in Sessions /\ lock[d] \in Locks
      BY <1>1 DEF Current
    <3>2. pc[d] # "idle" => table'[key[d]] = table[key[d]]
      BY <1>1, <1>2, <3>1, SessionAssumption DEF Shapes
    <3> QED BY <1>1, <1>6, <2>2, <3>1, <3>2 DEF Current
  <2> QED BY <2>1, <2>2
<1>8. Counted'
  <2> SUFFICES ASSUME NEW t \in Sessions PROVE active'[t] = Cardinality(Users(key', t))
    BY DEF Counted, Users
  <2>1. key[c] = NoSession
    BY <1>1, <1>3 DEF Current
  <2>2. CASE t = s
    <3>1. Users(key', t) = Users(key, t) \cup {c} /\ c \notin Users(key, t)
      BY <1>1, <1>3, <2>1, <2>2, SessionAssumption DEF Users, Shapes
    <3>2. Cardinality(Users(key', t)) = Cardinality(Users(key, t)) + 1
      BY <3>1, UsersFinite, FS_AddElement
    <3> QED BY <1>1, <1>3, <2>2, <3>2 DEF Counted, Shapes
  <2>3. CASE t # s
    <3>1. Users(key', t) = Users(key, t)
      BY <1>1, <1>3, <2>1, <2>3, SessionAssumption DEF Users, Shapes
    <3> QED BY <1>1, <1>3, <2>3, <3>1 DEF Counted, Shapes
  <2> QED BY <2>2, <2>3
<1>9. Held'
  <2> SUFFICES ASSUME NEW d \in Calls, pc'[d] \in {"permit", "running"}
               PROVE  holder'[lock'[d]] = d
    BY DEF Held
  <2>1. CASE d = c
    BY <1>1, <1>2, <1>4, <2>1 DEF Shapes
  <2>2. CASE d # c
    <3>1. holder[lock[d]] = d /\ lock[d] \in Locks
      BY <1>1, <1>6, <2>2 DEF Held, Current
    <3>2. holder[o] = NoCall => lock[d] # o
      BY <3>1, SessionAssumption
    <3> QED BY <1>1, <1>4, <1>6, <2>2, <3>1, <3>2 DEF Shapes
  <2> QED BY <2>1, <2>2
<1> QED BY <1>5, <1>7, <1>8, <1>9 DEF IInv

LEMMA GrantPreserves ==
    ASSUME IInv, NEW c \in Calls, LockGranted(c) \/ PermitGranted(c)
    PROVE  IInv'
<1>1. Shapes /\ Current /\ Counted /\ Held
  BY DEF IInv
<1>2. /\ UNCHANGED <<table, active, key, lock>> /\ pc[c] \in {"locking", "permit"}
      /\ \/ UNCHANGED holder /\ pc[c] = "permit"
         \/ holder[lock[c]] = NoCall /\ holder' = [holder EXCEPT ![lock[c]] = c]
  BY DEF LockGranted, PermitGranted
<1>3. PICK label \in {"permit", "running"} : pc' = [pc EXCEPT ![c] = label]
  BY <1>1, TakePermitMoves DEF LockGranted, PermitGranted
<1>4. lock[c] \in Locks
  BY <1>1, <1>2 DEF Current
<1>5. Shapes'
  BY <1>1, <1>2, <1>3, <1>4 DEF Shapes
<1>6. Current' /\ Counted'
  BY <1>1, <1>2, <1>3 DEF Current, Counted, Users, Shapes
<1>7. Held'
  <2> SUFFICES ASSUME NEW d \in Calls, pc'[d] \in {"permit", "running"}
               PROVE  holder'[lock'[d]] = d
    BY DEF Held
  <2>1. CASE d = c
    BY <1>1, <1>2, <1>4, <2>1 DEF Shapes, Held
  <2>2. CASE d # c
    <3>1. pc[d] = pc'[d] /\ holder[lock[d]] = d /\ lock[d] \in Locks
      BY <1>1, <1>3, <2>2 DEF Held, Current, Shapes
    <3> QED BY <1>1, <1>2, <1>4, <2>2, <3>1, SessionAssumption DEF Shapes
  <2> QED BY <2>1, <2>2
<1> QED BY <1>5, <1>6, <1>7 DEF IInv

LEMMA InitHolds == Init => IInv
<1> SUFFICES ASSUME Init PROVE IInv
  OBVIOUS
<1>1. Shapes /\ Current /\ Held
  BY DEF Init, Shapes, Current, Held
<1>2. \A s \in Sessions : Users(key, s) = {}
  BY SessionAssumption DEF Init, Users
<1>3. Counted
  BY <1>2, FS_EmptySet DEF Init, Counted
<1> QED BY <1>1, <1>3 DEF IInv

LEMMA NextPreserves == IInv /\ [Next]_vars => IInv'
<1> SUFFICES ASSUME IInv, [Next]_vars PROVE IInv'
  OBVIOUS
<1>1. ASSUME NEW c \in Calls, Leave(c) \/ CancelLocking(c) \/ CancelPermit(c) PROVE IInv'
  BY <1>1, ReturnPreserves DEF Leave, CancelLocking, CancelPermit
<1>2. CASE UNCHANGED vars
  BY <1>2 DEF vars, IInv, Shapes, Current, Counted, Users, Held
<1> QED BY <1>1, <1>2, EnterPreserves, GrantPreserves DEF Next

-----------------------------------------------------------------------------
\* Two runs of one session never overlap, for any number of callers, any
\* cache size and any schedule of cancellations and evictions.
THEOREM SessionsExclude == Spec => []MutualExclusion
<1>1. IInv => MutualExclusion
  <2> SUFFICES ASSUME IInv, NEW c \in Calls, NEW d \in Calls,
                      pc[c] = "running", pc[d] = "running", key[c] = key[d]
               PROVE  c = d
    BY DEF MutualExclusion
  <2>1. lock[c] = lock[d]
    BY DEF IInv, Current
  <2> QED BY <2>1 DEF IInv, Held
<1> QED BY <1>1, InitHolds, NextPreserves, PTL DEF Spec

-----------------------------------------------------------------------------
(* The lane implements SessionTurns, keeps its types and bounds the locks  *)
(* of idle sessions.                                                       *)

-----------------------------------------------------------------------------
(* Queues *)

In(q, c) == \E i \in 1 .. Len(q) : q[i] = c

NoRepeats(q) == \A i, j \in 1 .. Len(q) : q[i] = q[j] => i = j

LEMMA WithoutType ==
    ASSUME NEW q \in Seq(Calls), NEW c, In(q, c)
    PROVE  WithoutCall(q, c) \in Seq(Calls) /\ Len(WithoutCall(q, c)) = Len(q) - 1
<1>1. Len(q) - 1 \in Nat
  BY DEF In
<1>2. \A i \in 1 .. Len(q) - 1 : q[i] \in Calls /\ q[i + 1] \in Calls
  OBVIOUS
<1>3. WithoutCall(q, c) \in [1 .. Len(q) - 1 -> Calls]
  BY <1>2 DEF WithoutCall
<1> QED BY <1>1, <1>3

LEMMA WithoutKeeps ==
    ASSUME NEW q \in Seq(Calls), NEW c, In(q, c), NEW d, In(q, d), d # c
    PROVE  In(WithoutCall(q, c), d)
<1>1. PICK k \in 1 .. Len(q) : q[k] = d
  BY DEF In
<1>2. Len(WithoutCall(q, c)) = Len(q) - 1
  BY WithoutType
<1>3. CASE \E j \in 1 .. k - 1 : q[j] = c
  <2>1. k - 1 \in 1 .. Len(q) - 1 /\ (k - 1) + 1 = k
    BY <1>3
  <2>2. WithoutCall(q, c)[k - 1] = d
    BY <1>1, <1>3, <2>1 DEF WithoutCall
  <2> QED BY <1>2, <2>1, <2>2 DEF In
<1>4. CASE ~\E j \in 1 .. k - 1 : q[j] = c
  <2>1. ~\E j \in 1 .. k : q[j] = c
    BY <1>1, <1>4
  <2>2. k \in 1 .. Len(q) - 1
    BY <2>1 DEF In
  <2>3. WithoutCall(q, c)[k] = d
    BY <1>1, <2>1, <2>2 DEF WithoutCall
  <2> QED BY <1>2, <2>2, <2>3 DEF In
<1> QED BY <1>3, <1>4

LEMMA WithoutOnly ==
    ASSUME NEW q \in Seq(Calls), NEW c, In(q, c), NoRepeats(q)
    PROVE  /\ NoRepeats(WithoutCall(q, c))
           /\ \A i \in 1 .. Len(WithoutCall(q, c)) :
                  WithoutCall(q, c)[i] # c /\ \E k \in 1 .. Len(q) : WithoutCall(q, c)[i] = q[k]
<1> DEFINE w == WithoutCall(q, c)
           at(i) == IF \E j \in 1 .. i : q[j] = c THEN i + 1 ELSE i
<1>1. Len(w) = Len(q) - 1
  BY WithoutType
<1>2. ASSUME NEW i \in 1 .. Len(w) PROVE w[i] = q[at(i)] /\ at(i) \in 1 .. Len(q)
  <2>1. i \in 1 .. Len(q) - 1 /\ i \in 1 .. Len(q) /\ i + 1 \in 1 .. Len(q)
    BY <1>1
  <2>2. w[i] = IF \E j \in 1 .. i : q[j] = c THEN q[i + 1] ELSE q[i]
    BY <2>1 DEF WithoutCall
  <2> HIDE DEF w
  <2>3. CASE \E j \in 1 .. i : q[j] = c
    BY <2>1, <2>2, <2>3
  <2>4. CASE ~\E j \in 1 .. i : q[j] = c
    BY <2>1, <2>2, <2>4
  <2> QED BY <2>3, <2>4
<1>3. ASSUME NEW i \in 1 .. Len(w) PROVE q[at(i)] # c
  <2>1. CASE \E j \in 1 .. i : q[j] = c
    <3>1. PICK j \in 1 .. i : q[j] = c
      BY <2>1
    <3>2. j \in 1 .. Len(q) /\ i + 1 \in 1 .. Len(q) /\ j # i + 1
      BY <1>1
    <3>3. q[i + 1] # c
      BY <3>1, <3>2 DEF NoRepeats
    <3> QED BY <2>1, <3>3
  <2>2. CASE ~\E j \in 1 .. i : q[j] = c
    BY <2>2
  <2> QED BY <2>1, <2>2
<1>4. ASSUME NEW i \in 1 .. Len(w), NEW j \in 1 .. Len(w), w[i] = w[j] PROVE i = j
  <2>1. at(i) = at(j)
    BY <1>2, <1>4 DEF NoRepeats
  <2>2. i \in Nat /\ j \in Nat
    BY <1>1
  <2>3. ASSUME NEW a \in Nat, NEW b \in Nat, a < b PROVE at(a) < at(b)
    <3>1. (\E l \in 1 .. a : q[l] = c) => (\E l \in 1 .. b : q[l] = c)
      BY <2>3
    <3> QED BY <2>3, <3>1
  <2> HIDE DEF at
  <2>4. ~(i < j) /\ ~(j < i)
    BY <1>2, <2>1, <2>2, <2>3
  <2> QED BY <2>2, <2>4
<1>5. NoRepeats(w)
  BY <1>4 DEF NoRepeats
<1>6. \A i \in 1 .. Len(w) : w[i] # c /\ \E k \in 1 .. Len(q) : w[i] = q[k]
  BY <1>2, <1>3
<1> QED BY <1>5, <1>6

\* The line of a lock that is held by h, or free.
HeldLine(h, q) == (IF h = NoCall THEN <<>> ELSE <<h>>) \o q

LEMMA WithoutHolder ==
    ASSUME NEW q \in Seq(Calls), NEW c \in Calls
    PROVE  WithoutCall(HeldLine(c, q), c) = HeldLine(NoCall, q)
<1> DEFINE l == <<c>> \o q
<1>1. HeldLine(c, q) = l /\ HeldLine(NoCall, q) = q
  BY SessionAssumption DEF HeldLine
<1>2. Len(l) = Len(q) + 1 /\ l[1] = c /\ \A i \in 1 .. Len(q) : l[i + 1] = q[i]
  OBVIOUS
<1>3. DOMAIN WithoutCall(l, c) = 1 .. Len(q)
  BY <1>2 DEF WithoutCall
<1>4. ASSUME NEW i \in 1 .. Len(q) PROVE WithoutCall(l, c)[i] = q[i]
  BY <1>2 DEF WithoutCall
<1>5. WithoutCall(l, c) = [i \in 1 .. Len(q) |-> q[i]]
  BY <1>3, <1>4 DEF WithoutCall
<1> HIDE DEF l
<1> QED BY <1>1, <1>5

LEMMA WithoutQueued ==
    ASSUME NEW q \in Seq(Calls), NEW h \in Calls \cup {NoCall}, NEW c \in Calls,
           h # c, In(q, c)
    PROVE  WithoutCall(HeldLine(h, q), c) = HeldLine(h, WithoutCall(q, c))
<1>1. CASE h = NoCall
  <2>1. HeldLine(h, q) = q /\ HeldLine(h, WithoutCall(q, c)) = WithoutCall(q, c)
    BY <1>1, WithoutType DEF HeldLine
  <2> QED BY <2>1
<1>2. CASE h # NoCall
  <2> DEFINE l == <<h>> \o q
             w == WithoutCall(q, c)
             m == <<h>> \o w
  <2>1. HeldLine(h, q) = l /\ HeldLine(h, w) = m
    BY <1>2 DEF HeldLine
  <2>2. w \in Seq(Calls) /\ Len(w) = Len(q) - 1 /\ Len(q) \in Nat \ {0}
    BY WithoutType DEF In
  <2> HIDE DEF w
  <2>3. Len(l) = Len(q) + 1 /\ l[1] = h /\ \A i \in 1 .. Len(q) : l[i + 1] = q[i]
    BY <1>2
  <2>4. /\ m \in Seq(Calls) /\ Len(m) = Len(q) /\ m[1] = h
        /\ \A i \in 1 .. Len(w) : m[i + 1] = w[i]
    BY <1>2, <2>2
  <2> HIDE DEF l, m
  <2>5. ASSUME NEW i \in 1 .. Len(q) PROVE WithoutCall(l, c)[i] = m[i]
    <3>1. CASE i = 1
      <4>1. ~\E j \in 1 .. 1 : l[j] = c
        BY <2>3
      <4> QED BY <2>3, <2>4, <3>1, <4>1 DEF WithoutCall
    <3>2. CASE i # 1
      <4>1. i - 1 \in 1 .. Len(w) /\ i - 1 \in 1 .. Len(q) - 1 /\ (i - 1) + 1 = i
        BY <2>2, <3>2
      <4>2. m[i] = w[i - 1]
        BY <2>4, <4>1
      <4>3. (\E j \in 1 .. i : l[j] = c) <=> (\E j \in 1 .. i - 1 : q[j] = c)
        <5>1. ASSUME NEW j \in 1 .. i, l[j] = c PROVE \E k \in 1 .. i - 1 : q[k] = c
          <6>1. j # 1
            BY <2>3, <5>1
          <6>2. j - 1 \in 1 .. i - 1 /\ j - 1 \in 1 .. Len(q) /\ (j - 1) + 1 = j
            BY <4>1, <6>1
          <6> QED BY <2>3, <5>1, <6>2
        <5>2. ASSUME NEW j \in 1 .. i - 1, q[j] = c PROVE \E k \in 1 .. i : l[k] = c
          <6>1. j \in 1 .. Len(q) /\ j + 1 \in 1 .. i
            BY <4>1
          <6> QED BY <2>3, <5>2, <6>1
        <5> QED BY <5>1, <5>2
      <4>4. l[i + 1] = q[i] /\ l[i] = q[i - 1]
        BY <2>3, <4>1
      <4>5. WithoutCall(l, c)[i] = IF \E j \in 1 .. i : l[j] = c THEN l[i + 1] ELSE l[i]
        BY <2>3 DEF WithoutCall
      <4>6. w[i - 1] = IF \E j \in 1 .. i - 1 : q[j] = c THEN q[(i - 1) + 1] ELSE q[i - 1]
        BY <4>1 DEF WithoutCall, w
      <4> QED BY <4>1, <4>2, <4>3, <4>4, <4>5, <4>6
    <3> QED BY <3>1, <3>2
  <2>6. WithoutCall(l, c) = [i \in 1 .. Len(q) |-> WithoutCall(l, c)[i]]
    BY <2>2, <2>3 DEF WithoutCall
  <2>7. m = [i \in 1 .. Len(q) |-> m[i]]
    BY <2>4
  <2> HIDE DEF WithoutCall
  <2>8. WithoutCall(l, c) = m
    BY <2>5, <2>6, <2>7
  <2> QED BY <2>1, <2>8 DEF w
<1> QED BY <1>1, <1>2
-----------------------------------------------------------------------------
(* The inductive invariant *)

\* A lock is held by the call that is past it, and queued on by the calls that
\* wait for it, each once.
Queues ==
    /\ queue \in [Locks -> Seq(Calls)]
    /\ \A o \in Locks :
          /\ NoRepeats(queue[o])
          /\ \A i \in 1 .. Len(queue[o]) : lock[queue[o][i]] = o /\ pc[queue[o][i]] = "locking"
          /\ holder[o] \in Calls => lock[holder[o]] = o /\ pc[holder[o]] \in {"permit", "running"}
    /\ \A c \in Calls : pc[c] = "locking" => In(queue[lock[c]], c)

\* The semaphore's permits are with the running calls, and the calls that wait
\* for one are in its queue.
Permits ==
    /\ wait \in Seq(Calls) /\ free \in Nat
    /\ Cardinality({c \in Calls : pc[c] = "running"}) + free = MaxGlobal
    /\ \A c \in Calls : pc[c] = "permit" => In(wait, c)

\* No two sessions share a lock object.
OwnLocks == \A s, t \in Sessions : (table[s] = table[t] /\ table[s] # NoLock) => s = t

Stamps == before \in [Sessions -> SUBSET Sessions]

JInv == IInv /\ Queues /\ Permits /\ OwnLocks /\ Stamps /\ IdleLocksBounded

Running == {c \in Calls : pc[c] = "running"}

Line(s) == IF table[s] = NoLock THEN <<>> ELSE HeldLine(holder[table[s]], queue[table[s]])

LEMMA RunningFinite ==
    ASSUME NEW S \in SUBSET Calls
    PROVE  IsFiniteSet(S) /\ Cardinality(S) \in Nat
BY FS_Subset, FS_CardinalityType, SessionAssumption

\* A session without a call in progress has a free lock with nobody waiting.
LEMMA UnusedFree ==
    ASSUME JInv, NEW t \in Sessions, table[t] # NoLock,
           NEW c \in Calls \cup {NoCall}, \A d \in Calls \ {c} : key[d] # t
    PROVE  /\ table[t] \in Locks
           /\ holder[table[t]] \in {c, NoCall}
           /\ \A i \in 1 .. Len(queue[table[t]]) : queue[table[t]][i] = c
<1>1. Shapes /\ Current /\ Queues /\ OwnLocks
  BY DEF JInv, IInv
<1>2. table[t] \in Locks
  BY <1>1 DEF Shapes
<1>3. ASSUME NEW d \in Calls \ {c}, lock[d] = table[t], pc[d] # "idle" PROVE FALSE
  <2>1. key[d] \in Sessions /\ table[key[d]] = table[t]
    BY <1>1, <1>3 DEF Current
  <2> QED BY <1>1, <2>1 DEF OwnLocks
<1>4. holder[table[t]] \in {c, NoCall}
  <2>1. holder[table[t]] \in Calls \cup {NoCall}
    BY <1>1, <1>2 DEF Shapes
  <2>2. holder[table[t]] \in Calls => /\ lock[holder[table[t]]] = table[t]
                                     /\ pc[holder[table[t]]] # "idle"
    BY <1>1, <1>2 DEF Queues
  <2> QED BY <1>3, <2>1, <2>2
<1>5. \A i \in 1 .. Len(queue[table[t]]) : queue[table[t]][i] = c
  <2> SUFFICES ASSUME NEW i \in 1 .. Len(queue[table[t]]), queue[table[t]][i] # c
               PROVE  FALSE
    OBVIOUS
  <2>1. queue[table[t]] \in Seq(Calls)
    BY <1>1, <1>2 DEF Queues
  <2>2. queue[table[t]][i] \in Calls
    BY <2>1
  <2>3. lock[queue[table[t]][i]] = table[t] /\ pc[queue[table[t]][i]] = "locking"
    BY <1>1, <1>2 DEF Queues
  <2> QED BY <1>3, <2>2, <2>3
<1> QED BY <1>2, <1>4, <1>5

\* A new lock object has no holder and no waiters.
LEMMA NewFree ==
    ASSUME JInv, NEW o \in Locks, Unreferenced(o)
    PROVE  holder[o] = NoCall /\ queue[o] = <<>>
<1>1. Shapes /\ Queues
  BY DEF JInv, IInv
<1>2. holder[o] = NoCall
  BY <1>1 DEF Shapes, Queues, Unreferenced
<1>3. queue[o] \in Seq(Calls)
  BY <1>1 DEF Queues
<1>4. ~(1 \in 1 .. Len(queue[o]))
  <2> SUFFICES ASSUME 1 \in 1 .. Len(queue[o]) PROVE FALSE
    OBVIOUS
  <2>1. queue[o][1] \in Calls
    BY <1>3
  <2>2. lock[queue[o][1]] = o
    BY <1>1 DEF Queues
  <2> QED BY <2>1, <2>2 DEF Unreferenced
<1>5. queue[o] = <<>>
  BY <1>3, <1>4
<1> QED BY <1>2, <1>5

-----------------------------------------------------------------------------
(* Steps *)

IdleSessions == {s \in Sessions : table[s] # NoLock /\ active[s] = 0}

LEMMA UnusedLine ==
    ASSUME JInv, NEW t \in Sessions, table[t] # NoLock, active[t] = 0
    PROVE  holder[table[t]] = NoCall /\ Line(t) = <<>>
<1>1. Shapes /\ Counted /\ Queues
  BY DEF JInv, IInv
<1>2. Users(key, t) = {}
  BY <1>1, UsersFinite, FS_EmptySet DEF Counted
<1>3. \A d \in Calls : key[d] # t
  BY <1>2 DEF Users
<1>4. /\ table[t] \in Locks /\ holder[table[t]] = NoCall
      /\ \A i \in 1 .. Len(queue[table[t]]) : queue[table[t]][i] = NoCall
  BY <1>3, UnusedFree
<1>5. queue[table[t]] \in Seq(Calls)
  BY <1>1, <1>4 DEF Queues
<1>6. ~(1 \in 1 .. Len(queue[table[t]]))
  BY <1>4, <1>5, SessionAssumption
<1>7. queue[table[t]] = <<>>
  BY <1>5, <1>6
<1> QED BY <1>4, <1>7 DEF Line, HeldLine

\* Marking a session released evicts only locks that stand for empty lines and
\* leaves at most the size of the cache idle.
LEMMA ReleaseSteps ==
    ASSUME JInv, NEW c \in Calls, pc[c] # "idle", MarkReleased(key[c]), Return(c)
    PROVE  /\ key[c] \in Sessions /\ lock[c] \in Locks
           /\ table[key[c]] = lock[c] /\ table'[key[c]] = lock[c]
           /\ \A t \in Sessions \ {key[c]} :
                 \/ table'[t] = table[t]
                 \/ table'[t] = NoLock /\ Line(t) = <<>>
           /\ OwnLocks' /\ Stamps' /\ IdleLocksBounded'
<1> DEFINE s == key[c]
           counts == [active EXCEPT ![s] = IF @ <= 1 THEN 0 ELSE @ - 1]
<1>1. Shapes /\ s \in Sessions /\ lock[c] \in Locks /\ table[s] = lock[c] /\ OwnLocks /\ Stamps
  BY DEF JInv, IInv, Current
<1>2. PICK E \in Evictions(s, counts) :
          /\ table' = [t \in Sessions |-> IF t \in E THEN NoLock ELSE table[t]]
          /\ active' = [t \in Sessions |-> IF t \in E THEN 0 ELSE counts[t]]
          /\ before' = Touch(s)
  BY DEF MarkReleased
<1>3. \A t \in Sessions \ {s} : counts[t] = active[t]
  BY <1>1 DEF Shapes
<1> HIDE DEF counts
<1>4. \A t \in E : t \in Sessions \ {s} /\ Idle(t, counts)
  BY <1>2 DEF Evictions
<1>5. \A t \in E : table[t] # NoLock /\ active[t] = 0
  BY <1>3, <1>4 DEF Idle
<1>6. \A t \in Sessions \ {s} :
          table'[t] = table[t] \/ (table'[t] = NoLock /\ Line(t) = <<>>)
  BY <1>2, <1>4, <1>5, UnusedLine
<1>7. table'[s] = table[s] /\ s \notin E
  BY <1>1, <1>2, <1>4
<1>8. OwnLocks'
  BY <1>1, <1>2 DEF OwnLocks
<1>9. Stamps'
  BY <1>1, <1>2 DEF Stamps, Touch
<1>10. IdleLocksBounded'
  <2> DEFINE I == {t \in Sessions : table'[t] # NoLock /\ active'[t] = 0}
  <2>1. I \subseteq Sessions /\ IsFiniteSet(Sessions) /\ IsFiniteSet(I)
    BY FS_Subset, SessionAssumption
  <2>2. ASSUME NEW t \in I, t # s
        PROVE  t \in Cached /\ t \notin E /\ Idle(t, counts)
    <3>1. table[t] # NoLock /\ t \notin E /\ counts[t] = 0 /\ active[t] = 0
      BY <1>2, <1>3, <2>2
    <3> QED BY <3>1, UnusedLine DEF Cached, Idle
  <2>3. CASE E = {t \in Sessions \ {s} : Idle(t, counts)}
    <3>1. I \subseteq {s}
      BY <2>2, <2>3
    <3>2. Cardinality(I) <= 1
      <4>1. IsFiniteSet({s}) /\ Cardinality({s}) = 1
        BY FS_Singleton
      <4> HIDE DEF I, s
      <4> QED BY <3>1, <4>1, FS_Subset
    <3>3. Cardinality(I) \in Nat
      BY <2>1, FS_CardinalityType
    <3> HIDE DEF I
    <3>4. Cardinality(I) <= MaxCached
      BY <3>2, <3>3, SessionAssumption
    <3> QED BY <3>4 DEF IdleLocksBounded, I
  <2>4. CASE Cardinality(Cached \ E) <= MaxCached
    <3>1. s \in Cached
      BY <1>1, SessionAssumption DEF Cached
    <3>2. I \subseteq Cached \ E
      BY <1>7, <2>1, <2>2, <3>1
    <3>3. IsFiniteSet(Cached \ E)
      BY <2>1, FS_Subset DEF Cached
    <3>4. Cardinality(I) <= Cardinality(Cached \ E)
      BY <3>2, <3>3, FS_Subset
    <3>5. Cardinality(I) \in Nat /\ Cardinality(Cached \ E) \in Nat
      BY <2>1, <3>3, FS_CardinalityType
    <3> HIDE DEF I
    <3>6. Cardinality(I) <= MaxCached
      BY <2>4, <3>4, <3>5, SessionAssumption
    <3> QED BY <3>6 DEF IdleLocksBounded, I
  <2> QED BY <1>2, <2>3, <2>4 DEF Evictions
<1> QED BY <1>1, <1>6, <1>7, <1>8, <1>9, <1>10

\* A call that asks for a permit gets one or queues for it.
LEMMA TakePermitFacts ==
    ASSUME Shapes, Permits, NEW c \in Calls, pc[c] \in {"idle", "locking"}, TakePermit(c)
    PROVE  /\ Permits'
           /\ \/ pc' = [pc EXCEPT ![c] = "permit"] /\ Running' = Running
              \/ /\ pc' = [pc EXCEPT ![c] = "running"] /\ Running' = Running \cup {c}
                 /\ c \notin Running /\ Cardinality(Running) < MaxGlobal
<1> DEFINE n == Cardinality(Running)
<1>1. n \in Nat /\ IsFiniteSet(Running) /\ c \notin Running
  BY RunningFinite DEF Running
<1>2. wait \in Seq(Calls) /\ free \in Nat /\ n + free = MaxGlobal /\ MaxGlobal \in Nat
  BY SessionAssumption DEF Permits, Running
<1>3. CASE /\ free > 0 /\ wait = <<>> /\ free' = free - 1 /\ wait' = wait
           /\ pc' = [pc EXCEPT ![c] = "running"]
  <2>1. Running' = Running \cup {c}
    BY <1>3 DEF Running, Shapes
  <2>2. Cardinality(Running') = n + 1
    BY <1>1, <2>1, FS_AddElement
  <2>3. \A d \in Calls : pc'[d] = "permit" => In(wait', d)
    BY <1>3 DEF Permits, Shapes
  <2>4. Permits'
    BY <1>1, <1>2, <1>3, <2>2, <2>3 DEF Permits, Running
  <2> QED BY <1>1, <1>2, <1>3, <2>1, <2>4
<1>4. CASE /\ wait' = Append(wait, c) /\ free' = free
           /\ pc' = [pc EXCEPT ![c] = "permit"]
  <2>1. Running' = Running
    BY <1>1, <1>4 DEF Running, Shapes
  <2>2. ASSUME NEW d \in Calls, pc'[d] = "permit" PROVE In(wait', d)
    <3>1. wait' \in Seq(Calls) /\ Len(wait') = Len(wait) + 1 /\ wait'[Len(wait) + 1] = c
          /\ \A i \in 1 .. Len(wait) : wait'[i] = wait[i]
      BY <1>2, <1>4
    <3>2. d = c \/ In(wait, d)
      BY <1>4, <2>2 DEF Permits, Shapes
    <3> QED BY <1>2, <3>1, <3>2 DEF In
  <2>3. Cardinality(Running') + free' = MaxGlobal
    BY <1>2, <1>4, <2>1
  <2>4. wait' \in Seq(Calls) /\ free' \in Nat
    BY <1>2, <1>4
  <2>5. Permits'
    BY <2>2, <2>3, <2>4 DEF Permits, Running
  <2> QED BY <1>4, <2>1, <2>5
<1> QED BY <1>3, <1>4 DEF TakePermit

-----------------------------------------------------------------------------
(* Leaving *)

\* What leaving does to the lines of all sessions and to the running calls.
Departs(c, s) ==
    /\ In(Line(s), c)
    /\ Line(s)' = WithoutCall(Line(s), c)
    /\ \A t \in Sessions \ {s} : Line(t)' = Line(t)
    /\ Running' = Running \ {c}

\* The lines of other sessions do not see what happens to the lock object.
LEMMA OtherLines ==
    ASSUME JInv, NEW c \in Calls, key[c] \in Sessions, NEW t \in Sessions \ {key[c]},
           table[key[c]] = lock[c], lock[c] \in Locks,
           table'[t] = table[t] \/ (table'[t] = NoLock /\ Line(t) = <<>>),
           \A o \in Locks \ {lock[c]} : holder'[o] = holder[o] /\ queue'[o] = queue[o]
    PROVE  Line(t)' = Line(t)
<1>1. Shapes /\ OwnLocks
  BY DEF JInv, IInv
<1>2. CASE table'[t] = table[t] /\ table[t] # NoLock
  <2>1. table[t] \in Locks \ {lock[c]}
    BY <1>1, <1>2 DEF Shapes, OwnLocks
  <2> QED BY <1>2, <2>1 DEF Line, HeldLine
<1>3. CASE table'[t] = table[t] /\ table[t] = NoLock
  BY <1>3 DEF Line
<1>4. CASE table'[t] = NoLock /\ Line(t) = <<>>
  BY <1>4 DEF Line
<1> QED BY <1>2, <1>3, <1>4

\* Leaving with the lock: after the run, or cancelled while waiting for a permit.
LEMMA LeaveHolding ==
    ASSUME JInv, NEW c \in Calls, Leave(c) \/ CancelPermit(c)
    PROVE  JInv' /\ \E s \in Sessions : Departs(c, s)
<1>1. Shapes /\ Current /\ Held /\ Queues /\ Permits /\ OwnLocks
  BY DEF JInv, IInv
<1>2. /\ MarkReleased(key[c]) /\ Return(c) /\ queue' = queue
      /\ holder' = [holder EXCEPT ![lock[c]] = NoCall]
      /\ pc[c] \in {"permit", "running"}
  BY DEF Leave, CancelPermit
<1>3. IInv'
  BY <1>2, ReturnPreserves DEF JInv
<1>4. /\ key[c] \in Sessions /\ lock[c] \in Locks
      /\ table[key[c]] = lock[c] /\ table'[key[c]] = lock[c]
      /\ \A t \in Sessions \ {key[c]} :
            \/ table'[t] = table[t]
            \/ table'[t] = NoLock /\ Line(t) = <<>>
      /\ OwnLocks' /\ Stamps' /\ IdleLocksBounded'
  BY <1>2, ReleaseSteps
<1>5. /\ pc' = [pc EXCEPT ![c] = "idle"] /\ lock' = [lock EXCEPT ![c] = NoLock]
  BY <1>2 DEF Return
<1>6. holder[lock[c]] = c
  BY <1>1, <1>2 DEF Held
<1>7. \A d \in Calls \ {c} : pc'[d] = pc[d] /\ lock'[d] = lock[d]
  BY <1>1, <1>5 DEF Shapes
<1>8. Queues'
  <2>1. ASSUME NEW o \in Locks
        PROVE  /\ NoRepeats(queue'[o])
               /\ \A i \in 1 .. Len(queue'[o]) :
                     lock'[queue'[o][i]] = o /\ pc'[queue'[o][i]] = "locking"
               /\ holder'[o] \in Calls =>
                     lock'[holder'[o]] = o /\ pc'[holder'[o]] \in {"permit", "running"}
    <3>1. NoRepeats(queue'[o])
      BY <1>1, <1>2 DEF Queues
    <3>2. ASSUME NEW i \in 1 .. Len(queue'[o])
          PROVE  lock'[queue'[o][i]] = o /\ pc'[queue'[o][i]] = "locking"
      <4>1. queue[o] \in Seq(Calls) /\ i \in 1 .. Len(queue[o])
        BY <1>1, <1>2 DEF Queues
      <4>2. queue[o][i] \in Calls /\ lock[queue[o][i]] = o /\ pc[queue[o][i]] = "locking"
        BY <1>1, <4>1 DEF Queues
      <4>3. queue[o][i] # c
        BY <1>2, <4>2
      <4> QED BY <1>2, <1>7, <4>2, <4>3
    <3>3. ASSUME holder'[o] \in Calls
          PROVE  lock'[holder'[o]] = o /\ pc'[holder'[o]] \in {"permit", "running"}
      <4>1. o # lock[c] /\ holder'[o] = holder[o]
        BY <1>1, <1>2, <1>4, <3>3, SessionAssumption DEF Shapes
      <4>2. lock[holder[o]] = o /\ pc[holder[o]] \in {"permit", "running"}
        BY <1>1, <3>3, <4>1 DEF Queues
      <4>3. holder[o] # c
        BY <4>1, <4>2
      <4> QED BY <1>7, <3>3, <4>1, <4>2, <4>3
    <3> QED BY <3>1, <3>2, <3>3
  <2>2. \A d \in Calls : pc'[d] = "locking" => In(queue'[lock'[d]], d)
    BY <1>1, <1>2, <1>5, <1>7 DEF Queues, Shapes
  <2>3. queue' \in [Locks -> Seq(Calls)]
    BY <1>1, <1>2 DEF Queues
  <2> QED BY <2>1, <2>2, <2>3 DEF Queues
<1>9. Running' = Running \ {c}
  BY <1>1, <1>5, <1>7 DEF Running, Shapes
<1>10. Permits'
  <2> DEFINE n == Cardinality(Running)
  <2>1. n \in Nat /\ IsFiniteSet(Running)
    BY RunningFinite DEF Running
  <2>2. wait \in Seq(Calls) /\ free \in Nat /\ n + free = MaxGlobal /\ MaxGlobal \in Nat
    BY <1>1, SessionAssumption DEF Permits, Running
  <2>3. Cardinality(Running') = IF c \in Running THEN n - 1 ELSE n
    BY <1>9, <2>1, FS_RemoveElement
  <2>4. CASE Leave(c)
    <3>1. free' = free + 1 /\ wait' = wait /\ c \in Running
      BY <2>4 DEF Leave, Running
    <3>2. \A d \in Calls : pc'[d] = "permit" => In(wait', d)
      BY <1>1, <1>5, <1>7, <3>1 DEF Permits, Shapes
    <3> QED BY <2>1, <2>2, <2>3, <3>1, <3>2 DEF Permits, Running
  <2>5. CASE CancelPermit(c)
    <3>1. free' = free /\ wait' = WithoutCall(wait, c) /\ pc[c] = "permit"
      BY <2>5 DEF CancelPermit
    <3>2. In(wait, c) /\ c \notin Running
      BY <1>1, <3>1 DEF Permits, Running
    <3>3. wait' \in Seq(Calls)
      BY <2>2, <3>1, <3>2, WithoutType
    <3>4. ASSUME NEW d \in Calls, pc'[d] = "permit" PROVE In(wait', d)
      <4>1. d # c /\ pc[d] = "permit"
        BY <1>1, <1>5, <1>7, <3>4 DEF Shapes
      <4>2. In(wait, d)
        BY <1>1, <4>1 DEF Permits
      <4> QED BY <2>2, <3>1, <3>2, <4>1, <4>2, WithoutKeeps
    <3>5. Cardinality(Running') + free' = MaxGlobal
      BY <2>2, <2>3, <3>1, <3>2
    <3> QED BY <2>2, <3>1, <3>3, <3>4, <3>5 DEF Permits, Running
  <2> QED BY <2>4, <2>5
<1> PICK s \in Sessions : s = key[c]
  BY <1>4
<1>11. Line(s) = HeldLine(c, queue[lock[c]]) /\ Line(s)' = HeldLine(NoCall, queue[lock[c]])
  <2>1. holder'[lock[c]] = NoCall /\ lock[c] # NoLock
    BY <1>1, <1>2, <1>4, SessionAssumption DEF Shapes
  <2>2. Line(s) = HeldLine(c, queue[lock[c]])
    BY <1>4, <1>6, <2>1 DEF Line
  <2>3. Line(s)' = HeldLine(NoCall, queue[lock[c]])
    BY <1>2, <1>4, <2>1 DEF Line
  <2> QED BY <2>2, <2>3
<1>12. queue[lock[c]] \in Seq(Calls)
  BY <1>1, <1>4 DEF Queues
<1>13. Line(s)' = WithoutCall(Line(s), c)
  BY <1>11, <1>12, WithoutHolder
<1>14. In(Line(s), c)
  <2> DEFINE q == queue[lock[c]]
  <2>1. HeldLine(c, q) = <<c>> \o q
    BY SessionAssumption DEF HeldLine
  <2>2. Len(<<c>> \o q) = Len(q) + 1 /\ (<<c>> \o q)[1] = c /\ Len(q) \in Nat
    BY <1>12
  <2> QED BY <1>11, <2>1, <2>2 DEF In
<1>15. \A t \in Sessions \ {key[c]} : Line(t)' = Line(t)
  <2>1. \A o \in Locks \ {lock[c]} : holder'[o] = holder[o] /\ queue'[o] = queue[o]
    BY <1>1, <1>2 DEF Shapes
  <2> QED BY <1>4, <2>1, OtherLines
<1>16. JInv'
  BY <1>3, <1>4, <1>8, <1>10 DEF JInv
<1> QED BY <1>4, <1>9, <1>13, <1>14, <1>15, <1>16 DEF Departs

\* Leaving the queue of the lock.
LEMMA LeaveQueue ==
    ASSUME JInv, NEW c \in Calls, CancelLocking(c)
    PROVE  JInv' /\ \E s \in Sessions : Departs(c, s)
<1>1. Shapes /\ Current /\ Held /\ Queues /\ Permits /\ OwnLocks
  BY DEF JInv, IInv
<1>2. /\ MarkReleased(key[c]) /\ Return(c) /\ holder' = holder /\ pc[c] = "locking"
      /\ queue' = [queue EXCEPT ![lock[c]] = WithoutCall(queue[lock[c]], c)]
      /\ free' = free /\ wait' = wait
  BY DEF CancelLocking
<1>3. IInv'
  BY <1>2, ReturnPreserves DEF JInv
<1>4. /\ key[c] \in Sessions /\ lock[c] \in Locks
      /\ table[key[c]] = lock[c] /\ table'[key[c]] = lock[c]
      /\ \A t \in Sessions \ {key[c]} :
            \/ table'[t] = table[t]
            \/ table'[t] = NoLock /\ Line(t) = <<>>
      /\ OwnLocks' /\ Stamps' /\ IdleLocksBounded'
  BY <1>2, ReleaseSteps
<1>5. /\ pc' = [pc EXCEPT ![c] = "idle"] /\ lock' = [lock EXCEPT ![c] = NoLock]
  BY <1>2 DEF Return
<1>6. \A d \in Calls \ {c} : pc'[d] = pc[d] /\ lock'[d] = lock[d]
  BY <1>1, <1>5 DEF Shapes
<1> DEFINE q == queue[lock[c]]
<1>7. /\ q \in Seq(Calls) /\ In(q, c) /\ NoRepeats(q)
      /\ \A i \in 1 .. Len(q) : lock[q[i]] = lock[c] /\ pc[q[i]] = "locking"
  BY <1>1, <1>2, <1>4 DEF Queues
<1>8. WithoutCall(q, c) \in Seq(Calls)
  BY <1>7, WithoutType
<1>9. \A o \in Locks : queue'[o] = IF o = lock[c] THEN WithoutCall(q, c) ELSE queue[o]
  BY <1>1, <1>2, <1>4 DEF Queues
<1>10. \A o \in Locks : holder[o] # c
  BY <1>1, <1>2 DEF Queues
<1>11. Queues'
  <2>1. ASSUME NEW o \in Locks
        PROVE  /\ NoRepeats(queue'[o])
               /\ \A i \in 1 .. Len(queue'[o]) :
                     lock'[queue'[o][i]] = o /\ pc'[queue'[o][i]] = "locking"
    <3>1. CASE o = lock[c]
      <4>1. NoRepeats(queue'[o])
        BY <1>7, <1>9, <3>1, WithoutOnly
      <4>2. ASSUME NEW i \in 1 .. Len(queue'[o])
            PROVE  lock'[queue'[o][i]] = o /\ pc'[queue'[o][i]] = "locking"
        <5>1. /\ queue'[o][i] # c
              /\ \E k \in 1 .. Len(q) : queue'[o][i] = q[k]
          BY <1>7, <1>9, <3>1, WithoutOnly
        <5>2. PICK k \in 1 .. Len(q) : queue'[o][i] = q[k]
          BY <5>1
        <5>3. q[k] \in Calls
          BY <1>7
        <5> QED BY <1>6, <1>7, <3>1, <5>1, <5>2, <5>3
      <4> QED BY <4>1, <4>2
    <3>2. CASE o # lock[c]
      <4>1. NoRepeats(queue'[o])
        BY <1>1, <1>9, <3>2 DEF Queues
      <4>2. ASSUME NEW i \in 1 .. Len(queue'[o])
            PROVE  lock'[queue'[o][i]] = o /\ pc'[queue'[o][i]] = "locking"
        <5>1. queue'[o] = queue[o] /\ queue[o] \in Seq(Calls)
          BY <1>1, <1>9, <3>2 DEF Queues
        <5>2. queue[o][i] \in Calls
          BY <5>1
        <5>3. lock[queue[o][i]] = o /\ pc[queue[o][i]] = "locking"
          BY <1>1, <5>1 DEF Queues
        <5> QED BY <1>6, <3>2, <5>1, <5>2, <5>3
      <4> QED BY <4>1, <4>2
    <3> QED BY <3>1, <3>2
  <2>2. \A o \in Locks : holder'[o] \in Calls =>
            lock'[holder'[o]] = o /\ pc'[holder'[o]] \in {"permit", "running"}
    BY <1>1, <1>2, <1>6, <1>10 DEF Queues
  <2>3. ASSUME NEW d \in Calls, pc'[d] = "locking" PROVE In(queue'[lock'[d]], d)
    <3>1. d # c
      BY <1>1, <1>5, <2>3 DEF Shapes
    <3>2. pc[d] = "locking" /\ lock'[d] = lock[d]
      BY <1>6, <2>3, <3>1
    <3>3. lock[d] \in Locks /\ In(queue[lock[d]], d)
      BY <1>1, <3>2 DEF Current, Queues
    <3>4. CASE lock[d] = lock[c]
      BY <1>7, <1>9, <3>1, <3>2, <3>3, <3>4, WithoutKeeps
    <3>5. CASE lock[d] # lock[c]
      BY <1>9, <3>2, <3>3, <3>5
    <3> QED BY <3>4, <3>5
  <2>4. queue' \in [Locks -> Seq(Calls)]
    BY <1>1, <1>2, <1>8 DEF Queues
  <2> QED BY <2>1, <2>2, <2>3, <2>4 DEF Queues
<1>12. Running' = Running /\ Running \ {c} = Running
  BY <1>1, <1>2, <1>5, <1>6 DEF Running, Shapes
<1>13. Permits'
  <2>1. \A d \in Calls : pc'[d] = "permit" => In(wait', d)
    BY <1>1, <1>2, <1>5, <1>6 DEF Permits, Shapes
  <2>2. Cardinality(Running') + free' = MaxGlobal
    BY <1>1, <1>2, <1>12 DEF Permits, Running
  <2> QED BY <1>1, <1>2, <2>1, <2>2 DEF Permits, Running
<1> PICK s \in Sessions : s = key[c]
  BY <1>4
<1>14. lock[c] # NoLock /\ holder[lock[c]] \in Calls \cup {NoCall}
  BY <1>1, <1>4, SessionAssumption DEF Shapes
<1>15. Line(s) = HeldLine(holder[lock[c]], q)
  BY <1>4, <1>14 DEF Line
<1>16. Line(s)' = HeldLine(holder[lock[c]], WithoutCall(q, c))
  BY <1>2, <1>4, <1>9, <1>14 DEF Line
<1>17. Line(s)' = WithoutCall(Line(s), c)
  BY <1>4, <1>7, <1>10, <1>14, <1>15, <1>16, WithoutQueued
<1>18. In(Line(s), c)
  <2>1. CASE holder[lock[c]] = NoCall
    <3>1. HeldLine(holder[lock[c]], q) = q
      BY <1>7, <2>1 DEF HeldLine
    <3> QED BY <1>7, <1>15, <3>1
  <2>2. CASE holder[lock[c]] # NoCall
    <3> DEFINE h == holder[lock[c]]
    <3>1. HeldLine(h, q) = <<h>> \o q
      BY <2>2 DEF HeldLine
    <3>2. PICK k \in 1 .. Len(q) : q[k] = c
      BY <1>7 DEF In
    <3>3. Len(<<h>> \o q) = Len(q) + 1 /\ (<<h>> \o q)[k + 1] = c
      BY <1>7, <3>2
    <3>4. k + 1 \in 1 .. Len(<<h>> \o q)
      BY <1>7, <3>3
    <3> QED BY <1>15, <3>1, <3>3, <3>4 DEF In
  <2> QED BY <2>1, <2>2
<1>19. \A t \in Sessions \ {s} : Line(t)' = Line(t)
  <2>1. \A o \in Locks \ {lock[c]} : holder'[o] = holder[o] /\ queue'[o] = queue[o]
    BY <1>2, <1>9
  <2> QED BY <1>4, <2>1, OtherLines
<1>20. JInv'
  BY <1>3, <1>4, <1>11, <1>13 DEF JInv
<1> QED BY <1>12, <1>17, <1>18, <1>19, <1>20 DEF Departs

-----------------------------------------------------------------------------
(* Entering and being served *)

Arrives(c, s) ==
    /\ \A t \in Sessions : ~In(Line(t), c)
    /\ Line(s)' = Append(Line(s), c)
    /\ \A t \in Sessions \ {s} : Line(t)' = Line(t)

Starts(c) ==
    /\ \E s \in Sessions : Line(s)' # <<>> /\ Head(Line(s)') = c
    /\ c \notin Running /\ Cardinality(Running) < MaxGlobal
    /\ Running' = Running \cup {c}

\* An idle call is in no line.
LEMMA IdleNotInLine ==
    ASSUME JInv, NEW c \in Calls, pc[c] = "idle", NEW t \in Sessions
    PROVE  ~In(Line(t), c)
<1>1. Shapes /\ Current /\ Queues
  BY DEF JInv, IInv
<1>2. CASE table[t] = NoLock
  BY <1>2 DEF Line, In
<1>3. CASE table[t] # NoLock
  <2> DEFINE o == table[t]
             h == holder[o]
             q == queue[o]
  <2>1. o \in Locks /\ h \in Calls \cup {NoCall} /\ q \in Seq(Calls)
    BY <1>1, <1>3 DEF Shapes, Queues
  <2>2. h # c /\ \A i \in 1 .. Len(q) : q[i] # c
    BY <1>1, <2>1 DEF Queues
  <2>3. Line(t) = HeldLine(h, q)
    BY <1>3 DEF Line
  <2> HIDE DEF h, q, o
  <2>4. CASE h = NoCall
    <3>1. Line(t) = q
      BY <2>1, <2>3, <2>4 DEF HeldLine
    <3> QED BY <2>2, <3>1 DEF In
  <2>5. CASE h # NoCall
    <3> DEFINE l == <<h>> \o q
    <3>1. Line(t) = l
      BY <2>3, <2>5 DEF HeldLine
    <3>2. Len(l) = Len(q) + 1 /\ l[1] = h /\ \A i \in 1 .. Len(q) : l[i + 1] = q[i]
      BY <2>1, <2>5
    <3> HIDE DEF l
    <3>3. ASSUME NEW k \in 1 .. Len(l), l[k] = c PROVE FALSE
      <4>1. k # 1
        BY <2>2, <3>2, <3>3
      <4>2. k - 1 \in 1 .. Len(q) /\ (k - 1) + 1 = k
        BY <2>1, <3>2, <4>1
      <4> QED BY <2>2, <3>2, <3>3, <4>2
    <3> QED BY <3>1, <3>3 DEF In
  <2> QED BY <2>4, <2>5
<1> QED BY <1>2, <1>3

LEMMA Entering ==
    ASSUME JInv, NEW c \in Calls, NEW s \in Sessions, Enter(c, s)
    PROVE  JInv' /\ Arrives(c, s) /\ (Starts(c) \/ Running' = Running)
<1>1. Shapes /\ Current /\ Queues /\ Permits /\ OwnLocks /\ Stamps
  BY DEF JInv, IInv
<1>2. /\ pc[c] = "idle" /\ active' = [active EXCEPT ![s] = @ + 1]
      /\ before' = Touch(s) /\ key' = [key EXCEPT ![c] = s]
  BY DEF Enter
<1>3. PICK o \in Locks :
          /\ IF table[s] = NoLock THEN NewLock(o) ELSE o = table[s]
          /\ table' = [table EXCEPT ![s] = o]
          /\ lock' = [lock EXCEPT ![c] = o]
          /\ \/ /\ holder[o] = NoCall /\ queue[o] = <<>>
                /\ holder' = [holder EXCEPT ![o] = c]
                /\ TakePermit(c) /\ queue' = queue
             \/ /\ holder[o] # NoCall \/ queue[o] # <<>>
                /\ queue' = [queue EXCEPT ![o] = Append(@, c)]
                /\ pc' = [pc EXCEPT ![c] = "locking"]
                /\ holder' = holder /\ free' = free /\ wait' = wait
  BY DEF Enter
<1>4. IInv'
  BY EnterPreserves DEF JInv
<1>5. OwnLocks'
  BY <1>1, <1>3 DEF OwnLocks, NewLock, Unreferenced, Shapes
<1>6. Stamps'
  BY <1>1, <1>2 DEF Stamps, Touch
<1>7. IdleLocksBounded'
  <2>1. /\ active' \in [Sessions -> Nat] /\ active'[s] # 0
        /\ \A t \in Sessions \ {s} : active'[t] = active[t] /\ table'[t] = table[t]
    BY <1>1, <1>2, <1>3 DEF Shapes
  <2>2. IdleSessions' \subseteq IdleSessions
    BY <2>1 DEF IdleSessions
  <2>3. IsFiniteSet(IdleSessions)
    BY FS_Subset, SessionAssumption DEF IdleSessions
  <2>4. Cardinality(IdleSessions') <= Cardinality(IdleSessions)
    BY <2>2, <2>3, FS_Subset
  <2>5. Cardinality(IdleSessions) \in Nat /\ Cardinality(IdleSessions') \in Nat
    BY <2>2, <2>3, FS_Subset, FS_CardinalityType
  <2>6. Cardinality(IdleSessions) <= MaxCached
    BY DEF JInv, IdleLocksBounded, IdleSessions
  <2>7. Cardinality(IdleSessions') <= MaxCached
    BY <2>4, <2>5, <2>6, SessionAssumption
  <2> QED BY <2>7 DEF IdleLocksBounded, IdleSessions
<1>8. table[s] = NoLock => holder[o] = NoCall /\ queue[o] = <<>>
  BY <1>3, NewFree DEF NewLock
<1>9. /\ queue[o] \in Seq(Calls) /\ holder[o] \in Calls \cup {NoCall}
      /\ table'[s] = o /\ o # NoLock
  BY <1>1, <1>3, SessionAssumption DEF Queues, Shapes
<1>10. Line(s) = HeldLine(holder[o], queue[o])
  <2>1. CASE table[s] = NoLock
    <3>1. HeldLine(NoCall, <<>>) = <<>> \o <<>>
      BY DEF HeldLine
    <3>2. <<>> \o <<>> = <<>>
      OBVIOUS
    <3> QED BY <1>8, <2>1, <3>1, <3>2 DEF Line
  <2>2. CASE table[s] # NoLock
    <3>1. table[s] = o
      BY <1>3, <2>2
    <3> QED BY <2>2, <3>1 DEF Line
  <2> QED BY <2>1, <2>2
<1>11. Line(s)' = HeldLine(holder'[o], queue'[o])
  BY <1>9 DEF Line
<1>12. \A d \in Calls \ {c} : lock'[d] = lock[d]
  BY <1>1, <1>3 DEF Shapes
<1>13. lock'[c] = o
  BY <1>1, <1>3 DEF Shapes
<1>14. \A t \in Sessions : ~In(Line(t), c)
  BY <1>2, IdleNotInLine
<1>15. ASSUME NEW p \in Locks, NEW i \in 1 .. Len(queue[p])
       PROVE  /\ queue[p] \in Seq(Calls) /\ queue[p][i] \in Calls \ {c}
              /\ lock[queue[p][i]] = p /\ pc[queue[p][i]] = "locking"
  <2>1. queue[p] \in Seq(Calls)
    BY <1>1 DEF Queues
  <2>2. queue[p][i] \in Calls
    BY <2>1
  <2>3. lock[queue[p][i]] = p /\ pc[queue[p][i]] = "locking"
    BY <1>1 DEF Queues
  <2> QED BY <1>2, <2>1, <2>2, <2>3
<1>16. ASSUME NEW p \in Locks PROVE holder[p] # c
  <2>1. holder[p] \in Calls => pc[holder[p]] \in {"permit", "running"}
    BY <1>1 DEF Queues
  <2> QED BY <1>2, <2>1
<1>17. ASSUME \A p \in Locks \ {o} : holder'[p] = holder[p] /\ queue'[p] = queue[p]
       PROVE  \A t \in Sessions \ {s} : Line(t)' = Line(t)
  <2> SUFFICES ASSUME NEW t \in Sessions \ {s} PROVE Line(t)' = Line(t)
    OBVIOUS
  <2>1. table'[t] = table[t]
    BY <1>1, <1>3 DEF Shapes
  <2>2. table[t] # NoLock => table[t] \in Locks \ {o}
    BY <1>1, <1>3 DEF Shapes, OwnLocks, NewLock, Unreferenced
  <2> QED BY <1>17, <2>1, <2>2 DEF Line, HeldLine
<1>18. CASE /\ holder[o] = NoCall /\ queue[o] = <<>>
            /\ holder' = [holder EXCEPT ![o] = c]
            /\ TakePermit(c) /\ queue' = queue
  <2>1. /\ Permits'
        /\ \/ pc' = [pc EXCEPT ![c] = "permit"] /\ Running' = Running
           \/ /\ pc' = [pc EXCEPT ![c] = "running"] /\ Running' = Running \cup {c}
              /\ c \notin Running /\ Cardinality(Running) < MaxGlobal
    BY <1>1, <1>2, <1>18, TakePermitFacts
  <2>2. pc'[c] \in {"permit", "running"} /\ \A d \in Calls \ {c} : pc'[d] = pc[d]
    BY <1>1, <2>1 DEF Shapes
  <2>3. holder'[o] = c /\ \A p \in Locks \ {o} : holder'[p] = holder[p]
    BY <1>1, <1>18 DEF Shapes
  <2>4. Queues'
    <3>1. ASSUME NEW p \in Locks
          PROVE  /\ NoRepeats(queue'[p])
                 /\ \A i \in 1 .. Len(queue'[p]) :
                       lock'[queue'[p][i]] = p /\ pc'[queue'[p][i]] = "locking"
                 /\ holder'[p] \in Calls =>
                       lock'[holder'[p]] = p /\ pc'[holder'[p]] \in {"permit", "running"}
      <4>1. NoRepeats(queue'[p])
        BY <1>1, <1>18 DEF Queues
      <4>2. \A i \in 1 .. Len(queue'[p]) :
                lock'[queue'[p][i]] = p /\ pc'[queue'[p][i]] = "locking"
        BY <1>12, <1>15, <1>18, <2>2
      <4>3. holder'[p] \in Calls =>
                lock'[holder'[p]] = p /\ pc'[holder'[p]] \in {"permit", "running"}
        <5>1. CASE p = o
          BY <1>13, <2>2, <2>3, <5>1
        <5>2. CASE p # o
          BY <1>1, <1>12, <1>16, <2>2, <2>3, <5>2 DEF Queues
        <5> QED BY <5>1, <5>2
      <4> QED BY <4>1, <4>2, <4>3
    <3>2. ASSUME NEW d \in Calls, pc'[d] = "locking" PROVE In(queue'[lock'[d]], d)
      BY <1>1, <1>12, <1>18, <2>2, <3>2 DEF Queues
    <3> QED BY <1>1, <1>18, <3>1, <3>2 DEF Queues
  <2>5. JInv'
    BY <1>4, <1>5, <1>6, <1>7, <2>1, <2>4 DEF JInv
  <2>6. Line(s) = <<>> /\ Line(s)' = <<c>>
    <3>1. Line(s) = <<>>
      BY <1>10, <1>18 DEF HeldLine
    <3>2. Line(s)' = <<c>> \o <<>>
      BY <1>11, <1>18, <2>3, SessionAssumption DEF HeldLine
    <3> QED BY <3>1, <3>2
  <2>7. Line(s)' = Append(Line(s), c) /\ Line(s)' # <<>> /\ Head(Line(s)') = c
    BY <2>6
  <2>8. Arrives(c, s)
    BY <1>14, <1>17, <1>18, <2>3, <2>7 DEF Arrives
  <2>9. Starts(c) \/ Running' = Running
    BY <2>1, <2>7 DEF Starts
  <2> QED BY <2>5, <2>8, <2>9
<1>19. CASE /\ queue' = [queue EXCEPT ![o] = Append(@, c)]
            /\ pc' = [pc EXCEPT ![c] = "locking"]
            /\ holder' = holder /\ free' = free /\ wait' = wait
  <2> DEFINE q == queue[o]
             n == Len(q)
  <2>1. pc'[c] = "locking" /\ \A d \in Calls \ {c} : pc'[d] = pc[d]
    BY <1>1, <1>19 DEF Shapes
  <2>2. queue'[o] = Append(q, c) /\ \A p \in Locks \ {o} : queue'[p] = queue[p]
    BY <1>1, <1>19 DEF Queues
  <2>3. /\ Append(q, c) \in Seq(Calls) /\ Len(Append(q, c)) = n + 1 /\ n \in Nat
        /\ Append(q, c)[n + 1] = c /\ \A i \in 1 .. n : Append(q, c)[i] = q[i]
    BY <1>9
  <2>4. \A i \in 1 .. n : q[i] # c
    BY <1>15
  <2>5. NoRepeats(Append(q, c))
    <3>1. NoRepeats(q)
      BY <1>1 DEF Queues
    <3> HIDE DEF q, n
    <3>2. ASSUME NEW i \in 1 .. n + 1, NEW j \in 1 .. n + 1,
                 Append(q, c)[i] = Append(q, c)[j]
          PROVE  i = j
      <4>1. CASE i \in 1 .. n /\ j \in 1 .. n
        BY <2>3, <3>1, <3>2, <4>1 DEF NoRepeats, n
      <4>2. CASE i = n + 1 \/ j = n + 1
        <5>1. i # n + 1 => i \in 1 .. n
          BY <2>3
        <5>2. j # n + 1 => j \in 1 .. n
          BY <2>3
        <5> QED BY <2>3, <2>4, <3>2, <4>2, <5>1, <5>2
      <4> QED BY <2>3, <4>1, <4>2
    <3> QED BY <2>3, <3>2 DEF NoRepeats
  <2>6. Queues'
    <3>1. ASSUME NEW p \in Locks
          PROVE  /\ NoRepeats(queue'[p])
                 /\ \A i \in 1 .. Len(queue'[p]) :
                       lock'[queue'[p][i]] = p /\ pc'[queue'[p][i]] = "locking"
      <4>1. CASE p = o
        <5>1. ASSUME NEW i \in 1 .. Len(queue'[p])
              PROVE  lock'[queue'[p][i]] = p /\ pc'[queue'[p][i]] = "locking"
          <6>1. i \in 1 .. n \/ i = n + 1
            BY <2>2, <2>3, <4>1
          <6>2. CASE i \in 1 .. n
            <7>1. queue'[p][i] = q[i] /\ q[i] \in Calls \ {c} /\ lock[q[i]] = o /\ pc[q[i]] = "locking"
              BY <1>15, <2>2, <2>3, <4>1, <6>2
            <7> QED BY <1>12, <2>1, <4>1, <7>1
          <6>3. CASE i = n + 1
            BY <1>13, <2>1, <2>2, <2>3, <4>1, <6>3
          <6> QED BY <6>1, <6>2, <6>3
        <5> QED BY <2>2, <2>5, <4>1, <5>1
      <4>2. CASE p # o
        <5>1. queue'[p] = queue[p] /\ NoRepeats(queue[p])
          BY <1>1, <2>2, <4>2 DEF Queues
        <5> HIDE DEF q, n
        <5> QED BY <1>12, <1>15, <2>1, <5>1
      <4> QED BY <4>1, <4>2
    <3>2. \A p \in Locks : holder'[p] \in Calls =>
              lock'[holder'[p]] = p /\ pc'[holder'[p]] \in {"permit", "running"}
      BY <1>1, <1>12, <1>16, <1>19, <2>1 DEF Queues
    <3>3. ASSUME NEW d \in Calls, pc'[d] = "locking" PROVE In(queue'[lock'[d]], d)
      <4>1. CASE d = c
        <5>1. n + 1 \in 1 .. Len(Append(q, c))
          BY <2>3
        <5> QED BY <1>13, <2>2, <2>3, <4>1, <5>1 DEF In
      <4>2. CASE d # c
        <5>1. pc[d] = "locking" /\ lock'[d] = lock[d]
          BY <1>12, <2>1, <3>3, <4>2
        <5>2. lock[d] \in Locks /\ In(queue[lock[d]], d)
          BY <1>1, <5>1 DEF Current, Queues
        <5>3. CASE lock[d] = o
          <6>1. PICK k \in 1 .. n : q[k] = d
            BY <5>2, <5>3 DEF In
          <6>2. k \in 1 .. Len(Append(q, c)) /\ Append(q, c)[k] = d
            BY <2>3, <6>1
          <6> QED BY <2>2, <5>1, <5>3, <6>2 DEF In
        <5>4. CASE lock[d] # o
          BY <2>2, <5>1, <5>2, <5>4
        <5> QED BY <5>3, <5>4
      <4> QED BY <4>1, <4>2
    <3>4. queue' \in [Locks -> Seq(Calls)]
      BY <1>1, <1>19, <2>3 DEF Queues
    <3> QED BY <3>1, <3>2, <3>3, <3>4 DEF Queues
  <2>7. Running' = Running
    BY <1>2, <2>1 DEF Running
  <2>8. Permits'
    <3>1. \A d \in Calls : pc'[d] = "permit" => In(wait', d)
      BY <1>1, <1>19, <2>1 DEF Permits
    <3>2. Cardinality(Running') + free' = MaxGlobal
      BY <1>1, <1>19, <2>7 DEF Permits, Running
    <3> QED BY <1>1, <1>19, <3>1, <3>2 DEF Permits, Running
  <2>9. JInv'
    BY <1>4, <1>5, <1>6, <1>7, <2>6, <2>8 DEF JInv
  <2>10. Line(s)' = Append(Line(s), c)
    <3>1. CASE holder[o] = NoCall
      <4>1. Line(s) = q /\ Line(s)' = Append(q, c)
        BY <1>9, <1>10, <1>11, <1>19, <2>2, <2>3, <3>1 DEF HeldLine
      <4> QED BY <4>1
    <3>2. CASE holder[o] # NoCall
      <4> DEFINE h == holder[o]
      <4>1. Line(s) = <<h>> \o q /\ Line(s)' = <<h>> \o Append(q, c)
        BY <1>10, <1>11, <1>19, <2>2, <3>2 DEF HeldLine
      <4>2. h \in Calls /\ q \in Seq(Calls)
        BY <1>9, <3>2
      <4> HIDE DEF h, q
      <4>3. <<h>> \o Append(q, c) = Append(<<h>> \o q, c)
        BY <4>2
      <4> QED BY <4>1, <4>3
    <3> QED BY <3>1, <3>2
  <2>11. \A p \in Locks \ {o} : holder'[p] = holder[p] /\ queue'[p] = queue[p]
    BY <1>19, <2>2
  <2>12. Arrives(c, s)
    BY <1>14, <1>17, <2>10, <2>11 DEF Arrives
  <2> QED BY <2>7, <2>9, <2>12
<1> QED BY <1>3, <1>18, <1>19

\* The lock goes to the first of its queue, whose place in the line it keeps.
LEMMA LockServed ==
    ASSUME JInv, NEW c \in Calls, LockGranted(c)
    PROVE  /\ JInv' /\ \A t \in Sessions : Line(t)' = Line(t)
           /\ Starts(c) \/ Running' = Running
<1>1. Shapes /\ Current /\ Queues /\ Permits /\ OwnLocks /\ Stamps
  BY DEF JInv, IInv
<1> DEFINE o == lock[c]
           q == queue[o]
<1>2. /\ pc[c] = "locking" /\ holder[o] = NoCall /\ Head(q) = c
      /\ holder' = [holder EXCEPT ![o] = c] /\ queue' = [queue EXCEPT ![o] = Tail(@)]
      /\ TakePermit(c)
      /\ table' = table /\ active' = active /\ before' = before /\ key' = key /\ lock' = lock
  BY DEF LockGranted
<1>3. o \in Locks /\ key[c] \in Sessions /\ o = table[key[c]] /\ o # NoLock
  BY <1>1, <1>2, SessionAssumption DEF Current
<1>4. q \in Seq(Calls) /\ In(q, c) /\ NoRepeats(q)
  BY <1>1, <1>2, <1>3 DEF Queues
<1>5. /\ Len(q) \in Nat \ {0} /\ q[1] = c
      /\ Tail(q) \in Seq(Calls) /\ Len(Tail(q)) = Len(q) - 1
      /\ \A i \in 1 .. Len(q) - 1 : Tail(q)[i] = q[i + 1]
  <2>1. q # <<>>
    BY <1>4 DEF In
  <2> QED BY <1>2, <1>4, <2>1
<1>5a. q = <<c>> \o Tail(q) /\ q # <<>>
  <2> HIDE DEF q
  <2> QED BY <1>4, <1>5
<1>6. /\ Permits'
      /\ \/ pc' = [pc EXCEPT ![c] = "permit"] /\ Running' = Running
         \/ /\ pc' = [pc EXCEPT ![c] = "running"] /\ Running' = Running \cup {c}
            /\ c \notin Running /\ Cardinality(Running) < MaxGlobal
  BY <1>1, <1>2, TakePermitFacts
<1>7. pc'[c] \in {"permit", "running"} /\ \A d \in Calls \ {c} : pc'[d] = pc[d]
  BY <1>1, <1>6 DEF Shapes
<1>8. /\ holder'[o] = c /\ \A p \in Locks \ {o} : holder'[p] = holder[p]
      /\ queue'[o] = Tail(q) /\ \A p \in Locks \ {o} : queue'[p] = queue[p]
  BY <1>1, <1>2, <1>3 DEF Shapes, Queues
<1> HIDE DEF q
<1>9. ASSUME NEW p \in Locks
      PROVE  /\ NoRepeats(queue'[p])
             /\ \A i \in 1 .. Len(queue'[p]) :
                   lock[queue'[p][i]] = p /\ pc'[queue'[p][i]] = "locking"
             /\ holder'[p] \in Calls =>
                   lock[holder'[p]] = p /\ pc'[holder'[p]] \in {"permit", "running"}
  <2>1. CASE p = o
    <3>1. NoRepeats(queue'[p])
      <4>1. ASSUME NEW i \in 1 .. Len(Tail(q)), NEW j \in 1 .. Len(Tail(q)),
                   Tail(q)[i] = Tail(q)[j]
            PROVE  i = j
        <5>1. i + 1 \in 1 .. Len(q) /\ j + 1 \in 1 .. Len(q) /\ q[i + 1] = q[j + 1]
          BY <1>5, <4>1
        <5>2. i + 1 = j + 1
          BY <1>4, <5>1 DEF NoRepeats
        <5> QED BY <1>5, <5>2
      <4>2. queue'[p] = Tail(q)
        BY <1>8, <2>1
      <4> QED BY <4>1, <4>2 DEF NoRepeats
    <3>2. ASSUME NEW i \in 1 .. Len(queue'[p])
          PROVE  lock[queue'[p][i]] = p /\ pc'[queue'[p][i]] = "locking"
      <4>1. i + 1 \in 1 .. Len(q) /\ i + 1 # 1 /\ queue'[p][i] = q[i + 1] /\ 1 \in 1 .. Len(q)
        BY <1>5, <1>8, <2>1
      <4>2. q[i + 1] # c /\ q[i + 1] \in Calls
        BY <1>4, <1>5, <4>1 DEF NoRepeats
      <4>3. lock[q[i + 1]] = o /\ pc[q[i + 1]] = "locking"
        BY <1>1, <1>3, <4>1 DEF Queues, q
      <4> QED BY <1>7, <2>1, <4>1, <4>2, <4>3
    <3>3. lock[holder'[p]] = p /\ pc'[holder'[p]] \in {"permit", "running"}
      BY <1>7, <1>8, <2>1
    <3> QED BY <3>1, <3>2, <3>3
  <2>2. CASE p # o
    <3>1. queue'[p] = queue[p] /\ holder'[p] = holder[p] /\ queue[p] \in Seq(Calls)
      BY <1>1, <1>8, <2>2 DEF Queues
    <3>2. ASSUME NEW i \in 1 .. Len(queue[p])
          PROVE  lock[queue[p][i]] = p /\ pc'[queue[p][i]] = "locking"
      <4>1. queue[p][i] \in Calls
        BY <3>1
      <4>2. lock[queue[p][i]] = p /\ pc[queue[p][i]] = "locking"
        BY <1>1 DEF Queues
      <4>3. queue[p][i] # c
        BY <2>2, <4>2
      <4> QED BY <1>7, <4>1, <4>2, <4>3
    <3>3. holder[p] \in Calls =>
              lock[holder[p]] = p /\ pc'[holder[p]] \in {"permit", "running"}
      <4>1. holder[p] \in Calls => lock[holder[p]] = p /\ pc[holder[p]] \in {"permit", "running"}
        BY <1>1 DEF Queues
      <4> QED BY <1>2, <1>7, <4>1
    <3>4. NoRepeats(queue[p])
      BY <1>1 DEF Queues
    <3> QED BY <3>1, <3>2, <3>3, <3>4
  <2> QED BY <2>1, <2>2
<1>10. ASSUME NEW d \in Calls, pc'[d] = "locking" PROVE In(queue'[lock[d]], d)
  <2>1. d # c /\ pc[d] = "locking"
    BY <1>7, <1>10
  <2>2. lock[d] \in Locks /\ In(queue[lock[d]], d)
    BY <1>1, <2>1 DEF Current, Queues
  <2>3. CASE lock[d] = o
    <3>1. PICK k \in 1 .. Len(q) : q[k] = d
      BY <2>2, <2>3 DEF In, q
    <3>2. k # 1
      BY <1>5, <2>1, <3>1
    <3>3. k - 1 \in 1 .. Len(q) - 1 /\ (k - 1) + 1 = k
      BY <1>5, <3>2
    <3>4. Tail(q)[k - 1] = d
      BY <1>5, <3>1, <3>3
    <3> QED BY <1>5, <1>8, <2>3, <3>3, <3>4 DEF In
  <2>4. CASE lock[d] # o
    BY <1>8, <2>2, <2>4
  <2> QED BY <2>3, <2>4
<1>11. Queues'
  <2>1. queue' \in [Locks -> Seq(Calls)]
    BY <1>1, <1>2, <1>3, <1>5 DEF Queues, q
  <2>2. lock' = lock
    BY <1>2
  <2> QED BY <1>9, <1>10, <2>1, <2>2 DEF Queues
<1>12. JInv'
  <2>1. IInv'
    BY GrantPreserves DEF JInv
  <2>2. OwnLocks' /\ Stamps' /\ IdleLocksBounded'
    BY <1>2 DEF JInv, OwnLocks, Stamps, IdleLocksBounded
  <2> QED BY <1>6, <1>11, <2>1, <2>2 DEF JInv
<1>13. ASSUME NEW t \in Sessions PROVE Line(t)' = Line(t)
  <2>1. CASE t = key[c]
    <3>1. Line(t) = q
      BY <1>2, <1>3, <1>4, <2>1 DEF Line, HeldLine, q
    <3>2. Line(t)' = HeldLine(c, Tail(q))
      BY <1>2, <1>3, <1>8, <2>1 DEF Line
    <3>3. HeldLine(c, Tail(q)) = <<c>> \o Tail(q)
      BY SessionAssumption DEF HeldLine
    <3> QED BY <1>5a, <3>1, <3>2, <3>3
  <2>2. CASE t # key[c]
    <3>1. table[t] # NoLock => table[t] \in Locks \ {o}
      BY <1>1, <1>3, <2>2 DEF Shapes, OwnLocks
    <3> QED BY <1>2, <1>8, <3>1 DEF Line, HeldLine
  <2> QED BY <2>1, <2>2
<1>14. \E s \in Sessions : Line(s)' # <<>> /\ Head(Line(s)') = c
  <2>1. PICK s \in Sessions : s = key[c]
    BY <1>3
  <2>2. Line(s) = q
    BY <1>2, <1>3, <1>4, <2>1 DEF Line, HeldLine, q
  <2>3. Head(q) = c
    BY <1>2 DEF q
  <2> QED BY <1>5a, <1>13, <2>2, <2>3
<1>15. Starts(c) \/ Running' = Running
  BY <1>6, <1>14 DEF Starts
<1> QED BY <1>12, <1>13, <1>15

\* A permit goes to the first that waits for one; it holds its session's lock.
LEMMA PermitServed ==
    ASSUME JInv, NEW c \in Calls, PermitGranted(c)
    PROVE  JInv' /\ (\A t \in Sessions : Line(t)' = Line(t)) /\ Starts(c)
<1>1. Shapes /\ Current /\ Held /\ Queues /\ Permits /\ OwnLocks /\ Stamps
  BY DEF JInv, IInv
<1>2. /\ pc[c] = "permit" /\ free > 0 /\ Head(wait) = c
      /\ free' = free - 1 /\ wait' = Tail(wait) /\ pc' = [pc EXCEPT ![c] = "running"]
      /\ table' = table /\ active' = active /\ before' = before
      /\ holder' = holder /\ queue' = queue /\ key' = key /\ lock' = lock
  BY DEF PermitGranted
<1>3. pc'[c] = "running" /\ \A d \in Calls \ {c} : pc'[d] = pc[d]
  BY <1>1, <1>2 DEF Shapes
<1>4. Queues'
  <2>1. ASSUME NEW o \in Locks, NEW i \in 1 .. Len(queue[o])
        PROVE  pc'[queue[o][i]] = "locking"
    <3>1. queue[o] \in Seq(Calls)
      BY <1>1 DEF Queues
    <3>2. queue[o][i] \in Calls /\ pc[queue[o][i]] = "locking"
      BY <1>1, <3>1 DEF Queues
    <3> QED BY <1>2, <1>3, <3>2
  <2>2. \A o \in Locks : holder[o] \in Calls => pc'[holder[o]] \in {"permit", "running"}
    BY <1>1, <1>3 DEF Queues
  <2>3. \A d \in Calls : pc'[d] = "locking" => pc[d] = "locking"
    BY <1>3
  <2> QED BY <1>1, <1>2, <2>1, <2>2, <2>3 DEF Queues
<1> DEFINE n == Cardinality(Running)
<1>5. n \in Nat /\ IsFiniteSet(Running) /\ c \notin Running
  BY <1>2, RunningFinite DEF Running
<1>6. wait \in Seq(Calls) /\ free \in Nat /\ n + free = MaxGlobal /\ MaxGlobal \in Nat
  BY <1>1, SessionAssumption DEF Permits, Running
<1>7. Running' = Running \cup {c} /\ n < MaxGlobal
  BY <1>2, <1>3, <1>5, <1>6 DEF Running
<1>8. Permits'
  <2>1. Cardinality(Running') = n + 1
    BY <1>5, <1>7, FS_AddElement
  <2>2. In(wait, c)
    BY <1>1, <1>2 DEF Permits
  <2>3. /\ Len(wait) \in Nat \ {0} /\ wait[1] = c
        /\ Tail(wait) \in Seq(Calls) /\ Len(Tail(wait)) = Len(wait) - 1
        /\ \A i \in 1 .. Len(wait) - 1 : Tail(wait)[i] = wait[i + 1]
    <3>1. wait # <<>>
      BY <2>2, <1>6 DEF In
    <3> QED BY <1>2, <1>6, <3>1
  <2>4. ASSUME NEW d \in Calls, pc'[d] = "permit" PROVE In(wait', d)
    <3>1. d # c /\ In(wait, d)
      BY <1>1, <1>3, <2>4 DEF Permits
    <3>2. PICK k \in 1 .. Len(wait) : wait[k] = d
      BY <3>1 DEF In
    <3>3. k - 1 \in 1 .. Len(wait) - 1 /\ (k - 1) + 1 = k
      BY <2>3, <3>1, <3>2
    <3>4. Tail(wait)[k - 1] = d
      BY <2>3, <3>2, <3>3
    <3> QED BY <1>2, <2>3, <3>3, <3>4 DEF In
  <2>5. Cardinality(Running') + free' = MaxGlobal /\ free' \in Nat
    BY <1>2, <1>5, <1>6, <2>1
  <2> QED BY <1>2, <2>3, <2>4, <2>5 DEF Permits, Running
<1>9. JInv'
  <2>1. IInv'
    BY GrantPreserves DEF JInv
  <2>2. OwnLocks' /\ Stamps' /\ IdleLocksBounded'
    BY <1>2 DEF JInv, OwnLocks, Stamps, IdleLocksBounded
  <2> QED BY <1>4, <1>8, <2>1, <2>2 DEF JInv
<1>10. \A t \in Sessions : Line(t)' = Line(t)
  BY <1>2 DEF Line, HeldLine
<1>11. \E s \in Sessions : Line(s)' # <<>> /\ Head(Line(s)') = c
  <2>1. PICK s \in Sessions : s = key[c] /\ table[s] = lock[c] /\ lock[c] \in Locks
    BY <1>1, <1>2 DEF Current
  <2> DEFINE q == queue[lock[c]]
  <2>2. holder[lock[c]] = c /\ q \in Seq(Calls)
    BY <1>1, <1>2, <2>1 DEF Held, Queues
  <2>3. Line(s) = <<c>> \o q
    BY <2>1, <2>2, SessionAssumption DEF Line, HeldLine
  <2>4. <<c>> \o q # <<>> /\ Head(<<c>> \o q) = c
    <3> HIDE DEF q
    <3> QED BY <2>2
  <2> QED BY <1>10, <2>3, <2>4
<1> QED BY <1>5, <1>7, <1>9, <1>10, <1>11 DEF Starts

-----------------------------------------------------------------------------
(* The invariant and the refinement *)

LEMMA InitJoins == Init => JInv
<1> SUFFICES ASSUME Init PROVE JInv
  OBVIOUS
<1>1. Queues
  BY SessionAssumption DEF Init, Queues, NoRepeats
<1>2. Permits
  <2>1. {c \in Calls : pc[c] = "running"} = {}
    BY DEF Init
  <2>2. Cardinality({c \in Calls : pc[c] = "running"}) = 0
    BY <2>1, FS_EmptySet
  <2>3. free = MaxGlobal /\ wait = <<>> /\ \A c \in Calls : pc[c] # "permit"
    BY DEF Init
  <2> QED BY <2>2, <2>3, SessionAssumption DEF Permits
<1>3. OwnLocks /\ Stamps
  BY DEF Init, OwnLocks, Stamps
<1>4. IdleLocksBounded
  <2>1. {s \in Sessions : table[s] # NoLock /\ active[s] = 0} = {}
    BY DEF Init
  <2> QED BY <2>1, FS_EmptySet, SessionAssumption DEF IdleLocksBounded
<1> QED BY <1>1, <1>2, <1>3, <1>4, InitHolds DEF JInv

LEMMA NextJoins == JInv /\ [Next]_vars => JInv'
<1> SUFFICES ASSUME JInv, [Next]_vars PROVE JInv'
  OBVIOUS
<1>1. CASE UNCHANGED vars
  <2>1. IInv'
    BY <1>1, NextPreserves DEF JInv
  <2> QED BY <1>1, <2>1 DEF vars, JInv, Queues, Permits, OwnLocks, Stamps, IdleLocksBounded
<1>2. CASE Next
  BY <1>2, Entering, LockServed, PermitServed, LeaveHolding, LeaveQueue DEF Next
<1> QED BY <1>1, <1>2

LEMMA LaneJoins == Spec => []JInv
BY InitJoins, NextJoins, PTL DEF Spec

LEMMA JInvTypes == JInv => TypeOK
<1> SUFFICES ASSUME JInv PROVE TypeOK
  OBVIOUS
<1>1. free \in 0 .. MaxGlobal
  <2> DEFINE n == Cardinality(Running)
  <2>1. n \in Nat
    BY RunningFinite DEF Running
  <2>2. free \in Nat /\ n + free = MaxGlobal /\ MaxGlobal \in Nat
    BY SessionAssumption DEF JInv, Permits, Running
  <2> HIDE DEF n
  <2> QED BY <2>1, <2>2
<1> QED BY <1>1 DEF JInv, IInv, Shapes, Queues, Permits, Stamps, TypeOK

LaneOf == [s \in Sessions |->
              IF table[s] = NoLock THEN <<>>
              ELSE (IF holder[table[s]] = NoCall THEN <<>> ELSE <<holder[table[s]]>>)
                      \o queue[table[s]]]

LEMMA LaneIsLine == LaneOf = [s \in Sessions |-> Line(s)]
BY DEF LaneOf, Line, HeldLine

LEMMA LinesAre ==
    ASSUME NEW s \in Sessions
    PROVE  LaneOf[s] = Line(s) /\ LaneOf'[s] = Line(s)'
BY DEF LaneOf, Line, HeldLine

LEMMA InLineIs ==
    ASSUME NEW s \in Sessions, NEW c
    PROVE  c \in Turns!InLine(s) <=> In(Line(s), c)
<1>1. Turns!InLine(s) = {LaneOf[s][i] : i \in 1 .. Len(LaneOf[s])}
  BY DEF Turns!InLine, LaneOf
<1> QED BY <1>1, LinesAre DEF In

\* Each of the moves above is a step of the contract.
LEMMA DepartsIsStep ==
    ASSUME NEW c \in Calls, NEW s \in Sessions, Departs(c, s)
    PROVE  Turns!TNext
<1>1. c \in Turns!InLine(s)
  BY InLineIs DEF Departs
<1>2. LaneOf' = [LaneOf EXCEPT ![s] = Turns!WithoutCall(@, c)]
  <2>1. LaneOf = [t \in Sessions |-> Line(t)] /\ LaneOf' = [t \in Sessions |-> Line(t)']
    BY LaneIsLine DEF LaneOf, Line, HeldLine
  <2>2. Turns!WithoutCall(Line(s), c) = WithoutCall(Line(s), c)
    BY DEF Turns!WithoutCall, WithoutCall
  <2> QED BY <2>1, <2>2 DEF Departs
<1>3. Running' = Running \ {c}
  BY DEF Departs
<1>4. Turns!Depart(c, s)
  BY <1>1, <1>2, <1>3 DEF Turns!Depart, LaneOf, Running
<1> QED BY <1>4 DEF Turns!TNext

LEMMA SameCardinality == \A S : Turns!Cardinality(S) = Cardinality(S)
BY DEF Turns!Cardinality, Cardinality

LEMMA StartsIsBegin ==
    ASSUME NEW c \in Calls, Starts(c)
    PROVE  Turns!Begin(c)
<1>1. \E s \in Sessions : LaneOf'[s] # <<>> /\ Head(LaneOf'[s]) = c
  BY LinesAre DEF Starts
<1>2. c \notin Running /\ Turns!Cardinality(Running) < MaxGlobal /\ Running' = Running \cup {c}
  BY SameCardinality DEF Starts
<1> QED BY <1>1, <1>2 DEF Turns!Begin, LaneOf, Running

LEMMA ArrivesIsArrive ==
    ASSUME NEW c \in Calls, NEW s \in Sessions, Arrives(c, s)
    PROVE  Turns!Arrive(c, s)
<1>1. \A t \in Sessions : c \notin Turns!InLine(t)
  BY InLineIs DEF Arrives
<1>2. LaneOf = [t \in Sessions |-> Line(t)] /\ LaneOf' = [t \in Sessions |-> Line(t)']
  BY LaneIsLine DEF LaneOf, Line, HeldLine
<1>3. LaneOf' = [LaneOf EXCEPT ![s] = Append(@, c)]
  BY <1>2 DEF Arrives
<1> QED BY <1>1, <1>3 DEF Turns!Arrive, LaneOf

LEMMA StepSimulates ==
    ASSUME JInv, [Next]_vars
    PROVE  [Turns!TNext]_(Turns!tvars)
<1>1. CASE UNCHANGED vars
  <2>1. LaneOf' = LaneOf /\ Running' = Running
    BY <1>1 DEF vars, LaneOf, Running
  <2> QED BY <2>1 DEF Turns!tvars, LaneOf, Running
<1>2. ASSUME NEW c \in Calls, NEW s \in Sessions, Enter(c, s) PROVE Turns!TNext
  <2>1. Arrives(c, s) /\ (Starts(c) \/ Running' = Running)
    BY <1>2, Entering
  <2>2. Turns!Arrive(c, s)
    BY <2>1, ArrivesIsArrive
  <2>3. Turns!Begin(c) \/ Running' = Running
    BY <2>1, StartsIsBegin
  <2> QED BY <2>2, <2>3 DEF Turns!TNext, Running
<1>3. ASSUME NEW c \in Calls, LockGranted(c) \/ PermitGranted(c)
      PROVE  [Turns!TNext]_(Turns!tvars)
  <2>1. /\ \A t \in Sessions : Line(t)' = Line(t)
        /\ Starts(c) \/ Running' = Running
    BY <1>3, LockServed, PermitServed
  <2>2. LaneOf' = LaneOf
    <3>1. LaneOf = [t \in Sessions |-> Line(t)] /\ LaneOf' = [t \in Sessions |-> Line(t)']
      BY LaneIsLine DEF LaneOf, Line, HeldLine
    <3> QED BY <2>1, <3>1
  <2>3. CASE Starts(c)
    <3>1. Turns!Begin(c)
      BY <2>3, StartsIsBegin
    <3> QED BY <2>2, <3>1 DEF Turns!TNext, LaneOf
  <2>4. CASE Running' = Running
    BY <2>2, <2>4 DEF Turns!tvars, LaneOf, Running
  <2> QED BY <2>1, <2>3, <2>4
<1>4. ASSUME NEW c \in Calls, Leave(c) \/ CancelLocking(c) \/ CancelPermit(c)
      PROVE  Turns!TNext
  BY <1>4, LeaveHolding, LeaveQueue, DepartsIsStep
<1> QED BY <1>1, <1>2, <1>3, <1>4 DEF Next

-----------------------------------------------------------------------------
\* The dictionaries, locks and queues of the manager keep their types, and no
\* permit is lost or made up.
THEOREM LaneTypeCorrect == Spec => []TypeOK
BY LaneJoins, JInvTypes, PTL

\* The locks of sessions nobody uses stay within the size of the cache, though
\* eviction runs only when a call leaves and spares the session it left.
THEOREM IdleLocksBoundedHolds == Spec => []IdleLocksBounded
<1>1. JInv => IdleLocksBounded
  BY DEF JInv
<1> QED BY <1>1, LaneJoins, PTL

\* run_in_lane() implements first come, first served per session under the
\* global limit: every step of the manager is a step of SessionTurns or none.
THEOREM TurnsImplemented == Spec => ImplementsTurns
<1>1. Init => Turns!TInit
  BY DEF Init, Turns!TInit
<1>2. JInv /\ [Next]_vars => [Turns!TNext]_(Turns!tvars)
  BY StepSimulates
<1> QED BY <1>1, <1>2, LaneJoins, PTL DEF Spec, ImplementsTurns, Turns!TSpec

-----------------------------------------------------------------------------
(* The inbox of a connection: its inductive invariant                      *)

\* The run the loop handles is open, and nobody else has it yet.
LoopRun ==
    /\ recvPc \in {"announce", "direct", "done"} =>
         /\ recvRun \in Messages
         /\ doc[recvRun] = "active"
         /\ ~InWorker(recvRun)
         /\ overtaken[recvRun] = 0
    /\ recvPc \in {"closing", "closed"} => socket = "down"

\* The run the worker has is open until a failure was written, by the worker
\* or by a send that hard-failed it; if its last words are a question, it is
\* known to have asked.
WorkerRun ==
    workerPc \notin {"none", "dequeue"} =>
        /\ workerRun \in Messages
        /\ doc[workerRun] \in {"active", "failed"}
        /\ workerPc = "excuse" => doc[workerRun] = "failed"
        /\ doc[workerRun] = "failed" => workerPc = "excuse" \/ workerRun \in broken
        /\ workerPc = "asked" => workerRun \in asked

\* The queue holds open runs, once each, that neither task has.
Lined ==
    /\ \A k \in 1 .. Len(inbox) :
         doc[inbox[k]] = "active" /\ ~InWorker(inbox[k]) /\ ~InLoop(inbox[k])
    /\ \A j, k \in 1 .. Len(inbox) : inbox[j] = inbox[k] => j = k

\* The deferral count of the worker, while there is one that may defer.
Counting == ~(workerPc = "none" /\ socket = "down")

\* A queued message that was passed over is a follow-up at the head, and the
\* worker has counted every time it was.
Waits ==
    \A k \in 1 .. Len(inbox) : overtaken[inbox[k]] > 0 =>
        /\ k = 1 /\ KindOf[inbox[k]] = "follow_up"
        /\ Counting => overtaken[inbox[k]] <= deferrals

Passed ==
    \A m \in Messages :
        /\ overtaken[m] <= MaxDeferrals
        /\ overtaken[m] > 0 => doc[m] # "none"

\* The inductive invariant.
WInv ==
    /\ WsTypeOK /\ LoopRun /\ WorkerRun /\ Lined /\ Waits /\ Passed
    /\ OpenRunsTracked /\ FilledQueueHasWorker

\* What a step may not do to the documents.
Kept ==
    \A m \in Messages : doc[m] \in {"completed", "failed"} =>
        \/ doc'[m] = doc[m]
        \/ m \in broken /\ workerRun = m /\ workerPc = "finish" /\ doc'[m] = "completed"

-----------------------------------------------------------------------------
(* Positions and queues. *)

LEMMA LeastPosition ==
    ASSUME NEW T, T \subseteq Nat, T # {}
    PROVE  First(T) \in T /\ \A j \in T : First(T) <= j
<1> DEFINE Less == {ss \in Nat \X Nat : ss[1] < ss[2]}
<1>1. IsWellFoundedOn(Less, Nat)
  BY NatLessThanWellFounded DEF OpToRel
<1>2. \E x \in T : \A y \in T : ~ (<<y, x>> \in Less)
  <2> HIDE DEF Less
  <2> QED
    BY <1>1, WFMin
<1>3. PICK x \in T : \A y \in T : ~ (<<y, x>> \in Less)
  BY <1>2
<1>4. ASSUME NEW y \in T PROVE x <= y
  <2>1. x \in Nat /\ y \in Nat
    OBVIOUS
  <2>2. <<y, x>>[1] = y /\ <<y, x>>[2] = x /\ <<y, x>> \in Nat \X Nat
    BY <2>1
  <2>3. ~ (<<y, x>>[1] < <<y, x>>[2])
    BY <1>3, <2>2
  <2> QED
    BY <2>1, <2>2, <2>3
<1> QED
  BY <1>4 DEF First

LEMMA RemoveAtProperties ==
    ASSUME NEW S, NEW s \in Seq(S), NEW i \in 1 .. Len(s)
    PROVE  /\ RemoveAt(s, i) \in Seq(S)
           /\ Len(RemoveAt(s, i)) = Len(s) - 1
           /\ \A j \in 1 .. Len(s) - 1 : RemoveAt(s, i)[j] = IF j < i THEN s[j] ELSE s[j + 1]
<1> DEFINE front == SubSeq(s, 1, i - 1)
           rest == SubSeq(s, i + 1, Len(s))
<1>1. /\ front \in Seq(S) /\ Len(front) = i - 1
      /\ \A j \in 1 .. i - 1 : front[j] = s[j]
  BY SubSeqProperties
<1>2. /\ rest \in Seq(S) /\ Len(rest) = Len(s) - i
      /\ \A j \in 1 .. Len(s) - i : rest[j] = s[i + j]
  BY SubSeqProperties
<1>3. RemoveAt(s, i) = front \o rest
  BY DEF RemoveAt
<1> HIDE DEF front, rest
<1>4. /\ front \o rest \in Seq(S)
      /\ Len(front \o rest) = Len(front) + Len(rest)
      /\ \A j \in 1 .. Len(front) + Len(rest) :
           (front \o rest)[j] = IF j <= Len(front) THEN front[j] ELSE rest[j - Len(front)]
  BY <1>1, <1>2, ConcatProperties
<1>5. ASSUME NEW j \in 1 .. Len(s) - 1
      PROVE  (front \o rest)[j] = IF j < i THEN s[j] ELSE s[j + 1]
  <2>1. CASE j < i
    BY <2>1, <1>1, <1>2, <1>4
  <2>2. CASE ~(j < i)
    <3>1. Len(s) \in Nat /\ i \in Nat /\ j \in Nat
      OBVIOUS
    <3>2. j - (i - 1) \in 1 .. Len(s) - i /\ i + (j - (i - 1)) = j + 1
      BY <2>2, <3>1
    <3>3. rest[j - (i - 1)] = s[j + 1]
      BY <1>2, <3>2
    <3>4. j \in 1 .. Len(front) + Len(rest) /\ ~(j <= Len(front)) /\ Len(front) = i - 1
      BY <1>1, <1>2, <2>2, <3>1
    <3>5. (front \o rest)[j] = rest[j - Len(front)]
      BY <1>4, <3>4
    <3> QED
      BY <2>2, <3>3, <3>4, <3>5
  <2> QED
    BY <2>1, <2>2
<1> QED
  BY <1>1, <1>2, <1>3, <1>4, <1>5

\* What a purge leaves is the queue without a prefix.
LEMMA PurgeKeeps ==
    ASSUME inbox \in Seq(Messages), NEW mail \in Purged
    PROVE  \E d \in 0 .. Len(inbox) :
             /\ mail \in Seq(Messages) /\ Len(mail) = Len(inbox) - d
             /\ \A k \in 1 .. Len(mail) : mail[k] = inbox[k + d]
             /\ Dropped(mail) = {inbox[k] : k \in 1 .. d}
<1>1. CASE mail = inbox
  <2>1. Len(inbox) \in Nat
    OBVIOUS
  <2>2. 0 \in 0 .. Len(inbox) /\ Len(mail) = Len(inbox) - 0 /\ 1 .. (Len(inbox) - Len(mail)) = {}
    BY <1>1, <2>1
  <2>3. \A k \in 1 .. Len(mail) : mail[k] = inbox[k + 0]
    BY <1>1, <2>1
  <2>4. Dropped(mail) = {} /\ {inbox[k] : k \in 1 .. 0} = {}
    BY <2>2 DEF Dropped
  <2> QED
    BY <1>1, <2>2, <2>3, <2>4
<1>2. CASE \E k \in 1 .. Len(inbox) + 1 : mail = SubSeq(inbox, k, Len(inbox))
  <2>1. PICK k \in 1 .. Len(inbox) + 1 : mail = SubSeq(inbox, k, Len(inbox))
    BY <1>2
  <2>2. /\ mail \in Seq(Messages)
        /\ Len(mail) = IF k <= Len(inbox) THEN Len(inbox) - k + 1 ELSE 0
        /\ \A i \in 1 .. Len(inbox) - k + 1 : mail[i] = inbox[k + i - 1]
    BY <2>1, SubSeqProperties
  <2>3. k - 1 \in 0 .. Len(inbox) /\ Len(mail) = Len(inbox) - (k - 1)
    BY <2>2
  <2>4. Len(inbox) - Len(mail) = k - 1
    BY <2>2
  <2>5. ASSUME NEW i \in 1 .. Len(mail)
        PROVE  mail[i] = inbox[i + (k - 1)]
    <3>1. i \in 1 .. Len(inbox) - k + 1 /\ k + i - 1 = i + (k - 1)
      BY <2>2
    <3> QED
      BY <2>2, <3>1
  <2> QED
    BY <2>2, <2>3, <2>4, <2>5 DEF Dropped
<1> QED
  BY <1>1, <1>2 DEF Purged

-----------------------------------------------------------------------------
(* The steps that leave the queue as it is. *)

LEMMA EnsureWorkerSound == ASSUME WInv, EnsureWorker PROVE WInv' /\ Kept
<1> USE WsAssumption DEF WInv, EnsureWorker, LoopSend, GoTo, workerVars, ghostVars, InLoop, InWorker, WsTypeOK
<1>1. WsTypeOK' /\ Kept
  BY DEF LoopRun, WorkerRun, Kept
<1>2. LoopRun' /\ WorkerRun' /\ Lined'
  BY DEF LoopRun, WorkerRun, Lined
<1>3. Waits' /\ Passed'
  BY DEF LoopRun, Waits, Passed, Counting
<1>4. OpenRunsTracked' /\ FilledQueueHasWorker'
  BY DEF LoopRun, OpenRunsTracked, FilledQueueHasWorker, Queued
<1> QED
  BY <1>1, <1>2, <1>3, <1>4 DEF WInv

LEMMA DirectSound == ASSUME WInv, Direct PROVE WInv' /\ Kept
<1> USE WsAssumption DEF WInv, Direct, GoTo, workerVars, ghostVars, InLoop, InWorker, WsTypeOK
<1>1. WsTypeOK' /\ Kept
  BY DEF LoopRun, WorkerRun, Kept
<1>2. LoopRun' /\ WorkerRun' /\ Lined'
  BY DEF LoopRun, WorkerRun, Lined
<1>3. Waits' /\ Passed'
  BY DEF LoopRun, Waits, Passed, Counting
<1>4. OpenRunsTracked' /\ FilledQueueHasWorker'
  BY DEF LoopRun, OpenRunsTracked, FilledQueueHasWorker, Queued
<1> QED
  BY <1>1, <1>2, <1>3, <1>4 DEF WInv

LEMMA DirectFailsSound == ASSUME WInv, DirectFails PROVE WInv' /\ Kept
<1> USE WsAssumption DEF WInv, DirectFails, MarkRun, GoTo, workerVars, ghostVars, InLoop, InWorker, WsTypeOK
<1>1. WsTypeOK' /\ Kept
  BY DEF LoopRun, WorkerRun, Kept
<1>2. LoopRun' /\ WorkerRun' /\ Lined'
  BY DEF LoopRun, WorkerRun, Lined
<1>3. Waits' /\ Passed'
  BY DEF LoopRun, Waits, Passed, Counting
<1>4. OpenRunsTracked' /\ FilledQueueHasWorker'
  BY DEF LoopRun, OpenRunsTracked, FilledQueueHasWorker, Queued
<1> QED
  BY <1>1, <1>2, <1>3, <1>4 DEF WInv

LEMMA RefuseSound ==
    ASSUME WInv, NEW kind, NEW next \in {"receive", "notify"}, Refuse(kind, next)
    PROVE  WInv' /\ Kept
<1> USE WsAssumption DEF WInv, Refuse, MarkRun, LoopSend, GoTo, workerVars, ghostVars, InLoop, InWorker, WsTypeOK
<1>1. WsTypeOK' /\ Kept
  BY DEF LoopRun, WorkerRun, Kept
<1>2. LoopRun' /\ WorkerRun' /\ Lined'
  BY DEF LoopRun, WorkerRun, Lined
<1>3. Waits' /\ Passed'
  BY DEF LoopRun, Waits, Passed, Counting
<1>4. OpenRunsTracked' /\ FilledQueueHasWorker'
  BY DEF LoopRun, OpenRunsTracked, FilledQueueHasWorker, Queued
<1> QED
  BY <1>1, <1>2, <1>3, <1>4 DEF WInv

LEMMA DirectDoneSound == ASSUME WInv, DirectDone PROVE WInv' /\ Kept
<1> USE WsAssumption DEF WInv, DirectDone, MarkRun, LoopSend, GoTo, workerVars, ghostVars, InLoop, InWorker, WsTypeOK
<1>1. WsTypeOK' /\ Kept
  BY DEF LoopRun, WorkerRun, Kept
<1>2. LoopRun' /\ WorkerRun' /\ Lined'
  BY DEF LoopRun, WorkerRun, Lined
<1>3. Waits' /\ Passed'
  BY DEF LoopRun, Waits, Passed, Counting
<1>4. OpenRunsTracked' /\ FilledQueueHasWorker'
  BY DEF LoopRun, OpenRunsTracked, FilledQueueHasWorker, Queued
<1> QED
  BY <1>1, <1>2, <1>3, <1>4 DEF WInv

LEMMA NotifySound == ASSUME WInv, Notify PROVE WInv' /\ Kept
<1> USE WsAssumption DEF WInv, Notify, LoopSend, GoTo, workerVars, ghostVars, InLoop, InWorker, WsTypeOK
<1>1. WsTypeOK' /\ Kept
  BY DEF LoopRun, WorkerRun, Kept
<1>2. LoopRun' /\ WorkerRun' /\ Lined'
  BY DEF LoopRun, WorkerRun, Lined
<1>3. Waits' /\ Passed'
  BY DEF LoopRun, Waits, Passed, Counting
<1>4. OpenRunsTracked' /\ FilledQueueHasWorker'
  BY DEF LoopRun, OpenRunsTracked, FilledQueueHasWorker, Queued
<1> QED
  BY <1>1, <1>2, <1>3, <1>4 DEF WInv

LEMMA ReceiveFailsSound == ASSUME WInv, ReceiveFails PROVE WInv' /\ Kept
<1> USE WsAssumption DEF WInv, ReceiveFails, GoTo, workerVars, ghostVars, InLoop, InWorker, WsTypeOK
<1>1. WsTypeOK' /\ Kept
  BY DEF LoopRun, WorkerRun, Kept
<1>2. LoopRun' /\ WorkerRun' /\ Lined'
  BY DEF LoopRun, WorkerRun, Lined
<1>3. Waits' /\ Passed'
  BY DEF LoopRun, Waits, Passed, Counting
<1>4. OpenRunsTracked' /\ FilledQueueHasWorker'
  BY DEF LoopRun, OpenRunsTracked, FilledQueueHasWorker, Queued
<1> QED
  BY <1>1, <1>2, <1>3, <1>4 DEF WInv

LEMMA TearDownSound == ASSUME WInv, TearDown PROVE WInv' /\ Kept
<1> USE WsAssumption DEF WInv, TearDown, GoTo, ghostVars, InLoop, InWorker, WsTypeOK
<1>1. WsTypeOK' /\ Kept
  BY DEF LoopRun, WorkerRun, Kept
<1>2. LoopRun' /\ WorkerRun' /\ Lined'
  BY DEF LoopRun, WorkerRun, Lined
<1>3. Waits' /\ Passed'
  BY DEF LoopRun, Waits, Passed, Counting
<1>4. OpenRunsTracked' /\ FilledQueueHasWorker'
  BY DEF LoopRun, OpenRunsTracked, FilledQueueHasWorker, Queued
<1> QED
  BY <1>1, <1>2, <1>3, <1>4 DEF WInv

LEMMA PreludeSound == ASSUME WInv, Prelude PROVE WInv' /\ Kept
<1> USE WsAssumption DEF WInv, Prelude, WorkerGoes, WorkerEnds, recvVars, ghostVars, InLoop, InWorker, WsTypeOK
<1>1. WsTypeOK' /\ Kept
  BY DEF LoopRun, WorkerRun, Kept
<1>2. LoopRun' /\ WorkerRun' /\ Lined'
  BY DEF LoopRun, WorkerRun, Lined
<1>3. Waits' /\ Passed'
  BY DEF LoopRun, Waits, Passed, Counting
<1>4. OpenRunsTracked' /\ FilledQueueHasWorker'
  BY DEF LoopRun, OpenRunsTracked, FilledQueueHasWorker, Queued
<1> QED
  BY <1>1, <1>2, <1>3, <1>4 DEF WInv

LEMMA DisconnectSound == ASSUME WInv, Disconnect PROVE WInv' /\ Kept
<1> USE WsAssumption DEF WInv, Disconnect, recvVars, workerVars, ghostVars, InLoop, InWorker, WsTypeOK
<1>1. WsTypeOK' /\ Kept
  BY DEF LoopRun, WorkerRun, Kept
<1>2. LoopRun' /\ WorkerRun' /\ Lined'
  BY DEF LoopRun, WorkerRun, Lined
<1>3. Waits' /\ Passed'
  BY DEF LoopRun, Waits, Passed, Counting
<1>4. OpenRunsTracked' /\ FilledQueueHasWorker'
  BY DEF LoopRun, OpenRunsTracked, FilledQueueHasWorker, Queued
<1> QED
  BY <1>1, <1>2, <1>3, <1>4 DEF WInv

-----------------------------------------------------------------------------
(* The queue that a purge leaves. *)

\* What is known of a queue that took the place of the inbox.
Fit(mail) ==
    /\ mail \in Seq(Messages) /\ Len(mail) <= Len(inbox)
    /\ \A k \in 1 .. Len(mail) :
         doc[mail[k]] = "active" /\ ~InWorker(mail[k]) /\ ~InLoop(mail[k])
    /\ \A j, k \in 1 .. Len(mail) : mail[j] = mail[k] => j = k
    /\ \A k \in 1 .. Len(mail) : overtaken[mail[k]] > 0 =>
         /\ k = 1 /\ KindOf[mail[k]] = "follow_up"
         /\ Counting => overtaken[mail[k]] <= deferrals
    /\ Dropped(mail) \subseteq Messages
    /\ \A m \in Messages : Queued(m) =>
         m \in Dropped(mail) \/ \E k \in 1 .. Len(mail) : mail[k] = m

LEMMA PurgeFits ==
    ASSUME WInv, NEW mail \in Purged
    PROVE  Fit(mail)
<1>1. inbox \in Seq(Messages) /\ Len(inbox) \in Nat
  BY DEF WInv, WsTypeOK
<1>2. PICK d \in 0 .. Len(inbox) :
        /\ mail \in Seq(Messages) /\ Len(mail) = Len(inbox) - d
        /\ \A k \in 1 .. Len(mail) : mail[k] = inbox[k + d]
        /\ Dropped(mail) = {inbox[k] : k \in 1 .. d}
  BY <1>1, PurgeKeeps
<1>3. \A k \in 1 .. Len(mail) : k + d \in 1 .. Len(inbox)
  BY <1>1, <1>2
<1>4. ASSUME NEW k \in 1 .. Len(mail)
      PROVE  doc[mail[k]] = "active" /\ ~InWorker(mail[k]) /\ ~InLoop(mail[k])
  <2>1. mail[k] = inbox[k + d] /\ k + d \in 1 .. Len(inbox)
    BY <1>2, <1>3
  <2> QED
    BY <2>1 DEF WInv, Lined
<1>5. ASSUME NEW j \in 1 .. Len(mail), NEW k \in 1 .. Len(mail), mail[j] = mail[k]
      PROVE  j = k
  <2>1. j + d = k + d
    BY <1>2, <1>3, <1>5 DEF WInv, Lined
  <2> QED
    BY <2>1, <1>1, <1>2
<1>6. ASSUME NEW k \in 1 .. Len(mail), overtaken[mail[k]] > 0
      PROVE  /\ k = 1 /\ KindOf[mail[k]] = "follow_up"
             /\ Counting => overtaken[mail[k]] <= deferrals
  <2>1. mail[k] = inbox[k + d] /\ k + d \in 1 .. Len(inbox)
    BY <1>2, <1>3
  <2>2. k + d = 1 /\ KindOf[mail[k]] = "follow_up"
        /\ (Counting => overtaken[mail[k]] <= deferrals)
    BY <2>1, <1>6 DEF WInv, Waits
  <2> QED
    BY <2>2, <1>1, <1>2
<1>7. Dropped(mail) \subseteq Messages
  BY <1>1, <1>2
<1>8. ASSUME NEW m \in Messages, Queued(m)
      PROVE  m \in Dropped(mail) \/ \E k \in 1 .. Len(mail) : mail[k] = m
  <2>1. PICK k \in 1 .. Len(inbox) : inbox[k] = m
    BY <1>1, <1>8 DEF Queued
  <2>2. CASE k <= d
    BY <2>1, <2>2, <1>1, <1>2
  <2>3. CASE ~(k <= d)
    <3>1. k - d \in 1 .. Len(mail) /\ (k - d) + d = k
      BY <2>3, <1>1, <1>2
    <3> QED
      BY <2>1, <3>1, <1>2
  <2> QED
    BY <2>2, <2>3
<1>9. Len(mail) <= Len(inbox)
  BY <1>1, <1>2
<1> QED
  BY <1>2, <1>4, <1>5, <1>6, <1>7, <1>8, <1>9 DEF Fit

-----------------------------------------------------------------------------
(* The steps that take a message in and out of the queue. *)

LEMMA ReceiveSound == ASSUME WInv, NEW m \in Messages, Receive(m) PROVE WInv' /\ Kept
<1> USE WsAssumption DEF WInv, Receive, MarkRun, workerVars, ghostVars, InLoop, InWorker, WsTypeOK
<1>1. WsTypeOK' /\ Kept
  BY DEF Kept
<1>2. LoopRun' /\ WorkerRun'
  BY DEF LoopRun, WorkerRun, Passed
<1>3. Lined'
  BY DEF LoopRun, WorkerRun, Lined
<1>4. Waits' /\ Passed'
  BY DEF Waits, Passed, Counting
<1>5. OpenRunsTracked' /\ FilledQueueHasWorker'
  BY DEF OpenRunsTracked, FilledQueueHasWorker, Queued
<1> QED
  BY <1>1, <1>2, <1>3, <1>4, <1>5 DEF WInv

\* A message that finds room is appended.
LEMMA AppendSound ==
    ASSUME WInv, recvPc = "announce", socket = "up", NEW mail, Fit(mail), Len(mail) < MaxQueue,
           inbox' = Append(mail, recvRun), expired' = expired \cup Dropped(mail),
           GoTo("enqueued"), UNCHANGED doc,
           UNCHANGED <<socket, workerVars, pending, asked, commands, broken, overtaken>>
    PROVE  WInv' /\ Kept
<1> USE WsAssumption DEF WInv, GoTo, workerVars
<1>1. /\ recvRun \in Messages /\ doc[recvRun] = "active" /\ ~InWorker(recvRun)
      /\ overtaken[recvRun] = 0 /\ InLoop(recvRun)
  BY DEF LoopRun, InLoop
<1>2. /\ mail \in Seq(Messages) /\ Len(mail) \in Nat
      /\ \A k \in 1 .. Len(mail) : mail[k] \in Messages
  BY DEF Fit
<1>3. /\ inbox' \in Seq(Messages) /\ Len(inbox') = Len(mail) + 1
      /\ \A k \in 1 .. Len(mail) : inbox'[k] = mail[k]
      /\ inbox'[Len(mail) + 1] = recvRun
  BY <1>1, <1>2, AppendProperties
<1>4. WsTypeOK' /\ Kept
  BY <1>2, <1>3 DEF WsTypeOK, Kept, Fit
<1>5. LoopRun' /\ WorkerRun'
  BY DEF LoopRun, WorkerRun, InWorker
<1>6. Lined'
  <2>1. ASSUME NEW k \in 1 .. Len(inbox')
        PROVE  doc[inbox'[k]] = "active" /\ ~InWorker(inbox'[k])
    BY <1>1, <1>2, <1>3 DEF Fit
  <2>2. ASSUME NEW k \in 1 .. Len(mail) PROVE mail[k] # recvRun
    BY <1>1 DEF Fit
  <2>3. ASSUME NEW j \in 1 .. Len(inbox'), NEW k \in 1 .. Len(inbox'), inbox'[j] = inbox'[k]
        PROVE  j = k
    BY <2>2, <2>3, <1>2, <1>3 DEF Fit
  <2> QED
    BY <2>1, <2>3 DEF Lined, InWorker, InLoop
<1>7. Waits'
  BY <1>1, <1>2, <1>3 DEF Fit, Waits, Counting
<1>8. Passed'
  BY DEF Passed
<1>9. OpenRunsTracked'
  <2> SUFFICES ASSUME NEW m \in Messages, doc[m] = "active"
               PROVE  Queued(m)' \/ InWorker(m) \/ m \in asked \cup commands \cup expired'
    BY DEF OpenRunsTracked, InWorker
  <2>1. ASSUME NEW k \in 1 .. Len(mail) + 1, inbox'[k] = m PROVE Queued(m)'
    BY <2>1, <1>2, <1>3 DEF Queued
  <2>2. CASE InLoop(m)
    BY <2>1, <2>2, <1>2, <1>3 DEF InLoop
  <2>3. CASE Queued(m)
    BY <2>1, <2>3, <1>2, <1>3 DEF Fit
  <2> QED
    BY <2>2, <2>3 DEF OpenRunsTracked
<1>10. FilledQueueHasWorker'
  BY DEF FilledQueueHasWorker
<1> QED
  BY <1>4, <1>5, <1>6, <1>7, <1>8, <1>9, <1>10

LEMMA AnnounceSound == ASSUME WInv, Announce PROVE WInv' /\ Kept
<1>1. CASE socket = "down" \/ KindOf[recvRun] = "direct"
  <2> USE <1>1, WsAssumption
      DEF WInv, Announce, LoopSend, GoTo, workerVars, InLoop, InWorker, WsTypeOK
  <2>1. WsTypeOK' /\ Kept
    BY DEF LoopRun, Kept
  <2>2. LoopRun' /\ WorkerRun' /\ Lined'
    BY DEF LoopRun, WorkerRun, Lined
  <2>3. Waits' /\ Passed'
    BY DEF Waits, Passed, Counting
  <2>4. OpenRunsTracked' /\ FilledQueueHasWorker'
    BY DEF OpenRunsTracked, FilledQueueHasWorker, Queued
  <2> QED
    BY <2>1, <2>2, <2>3, <2>4 DEF WInv
<1>2. CASE ~(socket = "down" \/ KindOf[recvRun] = "direct")
  <2>1. PICK mail \in Purged :
          /\ expired' = expired \cup Dropped(mail)
          /\ IF Len(mail) >= MaxQueue
               THEN /\ inbox' = mail
                    /\ doc' = [doc EXCEPT ![recvRun] = "failed"]
                    /\ GoTo("notify")
               ELSE /\ inbox' = Append(mail, recvRun)
                    /\ UNCHANGED doc
                    /\ GoTo("enqueued")
    BY <1>2 DEF Announce, MarkRun
  <2>2. Fit(mail)
    BY PurgeFits
  <2>3. /\ recvPc = "announce" /\ socket = "up"
        /\ UNCHANGED <<socket, workerVars, pending, asked, commands, broken, overtaken>>
    BY <1>2 DEF Announce, WInv, WsTypeOK
  <2>4. CASE Len(mail) >= MaxQueue
    <3> HIDE DEF Fit
    <3> USE <2>1, <2>2, <2>3, <2>4, WsAssumption DEF WInv, GoTo, workerVars
    <3>1. /\ recvRun \in Messages /\ doc[recvRun] = "active" /\ ~InWorker(recvRun) /\ InLoop(recvRun)
      BY DEF LoopRun, InLoop
    <3>2. /\ mail \in Seq(Messages) /\ Len(mail) \in Nat
          /\ \A k \in 1 .. Len(mail) : mail[k] \in Messages /\ mail[k] # recvRun
      BY <3>1 DEF Fit
    <3>3. WsTypeOK' /\ Kept
      <4>1. inbox' \in Seq(Messages) /\ Len(inbox') <= MaxQueue
        BY <3>2 DEF WsTypeOK, Fit
      <4>2. Dropped(mail) \subseteq Messages
        BY DEF Fit
      <4>3. Kept
        BY <3>1 DEF Kept, WsTypeOK
      <4> QED
        BY <3>1, <4>1, <4>2, <4>3 DEF WsTypeOK
    <3>4. LoopRun' /\ WorkerRun'
      BY <3>1 DEF LoopRun, WorkerRun, InWorker, WsTypeOK
    <3>5. Lined'
      <4>1. ASSUME NEW k \in 1 .. Len(mail)
            PROVE  doc'[mail[k]] = "active" /\ ~InWorker(mail[k])' /\ ~InLoop(mail[k])'
        <5>1. doc[mail[k]] = "active" /\ ~InWorker(mail[k]) /\ mail[k] \in Messages /\ mail[k] # recvRun
          BY <3>2 DEF Fit
        <5> QED
          BY <5>1 DEF InWorker, InLoop, WsTypeOK
      <4>2. \A j, k \in 1 .. Len(mail) : mail[j] = mail[k] => j = k
        BY DEF Fit
      <4> QED
        BY <4>1, <4>2 DEF Lined
    <3>6. Waits' /\ Passed'
      BY <3>1, <3>2 DEF Waits, Passed, Fit, Counting, WsTypeOK
    <3>7. OpenRunsTracked'
      <4> SUFFICES ASSUME NEW m \in Messages, doc'[m] = "active"
                   PROVE  Queued(m)' \/ InWorker(m) \/ m \in asked \cup commands \cup expired'
        BY DEF OpenRunsTracked, InWorker
      <4>1. m # recvRun /\ doc[m] = "active"
        BY <3>1 DEF WsTypeOK
      <4>2. ~InLoop(m)
        BY <4>1 DEF InLoop
      <4>3. CASE Queued(m)
        BY <4>3, <3>2 DEF Fit, Queued
      <4> QED
        BY <4>1, <4>2, <4>3 DEF OpenRunsTracked
    <3>8. FilledQueueHasWorker'
      <4>1. inbox' # <<>> => Len(mail) > 0
        BY <3>2
      <4>2. inbox' # <<>> => inbox # <<>>
        BY <3>2, <4>1 DEF Fit, WsTypeOK
      <4> QED
        BY <4>2 DEF FilledQueueHasWorker
    <3> QED
      BY <3>3, <3>4, <3>5, <3>6, <3>7, <3>8
  <2>5. CASE ~(Len(mail) >= MaxQueue)
    <3>1. Len(mail) < MaxQueue
      BY <2>2, <2>5, WsAssumption DEF Fit
    <3> QED
      BY <2>1, <2>2, <2>3, <2>5, <3>1, AppendSound
  <2> QED
    BY <2>4, <2>5
<1> QED
  BY <1>1, <1>2

\* What is taken from a queue, forced or not, and whom that passes over: at
\* most the follow-up at the head, and never when the worker must take one.
LEMMA SelectedFits ==
    ASSUME NEW mail \in Seq(Messages), mail # <<>>, NEW force \in BOOLEAN
    PROVE  LET k == Selected(mail, force)
           IN  /\ k \in 1 .. Len(mail)
               /\ PassedOver(mail, k) => ~force /\ k > 1 /\ First(FollowUps(mail)) = 1
               /\ ~PassedOver(mail, k) /\ KindOf[mail[1]] = "follow_up" => k = 1
<1> DEFINE k == Selected(mail, force)
           preferred == IF force THEN FollowUps(mail) ELSE Others(mail)
<1>1. /\ Len(mail) \in Nat /\ 1 \in 1 .. Len(mail)
      /\ \A j \in FollowUps(mail) : j \in 1 .. Len(mail) /\ KindOf[mail[j]] = "follow_up"
      /\ \A j \in Others(mail) : j \in 1 .. Len(mail) /\ KindOf[mail[j]] # "follow_up"
      /\ \A j \in 1 .. Len(mail) : j \in FollowUps(mail) \/ j \in Others(mail)
      /\ \A j \in 1 .. Len(mail) : KindOf[mail[j]] = "follow_up" => j \in FollowUps(mail)
  BY DEF FollowUps, Others
<1>2. ASSUME preferred # {}
      PROVE  k \in preferred /\ \A j \in preferred : k <= j
  <2>1. preferred \subseteq Nat
    BY <1>1
  <2>2. k = First(preferred)
    BY <1>2 DEF Selected
  <2> QED
    BY <1>2, <2>1, <2>2, LeastPosition
<1>3. preferred = {} => k = 1
  BY DEF Selected
<1>4. k \in 1 .. Len(mail)
  BY <1>1, <1>2, <1>3
<1>5. ASSUME PassedOver(mail, k)
      PROVE  ~force /\ k > 1 /\ First(FollowUps(mail)) = 1
  <2>1. PICK j \in FollowUps(mail) : j < k
    BY <1>5 DEF PassedOver
  <2>2. KindOf[mail[k]] # "follow_up" /\ k > 1
    BY <1>1, <1>4, <1>5, <2>1 DEF PassedOver
  <2>3. ~force
    BY <1>1, <1>2, <2>1, <2>2
  <2>4. 1 \in FollowUps(mail)
    BY <1>1, <1>2, <1>3, <2>2, <2>3
  <2>5. FollowUps(mail) \subseteq Nat
    BY <1>1
  <2> HIDE DEF k
  <2>6. First(FollowUps(mail)) \in FollowUps(mail) /\ First(FollowUps(mail)) <= 1
    BY <2>4, <2>5, LeastPosition
  <2>7. First(FollowUps(mail)) = 1
    BY <1>1, <2>6
  <2> QED
    BY <2>2, <2>3, <2>7
<1>6. ASSUME ~PassedOver(mail, k), KindOf[mail[1]] = "follow_up"
      PROVE  k = 1
  <2>1. 1 \in FollowUps(mail)
    BY <1>1, <1>6
  <2>2. CASE KindOf[mail[k]] # "follow_up"
    BY <2>1, <2>2, <1>1, <1>4, <1>6 DEF PassedOver
  <2>3. CASE KindOf[mail[k]] = "follow_up"
    BY <2>1, <2>3, <1>1, <1>2, <1>3, <1>4
  <2> QED
    BY <2>2, <2>3
<1> HIDE DEF k
<1>7. /\ k \in 1 .. Len(mail)
      /\ PassedOver(mail, k) => ~force /\ k > 1 /\ First(FollowUps(mail)) = 1
      /\ ~PassedOver(mail, k) /\ KindOf[mail[1]] = "follow_up" => k = 1
  BY <1>4, <1>5, <1>6
<1> QED
  BY <1>7 DEF k

\* The worker takes the message at position k.
LEMMA TakeSound ==
    ASSUME WInv, workerPc = "dequeue", NEW mail, Fit(mail), NEW k \in 1 .. Len(mail),
           PassedOver(mail, k) => deferrals < MaxDeferrals /\ k > 1 /\ First(FollowUps(mail)) = 1,
           ~PassedOver(mail, k) /\ KindOf[mail[1]] = "follow_up" => k = 1,
           inbox' = RemoveAt(mail, k), workerRun' = mail[k], workerPc' = "prelude",
           expired' = expired \cup Dropped(mail),
           deferrals' = IF PassedOver(mail, k) THEN deferrals + 1 ELSE 0,
           overtaken' = IF PassedOver(mail, k)
                          THEN [overtaken EXCEPT ![mail[First(FollowUps(mail))]] = @ + 1]
                          ELSE overtaken,
           UNCHANGED <<socket, doc, recvVars, pending, asked, commands, broken>>
    PROVE  WInv' /\ Kept
<1> USE WsAssumption DEF WInv, recvVars
<1>1. /\ mail \in Seq(Messages) /\ Len(mail) \in Nat
      /\ \A j \in 1 .. Len(mail) : mail[j] \in Messages
  BY DEF Fit
<1>2. /\ inbox' \in Seq(Messages) /\ Len(inbox') = Len(mail) - 1
      /\ \A j \in 1 .. Len(mail) - 1 : inbox'[j] = IF j < k THEN mail[j] ELSE mail[j + 1]
  BY <1>1, RemoveAtProperties
<1>3. ASSUME NEW j \in 1 .. Len(inbox')
      PROVE  \E i \in 1 .. Len(mail) : i # k /\ inbox'[j] = mail[i] /\ i = IF j < k THEN j ELSE j + 1
  <2>1. CASE j < k
    <3>1. j \in 1 .. Len(mail) - 1 /\ j \in 1 .. Len(mail) /\ j # k
      BY <2>1, <1>1, <1>2
    <3> QED
      BY <2>1, <3>1, <1>2
  <2>2. CASE ~(j < k)
    <3>1. j + 1 \in 1 .. Len(mail) /\ j + 1 # k /\ inbox'[j] = mail[j + 1]
      BY <2>2, <1>1, <1>2
    <3> QED
      BY <2>2, <3>1
  <2> QED
    BY <2>1, <2>2
<1>4. overtaken \in [Messages -> Nat] /\ deferrals \in 0 .. MaxDeferrals /\ mail[1] \in Messages
  BY <1>1 DEF WsTypeOK
<1>5. PassedOver(mail, k) =>
        /\ overtaken' = [overtaken EXCEPT ![mail[1]] = overtaken[mail[1]] + 1]
        /\ overtaken[mail[1]] <= deferrals /\ deferrals < MaxDeferrals
        /\ KindOf[mail[1]] = "follow_up" /\ doc[mail[1]] = "active" /\ ~InLoop(mail[1])
  <2> SUFFICES ASSUME PassedOver(mail, k)
               PROVE  /\ overtaken' = [overtaken EXCEPT ![mail[1]] = overtaken[mail[1]] + 1]
                      /\ overtaken[mail[1]] <= deferrals /\ deferrals < MaxDeferrals
                      /\ KindOf[mail[1]] = "follow_up" /\ doc[mail[1]] = "active" /\ ~InLoop(mail[1])
    OBVIOUS
  <2>1. 1 \in 1 .. Len(mail)
    BY <1>1
  <2>2. overtaken[mail[1]] <= deferrals
    BY <1>4, <2>1 DEF Fit, Counting
  <2>3. FollowUps(mail) \subseteq Nat /\ FollowUps(mail) # {}
    BY <1>1 DEF FollowUps, PassedOver
  <2>4. 1 \in FollowUps(mail)
    BY <2>3, LeastPosition
  <2>5. KindOf[mail[1]] = "follow_up"
    BY <2>4 DEF FollowUps
  <2> QED
    BY <2>1, <2>2, <2>5 DEF Fit
<1>6. WsTypeOK' /\ Kept
  <2>1. Len(inbox') <= MaxQueue
    BY <1>1, <1>2 DEF Fit, WsTypeOK
  <2>2. overtaken' \in [Messages -> Nat]
    BY <1>4, <1>5
  <2>3. deferrals' \in 0 .. MaxDeferrals
    <3>1. deferrals \in Nat /\ MaxDeferrals \in Nat
      BY <1>4
    <3>2. CASE PassedOver(mail, k)
      BY <3>1, <3>2
    <3>3. CASE ~PassedOver(mail, k)
      BY <3>1, <3>3
    <3> QED
      BY <3>2, <3>3
  <2>4. expired' \subseteq Messages /\ workerRun' \in Messages
    BY <1>1 DEF Fit, WsTypeOK
  <2> QED
    BY <1>2, <2>1, <2>2, <2>3, <2>4 DEF WsTypeOK, Kept
<1>7. WorkerRun'
  BY <1>1 DEF WorkerRun, Fit
<1>8. LoopRun'
  <2> SUFFICES ASSUME recvPc \in {"announce", "direct", "done"}
               PROVE  recvRun \in Messages /\ doc[recvRun] = "active" /\ ~InWorker(recvRun)'
                      /\ overtaken'[recvRun] = 0
    BY DEF LoopRun
  <2>1. InLoop(recvRun) /\ recvRun \in Messages /\ overtaken[recvRun] = 0
    BY DEF LoopRun, InLoop
  <2>2. mail[k] # recvRun
    BY <2>1 DEF Fit
  <2>3. overtaken'[recvRun] = 0
    BY <1>4, <1>5, <2>1
  <2>4. doc[recvRun] = "active" /\ ~InWorker(recvRun)
    BY DEF LoopRun
  <2>5. ~InWorker(recvRun)'
    BY <1>1, <2>2, <2>4 DEF InWorker
  <2> QED
    BY <2>1, <2>3, <2>4, <2>5
<1>9. Lined'
  <2>1. ASSUME NEW j \in 1 .. Len(inbox')
        PROVE  doc[inbox'[j]] = "active" /\ inbox'[j] # mail[k] /\ ~InLoop(inbox'[j])
    BY <1>3 DEF Fit
  <2>2. ASSUME NEW j \in 1 .. Len(inbox'), NEW l \in 1 .. Len(inbox'), inbox'[j] = inbox'[l]
        PROVE  j = l
    <3>1. PICK i \in 1 .. Len(mail) : inbox'[j] = mail[i] /\ i = IF j < k THEN j ELSE j + 1
      BY <1>3
    <3>2. PICK h \in 1 .. Len(mail) : inbox'[l] = mail[h] /\ h = IF l < k THEN l ELSE l + 1
      BY <1>3
    <3>3. i = h
      BY <3>1, <3>2, <2>2 DEF Fit
    <3> QED
      BY <3>1, <3>2, <3>3, <1>1, <1>2
  <2> QED
    BY <2>1, <2>2 DEF Lined, InWorker, InLoop
<1>10. ASSUME NEW j \in 1 .. Len(inbox'), overtaken'[inbox'[j]] > 0
       PROVE  /\ j = 1 /\ KindOf[inbox'[j]] = "follow_up"
              /\ overtaken'[inbox'[j]] <= deferrals'
  <2>1. PICK i \in 1 .. Len(mail) : i # k /\ inbox'[j] = mail[i] /\ i = IF j < k THEN j ELSE j + 1
    BY <1>3
  <2>2. overtaken[mail[i]] > 0 => i = 1 /\ KindOf[mail[i]] = "follow_up"
    BY DEF Fit
  <2>3. CASE PassedOver(mail, k)
    <3>1. ASSUME i # 1 PROVE FALSE
      <4>1. mail[i] # mail[1]
        BY <3>1, <1>1 DEF Fit
      <4>2. overtaken'[mail[i]] = overtaken[mail[i]]
        BY <2>3, <4>1, <1>1, <1>4, <1>5
      <4> QED
        BY <2>1, <2>2, <3>1, <4>2, <1>10
    <3>2. overtaken'[mail[1]] = overtaken[mail[1]] + 1
      BY <1>4, <1>5, <2>3
    <3>3. i = 1
      BY <3>1
    <3>4. overtaken[mail[1]] <= deferrals /\ KindOf[mail[1]] = "follow_up"
      BY <1>5, <2>3
    <3>5. overtaken[mail[1]] \in Nat /\ deferrals \in Nat
      BY <1>4
    <3> HIDE DEF Fit
    <3> QED
      BY <2>1, <2>3, <3>2, <3>3, <3>4, <3>5, <1>2
  <2>4. CASE ~PassedOver(mail, k)
    BY <2>1, <2>2, <2>4, <1>10
  <2> QED
    BY <2>3, <2>4
<1>11. Waits'
  BY <1>10 DEF Waits
<1>12. Passed'
  BY <1>4, <1>5 DEF Passed
<1>13. OpenRunsTracked'
  <2> SUFFICES ASSUME NEW m \in Messages, doc[m] = "active", socket = "up"
               PROVE  InLoop(m) \/ Queued(m)' \/ mail[k] = m \/ m \in asked \cup commands \cup expired'
    BY DEF OpenRunsTracked, InLoop, InWorker
  <2>1. ASSUME NEW i \in 1 .. Len(mail), mail[i] = m, i # k PROVE Queued(m)'
    <3>1. CASE i < k
      <4>1. i \in 1 .. Len(inbox') /\ inbox'[i] = m
        BY <2>1, <3>1, <1>1, <1>2
      <4> QED
        BY <4>1, <1>2 DEF Queued
    <3>2. CASE ~(i < k)
      <4>1. i - 1 \in 1 .. Len(inbox') /\ ~(i - 1 < k) /\ (i - 1) + 1 = i
        BY <2>1, <3>2, <1>1, <1>2
      <4>2. inbox'[i - 1] = m
        BY <4>1, <2>1, <1>2
      <4> QED
        BY <4>1, <4>2, <1>2 DEF Queued
    <3> QED
      BY <3>1, <3>2
  <2>2. CASE Queued(m)
    BY <2>1, <2>2 DEF Fit
  <2>3. ~InWorker(m)
    BY DEF InWorker
  <2> QED
    BY <2>2, <2>3 DEF OpenRunsTracked
<1>14. FilledQueueHasWorker'
  BY DEF FilledQueueHasWorker
<1> QED
  BY <1>6, <1>7, <1>8, <1>9, <1>11, <1>12, <1>13, <1>14

LEMMA DequeueSound == ASSUME WInv, Dequeue PROVE WInv' /\ Kept
<1> DEFINE force == deferrals >= MaxDeferrals
<1>1. PICK mail \in Purged :
        /\ expired' = expired \cup Dropped(mail)
        /\ IF mail = <<>>
             THEN WorkerEnds /\ inbox' = mail /\ UNCHANGED overtaken
             ELSE LET k == Selected(mail, force)
                  IN  /\ inbox' = RemoveAt(mail, k)
                      /\ workerRun' = mail[k]
                      /\ workerPc' = "prelude"
                      /\ deferrals' = IF Deferred(mail, force) THEN deferrals + 1 ELSE 0
                      /\ overtaken' = IF PassedOver(mail, k)
                                        THEN [overtaken EXCEPT ![mail[First(FollowUps(mail))]] = @ + 1]
                                        ELSE overtaken
  BY DEF Dequeue
<1>2. Fit(mail)
  BY PurgeFits
<1>3. workerPc = "dequeue" /\ UNCHANGED <<socket, doc, recvVars, pending, asked, commands, broken>>
  BY DEF Dequeue
<1>4. CASE mail = <<>>
  <2> USE <1>1, <1>2, <1>3, <1>4, WsAssumption DEF WInv, WorkerEnds, recvVars, InWorker, InLoop, WsTypeOK
  <2>1. WsTypeOK' /\ Kept
    BY DEF Fit, Kept
  <2>2. LoopRun' /\ WorkerRun' /\ Lined'
    BY DEF LoopRun, WorkerRun, Lined
  <2>3. Waits' /\ Passed'
    BY DEF Waits, Passed
  <2>4. OpenRunsTracked' /\ FilledQueueHasWorker'
    BY DEF OpenRunsTracked, FilledQueueHasWorker, Fit, Queued
  <2> QED
    BY <2>1, <2>2, <2>3, <2>4 DEF WInv
<1>5. CASE mail # <<>>
  <2> DEFINE k == Selected(mail, force)
  <2>1. mail \in Seq(Messages) /\ force \in BOOLEAN
    BY <1>2 DEF Fit
  <2> HIDE DEF force
  <2>2. /\ k \in 1 .. Len(mail)
        /\ PassedOver(mail, k) => ~force /\ k > 1 /\ First(FollowUps(mail)) = 1
        /\ ~PassedOver(mail, k) /\ KindOf[mail[1]] = "follow_up" => k = 1
    BY <1>5, <2>1, SelectedFits
  <2>3. /\ inbox' = RemoveAt(mail, k) /\ workerRun' = mail[k] /\ workerPc' = "prelude"
        /\ deferrals' = IF ~force /\ PassedOver(mail, k) THEN deferrals + 1 ELSE 0
        /\ overtaken' = IF PassedOver(mail, k)
                          THEN [overtaken EXCEPT ![mail[First(FollowUps(mail))]] = @ + 1]
                          ELSE overtaken
    BY <1>1, <1>5 DEF Deferred
  <2> HIDE DEF k
  <2>4. PassedOver(mail, k) => deferrals < MaxDeferrals
    BY <2>2, WsAssumption DEF force, WInv, WsTypeOK
  <2>5. deferrals' = IF PassedOver(mail, k) THEN deferrals + 1 ELSE 0
    BY <2>2, <2>3
  <2> QED
    BY <1>1, <1>2, <1>3, <2>2, <2>3, <2>4, <2>5, TakeSound
<1> QED
  BY <1>4, <1>5

\* The worker's last send fails: it writes its run off and empties the queue.
LEMMA DisconnectedSound ==
    ASSUME WInv, workerPc \in {"job", "finish", "asked", "excuse"}, socket = "down",
           Disconnected, UNCHANGED <<socket, recvVars, ghostVars, pending>>
    PROVE  WInv' /\ Kept
<1> USE WsAssumption DEF WInv, Disconnected, MarkRun, WorkerEnds, recvVars, ghostVars, InLoop, InWorker, WsTypeOK
<1>1. WsTypeOK' /\ Kept
  BY DEF WorkerRun, Kept
<1>2. LoopRun' /\ WorkerRun' /\ Lined'
  BY DEF LoopRun, WorkerRun, Lined
<1>3. Waits' /\ Passed'
  BY DEF Waits, Passed, WorkerRun
<1>4. OpenRunsTracked' /\ FilledQueueHasWorker'
  BY DEF OpenRunsTracked, FilledQueueHasWorker
<1> QED
  BY <1>1, <1>2, <1>3, <1>4 DEF WInv

\* The agent run ends, or its last send succeeds.
LEMMA WorkerMoves ==
    ASSUME WInv, workerPc \in {"job", "finish", "asked", "excuse"},
           NEW status \in {"active", "completed", "failed"},
           doc' = [doc EXCEPT ![workerRun] = status],
           doc[workerRun] = "failed" => status = "failed" \/ (workerPc = "finish" /\ status = "completed"),
           workerPc' \in {"finish", "asked", "excuse", "dequeue"},
           workerPc' \in {"finish", "asked"} => workerPc # "excuse" /\ status = doc[workerRun],
           workerPc' = "excuse" => status = "failed",
           workerPc' = "asked" => workerRun \in asked',
           workerPc' = "dequeue" /\ status = "active" => workerRun \in asked' \cup commands',
           asked \subseteq asked' /\ commands \subseteq commands',
           asked' \cup commands' \subseteq Messages, pending' \in Messages \cup {NoRun},
           UNCHANGED <<socket, recvVars, inbox, workerRun, deferrals, expired, broken, overtaken>>
    PROVE  WInv' /\ Kept
<1> USE WsAssumption DEF WInv, recvVars, InLoop, InWorker
<1>1. /\ doc \in [Messages -> {"none", "active", "completed", "failed", "rejected"}]
      /\ workerRun \in Messages /\ doc[workerRun] \in {"active", "failed"}
      /\ doc[workerRun] = "failed" => workerPc = "excuse" \/ workerRun \in broken
  BY DEF WorkerRun, WsTypeOK
<1>2. \A m \in Messages : doc'[m] = IF m = workerRun THEN status ELSE doc[m]
  BY <1>1
<1>3. WsTypeOK' /\ Kept
  BY <1>1 DEF WsTypeOK, Kept
<1>4. LoopRun' /\ WorkerRun'
  BY <1>1, <1>2 DEF LoopRun, WorkerRun
<1>5. \A k \in 1 .. Len(inbox) : inbox[k] \in Messages
  BY DEF WsTypeOK
<1>6. Lined'
  BY <1>1, <1>2, <1>5 DEF Lined
<1>7. Waits' /\ Passed'
  BY <1>1, <1>2 DEF Waits, Passed, Counting
<1>8. OpenRunsTracked' /\ FilledQueueHasWorker'
  BY <1>1, <1>2 DEF OpenRunsTracked, FilledQueueHasWorker, Queued
<1> QED
  BY <1>3, <1>4, <1>6, <1>7, <1>8

LEMMA JobEndsSound ==
    ASSUME WInv, NEW outcome \in {"ok", "ask", "error", "command"}, JobEnds(outcome)
    PROVE  WInv' /\ Kept
<1>1. CASE socket = "down" /\ outcome # "error"
  BY <1>1, DisconnectedSound DEF JobEnds, ghostVars
<1>2. CASE ~(socket = "down" /\ outcome # "error")
  <2> DEFINE status == IF outcome = "error" THEN "failed" ELSE doc[workerRun]
  <2>1. /\ workerPc = "job" /\ workerRun \in Messages /\ doc[workerRun] \in {"active", "failed"}
        /\ doc \in [Messages -> {"none", "active", "completed", "failed", "rejected"}]
        /\ asked \cup commands \subseteq Messages /\ pending \in Messages \cup {NoRun}
    BY DEF JobEnds, WInv, WorkerRun, WsTypeOK
  <2>2. doc' = [doc EXCEPT ![workerRun] = status]
    BY <2>1, <1>2 DEF JobEnds, TryRunCommand, AskUser, HandleRequestFailure, MarkRun
  <2>3. /\ pending' \in Messages \cup {NoRun} /\ asked' \cup commands' \subseteq Messages
        /\ asked \subseteq asked' /\ commands \subseteq commands'
    BY <2>1, <1>2 DEF JobEnds, TryRunCommand, AskUser, HandleRequestFailure
  <2>4. /\ workerPc' \in {"finish", "asked", "excuse", "dequeue"}
        /\ workerPc' = "excuse" <=> outcome = "error"
        /\ workerPc' = "asked" => workerRun \in asked'
        /\ workerPc' = "dequeue" => workerRun \in commands'
        /\ UNCHANGED <<socket, recvVars, inbox, workerRun, deferrals, expired, broken, overtaken>>
    BY <1>2 DEF JobEnds, TryRunCommand, AskUser, HandleRequestFailure, WorkerGoes
  <2>5. /\ status \in {"active", "completed", "failed"}
        /\ doc[workerRun] = "failed" => status = "failed"
        /\ workerPc' \in {"finish", "asked"} => status = doc[workerRun]
        /\ workerPc' = "excuse" => status = "failed"
    BY <2>1, <2>4
  <2> HIDE DEF status
  <2> QED
    BY <2>1, <2>2, <2>3, <2>4, <2>5, WorkerMoves
<1> QED
  BY <1>1, <1>2

LEMMA JobReportsSound == ASSUME WInv, JobReports PROVE WInv' /\ Kept
<1>1. CASE socket = "down"
  BY <1>1, DisconnectedSound DEF JobReports
<1>2. CASE socket = "up"
  <2> DEFINE status == IF workerPc = "finish" THEN "completed" ELSE doc[workerRun]
  <2>1. /\ workerPc \in {"finish", "asked", "excuse"} /\ workerRun \in Messages
        /\ doc[workerRun] \in {"active", "failed"} /\ (workerPc = "excuse" => doc[workerRun] = "failed")
        /\ doc \in [Messages -> {"none", "active", "completed", "failed", "rejected"}]
        /\ asked \cup commands \subseteq Messages /\ pending \in Messages \cup {NoRun}
        /\ workerPc = "asked" => workerRun \in asked
    BY DEF JobReports, WInv, WorkerRun, WsTypeOK
  <2>2. doc' = [doc EXCEPT ![workerRun] = status]
    BY <2>1, <1>2 DEF JobReports, MarkRun
  <2>3. /\ workerPc' = "dequeue"
        /\ UNCHANGED <<socket, recvVars, inbox, workerRun, deferrals, pending, ghostVars>>
    BY <1>2 DEF JobReports, WorkerGoes
  <2>4. /\ status \in {"active", "completed", "failed"}
        /\ status = "active" => workerPc = "asked"
        /\ doc[workerRun] = "failed" => status = "failed" \/ (workerPc = "finish" /\ status = "completed")
    BY <2>1
  <2> HIDE DEF status
  <2> QED
    BY <2>1, <2>2, <2>3, <2>4, WorkerMoves DEF ghostVars
<1> QED
  BY <1>1, <1>2 DEF WInv, WsTypeOK

\* A send of the job closes the run's document; the job goes on.
LEMMA HardFailSound == ASSUME WInv, HardFailInSend PROVE WInv' /\ Kept
<1> USE WsAssumption DEF WInv, HardFailInSend, MarkRun, recvVars, workerVars, InLoop, InWorker, WsTypeOK
<1>1. WsTypeOK' /\ Kept
  BY DEF WorkerRun, Kept
<1>2. LoopRun' /\ WorkerRun' /\ Lined'
  BY DEF LoopRun, WorkerRun, Lined
<1>3. Waits' /\ Passed'
  BY DEF Waits, Passed, Counting, WorkerRun
<1>4. OpenRunsTracked' /\ FilledQueueHasWorker'
  BY DEF OpenRunsTracked, FilledQueueHasWorker, Queued, WorkerRun
<1> QED
  BY <1>1, <1>2, <1>3, <1>4 DEF WInv

-----------------------------------------------------------------------------
(* The theorems. *)

LEMMA InitWInv == WsInit => WInv
BY WsAssumption
   DEF WsInit, WInv, WsTypeOK, LoopRun, WorkerRun, Lined, Waits, Passed, OpenRunsTracked,
       FilledQueueHasWorker

LEMMA NextWInv == WInv /\ [WsNext]_wsVars => WInv' /\ (Kept \/ UNCHANGED wsVars)
<1> SUFFICES ASSUME WInv, [WsNext]_wsVars PROVE WInv' /\ (Kept \/ UNCHANGED wsVars)
  OBVIOUS
<1>1. CASE \E m \in Messages : Receive(m)
  BY <1>1, ReceiveSound
<1>2. CASE LoopStep
  <2>1. ASSUME RefuseType \/ RefuseDirective PROVE WInv' /\ Kept
    BY <2>1, RefuseSound DEF RefuseType, RefuseDirective
  <2> QED
    BY <1>2, <2>1, AnnounceSound, EnsureWorkerSound, DirectSound, DirectFailsSound, DirectDoneSound,
       NotifySound, ReceiveFailsSound, TearDownSound DEF LoopStep
<1>3. CASE WorkerStep
  <2>1. ASSUME workerRun # NoRun, NEW outcome \in OutcomesOf[workerRun], JobEnds(outcome)
        PROVE  WInv' /\ Kept
    <3>1. workerRun \in Messages
      BY <2>1 DEF JobEnds, WInv, WorkerRun
    <3>2. outcome \in {"ok", "ask", "error", "command"}
      BY <3>1, WsAssumption
    <3> QED
      BY <2>1, <3>2, JobEndsSound
  <2> QED
    BY <1>3, <2>1, DequeueSound, PreludeSound, JobReportsSound DEF WorkerStep
<1>4. CASE Disconnect
  BY <1>4, DisconnectSound
<1>6. CASE HardFailInSend
  BY <1>6, HardFailSound
<1>5. CASE UNCHANGED wsVars
  BY <1>5
     DEF wsVars, recvVars, workerVars, ghostVars, WInv, WsTypeOK, LoopRun, WorkerRun, Lined, Waits,
         Passed, OpenRunsTracked, FilledQueueHasWorker, Counting, InLoop, InWorker, Queued
<1> QED
  BY <1>1, <1>2, <1>3, <1>4, <1>5, <1>6 DEF WsNext

LEMMA WInvSound == WInv => InboxSound
<1> SUFFICES ASSUME WInv PROVE InboxSound
  OBVIOUS
<1>1. inbox \in Seq(Messages) /\ DOMAIN inbox = 1 .. Len(inbox)
  BY DEF WInv, WsTypeOK
<1>2. QueuedOnce
  BY <1>1 DEF WInv, Lined, QueuedOnce
<1>3. FollowUpsWaitBounded
  <2> SUFFICES ASSUME FollowUps(inbox) # {}
               PROVE  overtaken[inbox[First(FollowUps(inbox))]] <= MaxDeferrals
    BY DEF FollowUpsWaitBounded
  <2>1. FollowUps(inbox) \subseteq 1 .. Len(inbox)
    BY <1>1 DEF FollowUps
  <2>2. First(FollowUps(inbox)) \in 1 .. Len(inbox)
    <3>1. FollowUps(inbox) \subseteq Nat
      BY <2>1
    <3> QED
      BY <2>1, <3>1, LeastPosition
  <2> QED
    BY <1>1, <2>2 DEF WInv, Passed
<1> QED
  BY <1>2, <1>3 DEF WInv, InboxSound

(* For every number of messages, every mix of kinds and outcomes and any
   limits: while the client is connected each open run is in the hands of the
   loop or the worker, or in the mail, once, and a filled mail has a worker;
   the oldest follow-up is passed over at most MaxDeferrals times. *)
THEOREM InboxSoundHolds == WsSpec => []InboxSound
<1>1. WsInit => WInv
  BY InitWInv
<1>2. WInv /\ [WsNext]_wsVars => WInv'
  BY NextWInv
<1>3. WInv => InboxSound
  BY WInvSound
<1> QED
  BY <1>1, <1>2, <1>3, PTL DEF WsSpec

(* No step of the loop, the worker, the teardown or the client changes the
   document of a run that was closed, except that a job which a send of its
   own hard-failed still completes it. *)
THEOREM ClosedRunsStayHolds == WsSpec => ClosedRunsStay
<1>1. WsInit => WInv
  BY InitWInv
<1>2. WInv /\ [WsNext]_wsVars => WInv'
  BY NextWInv
<1>3. WInv /\ [WsNext]_wsVars =>
        [\A m \in Messages : doc[m] \in {"completed", "failed"} =>
            \/ doc'[m] = doc[m]
            \/ m \in broken /\ workerRun = m /\ workerPc = "finish" /\ doc'[m] = "completed"]_wsVars
  BY NextWInv DEF Kept
<1> QED
  BY <1>1, <1>2, <1>3, PTL DEF WsSpec, ClosedRunsStay

-----------------------------------------------------------------------------
(* SessionStore: what memory may hold *)

CallIds == UNION {i.calls : i \in Items}

\* What memory holds: what it was given and the answers a repair makes up.
StoredItems == Items \union {Synthetic(id) : id \in CallIds}

LEMMA StoredFits ==
    ASSUME NEW x \in StoredItems
    PROVE  IsFiniteSet(x.calls) /\ x.calls \subseteq CallIds
<1>1. CASE x \in Items
  BY <1>1, SessionStoreAssumption DEF CallIds
<1>2. CASE \E id \in CallIds : x = Synthetic(id)
  BY <1>2, FS_EmptySet DEF Synthetic
<1> QED
  BY <1>1, <1>2 DEF StoredItems

-----------------------------------------------------------------------------
(* What is open *)

\* The calls of the first n items, of which there are finitely many.
LEMMA OpenFinite ==
    ASSUME NEW s \in Seq(StoredItems), NEW n \in 0..Len(s)
    PROVE  IsFiniteSet(OpenAfter(s, n)) /\ OpenAfter(s, n) \subseteq CallIds
<1> DEFINE T == {s[j].calls : j \in 1..n}
           f == [j \in 1..n |-> s[j].calls]
<1>1. Len(s) \in Nat /\ n \in Nat /\ \A j \in 1..n : s[j] \in StoredItems
  OBVIOUS
<1>2. \A j \in 1..n : IsFiniteSet(s[j].calls) /\ s[j].calls \subseteq CallIds
  BY <1>1, StoredFits
<1>3. f \in Surjection(1..n, T)
  BY DEF Surjection
<1>4. IsFiniteSet(1..n)
  BY <1>1, CountTo
<1>5. \A t \in T : IsFiniteSet(t) /\ t \subseteq CallIds
  BY <1>2
<1>6. OpenAfter(s, n) \subseteq UNION T
  BY DEF OpenAfter
<1> HIDE DEF T, f
<1>7. IsFiniteSet(UNION T)
  BY <1>3, <1>4, <1>5, FS_Surjection, FS_UNION
<1>8. IsFiniteSet(OpenAfter(s, n))
  BY <1>6, <1>7, FS_Subset
<1> QED
  BY <1>5, <1>6, <1>8

\* An item adds its calls or settles some.
ReadPast(open, item) ==
    {id \in open : ~Settles(item, id)} \union (IF item.role = "assistant" THEN item.calls ELSE {})

LEMMA OpenStep ==
    ASSUME NEW s \in Seq(StoredItems), NEW n \in 1..Len(s)
    PROVE  OpenAfter(s, n) = ReadPast(OpenAfter(s, n - 1), s[n])
<1>1. Len(s) \in Nat /\ n \in Nat /\ n - 1 \in Nat
  OBVIOUS
<1> DEFINE Opens(j, id) == s[j].role = "assistant" /\ id \in s[j].calls
           Open(m, id) == \E j \in 1..m : Opens(j, id) /\ \A i \in j + 1 .. m : ~Settles(s[i], id)
<1>2. ASSUME NEW m \in Nat, NEW id PROVE id \in OpenAfter(s, m) <=> Open(m, id)
  BY DEF OpenAfter
<1>3. ASSUME NEW id, Open(n, id) PROVE id \in ReadPast(OpenAfter(s, n - 1), s[n])
  <2>1. PICK j \in 1..n : Opens(j, id) /\ \A i \in j + 1 .. n : ~Settles(s[i], id)
    BY <1>3
  <2>2. CASE j = n
    BY <2>1, <2>2 DEF ReadPast
  <2>3. CASE j # n
    <3>1. j \in 1..n - 1 /\ n \in j + 1 .. n /\ \A i \in j + 1 .. n - 1 : i \in j + 1 .. n
      BY <1>1, <2>3
    <3>2. Open(n - 1, id) /\ ~Settles(s[n], id)
      BY <2>1, <3>1
    <3> HIDE DEF Open
    <3> QED
      BY <1>1, <1>2, <3>2 DEF ReadPast
  <2> QED
    BY <2>2, <2>3
<1>4. ASSUME NEW id \in ReadPast(OpenAfter(s, n - 1), s[n]) PROVE Open(n, id)
  <2>1. CASE Opens(n, id)
    <3>1. n \in 1..n /\ n + 1 .. n = {}
      BY <1>1
    <3> QED
      BY <2>1, <3>1
  <2>2. CASE ~Opens(n, id)
    <3>1. id \in OpenAfter(s, n - 1) /\ ~Settles(s[n], id)
      BY <1>4, <2>2 DEF ReadPast
    <3>2. Open(n - 1, id)
      BY <1>1, <1>2, <3>1
    <3>3. PICK j \in 1..n - 1 : Opens(j, id) /\ \A i \in j + 1 .. n - 1 : ~Settles(s[i], id)
      BY <3>2
    <3>4. j \in 1..n /\ \A i \in j + 1 .. n : i = n \/ i \in j + 1 .. n - 1
      BY <1>1
    <3> QED
      BY <3>1, <3>3, <3>4
  <2> QED
    BY <2>1, <2>2
<1> HIDE DEF Open
<1>5. \A id : id \in OpenAfter(s, n) <=> id \in ReadPast(OpenAfter(s, n - 1), s[n])
  BY <1>1, <1>2, <1>3, <1>4
<1> QED
  BY <1>5

LEMMA OpenAtFirst == ASSUME NEW s PROVE OpenAfter(s, 0) = {}
BY DEF OpenAfter

\* Only the items that were read count.
LEMMA OpenPrefix ==
    ASSUME NEW s, NEW t, NEW n \in Nat, \A j \in 1..n : s[j] = t[j]
    PROVE  OpenAfter(s, n) = OpenAfter(t, n)
<1>1. \A j \in 1..n : \A i \in j + 1 .. n : i \in 1..n
  OBVIOUS
<1>2. {s[j].calls : j \in 1..n} = {t[j].calls : j \in 1..n}
  OBVIOUS
<1>3. \A id : (\E j \in 1..n : /\ s[j].role = "assistant" /\ id \in s[j].calls
                              /\ \A i \in j + 1 .. n : ~Settles(s[i], id))
          <=> (\E j \in 1..n : /\ t[j].role = "assistant" /\ id \in t[j].calls
                              /\ \A i \in j + 1 .. n : ~Settles(t[i], id))
  BY <1>1
<1> QED
  BY <1>2, <1>3 DEF OpenAfter

\* Before a user's item nothing is open.
Quiet(s) == \A j \in DOMAIN s : s[j].role = "user" => OpenAfter(s, j - 1) = {}

LEMMA AppendRead ==
    ASSUME NEW s \in Seq(StoredItems), NEW x \in StoredItems
    PROVE  /\ Append(s, x) \in Seq(StoredItems) /\ Len(Append(s, x)) = Len(s) + 1
           /\ OpenAfter(Append(s, x), Len(s) + 1) = ReadPast(OpenAfter(s, Len(s)), x)
           /\ Quiet(s) /\ (x.role = "user" => OpenAfter(s, Len(s)) = {}) => Quiet(Append(s, x))
<1> DEFINE n == Len(s)
           t == Append(s, x)
<1>1. /\ n \in Nat /\ t \in Seq(StoredItems) /\ Len(t) = n + 1 /\ DOMAIN t = 1..n + 1 /\ DOMAIN s = 1..n
      /\ t[n + 1] = x /\ \A j \in 1..n : t[j] = s[j]
  OBVIOUS
<1> HIDE DEF t, n
<1>2. n + 1 \in 1..Len(t) /\ n + 1 - 1 = n
  BY <1>1
<1>3. OpenAfter(t, n + 1) = ReadPast(OpenAfter(t, n), x)
  BY <1>1, <1>2, OpenStep
<1>4. ASSUME NEW m \in 0..n PROVE OpenAfter(t, m) = OpenAfter(s, m)
  <2>1. m \in Nat /\ \A j \in 1..m : t[j] = s[j]
    BY <1>1
  <2> QED
    BY <2>1, OpenPrefix
<1>5. ASSUME Quiet(s), x.role = "user" => OpenAfter(s, n) = {} PROVE Quiet(t)
  <2> SUFFICES ASSUME NEW j \in 1..n + 1, t[j].role = "user" PROVE OpenAfter(t, j - 1) = {}
    BY <1>1 DEF Quiet
  <2>1. CASE j = n + 1
    BY <1>1, <1>2, <1>4, <1>5, <2>1
  <2>2. CASE j # n + 1
    <3>1. j \in 1..n /\ j - 1 \in 0..n
      BY <1>1, <2>2
    <3> QED
      BY <1>1, <1>4, <1>5, <3>1 DEF Quiet
  <2> QED
    BY <2>1, <2>2
<1>6. OpenAfter(t, n) = OpenAfter(s, n)
  BY <1>1, <1>4
<1> QED
  BY <1>1, <1>3, <1>5, <1>6 DEF t, n

\* The answers that are made up for what is open leave nothing open.
LEMMA AnswersFit ==
    ASSUME NEW open, IsFiniteSet(open), open \subseteq CallIds
    PROVE  Answered(open) \in Seq(StoredItems) /\ Len(Answered(open)) = Cardinality(open)
           /\ Cardinality(open) \in Nat /\ (open = {} => Answered(open) = <<>>)
<1>1. Cardinality(open) \in Nat /\ SetToSeq(open) \in [1..Cardinality(open) -> open]
  BY ListedOnce
<1>2. \A n \in 1..Cardinality(open) : Synthetic(SetToSeq(open)[n]) \in StoredItems
  BY <1>1 DEF StoredItems
<1>3. Answered(open) \in [1..Cardinality(open) -> StoredItems]
  BY <1>2 DEF Answered
<1>4. Answered(open) \in Seq(StoredItems) /\ Len(Answered(open)) = Cardinality(open)
  BY <1>1, <1>3, ListOf
<1>5. open = {} => Answered(open) = <<>>
  BY <1>4, FS_EmptySet, EmptySeq
<1> QED
  BY <1>1, <1>4, <1>5

LEMMA AnswersClose ==
    ASSUME NEW s \in Seq(StoredItems), Quiet(s)
    PROVE  \A t \in {s \o Answered(OpenAfter(s, Len(s)))} :
             t \in Seq(StoredItems) /\ OpenAfter(t, Len(t)) = {} /\ Quiet(t)
<1> DEFINE n == Len(s)
           open == OpenAfter(s, n)
           a == Answered(open)
           t == s \o a
<1>1. n \in Nat /\ n \in 0..n
  OBVIOUS
<1>2. IsFiniteSet(open) /\ open \subseteq CallIds
  BY <1>1, OpenFinite
<1>3. a \in Seq(StoredItems) /\ Len(a) = Cardinality(open) /\ Cardinality(open) \in Nat
  BY <1>2, AnswersFit
<1>4. \A m \in 1..Cardinality(open) : a[m] = Synthetic(SetToSeq(open)[m])
  BY DEF Answered
<1>5. \A id \in open : \E m \in 1..Cardinality(open) : SetToSeq(open)[m] = id
  BY <1>2, ListedOnce
<1> HIDE DEF a, n, open
<1>6. /\ t \in Seq(StoredItems) /\ Len(t) = n + Len(a) /\ DOMAIN t = 1..Len(t)
      /\ \A j \in 1..n : t[j] = s[j]
      /\ \A m \in 1..Len(a) : t[n + m] = a[m] /\ n + m \in 1..Len(t)
  BY <1>1, <1>3 DEF n
<1> HIDE DEF t
<1>7. ASSUME NEW j \in 1..Len(t), j \notin 1..n PROVE t[j].role = "tool"
  <2>1. j - n \in 1..Len(a) /\ n + (j - n) = j
    BY <1>1, <1>3, <1>6, <1>7
  <2> QED
    BY <1>3, <1>4, <1>6, <2>1 DEF Synthetic
<1>8. OpenAfter(t, Len(t)) = {}
  <2> SUFFICES ASSUME NEW id \in OpenAfter(t, Len(t)) PROVE FALSE
    OBVIOUS
  <2>1. PICK j \in 1..Len(t) : /\ t[j].role = "assistant" /\ id \in t[j].calls
                              /\ \A i \in j + 1 .. Len(t) : ~Settles(t[i], id)
    BY DEF OpenAfter
  <2>2. j \in 1..n
    BY <1>7, <2>1
  <2>3. \A i \in j + 1 .. n : i \in j + 1 .. Len(t) /\ i \in 1..n
    BY <1>1, <1>3, <1>6, <2>2
  <2>4. id \in OpenAfter(s, n)
    BY <1>6, <2>1, <2>2, <2>3 DEF OpenAfter
  <2>5. PICK m \in 1..Cardinality(open) : SetToSeq(open)[m] = id
    BY <1>5, <2>4 DEF open
  <2>6. t[n + m] = Synthetic(id) /\ n + m \in j + 1 .. Len(t)
    BY <1>1, <1>3, <1>4, <1>6, <2>2, <2>5
  <2>7. Settles(t[n + m], id)
    BY <2>6 DEF Settles, Synthetic
  <2> QED
    BY <2>1, <2>6, <2>7
<1>9. Quiet(t)
  <2> SUFFICES ASSUME NEW j \in 1..Len(t), t[j].role = "user" PROVE OpenAfter(t, j - 1) = {}
    BY <1>6 DEF Quiet
  <2>1. j \in 1..n
    BY <1>7
  <2>2. j - 1 \in Nat /\ \A i \in 1..j - 1 : t[i] = s[i]
    BY <1>1, <1>6, <2>1
  <2>3. OpenAfter(t, j - 1) = OpenAfter(s, j - 1)
    BY <2>2, OpenPrefix
  <2>4. j \in DOMAIN s /\ s[j].role = "user"
    BY <1>6, <2>1 DEF n
  <2> QED
    BY <2>3, <2>4 DEF Quiet
<1> QED
  BY <1>6, <1>8, <1>9 DEF t, a, open, n

-----------------------------------------------------------------------------
(* A repair *)

\* What the repair has written when it has read the item, after what it wrote earlier.
ReadOn(items, k, earlier) == Append(earlier \o Answered(OwedBefore(items, k)), items[k])

LEMMA OwedFits ==
    ASSUME NEW s \in Seq(StoredItems), NEW k \in 1..Len(s)
    PROVE  IsFiniteSet(OwedBefore(s, k)) /\ OwedBefore(s, k) \subseteq CallIds
<1>1. k - 1 \in 0..Len(s)
  OBVIOUS
<1> QED
  BY <1>1, OpenFinite, FS_EmptySet DEF OwedBefore

LEMMA ReadFits ==
    ASSUME NEW s \in Seq(StoredItems), NEW k \in 1..Len(s), NEW earlier \in Seq(StoredItems)
    PROVE  ReadOn(s, k, earlier) \in Seq(StoredItems)
<1>1. Answered(OwedBefore(s, k)) \in Seq(StoredItems) /\ s[k] \in StoredItems
  BY OwedFits, AnswersFit
<1> QED
  BY <1>1 DEF ReadOn

\* The repair goes through the items one by one.
LEMMA RepairRuns ==
    ASSUME NEW s \in Seq(StoredItems)
    PROVE  \E f \in [0..Len(s) -> Seq(StoredItems)] :
             /\ f[0] = <<>> /\ \A k \in 1..Len(s) : f[k] = ReadOn(s, k, f[k - 1])
             /\ Repaired(s) = f[Len(s)] \o Answered(OpenAfter(s, Len(s)))
<1> DEFINE n == Len(s)
           T == Seq(StoredItems)
           step == [k \in 1..n |-> [earlier \in T |-> ReadOn(s, k, earlier)]]
           Solves(f) == f = [k \in 0..n |-> IF k = 0 THEN <<>>
                             ELSE Append(f[k - 1] \o Answered(OwedBefore(s, k)), s[k])]
           read == CHOOSE f : Solves(f)
<1>1. n \in Nat /\ <<>> \in T
  OBVIOUS
<1>2. step \in StepsOn(n, T)
  BY ReadFits DEF StepsOn
<1>3. \A k \in 1..n : \A earlier \in T : step[k][earlier] = ReadOn(s, k, earlier)
  OBVIOUS
<1> HIDE DEF step, T
<1>4. PICK f \in [0..n -> T] : f[0] = <<>> /\ \A k \in 1..n : f[k] = step[k][f[k - 1]]
  <2>1. RunsOf(n, T, <<>>, step) # {}
    <3> HIDE DEF n
    <3> QED
      BY <1>1, <1>2, StepsRun
  <2> QED
    BY <2>1 DEF RunsOf
<1>5. \A k \in 1..n : f[k] = ReadOn(s, k, f[k - 1])
  <2>1. \A k \in 1..n : k - 1 \in 0..n
    BY <1>1
  <2>2. \A k \in 1..n : f[k - 1] \in T
    BY <2>1
  <2> QED
    BY <1>3, <1>4, <2>2
<1>6. Solves(f)
  <2>1. ASSUME NEW k \in 0..n
        PROVE  f[k] = IF k = 0 THEN <<>> ELSE Append(f[k - 1] \o Answered(OwedBefore(s, k)), s[k])
    <3>1. k = 0 \/ k \in 1..n
      BY <1>1
    <3> QED
      BY <1>4, <1>5, <3>1 DEF ReadOn
  <2>2. f = [k \in 0..n |-> f[k]]
    OBVIOUS
  <2> QED
    BY <2>1, <2>2
<1>7. Solves(read)
  BY <1>6
<1>8. Repaired(s) = read[n] \o Answered(OpenAfter(s, n))
  BY DEF Repaired
<1>9. \A k \in 0..n : read[k] = IF k = 0 THEN <<>>
                                ELSE Append(read[k - 1] \o Answered(OwedBefore(s, k)), s[k])
  BY <1>7
<1> HIDE DEF read, Solves
<1>10. \A k \in 0..n : read[k] = f[k]
  <2> DEFINE same == {k \in 0..n : read[k] = f[k]}
  <2>1. 0 \in same
    BY <1>1, <1>4, <1>9
  <2>2. ASSUME NEW k \in 1..n, k - 1 \in same PROVE k \in same
    <3>1. k \in 0..n /\ k # 0
      BY <1>1
    <3>2. read[k] = Append(read[k - 1] \o Answered(OwedBefore(s, k)), s[k])
      BY <1>9, <3>1
    <3> QED
      BY <1>5, <2>2, <3>1, <3>2 DEF ReadOn
  <2> HIDE DEF same
  <2>3. \A k \in 0..n : k \in same
    BY <1>1, <2>1, <2>2, UpTo
  <2> QED
    BY <2>3 DEF same
<1>11. n \in 0..n
  BY <1>1
<1> QED
  BY <1>4, <1>5, <1>8, <1>10, <1>11 DEF T

\* After a repair nothing is open at the end, nor earlier a user's item.
LEMMA RepairedSettles ==
    ASSUME NEW s \in Seq(StoredItems)
    PROVE  /\ Repaired(s) \in Seq(StoredItems)
           /\ OpenAfter(Repaired(s), Len(Repaired(s))) = {} /\ Quiet(Repaired(s))
<1> DEFINE n == Len(s)
<1>1. n \in Nat
  OBVIOUS
<1>2. PICK f \in [0..n -> Seq(StoredItems)] :
        /\ f[0] = <<>> /\ \A k \in 1..n : f[k] = ReadOn(s, k, f[k - 1])
        /\ Repaired(s) = f[n] \o Answered(OpenAfter(s, n))
  BY RepairRuns
<1> DEFINE Good(k) == OpenAfter(f[k], Len(f[k])) = OpenAfter(s, k) /\ Quiet(f[k])
           good == {k \in 0..n : Good(k)}
<1>3. 0 \in good
  <2>1. Len(f[0]) = 0 /\ DOMAIN f[0] = {} /\ 0 \in 0..n
    BY <1>1, <1>2
  <2>2. Quiet(f[0])
    BY <2>1 DEF Quiet
  <2>3. OpenAfter(f[0], 0) = {} /\ OpenAfter(s, 0) = {}
    BY OpenAtFirst
  <2> QED
    BY <2>1, <2>2, <2>3
<1>4. ASSUME NEW k \in 1..n, k - 1 \in good PROVE k \in good
  <2> DEFINE earlier == f[k - 1]
             x == s[k]
             owed == OwedBefore(s, k)
             mid == earlier \o Answered(owed)
  <2>1. k - 1 \in 0..n /\ k \in 0..n /\ x \in StoredItems
    OBVIOUS
  <2>2. earlier \in Seq(StoredItems) /\ OpenAfter(earlier, Len(earlier)) = OpenAfter(s, k - 1) /\ Quiet(earlier)
    BY <1>4, <2>1
  <2>3. f[k] = Append(mid, x)
    BY <1>2 DEF ReadOn
  <2>4. OpenAfter(s, k) = ReadPast(OpenAfter(s, k - 1), x)
    BY OpenStep
  <2> HIDE DEF earlier
  <2>5. mid \in Seq(StoredItems) /\ Quiet(mid) /\ OpenAfter(mid, Len(mid)) = IF x.role = "user" THEN {} ELSE OpenAfter(s, k - 1)
    <3>1. CASE x.role = "user"
      <4>1. owed = OpenAfter(earlier, Len(earlier))
        BY <2>2, <3>1 DEF OwedBefore
      <4> QED
        BY <2>2, <3>1, <4>1, AnswersClose
    <3>2. CASE x.role # "user"
      <4>1. Answered(owed) = <<>>
        BY <3>2, AnswersFit, FS_EmptySet DEF OwedBefore
      <4>2. mid = earlier
        BY <2>2, <4>1
      <4> QED
        BY <2>2, <3>2, <4>2
    <3> QED
      BY <3>1, <3>2
  <2> HIDE DEF mid
  <2>6. /\ Len(Append(mid, x)) = Len(mid) + 1
        /\ OpenAfter(Append(mid, x), Len(mid) + 1) = ReadPast(OpenAfter(mid, Len(mid)), x)
        /\ Quiet(Append(mid, x))
    BY <2>1, <2>5, AppendRead
  <2>7. ReadPast(OpenAfter(mid, Len(mid)), x) = ReadPast(OpenAfter(s, k - 1), x)
    <3>1. CASE x.role = "user"
      BY <2>5, <3>1 DEF ReadPast, Settles
    <3>2. CASE x.role # "user"
      BY <2>5, <3>2
    <3> QED
      BY <3>1, <3>2
  <2> QED
    BY <2>1, <2>3, <2>4, <2>6, <2>7
<1>5. \A k \in 0..n : k \in good
  <2> HIDE DEF good
  <2> QED
    BY <1>1, <1>3, <1>4, UpTo
<1>6. f[n] \in Seq(StoredItems) /\ OpenAfter(f[n], Len(f[n])) = OpenAfter(s, n) /\ Quiet(f[n])
  <2>1. n \in 0..n
    BY <1>1
  <2> QED
    BY <1>5, <2>1
<1>7. Repaired(s) \in {f[n] \o Answered(OpenAfter(f[n], Len(f[n])))}
  BY <1>2, <1>6
<1> QED
  BY <1>6, <1>7, AnswersClose

\* Where nothing is open there is nothing to repair.
LEMMA QuietStays ==
    ASSUME NEW s \in Seq(StoredItems), Quiet(s), OpenAfter(s, Len(s)) = {}
    PROVE  Repaired(s) = s
<1> DEFINE n == Len(s)
<1>1. n \in Nat /\ DOMAIN s = 1..n
  OBVIOUS
<1>2. PICK f \in [0..n -> Seq(StoredItems)] :
        /\ f[0] = <<>> /\ \A k \in 1..n : f[k] = ReadOn(s, k, f[k - 1])
        /\ Repaired(s) = f[n] \o Answered(OpenAfter(s, n))
  BY RepairRuns
<1>3. Answered({}) = <<>>
  BY AnswersFit, FS_EmptySet
<1>4. ASSUME NEW k \in 1..n PROVE f[k] = Append(f[k - 1], s[k])
  <2>1. OwedBefore(s, k) = {}
    BY <1>1 DEF OwedBefore, Quiet
  <2>2. f[k - 1] \in Seq(StoredItems)
    BY <1>1
  <2>3. f[k - 1] \o <<>> = f[k - 1]
    BY <2>2
  <2> QED
    BY <1>2, <1>3, <2>1, <2>3 DEF ReadOn
<1> DEFINE Same(k) == Len(f[k]) = k /\ \A j \in 1..k : f[k][j] = s[j]
           same == {k \in 0..n : Same(k)}
<1>5. 0 \in same
  BY <1>1, <1>2
<1>6. ASSUME NEW k \in 1..n, k - 1 \in same PROVE k \in same
  <2> DEFINE earlier == f[k - 1]
  <2>1. earlier \in Seq(StoredItems) /\ Len(earlier) = k - 1 /\ \A j \in 1..k - 1 : earlier[j] = s[j]
    BY <1>1, <1>6
  <2>2. f[k] = Append(earlier, s[k]) /\ k \in 0..n
    BY <1>4
  <2> HIDE DEF earlier
  <2>3. Len(Append(earlier, s[k])) = k /\ \A j \in 1..k : Append(earlier, s[k])[j] = s[j]
    BY <2>1
  <2> QED
    BY <2>2, <2>3
<1>7. \A k \in 0..n : k \in same
  <2> HIDE DEF same
  <2> QED
    BY <1>1, <1>5, <1>6, UpTo
<1>8. f[n] \in Seq(StoredItems) /\ Len(f[n]) = n /\ \A j \in 1..n : f[n][j] = s[j]
  <2>1. n \in 0..n
    BY <1>1
  <2> QED
    BY <1>7, <2>1
<1>9. f[n] = s
  BY <1>8, SeqEqual
<1> QED
  BY <1>2, <1>3, <1>9

-----------------------------------------------------------------------------
(* A sanitized history *)

\* In what a sanitization leaves nobody speaks twice in a row.
LEMMA SanitizedStays ==
    ASSUME NEW s \in Seq(StoredItems)
    PROVE  Sanitized(s) \in Seq(StoredItems) /\ Sanitized(Sanitized(s)) = Sanitized(s)
<1> DEFINE n == Len(s)
           P == {i \in DOMAIN s : ~Repeats(s, i)}
           t == OnlyAt(s, P)
           Speaks(i) == s[i].role \in {"user", "assistant"}
<1>1. n \in Nat /\ DOMAIN s = 1..n /\ P \in SUBSET DOMAIN s
  OBVIOUS
<1>2. t \in Seq(StoredItems) /\ Sanitized(s) = t
  BY <1>1, OnlyAtFits DEF Sanitized
<1>3. Len(t) = Cardinality(P) /\ Len(t) \in Nat /\ DOMAIN t = 1..Len(t)
  <2>1. IsFiniteSet(1..n)
    BY <1>1, CountTo
  <2>2. Cardinality(P) \in Nat
    BY <1>1, <2>1, FS_Subset, FS_CardinalityType
  <2>3. DOMAIN t = 1..Cardinality(P)
    BY DEF OnlyAt
  <2> HIDE DEF t, P
  <2> QED
    BY <1>2, <2>2, <2>3
<1>4. ASSUME NEW m \in 1..Len(t) PROVE ~Repeats(t, m)
  <2> SUFFICES ASSUME m > 1, t[m].role \in {"user", "assistant"}, t[m].role = t[m - 1].role PROVE FALSE
    BY DEF Repeats
  <2>1. m \in 2..Cardinality(P)
    BY <1>3
  <2>2. PICK i, k \in P : /\ i < k /\ \A j \in P : ~(i < j /\ j < k)
                          /\ t[m - 1] = s[i] /\ t[m] = s[k]
    <3> HIDE DEF P
    <3>1. \E i, k \in P : /\ i < k /\ \A j \in P : ~(i < j /\ j < k)
                          /\ OnlyAt(s, P)[m - 1] = s[i] /\ OnlyAt(s, P)[m] = s[k]
      BY <1>1, <2>1, Neighbours
    <3> QED
      BY <3>1
  <2>3. i \in 1..n /\ k \in 1..n /\ s[i].role = s[k].role /\ Speaks(k)
    BY <1>1, <2>2
  <2> DEFINE d == k - 1 - i
             alike == {j \in 0..d : s[i + j].role = s[i].role}
  <2>4. d \in Nat
    BY <2>2, <2>3
  <2>5. 0 \in alike
    BY <2>3, <2>4
  <2>6. ASSUME NEW j \in 1..d, j - 1 \in alike PROVE j \in alike
    <3>1. i + j \in 1..n /\ i < i + j /\ i + j < k /\ i + j - 1 = i + (j - 1) /\ j \in 0..d
      BY <1>1, <2>2, <2>3, <2>4
    <3>2. i + j \notin P
      BY <2>2, <3>1
    <3>3. Repeats(s, i + j)
      BY <1>1, <3>1, <3>2
    <3> QED
      BY <2>6, <3>1, <3>3 DEF Repeats
  <2>7. d \in alike
    <3> HIDE DEF alike, d
    <3>1. \A j \in 0..d : j \in alike
      BY <2>4, <2>5, <2>6, UpTo
    <3> QED
      BY <2>4, <3>1
  <2>8. i + d = k - 1 /\ k > 1
    BY <2>2, <2>3
  <2>9. Repeats(s, k)
    BY <2>3, <2>7, <2>8 DEF Repeats
  <2> QED
    BY <2>2, <2>9
<1>5. {i \in DOMAIN t : ~Repeats(t, i)} = DOMAIN t
  BY <1>3, <1>4
<1>6. Sanitized(t) = t
  BY <1>2, <1>5, OnlyAtAll DEF Sanitized
<1> QED
  BY <1>2, <1>6

-----------------------------------------------------------------------------
(* The conversation memory *)

MemoryInv ==
    /\ memory \in [MemoryKeys -> Seq(StoredItems)] /\ file \in [MemoryKeys -> Seq(StoredItems)]
    /\ \A k \in MemoryKeys : Len(memory[k]) <= MemoryLimit /\ Len(file[k]) <= MemoryLimit
    /\ unsaved \subseteq MemoryKeys /\ mishaps \in 0 .. MaxMishaps
    /\ \A k \in MemoryKeys : k \notin unsaved => file[k] = memory[k]

LEMMA MemorySettles == MemoryInv => MemorySound
<1> SUFFICES ASSUME MemoryInv, NEW k \in MemoryKeys
    PROVE  /\ k \notin unsaved => file[k] = memory[k]
           /\ \A items \in {Repaired(memory[k])} :
                /\ Repaired(items) = items /\ OpenAfter(items, Len(items)) = {}
                /\ \A n \in DOMAIN items : items[n].role = "user" => OpenAfter(items, n - 1) = {}
           /\ Sanitized(Sanitized(memory[k])) = Sanitized(memory[k])
  BY DEF MemorySound
<1> DEFINE s == memory[k]
<1>1. s \in Seq(StoredItems) /\ (k \notin unsaved => file[k] = s)
  BY DEF MemoryInv
<1> HIDE DEF s
<1>2. /\ Repaired(s) \in Seq(StoredItems)
      /\ OpenAfter(Repaired(s), Len(Repaired(s))) = {} /\ Quiet(Repaired(s))
  BY <1>1, RepairedSettles
<1>3. Repaired(Repaired(s)) = Repaired(s)
  BY <1>2, QuietStays
<1>4. Sanitized(Sanitized(s)) = Sanitized(s)
  BY <1>1, SanitizedStays
<1> QED
  BY <1>1, <1>2, <1>3, <1>4 DEF s, Quiet

LEMMA TrimmedFits ==
    ASSUME NEW s \in Seq(StoredItems)
    PROVE  /\ Trimmed(s) \in Seq(StoredItems) /\ Len(Trimmed(s)) <= MemoryLimit
           /\ Len(s) <= MemoryLimit => Trimmed(s) = s
<1>1. MemoryLimit \in Nat /\ Len(s) \in Nat
  BY SessionStoreAssumption
<1>2. Latest(s, MemoryLimit) \in Seq(StoredItems)
      /\ Len(Latest(s, MemoryLimit)) = IF Len(s) > MemoryLimit THEN MemoryLimit ELSE Len(s)
  BY <1>1, LatestFits
<1>3. Len(s) <= MemoryLimit => Latest(s, MemoryLimit) = s
  BY <1>1 DEF Latest
<1> QED
  BY <1>1, <1>2, <1>3 DEF Trimmed

LEMMA MemoryInitially == MemoryInit => MemoryInv
BY SessionStoreAssumption DEF MemoryInit, MemoryInv

LEMMA AddItemKeeps ==
    ASSUME MemoryInv, NEW s \in RawIds, NEW i \in Items, AddItem(s, i)
    PROVE  MemoryInv'
<1> DEFINE k == KeyOfRaw[s]
<1>1. k \in MemoryKeys /\ i \in StoredItems
  BY DEF MemoryKeys, StoredItems
<1>2. ASSUME NEW t \in Seq(StoredItems)
      PROVE  Trimmed(Append(t, i)) \in Seq(StoredItems) /\ Len(Trimmed(Append(t, i))) <= MemoryLimit
  <2>1. Append(t, i) \in Seq(StoredItems)
    BY <1>1
  <2> QED
    BY <2>1, TrimmedFits
<1>3. /\ Trimmed(Append(memory[k], i)) \in Seq(StoredItems) /\ Len(Trimmed(Append(memory[k], i))) <= MemoryLimit
      /\ Trimmed(Append(file[k], i)) \in Seq(StoredItems) /\ Len(Trimmed(Append(file[k], i))) <= MemoryLimit
  BY <1>1, <1>2 DEF MemoryInv
<1>4. memory' = [memory EXCEPT ![k] = Trimmed(Append(memory[k], i))]
  BY DEF AddItem
<1>5. CASE file' = [file EXCEPT ![k] = Trimmed(Append(file[k], i))] /\ UNCHANGED <<unsaved, mishaps>>
  <2> HIDE DEF k
  <2> QED
    BY <1>1, <1>3, <1>4, <1>5 DEF MemoryInv
<1>6. CASE /\ mishaps < MaxMishaps /\ mishaps' = mishaps + 1
           /\ unsaved' = unsaved \union {k} /\ UNCHANGED file
  <2> HIDE DEF k
  <2> QED
    BY <1>1, <1>3, <1>4, <1>6, SessionStoreAssumption DEF MemoryInv
<1> QED
  BY <1>5, <1>6 DEF AddItem

LEMMA RewriteKeeps ==
    ASSUME MemoryInv, NEW k \in MemoryKeys, NEW s \in Seq(StoredItems), Rewrite(k, s)
    PROVE  MemoryInv'
<1>1. Trimmed(s) \in Seq(StoredItems) /\ Len(Trimmed(s)) <= MemoryLimit
  BY TrimmedFits
<1> QED
  BY <1>1 DEF MemoryInv, Rewrite

LEMMA RepairKeeps == ASSUME MemoryInv, NEW s \in RawIds, Repair(s) \/ Sanitize(s) PROVE MemoryInv'
<1>1. KeyOfRaw[s] \in MemoryKeys /\ memory[KeyOfRaw[s]] \in Seq(StoredItems)
  BY DEF MemoryKeys, MemoryInv
<1>2. /\ Repaired(memory[KeyOfRaw[s]]) \in Seq(StoredItems)
      /\ Sanitized(memory[KeyOfRaw[s]]) \in Seq(StoredItems)
  BY <1>1, RepairedSettles, SanitizedStays
<1> QED
  BY <1>1, <1>2, RewriteKeeps DEF Repair, Sanitize

LEMMA ClearKeeps == ASSUME MemoryInv, ClearMemory PROVE MemoryInv'
<1>1. PICK stuck \in SUBSET MemoryKeys :
        /\ mishaps' = mishaps + Cardinality(stuck) /\ mishaps' <= MaxMishaps
        /\ file' = [k \in MemoryKeys |-> IF k \in stuck THEN file[k] ELSE <<>>]
        /\ unsaved' = {k \in stuck : file[k] # <<>>}
  BY DEF ClearMemory
<1>2. Cardinality(stuck) \in Nat
  <2> DEFINE f == [s \in RawIds |-> KeyOfRaw[s]]
  <2>1. f \in Surjection(RawIds, MemoryKeys)
    BY DEF Surjection, MemoryKeys
  <2> HIDE DEF f
  <2>2. IsFiniteSet(MemoryKeys)
    BY <2>1, SessionStoreAssumption, FS_Surjection
  <2> QED
    BY <2>2, FS_Subset, FS_CardinalityType
<1>3. memory' = [k \in MemoryKeys |-> <<>>] /\ Len(<<>>) <= MemoryLimit /\ <<>> \in Seq(StoredItems)
  BY SessionStoreAssumption DEF ClearMemory
<1>4. mishaps' \in 0..MaxMishaps
  BY <1>1, <1>2, SessionStoreAssumption DEF MemoryInv
<1>5. \A k \in MemoryKeys : file'[k] = IF k \in stuck THEN file[k] ELSE <<>>
  BY <1>1
<1>6. \A k \in MemoryKeys : file'[k] \in Seq(StoredItems) /\ Len(file'[k]) <= MemoryLimit
  BY <1>3, <1>5 DEF MemoryInv
<1>7. file' \in [MemoryKeys -> Seq(StoredItems)]
  BY <1>1, <1>6
<1> QED
  BY <1>1, <1>3, <1>4, <1>5, <1>6, <1>7 DEF MemoryInv

LEMMA LoadKeeps ==
    ASSUME NEW files \in [MemoryKeys -> Seq(StoredItems)], \A k \in MemoryKeys : Len(files[k]) <= MemoryLimit,
           mishaps' \in 0..MaxMishaps, Load(files)
    PROVE  MemoryInv'
<1>1. \A k \in MemoryKeys : Trimmed(files[k]) = files[k]
  BY TrimmedFits
<1> QED
  BY <1>1 DEF MemoryInv, Load

LEMMA RestartsKeep ==
    ASSUME MemoryInv, RestartMemory \/ \E s \in RawIds : CrashInRewrite(s)
    PROVE  MemoryInv'
<1>1. CASE RestartMemory
  BY <1>1, LoadKeeps DEF MemoryInv, RestartMemory
<1>2. ASSUME NEW s \in RawIds, CrashInRewrite(s) PROVE MemoryInv'
  <2> DEFINE files == [file EXCEPT ![KeyOfRaw[s]] = <<>>]
  <2>1. files \in [MemoryKeys -> Seq(StoredItems)]
    <3>1. <<>> \in Seq(StoredItems) /\ file \in [MemoryKeys -> Seq(StoredItems)]
      BY DEF MemoryInv
    <3>2. \A k \in MemoryKeys : files[k] \in Seq(StoredItems)
      BY <3>1
    <3> QED
      BY <3>1, <3>2
  <2>2. \A k \in MemoryKeys : Len(files[k]) <= MemoryLimit
    BY SessionStoreAssumption DEF MemoryInv
  <2>3. mishaps' \in 0..MaxMishaps /\ Load(files)
    BY <1>2, SessionStoreAssumption DEF MemoryInv, CrashInRewrite
  <2> HIDE DEF files
  <2> QED
    BY <2>1, <2>2, <2>3, LoadKeeps
<1> QED
  BY <1>1, <1>2

LEMMA MemoryNextKeeps == ASSUME MemoryInv, [MemoryNext]_memoryVars PROVE MemoryInv'
<1>1. CASE UNCHANGED memoryVars
  BY <1>1 DEF MemoryInv, memoryVars
<1>2. CASE MemoryNext
  BY <1>2, AddItemKeeps, RepairKeeps, ClearKeeps, RestartsKeep DEF MemoryNext
<1> QED
  BY <1>1, <1>2

-----------------------------------------------------------------------------
(* The documents *)

Statuses == {"none", "active", "completed", "failed"}
DocumentShapes == [session : NamedSessions \union RunIds \union {"none"}, status : Statuses,
               meta : SUBSET (MetaKeys \union {"parent"})]

\* The run documents, and the order in which they were written.
DocsShape ==
    /\ docs \in [RunIds -> DocumentShapes]
    /\ \A r \in RunIds : docs[r] # NoDoc => docs[r].status # "none"
    /\ recent \in Seq(RunIds) /\ ToSet(recent) = Stored /\ IsInjective(recent)

\* Snapshots exist of documents alone, and tell their status unless they are torn.
SnapsFit ==
    /\ snaps \in [RunIds -> Statuses]
    /\ \A r \in RunIds : docs[r] = NoDoc => snaps[r] = "none"
    /\ \A r \in RunIds : r \notin torn /\ snaps[r] # "none" => docs[r].status = snaps[r]
    /\ \A r \in RunIds : docs[r] # NoDoc /\ docs[r].status # "active" /\ r \notin torn => snaps[r] # "none"

\* What is answered, and kept to be answered again, is a run of its session.
Honest == {v \in [run : RunIds, session : NamedSessions \union RunIds] :
             docs[v.run] # NoDoc /\ docs[v.run].session = v.session}
EntriesOf(values) == [key : Keys, print : NamedSessions \X (Texts \union {MetaKeys, {}}), value : values]
AnswersHonest ==
    /\ answered \in [{"run", "patch", "reset"} -> Seq(EntriesOf(Honest))]
    /\ \A ns \in {"run", "patch", "reset"} : Len(answered[ns]) <= KeyCap
    /\ reply \in Honest \union {NoReplyYet}

\* A key that was not pruned started nothing, or one run that is on record.
OnRecord(k) == started[k] = {} \/ (Hits(answered["run"], k) # {} /\ \E r \in RunIds : started[k] = {r})
KeysKept ==
    /\ started \in [Keys -> SUBSET RunIds]
    /\ \A k \in Keys \ {NoKeyGiven} : k \notin dropped => OnRecord(k)

DocsInv == DocsShape /\ SnapsFit /\ AnswersHonest /\ KeysKept

LEMMA DocsInitially == DocsInit => DocsInv
<1> SUFFICES ASSUME DocsInit PROVE DocsInv
  OBVIOUS
<1>1. NoDoc \in DocumentShapes
  BY DEF NoDoc, Doc, DocumentShapes, Statuses
<1>2. <<>> \in Seq(RunIds) /\ ToSet(<<>>) = {} /\ IsInjective(<<>>) /\ Stored = {}
  BY DEF DocsInit, ToSet, IsInjective, Stored
<1>3. DocsShape
  BY <1>1, <1>2 DEF DocsInit, DocsShape
<1>4. SnapsFit
  <2>1. docs = [r \in RunIds |-> NoDoc] /\ snaps = [r \in RunIds |-> "none"] /\ NoDoc.status = "none"
    BY DEF DocsInit, NoDoc, Doc
  <2>2. \A r \in RunIds : docs[r] = NoDoc /\ snaps[r] = "none"
    BY <2>1
  <2> QED
    BY <2>1, <2>2 DEF SnapsFit, Statuses
<1>5. answered = [ns \in {"run", "patch", "reset"} |-> <<>>]
  BY DEF DocsInit
<1>6. AnswersHonest
  <2>1. Len(<<>>) = 0 /\ <<>> \in Seq(EntriesOf(Honest)) /\ KeyCap \in Nat
    BY SessionStoreAssumption
  <2>2. \A ns \in {"run", "patch", "reset"} : answered[ns] = <<>>
    BY <1>5
  <2>3. answered \in [{"run", "patch", "reset"} -> Seq(EntriesOf(Honest))]
    BY <1>5, <2>1
  <2>4. reply = NoReplyYet
    BY DEF DocsInit
  <2> QED
    BY <2>1, <2>2, <2>3, <2>4 DEF AnswersHonest
<1>7. KeysKept
  BY DEF DocsInit, KeysKept, OnRecord
<1> QED
  BY <1>3, <1>4, <1>6, <1>7 DEF DocsInv

\* The run a session is resolved to is one of its own.
LEMMA LatestRunFits ==
    ASSUME DocsShape, NEW s, LatestRun(s) # "none"
    PROVE  /\ LatestRun(s) \in RunIds /\ docs[LatestRun(s)] # NoDoc /\ docs[LatestRun(s)].session = s
           /\ docs[LatestRun(s)].status = "active" => Shown(s, TRUE) = LatestRun(s)
<1> DEFINE P == PlacesOf(s)
           first == FirstAt(P)
           Q == {i \in P : docs[recent[i]].status = "active"}
<1>1. P # {} /\ LatestRun(s) = recent[first] /\ P \subseteq DOMAIN recent /\ DOMAIN recent \subseteq Nat
  BY DEF LatestRun, RunAt, PlacesOf, DocsShape
<1>2. first \in P /\ \A j \in P : first <= j
  <2> HIDE DEF P
  <2> QED
    BY <1>1, FirstAtFits
<1>3. recent[first] \in RunIds /\ docs[recent[first]] # NoDoc /\ docs[recent[first]].session = s
  <2>1. recent[first] \in ToSet(recent)
    BY <1>1, <1>2 DEF ToSet
  <2>2. docs[recent[first]].session = s
    BY <1>2 DEF PlacesOf
  <2> HIDE DEF first
  <2> QED
    BY <2>1, <2>2 DEF DocsShape, Stored
<1>4. ASSUME docs[recent[first]].status = "active" PROVE Shown(s, TRUE) = recent[first]
  <2>1. first \in Q /\ Q \subseteq Nat
    BY <1>1, <1>2, <1>4
  <2>2. Shown(s, TRUE) = RunAt(Q)
    BY DEF Shown
  <2> HIDE DEF first, P
  <2>3. FirstAt(Q) \in Q /\ \A j \in Q : FirstAt(Q) <= j
    <3> HIDE DEF Q
    <3> QED
      BY <2>1, FirstAtFits
  <2>4. FirstAt(Q) \in P /\ FirstAt(Q) <= first /\ first <= FirstAt(Q)
    BY <1>2, <2>1, <2>3
  <2>5. FirstAt(Q) \in Nat /\ first \in Nat
    BY <2>1, <2>3
  <2>6. FirstAt(Q) = first
    BY <2>4, <2>5
  <2> HIDE DEF Q
  <2> QED
    BY <2>1, <2>2, <2>6 DEF RunAt
<1> QED
  BY <1>1, <1>3, <1>4

LEMMA DocsSettle == DocsInv => SessionsSound
<1> SUFFICES ASSUME DocsInv PROVE SessionsSound
  OBVIOUS
<1>1. /\ \A r \in RunIds : r \notin torn /\ snaps[r] # "none" => docs[r].status = snaps[r]
      /\ \A r \in RunIds : docs[r] # NoDoc /\ docs[r].status # "active" /\ r \notin torn => snaps[r] # "none"
  BY DEF DocsInv, SnapsFit
<1>2. ASSUME NEW s \in NamedSessions PROVE Shown(s, FALSE) = LatestRun(s)
  <2>1. {i \in PlacesOf(s) : FALSE => docs[recent[i]].status = "active"} = PlacesOf(s)
    OBVIOUS
  <2> QED
    BY <2>1 DEF Shown, LatestRun
<1>3. ASSUME NEW s \in NamedSessions, LatestRun(s) # "none", docs[LatestRun(s)].status = "active"
      PROVE  Shown(s, TRUE) = LatestRun(s)
  BY <1>3, LatestRunFits DEF DocsInv
<1>4. reply.run # "none" => docs[reply.run].session = reply.session
  BY DEF DocsInv, AnswersHonest, Honest, NoReplyYet, Reply
<1>5. ASSUME NEW k \in Keys \ {NoKeyGiven}, k \notin dropped PROVE ~(Cardinality(started[k]) > 1)
  <2>1. started[k] = {} \/ \E r \in RunIds : started[k] = {r}
    BY <1>5 DEF DocsInv, KeysKept, OnRecord
  <2> QED
    BY <2>1, FS_EmptySet, FS_Singleton
<1> QED
  BY <1>1, <1>2, <1>3, <1>4, <1>5 DEF SessionsSound

-----------------------------------------------------------------------------
(* What the steps on documents leave *)

LEMMA PutKeeps ==
    ASSUME DocsShape, NEW r \in RunIds, NEW paper \in DocumentShapes, paper.status # "none", Put(r, paper),
           docs[r] # NoDoc => paper.session = docs[r].session
    PROVE  /\ DocsShape' /\ docs' = [docs EXCEPT ![r] = paper] /\ docs'[r] = paper /\ paper # NoDoc
           /\ Honest \subseteq Honest'
<1>1. docs' = [docs EXCEPT ![r] = paper] /\ docs' \in [RunIds -> DocumentShapes] /\ docs'[r] = paper
      /\ \A q \in RunIds : q # r => docs'[q] = docs[q]
  BY DEF DocsShape, Put
<1>2. paper # NoDoc
  BY DEF NoDoc, Doc
<1>3. Stored' = Stored \union {r}
  BY <1>1, <1>2 DEF Stored
<1>4. /\ Without(recent, r) \in Seq(RunIds) /\ ToSet(Without(recent, r)) = Stored \ {r}
      /\ IsInjective(Without(recent, r))
  BY WithoutHas DEF DocsShape
<1> DEFINE w == Without(recent, r)
<1>5. recent' = <<r>> \o w
  BY DEF Put
<1> HIDE DEF w
<1>6. /\ recent' \in Seq(RunIds) /\ Len(recent') = Len(w) + 1 /\ Len(w) \in Nat
      /\ DOMAIN recent' = 1..Len(w) + 1 /\ DOMAIN w = 1..Len(w)
      /\ recent'[1] = r /\ \A i \in 2..Len(w) + 1 : recent'[i] = w[i - 1]
  <2>1. <<r>> \in Seq(RunIds) /\ Len(<<r>>) = 1 /\ <<r>>[1] = r /\ w \in Seq(RunIds)
    BY <1>4 DEF w
  <2> QED
    BY <1>5, <2>1
<1>7. \A i \in 2..Len(w) + 1 : i - 1 \in 1..Len(w) /\ recent'[i] # r
  <2> TAKE i \in 2..Len(w) + 1
  <2>1. i - 1 \in 1..Len(w)
    BY <1>6
  <2>2. w[i - 1] \in ToSet(w)
    BY <1>6, <2>1 DEF ToSet
  <2>3. w[i - 1] # r
    BY <1>4, <2>2 DEF w
  <2> QED
    BY <1>6, <2>1, <2>3
<1>8. IsInjective(recent')
  <2> SUFFICES ASSUME NEW i \in 1..Len(w) + 1, NEW j \in 1..Len(w) + 1, recent'[i] = recent'[j] PROVE i = j
    BY <1>6 DEF IsInjective
  <2>1. (i = 1 \/ i \in 2..Len(w) + 1) /\ (j = 1 \/ j \in 2..Len(w) + 1)
    BY <1>6
  <2>2. CASE i = 1 \/ j = 1
    BY <1>6, <1>7, <2>1, <2>2
  <2>3. CASE i \in 2..Len(w) + 1 /\ j \in 2..Len(w) + 1
    <3>1. w[i - 1] = w[j - 1] /\ i - 1 \in DOMAIN w /\ j - 1 \in DOMAIN w
      BY <1>6, <1>7, <2>3
    <3>2. i - 1 = j - 1
      BY <1>4, <3>1 DEF w, IsInjective
    <3> QED
      BY <3>2
  <2> QED
    BY <2>1, <2>2, <2>3
<1>9. ToSet(recent') = Stored \union {r}
  <2>1. ASSUME NEW i \in 1..Len(w) + 1 PROVE recent'[i] \in Stored \union {r}
    <3>1. CASE i = 1
      BY <1>6, <3>1
    <3>2. CASE i # 1
      <4>1. i \in 2..Len(w) + 1 /\ i - 1 \in 1..Len(w)
        BY <1>6, <3>2
      <4>2. w[i - 1] \in ToSet(w)
        BY <1>6, <4>1 DEF ToSet
      <4> QED
        BY <1>4, <1>6, <4>1, <4>2 DEF w
    <3> QED
      BY <3>1, <3>2
  <2>2. ASSUME NEW q \in Stored, q # r PROVE \E i \in 1..Len(w) + 1 : recent'[i] = q
    <3>1. q \in ToSet(w)
      BY <1>4, <2>2 DEF w
    <3>2. PICK j \in 1..Len(w) : w[j] = q
      BY <1>6, <3>1 DEF ToSet
    <3>3. j + 1 \in 1..Len(w) + 1 /\ j + 1 \in 2..Len(w) + 1 /\ j + 1 - 1 = j
      BY <1>6
    <3>4. \A k \in 2..Len(w) + 1 : k - 1 = j => recent'[k] = w[j]
      BY <1>6
    <3>5. recent'[j + 1] = q
      <4> DEFINE k == j + 1
      <4>1. k \in 2..Len(w) + 1 /\ k - 1 = j
        BY <3>3
      <4> HIDE DEF k
      <4>2. recent'[k] = q
        BY <3>2, <3>4, <4>1
      <4> QED
        BY <4>2 DEF k
    <3> WITNESS j + 1 \in 1..Len(w) + 1
    <3> QED
      BY <3>5
  <2>3. 1 \in 1..Len(w) + 1
    BY <1>6
  <2> QED
    BY <1>6, <2>1, <2>2, <2>3 DEF ToSet
<1>10. DocsShape'
  <2>1. \A q \in RunIds : docs'[q] # NoDoc => docs'[q].status # "none"
    BY <1>1 DEF DocsShape
  <2>2. ToSet(recent') = Stored'
    BY <1>3, <1>9
  <2>3. NoDoc' = NoDoc
    BY DEF NoDoc, Doc
  <2> QED
    BY <1>1, <1>6, <1>8, <2>1, <2>2, <2>3 DEF DocsShape
<1>11. Honest \subseteq Honest'
  <2> SUFFICES ASSUME NEW v \in Honest PROVE v \in Honest'
    OBVIOUS
  <2>1. v \in [run : RunIds, session : NamedSessions \union RunIds] /\ v.run \in RunIds
        /\ docs[v.run] # NoDoc /\ docs[v.run].session = v.session
    BY DEF Honest
  <2>2. docs'[v.run] # NoDoc /\ docs'[v.run].session = v.session
    BY <1>1, <1>2, <2>1
  <2> QED
    BY <2>1, <2>2 DEF Honest, NoDoc, Doc
<1> QED
  BY <1>1, <1>2, <1>10, <1>11

\* Registering an entry under a key that has none.
LEMMA RegisteredHas ==
    ASSUME NEW S, NEW s \in Seq(S), NEW e \in S, NEW left \in Registered(s, e, KeyCap), Hits(s, e.key) = {}
    PROVE  /\ left \in Seq(S) /\ Len(left) <= KeyCap
           /\ ToSet(left) \subseteq ToSet(s) \union {e}
<1> DEFINE t == Append(s, e)
<1>1. WithoutKey(s, e.key) = s
  BY DEF WithoutKey
<1>2. left \in Pruned(t, KeyCap)
  BY <1>1 DEF Registered
<1>3. /\ t \in Seq(S) /\ Len(t) \in Nat /\ ToSet(t) = ToSet(s) \union {e}
  <2>1. t \in Seq(S) /\ Len(t) = Len(s) + 1 /\ Len(s) \in Nat /\ t[Len(s) + 1] = e
        /\ \A i \in 1..Len(s) : t[i] = s[i]
    OBVIOUS
  <2>2. DOMAIN t = 1..Len(s) + 1 /\ DOMAIN s = 1..Len(s)
    OBVIOUS
  <2> HIDE DEF t
  <2>3. ToSet(t) = {t[i] : i \in 1..Len(s) + 1} /\ ToSet(s) = {s[i] : i \in 1..Len(s)}
    BY <2>2 DEF ToSet
  <2>4. \A i \in 1..Len(s) + 1 : i = Len(s) + 1 \/ i \in 1..Len(s)
    BY <2>1
  <2>5. Len(s) + 1 \in 1..Len(s) + 1 /\ \A i \in 1..Len(s) : i \in 1..Len(s) + 1
    BY <2>1
  <2> QED
    BY <2>1, <2>3, <2>4, <2>5
<1> HIDE DEF t
<1>4. PICK k \in 1 .. Len(t) + 1 : Len(t) + 1 - k <= KeyCap /\ left = SubSeq(t, k, Len(t))
  BY <1>2 DEF Pruned
<1>5. \A i \in k .. Len(t) : i \in 1 .. Len(t)
  BY <1>3
<1>6. /\ left \in Seq(S) /\ Len(left) = IF k <= Len(t) THEN Len(t) - k + 1 ELSE 0
      /\ \A i \in 1..Len(left) : left[i] = t[k + i - 1]
  BY <1>3, <1>4, <1>5, SubSeqProperties
<1>7. Len(left) <= KeyCap
  BY <1>3, <1>4, <1>6, SessionStoreAssumption
<1>8. ToSet(left) \subseteq ToSet(t)
  <2> SUFFICES ASSUME NEW i \in 1..Len(left) PROVE left[i] \in ToSet(t)
    <3>1. DOMAIN left = 1..Len(left)
      BY <1>6
    <3> QED
      BY <3>1 DEF ToSet
  <2>1. k + i - 1 \in 1..Len(t)
    BY <1>3, <1>6
  <2> QED
    BY <1>3, <1>6, <2>1 DEF ToSet
<1> QED
  BY <1>3, <1>6, <1>7, <1>8

\* A registered answer is kept, or its key is on the list of those that were pruned.
LEMMA RegisterKeeps ==
    ASSUME NEW values, NEW ns \in {"run", "patch", "reset"}, NEW k \in Keys, NEW value \in values,
           NEW print \in NamedSessions \X (Texts \union {MetaKeys, {}}),
           answered \in [{"run", "patch", "reset"} -> Seq(EntriesOf(values))],
           \A m \in {"run", "patch", "reset"} : Len(answered[m]) <= KeyCap,
           Entry(ns, k) = {}, Register(ns, k, print, value)
    PROVE  /\ answered' \in [{"run", "patch", "reset"} -> Seq(EntriesOf(values))]
           /\ \A m \in {"run", "patch", "reset"} : Len(answered'[m]) <= KeyCap
           /\ \A m \in {"run", "patch", "reset"}, l \in Keys :
                l \notin dropped' /\ Hits(answered[m], l) # {} => Hits(answered'[m], l) # {}
           /\ k # NoKeyGiven /\ k \notin dropped' => Hits(answered'[ns], k) # {}
           /\ dropped \subseteq dropped'
<1>1. CASE k = NoKeyGiven
  BY <1>1 DEF Register
<1>2. CASE k # NoKeyGiven
  <2> DEFINE e == [key |-> k, print |-> print, value |-> value]
             s == answered[ns]
             keys(t) == {x.key : x \in ToSet(t)}
  <2>1. PICK left \in Registered(s, e, KeyCap) :
          /\ answered' = [answered EXCEPT ![ns] = left]
          /\ dropped' = dropped \union ((keys(s) \union {k}) \ keys(left))
    BY <1>2 DEF Register
  <2>2. e \in EntriesOf(values) /\ e.key = k /\ s \in Seq(EntriesOf(values)) /\ Hits(s, k) = {}
    BY <1>2 DEF EntriesOf, Entry
  <2> HIDE DEF e
  <2>3. left \in Seq(EntriesOf(values)) /\ Len(left) <= KeyCap
    BY <2>1, <2>2, RegisteredHas
  <2>4. ASSUME NEW t \in Seq(EntriesOf(values)), NEW l PROVE Hits(t, l) # {} <=> l \in keys(t)
    BY DEF Hits, ToSet
  <2>5. answered'[ns] = left /\ \A m \in {"run", "patch", "reset"} : m # ns => answered'[m] = answered[m]
    BY <2>1
  <2>6. ASSUME NEW m \in {"run", "patch", "reset"}, NEW l \in Keys, l \notin dropped', Hits(answered[m], l) # {}
        PROVE  Hits(answered'[m], l) # {}
    <3>1. CASE m = ns
      <4>1. l \in keys(s)
        BY <2>2, <2>4, <2>6, <3>1
      <4>2. l \in keys(left)
        BY <2>1, <2>6, <4>1
      <4> QED
        BY <2>3, <2>4, <2>5, <3>1, <4>2
    <3>2. CASE m # ns
      BY <2>5, <2>6, <3>2
    <3> QED
      BY <3>1, <3>2
  <2>7. k \notin dropped' => Hits(answered'[ns], k) # {}
    BY <2>1, <2>3, <2>4, <2>5
  <2>8. answered' \in [{"run", "patch", "reset"} -> Seq(EntriesOf(values))]
    BY <2>1, <2>3
  <2> QED
    BY <2>1, <2>3, <2>5, <2>6, <2>7, <2>8
<1> QED
  BY <1>1, <1>2

LEMMA AnswersWiden ==
    ASSUME AnswersHonest, Honest \subseteq Honest'
    PROVE  answered \in [{"run", "patch", "reset"} -> Seq(EntriesOf(Honest'))]
<1>1. EntriesOf(Honest) \subseteq EntriesOf(Honest')
  BY DEF EntriesOf
<1> DEFINE S == EntriesOf(Honest)
           T == EntriesOf(Honest')
<1>2. answered \in [{"run", "patch", "reset"} -> Seq(S)]
  BY DEF AnswersHonest
<1> HIDE DEF S, T
<1>3. \A ns \in {"run", "patch", "reset"} : answered[ns] \in Seq(T)
  BY <1>1, <1>2, SeqMonotonic DEF S, T
<1> QED
  BY <1>2, <1>3 DEF T

\* A write that leaves the answers alone.
LEMMA WriteKeeps ==
    ASSUME DocsInv, Honest \subseteq Honest', UNCHANGED <<answered, reply, started, dropped>>
    PROVE  AnswersHonest' /\ KeysKept'
<1>1. answered \in [{"run", "patch", "reset"} -> Seq(EntriesOf(Honest'))]
  BY AnswersWiden DEF DocsInv
<1>2. EntriesOf(Honest') = EntriesOf(Honest)' /\ NoReplyYet' = NoReplyYet
  BY DEF EntriesOf, NoReplyYet, Reply
<1>3. AnswersHonest'
  BY <1>1, <1>2 DEF DocsInv, AnswersHonest
<1>4. KeysKept'
  BY DEF DocsInv, KeysKept, OnRecord, Hits
<1> QED
  BY <1>3, <1>4

LEMMA ReplayKeeps ==
    ASSUME DocsInv, NEW ns \in {"run", "patch", "reset"}, NEW k \in Keys, NEW print, Replay(ns, k, print)
    PROVE  DocsInv'
<1>1. PICK e \in Entry(ns, k) : reply' = IF e.print = print THEN e.value ELSE NoReplyYet
  BY DEF Replay
<1>2. e \in EntriesOf(Honest)
  <2>1. answered[ns] \in Seq(EntriesOf(Honest))
    BY DEF DocsInv, AnswersHonest
  <2>2. e \in Hits(answered[ns], k)
    BY <1>1 DEF Entry
  <2> QED
    BY <2>1, <2>2 DEF Hits
<1>3. reply' \in Honest \union {NoReplyYet}
  BY <1>1, <1>2 DEF EntriesOf
<1>4. Honest' = Honest /\ Stored' = Stored
  BY DEF Replay, Honest, NoDoc, Doc, Stored
<1>5. DocsShape' /\ SnapsFit'
  BY <1>4 DEF Replay, DocsInv, DocsShape, SnapsFit, NoDoc, Doc
<1>6. AnswersHonest' /\ KeysKept'
  BY <1>3, <1>4 DEF Replay, DocsInv, AnswersHonest, KeysKept, OnRecord, Hits, EntriesOf, NoReplyYet, Reply
<1> QED
  BY <1>5, <1>6 DEF DocsInv

LEMMA RewrittenKeeps == ASSUME DocsInv, NEW r \in RunIds, Rewritten(r) PROVE DocsInv'
<1>1. docs[r] \in DocumentShapes /\ docs[r].status # "none" /\ Put(r, docs[r]) /\ docs[r] # NoDoc
  BY DEF DocsInv, DocsShape, Rewritten
<1>2. DocsShape' /\ docs' = [docs EXCEPT ![r] = docs[r]] /\ Honest \subseteq Honest'
  BY <1>1, PutKeeps DEF DocsInv
<1>3. docs' = docs
  BY <1>2 DEF DocsInv, DocsShape
<1>4. SnapsFit'
  BY <1>3 DEF DocsInv, SnapsFit, Rewritten, NoDoc, Doc
<1> QED
  BY <1>2, <1>4, WriteKeeps DEF DocsInv, Rewritten

LEMMA MarkKeeps ==
    ASSUME DocsInv, NEW r \in RunIds, NEW status \in {"completed", "failed"}, Mark(r, status)
    PROVE  DocsInv'
<1> DEFINE paper == Doc(docs[r].session, status, docs[r].meta)
<1>1. paper \in DocumentShapes /\ paper.status = status /\ paper.session = docs[r].session /\ Put(r, paper) /\ docs[r] # NoDoc
  <2>1. docs[r] \in DocumentShapes
    BY DEF DocsInv, DocsShape
  <2> QED
    BY <2>1 DEF Mark, Doc, DocumentShapes, Statuses
<1> HIDE DEF paper
<1>2. DocsShape' /\ docs' = [docs EXCEPT ![r] = paper] /\ docs'[r] = paper /\ Honest \subseteq Honest' /\ paper # NoDoc
  BY <1>1, PutKeeps DEF DocsInv
<1>3. \A q \in RunIds : q # r => docs'[q] = docs[q]
  BY <1>2 DEF DocsInv, DocsShape
<1>4. NoDoc' = NoDoc
  BY DEF NoDoc, Doc
<1>5. SnapsFit /\ docs'[r].status = status /\ docs'[r] # NoDoc
      /\ snaps' \in [RunIds -> Statuses] /\ (r \notin torn' => snaps'[r] = status)
      /\ \A q \in RunIds : q # r => snaps'[q] = snaps[q] /\ (q \in torn' <=> q \in torn)
  <2>1. SnapsFit /\ snaps \in [RunIds -> Statuses] /\ status \in Statuses
    BY DEF DocsInv, SnapsFit, Statuses
  <2>2. CASE snaps' = [snaps EXCEPT ![r] = status] /\ torn' = torn \ {r}
    BY <1>1, <1>2, <2>1, <2>2
  <2>3. CASE torn' = torn \union {r} /\ UNCHANGED snaps
    BY <1>1, <1>2, <2>1, <2>3
  <2> QED
    BY <2>2, <2>3 DEF Mark
<1>6. ASSUME NEW q \in RunIds
      PROVE  /\ docs'[q] = NoDoc => snaps'[q] = "none"
             /\ q \notin torn' /\ snaps'[q] # "none" => docs'[q].status = snaps'[q]
             /\ docs'[q] # NoDoc /\ docs'[q].status # "active" /\ q \notin torn' => snaps'[q] # "none"
  <2>1. CASE q = r
    BY <1>5, <2>1
  <2>2. CASE q # r
    <3>1. docs'[q] = docs[q] /\ snaps'[q] = snaps[q] /\ (q \in torn' <=> q \in torn)
      BY <1>3, <1>5, <2>2
    <3>2. /\ docs[q] = NoDoc => snaps[q] = "none"
          /\ q \notin torn /\ snaps[q] # "none" => docs[q].status = snaps[q]
          /\ docs[q] # NoDoc /\ docs[q].status # "active" /\ q \notin torn => snaps[q] # "none"
      BY <1>5 DEF SnapsFit
    <3> QED
      BY <3>1, <3>2
  <2> QED
    BY <2>1, <2>2
<1>7. SnapsFit'
  BY <1>4, <1>5, <1>6 DEF SnapsFit
<1> QED
  BY <1>2, <1>7, WriteKeeps DEF DocsInv, Mark

\* An answer that is given for the first time.
LEMMA AnswerKeeps ==
    ASSUME DocsInv, Honest \subseteq Honest', NEW ns \in {"run", "patch", "reset"}, NEW k \in Keys,
           NEW print \in NamedSessions \X (Texts \union {MetaKeys, {}}), NEW value \in Honest',
           Entry(ns, k) = {}, Register(ns, k, print, value), reply' = value
    PROVE  /\ AnswersHonest'
           /\ \A l \in Keys : l \notin dropped' /\ Hits(answered["run"], l) # {} => Hits(answered'["run"], l) # {}
           /\ k # NoKeyGiven /\ k \notin dropped' => Hits(answered'[ns], k) # {}
           /\ dropped \subseteq dropped'
<1> DEFINE values == Honest'
<1>1. answered \in [{"run", "patch", "reset"} -> Seq(EntriesOf(values))]
  BY AnswersWiden DEF DocsInv
<1>2. \A m \in {"run", "patch", "reset"} : Len(answered[m]) <= KeyCap
  BY DEF DocsInv, AnswersHonest
<1>3. value \in values
  OBVIOUS
<1> HIDE DEF values
<1>4. /\ answered' \in [{"run", "patch", "reset"} -> Seq(EntriesOf(values))]
      /\ \A m \in {"run", "patch", "reset"} : Len(answered'[m]) <= KeyCap
      /\ \A m \in {"run", "patch", "reset"}, l \in Keys :
           l \notin dropped' /\ Hits(answered[m], l) # {} => Hits(answered'[m], l) # {}
      /\ k # NoKeyGiven /\ k \notin dropped' => Hits(answered'[ns], k) # {}
      /\ dropped \subseteq dropped'
  BY <1>1, <1>2, <1>3, RegisterKeeps
<1>5. AnswersHonest'
  <2>1. EntriesOf(values) = EntriesOf(Honest)'
    BY DEF EntriesOf, values
  <2> QED
    BY <1>3, <1>4, <2>1 DEF AnswersHonest, values
<1> QED
  BY <1>4, <1>5

LEMMA StartRunKeeps ==
    ASSUME DocsInv, NEW s \in NamedSessions, NEW op \in {"send", "spawn"}, NEW text \in Texts, NEW k \in Keys,
           StartRun(op, s, text, k)
    PROVE  DocsInv'
<1>1. PICK r \in RunIds \ Stored :
        /\ Entry("run", k) = {}
        /\ Put(r, Doc(IF op = "spawn" THEN r ELSE s, "active", IF op = "spawn" THEN {"parent"} ELSE {}))
        /\ Register("run", k, <<s, text>>, Reply(r, IF op = "spawn" THEN r ELSE s))
        /\ started' = IF k = NoKeyGiven THEN started ELSE [started EXCEPT ![k] = started[k] \union {r}]
        /\ reply' = Reply(r, IF op = "spawn" THEN r ELSE s) /\ UNCHANGED <<snaps, torn>>
  BY DEF StartRun
<1> DEFINE own == IF op = "spawn" THEN r ELSE s
           meta == IF op = "spawn" THEN {"parent"} ELSE {}
           paper == Doc(own, "active", meta)
<1>2. own \in NamedSessions \union RunIds /\ meta \subseteq MetaKeys \union {"parent"}
  OBVIOUS
<1>3. Put(r, paper) /\ Register("run", k, <<s, text>>, Reply(r, own)) /\ reply' = Reply(r, own)
  BY <1>1
<1> HIDE DEF own, meta
<1>4. paper \in DocumentShapes /\ paper.status = "active" /\ paper.session = own /\ docs[r] = NoDoc /\ r \in RunIds
  BY <1>1, <1>2 DEF Doc, DocumentShapes, Statuses, Stored
<1> HIDE DEF paper
<1>5. DocsShape' /\ docs' = [docs EXCEPT ![r] = paper] /\ docs'[r] = paper /\ Honest \subseteq Honest' /\ paper # NoDoc
  BY <1>3, <1>4, PutKeeps DEF DocsInv
<1>6. \A q \in RunIds : q # r => docs'[q] = docs[q]
  BY <1>5 DEF DocsInv, DocsShape
<1>7. NoDoc' = NoDoc /\ SnapsFit
  BY DEF NoDoc, Doc, DocsInv
<1>8. docs'[r] = paper /\ paper # NoDoc
  BY <1>5
<1>9. SnapsFit'
  <2>1. UNCHANGED <<snaps, torn>> /\ snaps[r] = "none"
    BY <1>1, <1>4, <1>7 DEF SnapsFit
  <2> QED
    BY <1>4, <1>6, <1>7, <1>8, <2>1 DEF SnapsFit
<1>10. Reply(r, own) \in Honest'
  <2>1. Reply(r, own) \in [run : RunIds, session : NamedSessions \union RunIds]
    BY <1>1, <1>2 DEF Reply
  <2>2. Reply(r, own).run = r /\ Reply(r, own).session = own
    BY DEF Reply
  <2> QED
    BY <1>4, <1>7, <1>8, <2>1, <2>2 DEF Honest
<1>11. <<s, text>> \in NamedSessions \X (Texts \union {MetaKeys, {}})
  OBVIOUS
<1>12. /\ AnswersHonest'
       /\ \A l \in Keys : l \notin dropped' /\ Hits(answered["run"], l) # {} => Hits(answered'["run"], l) # {}
       /\ k # NoKeyGiven /\ k \notin dropped' => Hits(answered'["run"], k) # {}
       /\ dropped \subseteq dropped'
  BY <1>1, <1>3, <1>5, <1>10, <1>11, AnswerKeeps
<1>13. KeysKept'
  <2>1. started \in [Keys -> SUBSET RunIds] /\ \A l \in Keys \ {NoKeyGiven} : l \notin dropped => OnRecord(l)
    BY DEF DocsInv, KeysKept
  <2>2. started' \in [Keys -> SUBSET RunIds]
        /\ \A l \in Keys : l # k \/ k = NoKeyGiven => started'[l] = started[l]
    BY <1>1, <2>1
  <2>3. k # NoKeyGiven => started'[k] = started[k] \union {r}
    BY <1>1, <2>1
  <2>4. ASSUME NEW l \in Keys \ {NoKeyGiven}, l \notin dropped' PROVE OnRecord(l)'
    <3>1. OnRecord(l)
      BY <1>12, <2>1, <2>4
    <3>2. CASE l = k
      <4>1. started[k] = {}
        BY <1>1, <2>4, <3>1, <3>2 DEF OnRecord, Entry
      <4>2. started'[k] = {r} /\ Hits(answered'["run"], k) # {}
        BY <1>12, <2>3, <2>4, <3>2, <4>1
      <4> QED
        BY <1>4, <3>2, <4>2 DEF OnRecord
    <3>3. CASE l # k
      BY <1>12, <2>2, <2>4, <3>1, <3>3 DEF OnRecord
    <3> QED
      BY <3>2, <3>3
  <2> QED
    BY <2>2, <2>4 DEF KeysKept
<1> QED
  BY <1>5, <1>9, <1>12, <1>13 DEF DocsInv

LEMMA ChangeMetaKeeps ==
    ASSUME DocsInv, NEW s \in NamedSessions, NEW op \in {"patch", "reset"}, NEW keys \in {MetaKeys, {}}, NEW k \in Keys,
           ChangeMeta(op, s, keys, k)
    PROVE  DocsInv'
<1>1. CASE Replay(op, k, <<s, keys>>)
  BY <1>1, ReplayKeeps
<1>2. CASE ~Replay(op, k, <<s, keys>>)
  <2> DEFINE r == LatestRun(s)
             meta == IF op = "reset" THEN {} ELSE docs[r].meta \union keys
             paper == Doc(s, docs[r].status, meta)
  <2>1. /\ Entry(op, k) = {} /\ r # "none" /\ Put(r, paper)
        /\ Register(op, k, <<s, keys>>, Reply(r, s)) /\ reply' = Reply(r, s)
        /\ UNCHANGED <<snaps, torn, started>>
    BY <1>2 DEF ChangeMeta
  <2>2. r \in RunIds /\ docs[r] # NoDoc /\ docs[r].session = s /\ docs[r] \in DocumentShapes /\ docs[r].status # "none"
    BY <2>1, LatestRunFits DEF DocsInv, DocsShape
  <2> HIDE DEF r
  <2>3. meta \subseteq MetaKeys \union {"parent"}
    BY <2>2 DEF DocumentShapes
  <2> HIDE DEF meta
  <2>4. paper \in DocumentShapes /\ paper.status = docs[r].status /\ paper.session = s
    BY <2>2, <2>3 DEF Doc, DocumentShapes
  <2> HIDE DEF paper
  <2>5. DocsShape' /\ docs' = [docs EXCEPT ![r] = paper] /\ docs'[r] = paper /\ Honest \subseteq Honest' /\ paper # NoDoc
    BY <2>1, <2>2, <2>4, PutKeeps DEF DocsInv
  <2>6. \A q \in RunIds : /\ docs'[q].status = docs[q].status
                          /\ docs'[q] = NoDoc <=> docs[q] = NoDoc
    BY <2>2, <2>4, <2>5 DEF DocsInv, DocsShape
  <2>7. NoDoc' = NoDoc /\ SnapsFit /\ docs'[r] = paper /\ paper # NoDoc
    BY <2>5 DEF NoDoc, Doc, DocsInv
  <2>8. SnapsFit'
    BY <2>1, <2>6, <2>7 DEF SnapsFit
  <2>9. Reply(r, s) \in Honest'
    <3>1. Reply(r, s) \in [run : RunIds, session : NamedSessions \union RunIds]
      BY <2>2 DEF Reply
    <3>2. Reply(r, s).run = r /\ Reply(r, s).session = s
      BY DEF Reply
    <3> QED
      BY <2>4, <2>7, <3>1, <3>2 DEF Honest
  <2>10. <<s, keys>> \in NamedSessions \X (Texts \union {MetaKeys, {}})
    OBVIOUS
  <2>11. /\ AnswersHonest'
         /\ \A l \in Keys : l \notin dropped' /\ Hits(answered["run"], l) # {} => Hits(answered'["run"], l) # {}
         /\ dropped \subseteq dropped'
    <3>1. Honest \subseteq Honest'
      BY <2>5
    <3> QED
      BY <2>1, <2>9, <2>10, <3>1, AnswerKeeps
  <2>12. KeysKept'
    <3>1. UNCHANGED started
      BY <2>1
    <3> QED
      BY <2>11, <3>1 DEF DocsInv, KeysKept, OnRecord
  <2> QED
    BY <2>5, <2>8, <2>11, <2>12 DEF DocsInv
<1> QED
  BY <1>1, <1>2

LEMMA DocsNextKeeps == ASSUME DocsInv, [DocsNext]_docVars PROVE DocsInv'
<1>1. CASE UNCHANGED docVars
  <2>1. Honest' = Honest /\ Stored' = Stored /\ NoDoc' = NoDoc /\ NoReplyYet' = NoReplyYet
    BY <1>1 DEF docVars, Honest, Stored, NoDoc, Doc, NoReplyYet, Reply
  <2>2. DocsShape' /\ SnapsFit'
    BY <1>1, <2>1 DEF docVars, DocsInv, DocsShape, SnapsFit
  <2>3. AnswersHonest'
    BY <1>1, <2>1 DEF docVars, DocsInv, AnswersHonest, EntriesOf
  <2>4. KeysKept'
    BY <1>1 DEF docVars, DocsInv, KeysKept, OnRecord, Hits
  <2> QED
    BY <2>2, <2>3, <2>4 DEF DocsInv
<1>2. ASSUME NEW s \in NamedSessions, NEW k \in Keys, NEW op \in {"send", "spawn"}, NEW text \in Texts,
             Start(op, s, text, k)
      PROVE  DocsInv'
  BY <1>2, ReplayKeeps, StartRunKeeps DEF Start
<1>3. ASSUME NEW s \in NamedSessions, NEW k \in Keys,
             ChangeMeta("patch", s, MetaKeys, k) \/ ChangeMeta("reset", s, {}, k)
      PROVE  DocsInv'
  BY <1>3, ChangeMetaKeeps
<1>4. ASSUME NEW r \in RunIds, Rewritten(r) \/ Mark(r, "completed") \/ Mark(r, "failed") PROVE DocsInv'
  BY <1>4, RewrittenKeeps, MarkKeeps
<1> QED
  BY <1>1, <1>2, <1>3, <1>4 DEF DocsNext

-----------------------------------------------------------------------------
(* The file of a session holds what is remembered unless a write failed, a
   repair settles every call for good, and a sanitization is final; runs are
   listed, answered and resolved as their documents say, and a key starts one
   run as long as its entry is kept (memory.py, state/state_store.py,
   handlers/session_handlers.py). *)
THEOREM SessionStoreSoundHolds == StoreSpec => []SessionStoreSound
<1> DEFINE SInv == MemoryInv /\ DocsInv
<1>1. StoreInit => SInv
  BY MemoryInitially, DocsInitially DEF StoreInit
<1>2. SInv /\ [StoreNext]_<<memoryVars, docVars>> => SInv'
  <2> SUFFICES ASSUME SInv, [StoreNext]_<<memoryVars, docVars>> PROVE SInv'
    OBVIOUS
  <2>1. [MemoryNext]_memoryVars /\ [DocsNext]_docVars
    BY DEF StoreNext
  <2> QED
    BY <2>1, MemoryNextKeeps, DocsNextKeeps
<1>3. SInv => SessionStoreSound
  <2> SUFFICES ASSUME SInv PROVE SessionStoreSound
    OBVIOUS
  <2>1. SessionStoreTypeOK
    BY DEF SessionStoreTypeOK, MemoryInv, DocsInv, DocsShape, AnswersHonest
  <2> QED
    BY <2>1, MemorySettles, DocsSettle DEF SessionStoreSound
<1> QED
  BY <1>1, <1>2, <1>3, PTL DEF StoreSpec

=============================================================================
