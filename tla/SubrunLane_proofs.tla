------------------------- MODULE SubrunLane_proofs -------------------------
(***************************************************************************)
(* Proofs about SubrunLane for every value of its constants: its variables *)
(* keep their types, the fan-out and depth of the family tree stay within  *)
(* their limits in memory and on disk, retention never forgets the parent  *)
(* of an unfinished run and leaves nothing behind, a kill that returns has *)
(* ended every task it saw, and the lane implements SubrunLifecycle.       *)
(***************************************************************************)
EXTENDS SubrunLane, FiniteSetTheorems, SequenceTheorems, TLAPS

-----------------------------------------------------------------------------
(* The inductive invariant *)

\* What every registry, in memory or on disk, satisfies.
Sound(R) == R \in Registry /\ FamilyOf(R) /\ RememberedIn(R)

\* An id that was never handed out occurs nowhere.
Unused(R, r) ==
    R.status[r] = "none" /\ R.parent[r] = NoRun /\ \A c \in Runs : R.parent[c] # r

FreshIds == \A r \in Runs : pc[r] = "none" => Unused(reg, r) /\ Unused(saved, r)

\* The status a suspended run shows.
Positions ==
    \A r \in Runs :
        /\ pc[r] \in {"accepting", "created"} => reg.status[r] = "accepted"
        /\ pc[r] \in {"starting", "queued", "working"} => reg.status[r] = "running"
        /\ pc[r] \in {"ending", "announcing", "backoff", "callback"}
              => reg.status[r] \in TerminalStatuses

\* A run that waits for another attempt has one left.
Attempts == \A r \in Runs : pc[r] = "backoff" => tries[r] < MaxAttempts

IInv == TypeOK /\ Attempts /\ Sound(reg) /\ Sound(saved) /\ FreshIds /\ Positions

-----------------------------------------------------------------------------
(* Lemmas about the registry's operators *)

\* Retention only picks terminal runs without live task whose children are
\* finished too.
LEMMA EvictionsAreEvictable ==
    ASSUME NEW R, NEW active, NEW E \in Evictions(R, active)
    PROVE  /\ E \subseteq Runs
           /\ \A r \in E : CanEvict(R, active, r)
BY DEF Evictions

\* Dropping evictable runs keeps a registry sound and changes nothing else.
LEMMA EvictSound ==
    ASSUME NEW R, Sound(R), NEW active, NEW E \in Evictions(R, active)
    PROVE  /\ Sound(Evict(R, E))
           /\ \A r \in Runs : r \notin E => Evict(R, E).status[r] = R.status[r]
           /\ \A r \in Runs : r \in E => Evict(R, E).status[r] = "none"
           /\ \A r \in Runs : Evict(R, E).parent[r] \in {R.parent[r], NoRun}
<1> DEFINE V == Evict(R, E)
<1>1. E \subseteq Runs /\ \A r \in E : CanEvict(R, active, r)
  BY EvictionsAreEvictable
<1>2. R \in Registry
  BY DEF Sound
<1>3. V \in Registry
  <2>1. /\ R.parent \in [Runs -> Parents \cup {NoRun}] /\ R.depth \in [Runs -> 0 .. MaxDepth]
        /\ R.status \in [Runs -> Statuses] /\ R.older \in [Runs -> SUBSET Runs]
        /\ R.ann \in [Runs -> AnnounceStatuses]
    BY <1>2 DEF Registry
  <2>2. 0 \in 0 .. MaxDepth /\ "none" \in Statuses /\ "none" \in AnnounceStatuses
    BY LaneAssumption DEF Statuses, AnnounceStatuses
  <2> QED BY <2>1, <2>2 DEF Evict, Registry
<1>4. /\ \A r \in Runs : r \notin E => V.status[r] = R.status[r] /\ V.parent[r] = R.parent[r]
                                       /\ V.depth[r] = R.depth[r]
      /\ \A r \in Runs : r \in E => V.status[r] = "none" /\ V.parent[r] = NoRun
  BY DEF Evict
<1>5. Registered(V) = Registered(R) \ E
  BY <1>4 DEF Registered
<1>6. FamilyOf(V)
  <2>1. ASSUME NEW p \in Parents PROVE Cardinality(Children(V, p)) <= MaxChildren
    <3>1. Children(V, p) \subseteq Children(R, p)
      BY <1>4, LaneAssumption DEF Children, Parents
    <3>2. IsFiniteSet(Children(R, p))
      BY FS_Subset, LaneAssumption DEF Children
    <3>3. Cardinality(Children(V, p)) <= Cardinality(Children(R, p))
      BY <3>1, <3>2, FS_Subset
    <3>4. Cardinality(Children(R, p)) <= MaxChildren
      BY DEF Sound, FamilyOf
    <3>5. Cardinality(Children(V, p)) \in Nat /\ Cardinality(Children(R, p)) \in Nat
      BY <3>1, <3>2, FS_Subset, FS_CardinalityType
    <3> QED BY <3>3, <3>4, <3>5, LaneAssumption
  <2>2. ASSUME NEW r \in Runs, V.parent[r] \in Registered(V)
        PROVE  V.depth[r] = V.depth[V.parent[r]] + 1
    <3>1. r \notin E /\ V.parent[r] = R.parent[r]
      BY <2>2, <1>4, LaneAssumption DEF Registered
    <3>2. R.parent[r] \in Registered(R) /\ R.parent[r] \notin E /\ R.parent[r] \in Runs
      BY <2>2, <3>1, <1>5 DEF Registered
    <3>3. R.depth[r] = R.depth[R.parent[r]] + 1
      BY <3>2 DEF Sound, FamilyOf
    <3> QED BY <3>1, <3>2, <3>3, <1>4
  <2> QED BY <2>1, <2>2 DEF FamilyOf
<1>7. RememberedIn(V)
  <2> SUFFICES ASSUME NEW r \in Registered(V), V.status[r] \notin TerminalStatuses,
                      V.parent[r] \in Runs
               PROVE  V.parent[r] \in Registered(V)
    BY DEF RememberedIn
  <2>1. r \in Runs /\ r \notin E /\ r \in Registered(R)
    BY <1>5 DEF Registered
  <2>2. V.status[r] = R.status[r] /\ V.parent[r] = R.parent[r]
    BY <2>1, <1>4
  <2>3. R.parent[r] \in Registered(R)
    BY <2>1, <2>2 DEF Sound, RememberedIn
  <2>4. R.parent[r] \notin E
    BY <2>1, <2>2, <1>1 DEF CanEvict, Children, Registered
  <2> QED BY <2>2, <2>3, <2>4, <1>5
<1> QED BY <1>3, <1>4, <1>6, <1>7 DEF Sound

\* The fields of a registry.
LEMMA RegistryFields ==
    ASSUME NEW R \in Registry
    PROVE  /\ R.parent \in [Runs -> Parents \cup {NoRun}]
           /\ R.depth \in [Runs -> 0 .. MaxDepth]
           /\ R.status \in [Runs -> Statuses]
           /\ R.older \in [Runs -> SUBSET Runs]
           /\ R.ann \in [Runs -> AnnounceStatuses]
BY DEF Registry

\* FamilyOf depends on parents, depths and on which runs are registered; the
\* fewer, the easier.
LEMMA FamilyFrame ==
    ASSUME NEW R \in Registry, NEW S \in Registry, FamilyOf(R),
           S.parent = R.parent, S.depth = R.depth, Registered(S) \subseteq Registered(R)
    PROVE  FamilyOf(S)
<1>1. \A p : Children(S, p) = Children(R, p)
  BY DEF Children
<1> QED BY <1>1 DEF FamilyOf

\* A status change keeps a registry sound if it reopens no finished run.
LEMMA SetStatusSound ==
    ASSUME NEW R, Sound(R), NEW r \in Registered(R),
           NEW s \in Statuses \ {"none"},
           s \in TerminalStatuses \/ R.status[r] \notin TerminalStatuses
    PROVE  /\ Sound(SetStatus(R, r, s))
           /\ SetStatus(R, r, s).status = [R.status EXCEPT ![r] = s]
           /\ SetStatus(R, r, s).parent = R.parent
<1> DEFINE S == SetStatus(R, r, s)
<1>0. R \in Registry /\ r \in Runs
  BY DEF Sound, Registered
<1>1. Ended(R) \in SUBSET Runs
  BY DEF Ended
<1>2. /\ S.status = [R.status EXCEPT ![r] = s] /\ S.parent = R.parent /\ S.depth = R.depth
      /\ S.ann = R.ann
      /\ S.older = [R.older EXCEPT ![r] = IF s \in TerminalStatuses THEN Ended(R) ELSE {}]
  BY <1>0 DEF SetStatus, Registry
<1>3. S \in Registry
  BY <1>0, <1>1 DEF SetStatus, Registry
<1>4. Registered(S) = Registered(R)
  BY <1>0, <1>2, RegistryFields DEF Registered
<1>5. FamilyOf(S)
  BY <1>0, <1>2, <1>3, <1>4, FamilyFrame DEF Sound
<1>6. RememberedIn(S)
  BY <1>0, <1>2, <1>4, RegistryFields DEF Sound, RememberedIn, Registered
<1> QED BY <1>2, <1>3, <1>5, <1>6 DEF Sound

\* An announcement record touches neither the family nor the statuses.
LEMMA AnnounceSound ==
    ASSUME NEW R, Sound(R), NEW r \in Runs, NEW a \in AnnounceStatuses
    PROVE  /\ Sound([R EXCEPT !.ann[r] = a])
           /\ [R EXCEPT !.ann[r] = a].status = R.status
           /\ [R EXCEPT !.ann[r] = a].parent = R.parent
<1> DEFINE S == [R EXCEPT !.ann[r] = a]
<1>0. R \in Registry
  BY DEF Sound
<1>1. S.status = R.status /\ S.parent = R.parent /\ S.depth = R.depth
  BY <1>0 DEF Registry
<1>2. S \in Registry
  BY <1>0 DEF Registry
<1>3. Registered(S) = Registered(R)
  BY <1>1 DEF Registered
<1>4. FamilyOf(S)
  BY <1>0, <1>1, <1>2, <1>3, FamilyFrame DEF Sound
<1>5. RememberedIn(S)
  BY <1>1, <1>3 DEF Sound, RememberedIn
<1> QED BY <1>1, <1>2, <1>4, <1>5 DEF Sound

\* Reconciliation after a restart only finishes runs.
LEMMA ReconciledSound ==
    ASSUME NEW R, Sound(R), NEW O \in SUBSET Orphans(R)
    PROVE  /\ Sound(Reconciled(R, O))
           /\ Reconciled(R, O).parent = R.parent
           /\ \A r \in Runs : R.status[r] = "none" => Reconciled(R, O).status[r] = "none"
<1> DEFINE S == Reconciled(R, O)
<1>0. R \in Registry /\ O \subseteq Runs
  BY DEF Sound, Orphans
<1>1. Ended(R) \in SUBSET Runs /\ "failed" \in Statuses
  BY DEF Ended, Statuses, TerminalStatuses
<1>2. /\ S.status = [r \in Runs |-> IF r \in O THEN "failed" ELSE R.status[r]]
      /\ S.older = [r \in Runs |-> IF r \in O THEN Ended(R) ELSE R.older[r]]
      /\ S.parent = R.parent /\ S.depth = R.depth /\ S.ann = R.ann
  BY <1>0 DEF Reconciled, Registry
<1>3. S \in Registry
  <2>1. /\ S.status \in [Runs -> Statuses]
        /\ S.older \in [Runs -> SUBSET Runs]
    BY <1>0, <1>1, <1>2, RegistryFields
  <2>2. S = [R EXCEPT !.status = S.status, !.older = S.older]
    BY <1>0, <1>2 DEF Reconciled, Registry
  <2> QED BY <1>0, <2>1, <2>2 DEF Registry
<1>4. \A r \in Runs : R.status[r] = "none" <=> S.status[r] = "none"
  BY <1>2 DEF Orphans
<1>5. Registered(S) = Registered(R)
  BY <1>4 DEF Registered
<1>6. FamilyOf(S)
  BY <1>0, <1>2, <1>3, <1>5, FamilyFrame DEF Sound
<1>7. RememberedIn(S)
  BY <1>2, <1>5 DEF Sound, RememberedIn, Registered, TerminalStatuses
<1> QED BY <1>2, <1>3, <1>4, <1>6, <1>7 DEF Sound

\* spawn(): registering an unused id under a parent that has room.
LEMMA RegisterSound ==
    ASSUME NEW R, Sound(R), NEW r \in Runs, Unused(R, r),
           NEW p \in Parents, p # r, p \in Runs => p \in Registered(R),
           NEW d \in 1 .. MaxDepth, p \in Runs => d = R.depth[p] + 1,
           Cardinality(Children(R, p)) < MaxChildren
    PROVE  /\ Sound(Register(R, r, p, d))
           /\ Register(R, r, p, d).status = [R.status EXCEPT ![r] = "accepted"]
           /\ Register(R, r, p, d).parent = [R.parent EXCEPT ![r] = p]
<1> DEFINE S == Register(R, r, p, d)
<1>0. R \in Registry
  BY DEF Sound
<1>1. /\ S.status = [R.status EXCEPT ![r] = "accepted"] /\ S.parent = [R.parent EXCEPT ![r] = p]
      /\ S.depth = [R.depth EXCEPT ![r] = d] /\ S.older = R.older /\ S.ann = R.ann
  BY <1>0 DEF Register, Enrol, Registry
<1>2. S \in Registry
  <2>1. "accepted" \in Statuses /\ d \in 0 .. MaxDepth
    BY LaneAssumption DEF Statuses
  <2> QED BY <1>0, <2>1 DEF Register, Enrol, Registry
<1>3. Registered(S) = Registered(R) \cup {r}
  BY <1>0, <1>1, RegistryFields DEF Registered
<1>4. FamilyOf(S)
  <2>1. ASSUME NEW q \in Parents PROVE Cardinality(Children(S, q)) <= MaxChildren
    <3>1. IsFiniteSet(Children(R, q)) /\ Cardinality(Children(R, q)) \in Nat
      BY FS_Subset, FS_CardinalityType, LaneAssumption DEF Children
    <3>2. CASE q = p
      <4>1. Children(S, q) = Children(R, q) \cup {r}
        BY <1>0, <1>1, <3>2, RegistryFields DEF Children
      <4>2. r \notin Children(R, q)
        BY LaneAssumption DEF Unused, Children, Parents
      <4>3. Cardinality(Children(S, q)) = Cardinality(Children(R, q)) + 1
        BY <3>1, <4>1, <4>2, FS_AddElement
      <4> QED BY <3>1, <3>2, <4>3, LaneAssumption
    <3>3. CASE q # p
      <4>1. Children(S, q) \subseteq Children(R, q)
        BY <1>0, <1>1, <3>3, RegistryFields DEF Children
      <4>2. /\ Cardinality(Children(S, q)) <= Cardinality(Children(R, q))
            /\ Cardinality(Children(S, q)) \in Nat
        BY <4>1, <3>1, FS_Subset, FS_CardinalityType
      <4>3. Cardinality(Children(R, q)) <= MaxChildren
        BY DEF Sound, FamilyOf
      <4> QED BY <3>1, <4>2, <4>3, LaneAssumption
    <3> QED BY <3>2, <3>3
  <2>2. ASSUME NEW c \in Runs, S.parent[c] \in Registered(S)
        PROVE  S.depth[c] = S.depth[S.parent[c]] + 1
    <3>1. CASE c = r
      <4>1. S.parent[c] = p /\ S.depth[c] = d
        BY <1>0, <1>1, <3>1, RegistryFields
      <4>2. p \in Runs
        BY <2>2, <4>1 DEF Registered
      <4>3. S.depth[p] = R.depth[p]
        BY <1>0, <1>1, <4>2, RegistryFields
      <4> QED BY <4>1, <4>2, <4>3
    <3>2. CASE c # r
      <4>1. S.parent[c] = R.parent[c] /\ S.depth[c] = R.depth[c]
        BY <1>0, <1>1, <3>2, RegistryFields
      <4>2. R.parent[c] # r
        BY DEF Unused
      <4>3. R.parent[c] \in Registered(R)
        BY <2>2, <1>3, <4>1, <4>2
      <4>4. S.depth[R.parent[c]] = R.depth[R.parent[c]]
        BY <1>0, <1>1, <4>2, <4>3, RegistryFields DEF Registered
      <4>5. R.depth[c] = R.depth[R.parent[c]] + 1
        BY <4>3 DEF Sound, FamilyOf
      <4> QED BY <4>1, <4>4, <4>5
    <3> QED BY <3>1, <3>2
  <2> QED BY <2>1, <2>2 DEF FamilyOf
<1>5. RememberedIn(S)
  <2> SUFFICES ASSUME NEW c \in Registered(S), S.status[c] \notin TerminalStatuses,
                      S.parent[c] \in Runs
               PROVE  S.parent[c] \in Registered(S)
    BY DEF RememberedIn
  <2>1. CASE c = r
    BY <1>0, <1>1, <1>3, <2>1, RegistryFields
  <2>2. CASE c # r
    <3>1. c \in Registered(R) /\ c \in Runs
      BY <1>3, <2>2 DEF Registered
    <3>2. S.status[c] = R.status[c] /\ S.parent[c] = R.parent[c]
      BY <1>0, <1>1, <2>2, <3>1, RegistryFields
    <3> QED BY <1>3, <3>1, <3>2 DEF Sound, RememberedIn
  <2> QED BY <2>1, <2>2
<1> QED BY <1>1, <1>2, <1>4, <1>5 DEF Sound

\* ... and without a status, when spawn() fails in its first write.
LEMMA EnrolSound ==
    ASSUME NEW R, Sound(R), NEW r \in Runs, Unused(R, r),
           NEW p \in Parents, p # r, p \in Runs => p \in Registered(R),
           NEW d \in 1 .. MaxDepth, p \in Runs => d = R.depth[p] + 1,
           Cardinality(Children(R, p)) < MaxChildren
    PROVE  /\ Sound(Enrol(R, r, p, d))
           /\ Enrol(R, r, p, d).status = R.status
           /\ Enrol(R, r, p, d).parent = [R.parent EXCEPT ![r] = p]
<1> DEFINE S == Register(R, r, p, d)
           T == Enrol(R, r, p, d)
<1>0. R \in Registry /\ Sound(S) /\ S \in Registry
  BY RegisterSound DEF Sound
<1>1. /\ T.parent = [R.parent EXCEPT ![r] = p] /\ T.depth = [R.depth EXCEPT ![r] = d]
      /\ T.status = R.status /\ S.parent = T.parent /\ S.depth = T.depth
      /\ S.status = [R.status EXCEPT ![r] = "accepted"]
  BY <1>0 DEF Register, Enrol, Registry
<1>2. T \in Registry
  <2>1. d \in 0 .. MaxDepth
    BY LaneAssumption
  <2> QED BY <1>0, <2>1 DEF Enrol, Registry
<1>3. Registered(T) = Registered(R) /\ Registered(T) \subseteq Registered(S)
  BY <1>0, <1>1, RegistryFields DEF Registered
<1>4. FamilyOf(T)
  BY <1>0, <1>1, <1>2, <1>3, FamilyFrame DEF Sound
<1>5. RememberedIn(T)
  <2> SUFFICES ASSUME NEW c \in Registered(T), T.status[c] \notin TerminalStatuses,
                      T.parent[c] \in Runs
               PROVE  T.parent[c] \in Registered(T)
    BY DEF RememberedIn
  <2>1. c \in Registered(R) /\ c \in Runs /\ c # r
    BY <1>3 DEF Unused, Registered
  <2>2. T.status[c] = R.status[c] /\ T.parent[c] = R.parent[c]
    BY <1>0, <1>1, <2>1, RegistryFields
  <2> QED BY <1>3, <2>1, <2>2 DEF Sound, RememberedIn
<1> QED BY <1>1, <1>2, <1>4, <1>5 DEF Sound

\* Prune and persist: both copies stay sound, a run that is live or unfinished
\* keeps its status, and an unused id stays unused.
LEMMA CommitFacts ==
    ASSUME NEW R, Sound(R), Sound(saved), NEW active, Commit(R, active)
    PROVE  /\ Sound(reg') /\ Sound(saved')
           /\ \A r \in Runs : (r \in active \/ R.status[r] \notin TerminalStatuses)
                 => reg'.status[r] = R.status[r]
           /\ \A r \in Runs : (Unused(R, r) /\ Unused(saved, r))
                 => (Unused(reg', r) /\ Unused(saved', r))
<1>1. PICK E \in Evictions(R, active) :
          reg' = Evict(R, E) /\ (saved' = Evict(R, E) \/ saved' = saved)
  BY DEF Commit
<1>2. /\ Sound(Evict(R, E))
      /\ \A r \in Runs : r \notin E => Evict(R, E).status[r] = R.status[r]
      /\ \A r \in Runs : r \in E => Evict(R, E).status[r] = "none"
      /\ \A r \in Runs : Evict(R, E).parent[r] \in {R.parent[r], NoRun}
  BY EvictSound
<1>3. \A r \in E : r \notin active /\ R.status[r] \in TerminalStatuses
  BY EvictionsAreEvictable DEF CanEvict
<1>4. ASSUME NEW r \in Runs, Unused(R, r) PROVE Unused(Evict(R, E), r)
  BY <1>2, <1>4, LaneAssumption DEF Unused
<1> QED BY <1>1, <1>2, <1>3, <1>4

-----------------------------------------------------------------------------
(* Steps of one run *)

\* The status a run may show while suspended at a label.
Fits(label, st) ==
    /\ label \in {"accepting", "created"} => st = "accepted"
    /\ label \in {"starting", "queued", "working"} => st = "running"
    /\ label \in {"ending", "announcing", "backoff", "callback"} => st \in TerminalStatuses

\* Only run r moves, to a label; spawn() calls it had under way may be stranded.
Moves(r, label) ==
    /\ pc' \in [Runs -> Points]
    /\ label # "none" /\ pc'[r] = label
    /\ \A x \in Runs \ {r} : pc'[x] = pc[x] \/ (pc[x] # "none" /\ pc'[x] = "stranded")

LEMMA GotoMoves ==
    ASSUME pc \in [Runs -> Points], NEW r \in Runs, NEW label \in Points \ {"none"},
           Goto(r, label)
    PROVE  Moves(r, label) /\ LiveIn(pc') = {x \in Runs : pc'[x] \in LivePoints}
BY DEF Goto, Moves, LiveIn

LEMMA AbandonMoves ==
    ASSUME pc \in [Runs -> Points], NEW r \in Runs, NEW label \in Points \ {"none"},
           pc' = [Abandon(pc, r) EXCEPT ![r] = label]
    PROVE  Moves(r, label)
<1>1. "stranded" \in Points
  BY DEF Points
<1>2. Abandon(pc, r) \in [Runs -> Points]
  BY <1>1 DEF Abandon
<1>3. \A x \in Runs : Abandon(pc, r)[x] = pc[x]
                     \/ (pc[x] # "none" /\ Abandon(pc, r)[x] = "stranded")
  BY DEF Abandon
<1> QED BY <1>2, <1>3 DEF Moves

\* A step of r that commits registry R.
LEMMA CommitStep ==
    ASSUME IInv, NEW R, Sound(R), NEW r \in Runs, NEW label, Moves(r, label),
           NEW active, \A x \in Runs : pc'[x] \in LivePoints => x \in active,
           Commit(R, active), Fits(label, R.status[r]),
           \A x \in Runs \ {r} : R.status[x] = reg.status[x],
           \A x \in Runs \ {r} : Unused(reg, x) => Unused(R, x)
    PROVE  Sound(reg') /\ Sound(saved') /\ FreshIds' /\ Positions'
<1>1. Sound(reg) /\ Sound(saved) /\ FreshIds /\ Positions
  BY DEF IInv
<1>2. /\ Sound(reg') /\ Sound(saved')
      /\ \A x \in Runs : (x \in active \/ R.status[x] \notin TerminalStatuses)
            => reg'.status[x] = R.status[x]
      /\ \A x \in Runs : (Unused(R, x) /\ Unused(saved, x))
            => (Unused(reg', x) /\ Unused(saved', x))
  BY <1>1, CommitFacts
<1>3. FreshIds'
  <2> SUFFICES ASSUME NEW x \in Runs, pc'[x] = "none"
               PROVE  Unused(reg', x) /\ Unused(saved', x)
    BY DEF FreshIds
  <2>1. x # r /\ pc[x] = "none"
    BY DEF Moves
  <2> QED BY <1>1, <1>2, <2>1 DEF FreshIds
<1>4. ASSUME NEW x \in Runs PROVE Fits(pc'[x], reg'.status[x])
  <2>1. Fits(pc'[x], R.status[x])
    <3>1. CASE x = r
      BY <3>1 DEF Moves
    <3>2. CASE x # r
      <4>1. R.status[x] = reg.status[x] /\ (pc'[x] = pc[x] \/ pc'[x] = "stranded")
        BY <3>2 DEF Moves
      <4>2. Fits(pc[x], reg.status[x])
        BY <1>1 DEF Positions, Fits
      <4> QED BY <4>1, <4>2 DEF Fits
    <3> QED BY <3>1, <3>2
  <2>2. CASE x \in active \/ R.status[x] \notin TerminalStatuses
    BY <1>2, <2>1, <2>2
  <2>3. CASE ~(x \in active \/ R.status[x] \notin TerminalStatuses)
    BY <2>1, <2>3 DEF Fits, LivePoints, TerminalStatuses
  <2> QED BY <2>2, <2>3
<1>5. Positions'
  BY <1>4 DEF Positions, Fits
<1> QED BY <1>2, <1>3, <1>5

\* A step of r that leaves both copies of the registry alone.
LEMMA QuietStep ==
    ASSUME IInv, NEW r \in Runs, NEW label, Moves(r, label),
           UNCHANGED <<reg, saved>>, Fits(label, reg.status[r])
    PROVE  Sound(reg') /\ Sound(saved') /\ FreshIds' /\ Positions'
<1>1. Sound(reg) /\ Sound(saved) /\ FreshIds /\ Positions
  BY DEF IInv
<1>2. FreshIds'
  <2> SUFFICES ASSUME NEW x \in Runs, pc'[x] = "none"
               PROVE  Unused(reg, x) /\ Unused(saved, x)
    BY DEF FreshIds
  <2>1. x # r /\ pc[x] = "none"
    BY DEF Moves
  <2> QED BY <1>1, <2>1 DEF FreshIds
<1>3. ASSUME NEW x \in Runs PROVE Fits(pc'[x], reg.status[x])
  <2>1. CASE x = r
    BY <2>1 DEF Moves
  <2>2. CASE x # r
    <3>1. pc'[x] = pc[x] \/ pc'[x] = "stranded"
      BY <2>2 DEF Moves
    <3>2. Fits(pc[x], reg.status[x])
      BY <1>1 DEF Positions, Fits
    <3> QED BY <3>1, <3>2 DEF Fits
  <2> QED BY <2>1, <2>2
<1>4. Positions'
  BY <1>3 DEF Positions, Fits
<1> QED BY <1>1, <1>2, <1>4

-----------------------------------------------------------------------------
(* The actions *)

\* The variables other than the two copies of the registry.
RestOK ==
    /\ store \in [Runs -> {"none", "active", "completed", "failed"}]
    /\ pc \in [Runs -> Points]
    /\ cancelReq \in [Runs -> BOOLEAN]
    /\ tries \in [Runs -> 0 .. MaxAttempts]
    /\ kill \in [Killers -> KillCalls]
    /\ crashes \in 0 .. MaxCrashes
    /\ Attempts

LEMMA Assemble ==
    ASSUME RestOK', Sound(reg'), Sound(saved'), FreshIds', Positions'
    PROVE  IInv'
BY DEF IInv, TypeOK, RestOK, Sound

LEMMA Disassemble ==
    ASSUME IInv
    PROVE  /\ RestOK /\ Sound(reg) /\ Sound(saved) /\ FreshIds /\ Positions
           /\ reg \in Registry /\ reg.status \in [Runs -> Statuses]
           /\ \A x \in Runs : reg.status[x] # "none" => x \in Registered(reg)
BY RegistryFields DEF IInv, TypeOK, RestOK, Sound, Registered

LEMMA InitStep == Init => IInv
<1> SUFFICES ASSUME Init PROVE IInv
  OBVIOUS
<1> USE DEF Init
<1>1. EmptyRegistry \in Registry
  BY LaneAssumption DEF EmptyRegistry, Registry, Statuses, AnnounceStatuses
<1>2. Registered(EmptyRegistry) = {}
  BY DEF Registered, EmptyRegistry
<1>3. FamilyOf(EmptyRegistry)
  <2>1. \A p \in Parents : Children(EmptyRegistry, p) = {}
    BY LaneAssumption DEF Children, EmptyRegistry, Parents
  <2> QED BY <1>2, <2>1, FS_EmptySet, LaneAssumption DEF FamilyOf
<1>4. Sound(EmptyRegistry)
  BY <1>1, <1>2, <1>3 DEF Sound, RememberedIn
<1>5. FreshIds
  BY LaneAssumption DEF FreshIds, Unused, EmptyRegistry
<1>6. Positions
  BY DEF Positions
<1>7. Idle \in KillCalls
  <2>1. <<>> \in Seq(Runs)
    BY EmptySeq
  <2> QED BY <2>1 DEF Idle, KillCalls
<1>8. RestOK
  BY <1>7, LaneAssumption DEF RestOK, Attempts, Points
<1> QED BY <1>4, <1>5, <1>6, <1>8 DEF IInv, TypeOK, RestOK, Sound

LEMMA SpawnPreserves ==
    ASSUME IInv, NEW r \in Runs, NEW p \in Parents, Spawn(r, p)
    PROVE  IInv'
<1> DEFINE d == DepthUnder(p)
           R == Register(reg, r, p, d)
<1>0. RestOK /\ Sound(reg) /\ Sound(saved) /\ FreshIds /\ Positions
      /\ reg \in Registry /\ reg.status \in [Runs -> Statuses]
      /\ \A x \in Runs : reg.status[x] # "none" => x \in Registered(reg)
  BY Disassemble
<1>1. /\ pc[r] = "none" /\ Goto(r, "accepting") /\ MaySpawn(p)
      /\ d <= MaxDepth /\ Cardinality(Children(reg, p)) < MaxChildren
      /\ Commit(R, Live)
      /\ store' = [store EXCEPT ![r] = "active"]
      /\ UNCHANGED <<cancelReq, tries, kill, crashes>>
  BY DEF Spawn, SpawnGuards
<1>2. p \in Runs => pc[p] = "working" /\ reg.status[p] = "running"
  BY <1>0, <1>1, LaneAssumption DEF MaySpawn, Positions
<1>3. p # r /\ (p \in Runs => p \in Registered(reg))
  BY <1>0, <1>1, <1>2
<1>4. Unused(reg, r)
  BY <1>0, <1>1 DEF FreshIds
<1>5. d \in 1 .. MaxDepth /\ (p \in Runs => d = reg.depth[p] + 1)
  BY <1>0, <1>1, <1>2, RegistryFields, LaneAssumption DEF DepthUnder
<1>6. /\ Sound(R) /\ R.status = [reg.status EXCEPT ![r] = "accepted"]
      /\ R.parent = [reg.parent EXCEPT ![r] = p]
  <2> HIDE DEF d
  <2> QED BY <1>0, <1>1, <1>3, <1>4, <1>5, RegisterSound
<1>7. ASSUME NEW x \in Runs \ {r}, Unused(reg, x) PROVE Unused(R, x)
  BY <1>0, <1>2, <1>6, <1>7, RegistryFields DEF Unused
<1>8. Moves(r, "accepting")
  BY <1>0, <1>1, GotoMoves DEF RestOK, Points
<1>9. \A x \in Runs : pc'[x] \in LivePoints => x \in Live
  BY <1>0, <1>1 DEF Goto, Live, LiveIn, LivePoints, RestOK
<1>10. Fits("accepting", R.status[r]) /\ \A x \in Runs \ {r} : R.status[x] = reg.status[x]
  BY <1>0, <1>6 DEF Fits
<1>11. Sound(reg') /\ Sound(saved') /\ FreshIds' /\ Positions'
  <2> HIDE DEF R
  <2> QED BY <1>1, <1>6, <1>7, <1>8, <1>9, <1>10, CommitStep
<1>12. RestOK'
  BY <1>0, <1>1, <1>8 DEF RestOK, Attempts, Moves
<1> QED BY <1>11, <1>12, Assemble

LEMMA SpawnFailsPreserves ==
    ASSUME IInv, NEW r \in Runs, NEW p \in Parents, SpawnFails(r, p)
    PROVE  IInv'
<1> DEFINE d == DepthUnder(p)
<1>0. RestOK /\ Sound(reg) /\ Sound(saved) /\ FreshIds /\ Positions
      /\ reg \in Registry /\ reg.status \in [Runs -> Statuses]
      /\ \A x \in Runs : reg.status[x] # "none" => x \in Registered(reg)
  BY Disassemble
<1>1. /\ pc[r] = "none" /\ Goto(r, "stranded") /\ MaySpawn(p)
      /\ d <= MaxDepth /\ Cardinality(Children(reg, p)) < MaxChildren
      /\ reg' = Enrol(reg, r, p, d)
      /\ store' \in {store, [store EXCEPT ![r] = "active"]}
      /\ UNCHANGED <<saved, cancelReq, tries, kill, crashes>>
  BY DEF SpawnFails, SpawnGuards
<1>2. p \in Runs => pc[p] = "working" /\ reg.status[p] = "running"
  BY <1>0, <1>1, LaneAssumption DEF MaySpawn, Positions
<1>3. p # r /\ (p \in Runs => p \in Registered(reg)) /\ Unused(reg, r)
  BY <1>0, <1>1, <1>2 DEF FreshIds
<1>4. d \in 1 .. MaxDepth /\ (p \in Runs => d = reg.depth[p] + 1)
  BY <1>0, <1>1, <1>2, RegistryFields, LaneAssumption DEF DepthUnder
<1>5. Sound(reg') /\ reg'.status = reg.status /\ reg'.parent = [reg.parent EXCEPT ![r] = p]
  <2> HIDE DEF d
  <2> QED BY <1>0, <1>1, <1>3, <1>4, EnrolSound
<1>6. Moves(r, "stranded")
  BY <1>0, <1>1, GotoMoves DEF RestOK, Points
<1>7. FreshIds'
  <2> SUFFICES ASSUME NEW x \in Runs, pc'[x] = "none" PROVE Unused(reg', x) /\ Unused(saved', x)
    BY DEF FreshIds
  <2>1. x # r /\ pc[x] = "none" /\ x # p
    BY <1>2, <1>6 DEF Moves
  <2> QED BY <1>0, <1>1, <1>5, <2>1, RegistryFields DEF FreshIds, Unused
<1>8. Positions'
  BY <1>0, <1>5, <1>6 DEF Positions, Moves
<1>9. RestOK'
  BY <1>0, <1>1, <1>6 DEF RestOK, Attempts, Moves
<1> QED BY <1>0, <1>1, <1>5, <1>7, <1>8, <1>9, Assemble

\* A step of r alone that commits a registry differing from reg in r's status.
LEMMA StatusStep ==
    ASSUME IInv, NEW r \in Runs, NEW label \in Points \ {"none"}, NEW s \in Statuses \ {"none"},
           reg.status[r] # "none",
           s \in TerminalStatuses \/ reg.status[r] \notin TerminalStatuses,
           Moves(r, label), Fits(label, s), Commit(SetStatus(reg, r, s), LiveIn(pc'))
    PROVE  Sound(reg') /\ Sound(saved') /\ FreshIds' /\ Positions'
<1> DEFINE R == SetStatus(reg, r, s)
<1>0. Sound(reg) /\ reg.status \in [Runs -> Statuses] /\ r \in Registered(reg)
  BY Disassemble
<1>1. Sound(R) /\ R.status = [reg.status EXCEPT ![r] = s] /\ R.parent = reg.parent
  BY <1>0, SetStatusSound
<1>2. /\ Fits(label, R.status[r])
      /\ \A x \in Runs \ {r} : R.status[x] = reg.status[x]
      /\ \A x \in Runs \ {r} : Unused(reg, x) => Unused(R, x)
  BY <1>0, <1>1 DEF Unused
<1>3. \A x \in Runs : pc'[x] \in LivePoints => x \in LiveIn(pc')
  BY DEF LiveIn
<1>4. Commit(R, LiveIn(pc'))
  OBVIOUS
<1> HIDE DEF R
<1> QED BY <1>1, <1>2, <1>3, <1>4, CommitStep

\* A step of r alone that commits the registry as it is, or with a new
\* announcement record.
LEMMA RecommitStep ==
    ASSUME IInv, NEW r \in Runs, NEW label, Moves(r, label), Fits(label, reg.status[r]),
           NEW R, Sound(R), R.status = reg.status, R.parent = reg.parent,
           Commit(R, LiveIn(pc'))
    PROVE  Sound(reg') /\ Sound(saved') /\ FreshIds' /\ Positions'
<1>1. /\ \A x \in Runs : Unused(reg, x) => Unused(R, x)
      /\ \A x \in Runs : pc'[x] \in LivePoints => x \in LiveIn(pc')
  BY DEF Unused, LiveIn
<1> QED BY <1>1, CommitStep

LEMMA ConcludePreserves ==
    ASSUME IInv, NEW r \in Runs, pc[r] \in {"created", "starting", "queued", "working"},
           NEW s \in TerminalStatuses, Conclude(r, s)
    PROVE  IInv'
<1>0. RestOK /\ Positions
  BY Disassemble
<1>1. reg.status[r] \in {"accepted", "running"}
  BY <1>0 DEF Positions
<1>2. "ending" \in Points \ {"none"} /\ "dead" \in Points \ {"none"}
  BY DEF Points, LivePoints
<1>3. /\ cancelReq' = [cancelReq EXCEPT ![r] = FALSE]
      /\ UNCHANGED <<tries, kill, crashes>>
  BY DEF Conclude
<1>4. CASE \E t \in IF StoreMayFail /\ s = "completed" THEN {s, "failed"} ELSE {s} :
            /\ store' = [store EXCEPT ![r] = IF t = "completed" THEN "completed" ELSE "failed"]
            /\ pc' = [Abandon(pc, r) EXCEPT ![r] = "ending"]
            /\ Commit(SetStatus(reg, r, t), LiveIn(pc'))
  <2>1. PICK t \in TerminalStatuses :
            /\ store' = [store EXCEPT ![r] = IF t = "completed" THEN "completed" ELSE "failed"]
            /\ pc' = [Abandon(pc, r) EXCEPT ![r] = "ending"]
            /\ Commit(SetStatus(reg, r, t), LiveIn(pc'))
    BY <1>4 DEF TerminalStatuses
  <2>2. Moves(r, "ending")
    BY <1>0, <1>2, <2>1, AbandonMoves DEF RestOK
  <2>3. Fits("ending", t) /\ t \in Statuses \ {"none"}
    BY DEF Fits, Statuses, TerminalStatuses
  <2>4. Sound(reg') /\ Sound(saved') /\ FreshIds' /\ Positions'
    BY <1>1, <1>2, <2>1, <2>2, <2>3, StatusStep DEF TerminalStatuses
  <2>5. RestOK'
    BY <1>0, <1>3, <2>1, <2>2 DEF RestOK, Attempts, Moves
  <2> QED BY <2>4, <2>5, Assemble
<1>5. CASE pc' = [Abandon(pc, r) EXCEPT ![r] = "dead"] /\ UNCHANGED <<reg, saved, store>>
  <2>1. Moves(r, "dead")
    BY <1>0, <1>2, <1>5, AbandonMoves DEF RestOK
  <2>2. Fits("dead", reg.status[r])
    BY DEF Fits
  <2>3. Sound(reg') /\ Sound(saved') /\ FreshIds' /\ Positions'
    BY <1>5, <2>1, <2>2, QuietStep
  <2>4. RestOK'
    BY <1>0, <1>3, <1>5, <2>1 DEF RestOK, Attempts, Moves
  <2> QED BY <2>3, <2>4, Assemble
<1> QED BY <1>4, <1>5 DEF Conclude

LEMMA LeavePreserves ==
    ASSUME IInv, NEW r \in Runs, NEW label \in {"done", "cut"}, Leave(r, label)
    PROVE  IInv'
<1>0. RestOK /\ Sound(reg)
  BY Disassemble
<1>1. label \in Points \ {"none"}
  BY DEF Points
<1>2. Moves(r, label) /\ Fits(label, reg.status[r])
  BY <1>0, <1>1, GotoMoves DEF Leave, RestOK, Fits
<1>3. Sound(reg') /\ Sound(saved') /\ FreshIds' /\ Positions'
  BY <1>0, <1>2, RecommitStep DEF Leave
<1>4. RestOK'
  BY <1>0, <1>2, LaneAssumption DEF RestOK, Attempts, Moves, Leave
<1> QED BY <1>3, <1>4, Assemble

LEMMA SpawnStepPreserves ==
    ASSUME IInv, NEW r \in Runs, SpawnStep(r)
    PROVE  IInv'
<1>0. RestOK /\ Sound(reg) /\ Positions
  BY Disassemble
<1>1. {"created", "stranded"} \subseteq Points \ {"none"}
  BY DEF Points, LivePoints
<1>2. CASE SpawnReturns(r)
  <2>1. Moves(r, "created") /\ Fits("created", reg.status[r])
    BY <1>0, <1>1, <1>2, GotoMoves DEF SpawnReturns, RestOK, Fits, Positions
  <2>2. Sound(reg') /\ Sound(saved') /\ FreshIds' /\ Positions'
    BY <1>0, <1>2, <2>1, RecommitStep DEF SpawnReturns
  <2>3. RestOK'
    BY <1>0, <1>2, <2>1 DEF RestOK, Attempts, Moves, SpawnReturns
  <2> QED BY <2>2, <2>3, Assemble
<1>3. CASE SpawnAborts(r)
  <2>1. Moves(r, "stranded") /\ Fits("stranded", reg.status[r])
    BY <1>0, <1>1, <1>3, GotoMoves DEF SpawnAborts, RestOK, Fits
  <2>2. Sound(reg') /\ Sound(saved') /\ FreshIds' /\ Positions'
    BY <1>3, <2>1, QuietStep DEF SpawnAborts
  <2>3. RestOK'
    BY <1>0, <1>3, <2>1 DEF RestOK, Attempts, Moves, SpawnAborts
  <2> QED BY <2>2, <2>3, Assemble
<1> QED BY <1>2, <1>3 DEF SpawnStep

\* Begin, and its failing variant.
LEMMA BeginPreserves ==
    ASSUME IInv, NEW r \in Runs, Begin(r) \/ BeginFails(r)
    PROVE  IInv'
<1>0. RestOK /\ Positions
  BY Disassemble
<1>1. {"starting", "dead"} \subseteq Points \ {"none"} /\ "running" \in Statuses \ {"none"}
      /\ "failed" \in TerminalStatuses
  BY DEF Points, LivePoints, Statuses, TerminalStatuses
<1>2. pc[r] = "created" /\ reg.status[r] = "accepted"
  BY <1>0 DEF Begin, BeginFails, Positions
<1>3. CASE BeginFails(r) /\ Conclude(r, "failed")
  BY <1>1, <1>2, <1>3, ConcludePreserves
<1>4. ASSUME NEW label \in {"starting", "dead"}, Goto(r, label),
             Commit(SetStatus(reg, r, "running"), LiveIn(pc')),
             UNCHANGED <<store, cancelReq, tries, kill, crashes>>
      PROVE  IInv'
  <2>1. Moves(r, label) /\ Fits(label, "running")
    BY <1>0, <1>1, <1>4, GotoMoves DEF RestOK, Fits
  <2>2. Sound(reg') /\ Sound(saved') /\ FreshIds' /\ Positions'
    BY <1>1, <1>2, <1>4, <2>1, StatusStep DEF TerminalStatuses
  <2>3. RestOK'
    BY <1>0, <1>4, <2>1 DEF RestOK, Attempts, Moves
  <2> QED BY <2>2, <2>3, Assemble
<1> QED BY <1>3, <1>4 DEF Begin, BeginFails

\* Sending "running", taking the semaphore, sending the terminal status and
\* waiting between two attempts leave the registry alone.
LEMMA QuietPreserves ==
    ASSUME IInv, NEW r \in Runs,
           StartedSent(r) \/ Acquire(r) \/ EndedSent(r) \/ BackoffOver(r)
    PROVE  IInv'
<1>0. RestOK /\ Positions
  BY Disassemble
<1>1. {"queued", "working", "announcing"} \subseteq Points \ {"none"}
  BY DEF Points, LivePoints
<1>2. CASE StartedSent(r) /\ Conclude(r, "failed")
  BY <1>2, ConcludePreserves DEF StartedSent, TerminalStatuses
<1>3. CASE EndedSent(r) /\ Leave(r, "cut")
  BY <1>3, LeavePreserves
<1>4. CASE StartedSent(r) /\ Goto(r, "queued")
           /\ UNCHANGED <<reg, saved, store, cancelReq, tries, kill, crashes>>
  <2>1. Moves(r, "queued") /\ Fits("queued", reg.status[r])
    BY <1>0, <1>1, <1>4, GotoMoves DEF StartedSent, RestOK, Fits, Positions
  <2>2. Sound(reg') /\ Sound(saved') /\ FreshIds' /\ Positions'
    BY <1>4, <2>1, QuietStep
  <2>3. RestOK'
    BY <1>0, <1>4, <2>1 DEF RestOK, Attempts, Moves
  <2> QED BY <2>2, <2>3, Assemble
<1>5. CASE Acquire(r)
  <2>1. Moves(r, "working") /\ Fits("working", reg.status[r])
    BY <1>0, <1>1, <1>5, GotoMoves DEF Acquire, RestOK, Fits, Positions
  <2>2. Sound(reg') /\ Sound(saved') /\ FreshIds' /\ Positions'
    BY <1>5, <2>1, QuietStep DEF Acquire
  <2>3. RestOK'
    BY <1>0, <1>5, <2>1 DEF RestOK, Attempts, Moves, Acquire
  <2> QED BY <2>2, <2>3, Assemble
<1>6. CASE EndedSent(r) /\ Goto(r, "announcing") /\ tries' = [tries EXCEPT ![r] = 1]
           /\ UNCHANGED <<reg, saved, store, cancelReq, kill, crashes>>
  <2>1. Moves(r, "announcing") /\ Fits("announcing", reg.status[r])
    BY <1>0, <1>1, <1>6, GotoMoves DEF EndedSent, RestOK, Fits, Positions
  <2>2. Sound(reg') /\ Sound(saved') /\ FreshIds' /\ Positions'
    BY <1>6, <2>1, QuietStep
  <2>3. RestOK'
    <3>1. 1 \in 0 .. MaxAttempts
      BY LaneAssumption
    <3> QED BY <1>0, <1>6, <2>1, <3>1 DEF RestOK, Attempts, Moves
  <2> QED BY <2>2, <2>3, Assemble
<1>7. CASE BackoffOver(r)
  <2>1. Moves(r, "announcing") /\ Fits("announcing", reg.status[r])
    BY <1>0, <1>1, <1>7, GotoMoves DEF BackoffOver, RestOK, Fits, Positions
  <2>2. Sound(reg') /\ Sound(saved') /\ FreshIds' /\ Positions'
    BY <1>7, <2>1, QuietStep DEF BackoffOver
  <2>3. RestOK'
    <3>1. tries[r] + 1 \in 0 .. MaxAttempts
      BY <1>0, <1>7, LaneAssumption DEF RestOK, Attempts, BackoffOver
    <3> QED BY <1>0, <1>7, <2>1, <3>1 DEF RestOK, Attempts, Moves, BackoffOver
  <2> QED BY <2>2, <2>3, Assemble
<1> QED BY <1>2, <1>3, <1>4, <1>5, <1>6, <1>7 DEF StartedSent, EndedSent

LEMMA AnnouncePreserves ==
    ASSUME IInv, NEW r \in Runs, AnnounceSent(r) \/ AnnounceRaised(r)
    PROVE  IInv'
<1>0. RestOK /\ Positions /\ Sound(reg)
  BY Disassemble
<1>1. {"callback", "backoff"} \subseteq Points \ {"none"}
  BY DEF Points, LivePoints
<1>2. reg.status[r] \in TerminalStatuses
  BY <1>0 DEF AnnounceSent, AnnounceRaised, Positions
<1>3. ASSUME NEW label \in {"callback", "backoff"}, NEW a \in AnnounceStatuses, Goto(r, label),
             Commit([reg EXCEPT !.ann[r] = a], LiveIn(pc'))
      PROVE  Moves(r, label) /\ Sound(reg') /\ Sound(saved') /\ FreshIds' /\ Positions'
  <2>1. Moves(r, label) /\ Fits(label, reg.status[r])
    BY <1>0, <1>1, <1>2, <1>3, GotoMoves DEF RestOK, Fits
  <2>2. /\ Sound([reg EXCEPT !.ann[r] = a])
        /\ [reg EXCEPT !.ann[r] = a].status = reg.status
        /\ [reg EXCEPT !.ann[r] = a].parent = reg.parent
    BY <1>0, AnnounceSound
  <2> QED BY <1>3, <2>1, <2>2, RecommitStep
<1>4. {"announced", "announce_retrying", "announce_failed"} \subseteq AnnounceStatuses
  BY DEF AnnounceStatuses
<1>5. 0 \in 0 .. MaxAttempts
  BY LaneAssumption
<1>6. CASE AnnounceSent(r)
  <2>1. Moves(r, "callback") /\ Sound(reg') /\ Sound(saved') /\ FreshIds' /\ Positions'
    BY <1>3, <1>4, <1>6 DEF AnnounceSent
  <2>2. RestOK'
    BY <1>0, <1>5, <1>6, <2>1 DEF RestOK, Attempts, Moves, AnnounceSent
  <2> QED BY <2>1, <2>2, Assemble
<1>7. CASE AnnounceRaised(r) /\ tries[r] < MaxAttempts
  <2>1. Moves(r, "backoff") /\ Sound(reg') /\ Sound(saved') /\ FreshIds' /\ Positions'
    BY <1>3, <1>4, <1>7 DEF AnnounceRaised
  <2>2. RestOK'
    BY <1>0, <1>7, <2>1 DEF RestOK, Attempts, Moves, AnnounceRaised
  <2> QED BY <2>1, <2>2, Assemble
<1>8. CASE AnnounceRaised(r) /\ ~(tries[r] < MaxAttempts)
  <2>1. Moves(r, "callback") /\ Sound(reg') /\ Sound(saved') /\ FreshIds' /\ Positions'
    BY <1>3, <1>4, <1>8 DEF AnnounceRaised
  <2>2. RestOK'
    BY <1>0, <1>5, <1>8, <2>1 DEF RestOK, Attempts, Moves, AnnounceRaised
  <2> QED BY <2>1, <2>2, Assemble
<1> QED BY <1>6, <1>7, <1>8

LEMMA CancelPreserves ==
    ASSUME IInv, NEW r \in Runs, CancelDelivered(r)
    PROVE  IInv'
<1>0. RestOK
  BY Disassemble
<1>1. CASE pc[r] \in {"starting", "queued", "working"} /\ Conclude(r, "cancelled")
  BY <1>1, ConcludePreserves DEF TerminalStatuses
<1>2. CASE Leave(r, "cut")
  BY <1>2, LeavePreserves
<1>3. CASE /\ Goto(r, "dead") /\ cancelReq' = [cancelReq EXCEPT ![r] = FALSE]
           /\ UNCHANGED <<reg, saved, store, tries, kill, crashes>>
  <2>1. Moves(r, "dead") /\ Fits("dead", reg.status[r])
    BY <1>0, <1>3, GotoMoves DEF RestOK, Points, Fits
  <2>2. Sound(reg') /\ Sound(saved') /\ FreshIds' /\ Positions'
    BY <1>3, <2>1, QuietStep
  <2>3. RestOK'
    BY <1>0, <1>3, <2>1 DEF RestOK, Attempts, Moves
  <2> QED BY <2>2, <2>3, Assemble
<1> QED BY <1>1, <1>2, <1>3 DEF CancelDelivered

LEMMA TaskStepPreserves ==
    ASSUME IInv, NEW r \in Runs, TaskStep(r)
    PROVE  IInv'
<1>1. ASSUME BodyEnds(r) PROVE IInv'
  <2>1. PICK s \in BodyOutcomes : Conclude(r, s)
    BY <1>1 DEF BodyEnds
  <2>2. s \in TerminalStatuses
    BY LaneAssumption DEF TerminalStatuses
  <2> QED BY <1>1, <2>1, <2>2, ConcludePreserves DEF BodyEnds
<1>2. ASSUME CallbackOver(r) PROVE IInv'
  BY <1>2, LeavePreserves DEF CallbackOver
<1> QED BY <1>1, <1>2, BeginPreserves, QuietPreserves, AnnouncePreserves, CancelPreserves
        DEF TaskStep

LEMMA WaitPreserves ==
    ASSUME IInv, WaitReturns
    PROVE  IInv'
<1>0. RestOK /\ Sound(reg) /\ Sound(saved) /\ FreshIds /\ Positions
  BY Disassemble
<1>1. /\ Sound(reg') /\ Sound(saved')
      /\ \A r \in Runs : (r \in Live \/ reg.status[r] \notin TerminalStatuses)
            => reg'.status[r] = reg.status[r]
      /\ \A r \in Runs : (Unused(reg, r) /\ Unused(saved, r))
            => (Unused(reg', r) /\ Unused(saved', r))
  BY <1>0, CommitFacts DEF WaitReturns
<1>2. pc' = pc
  BY DEF WaitReturns
<1>3. FreshIds'
  BY <1>0, <1>1, <1>2 DEF FreshIds
<1>4. Positions'
  BY <1>0, <1>1, <1>2 DEF Positions, TerminalStatuses, Live, LiveIn, LivePoints
<1>5. RestOK'
  BY <1>0 DEF RestOK, Attempts, WaitReturns
<1> QED BY <1>1, <1>3, <1>4, <1>5, Assemble

\* A kill() or kill_all() call in progress stays well-formed.
LEMMA AdvanceTypes ==
    ASSUME RestOK, NEW k \in Killers, NEW call \in KillCalls, Advance(k, call)
    PROVE  kill' \in [Killers -> KillCalls] /\ cancelReq' \in [Runs -> BOOLEAN]
<1>1. CASE kill' = [kill EXCEPT ![k] = Idle] /\ UNCHANGED cancelReq
  <2>1. <<>> \in Seq(Runs)
    BY EmptySeq
  <2>2. Idle \in KillCalls
    BY <2>1 DEF Idle, KillCalls
  <2> QED BY <1>1, <2>2 DEF RestOK
<1>2. ASSUME NEW i \in 1 .. Len(call.todo), call.todo[i] \in Live,
             kill' = [kill EXCEPT ![k] =
                 [call EXCEPT !.on = call.todo[i],
                              !.todo = SubSeq(call.todo, i + 1, Len(call.todo))]],
             cancelReq' = [cancelReq EXCEPT ![call.todo[i]] = TRUE]
      PROVE  kill' \in [Killers -> KillCalls] /\ cancelReq' \in [Runs -> BOOLEAN]
  <2>1. call.todo \in Seq(Runs)
    BY DEF KillCalls
  <2>2. Len(call.todo) \in Nat /\ \A j \in 1 .. Len(call.todo) : call.todo[j] \in Runs
    BY <2>1, LenProperties, ElementOfSeq
  <2>3. SubSeq(call.todo, i + 1, Len(call.todo)) \in Seq(Runs)
    <3>1. \A j \in (i + 1) .. Len(call.todo) : call.todo[j] \in Runs
      BY <2>2
    <3> QED BY <2>2, <3>1, SubSeqProperties
  <2>4. [call EXCEPT !.on = call.todo[i],
                     !.todo = SubSeq(call.todo, i + 1, Len(call.todo))] \in KillCalls
    BY <2>2, <2>3 DEF KillCalls
  <2> QED BY <1>2, <2>4 DEF RestOK
<1> QED BY <1>1, <1>2 DEF Advance

LEMMA TopDownIsSeq ==
    ASSUME NEW S \in SUBSET Runs, NEW q \in TopDown(S)
    PROVE  q \in Seq(Runs)
<1>1. IsFiniteSet(S)
  BY FS_Subset, LaneAssumption
<1>2. Cardinality(S) \in Nat
  BY <1>1, FS_CardinalityType
<1>3. q \in [1 .. Cardinality(S) -> Runs]
  BY DEF TopDown
<1> QED BY <1>2, <1>3, SeqDef

LEMMA KillStepPreserves ==
    ASSUME IInv, NEW k \in Killers, KillStep(k)
    PROVE  IInv'
<1>0. RestOK /\ Sound(reg) /\ Sound(saved) /\ FreshIds /\ Positions
  BY Disassemble
<1>1. ASSUME NEW call \in KillCalls, Advance(k, call),
             UNCHANGED <<reg, saved, store, pc, tries, crashes>>
      PROVE  IInv'
  <2>1. RestOK'
    BY <1>0, <1>1, AdvanceTypes DEF RestOK, Attempts
  <2>2. Sound(reg') /\ Sound(saved') /\ FreshIds' /\ Positions'
    BY <1>0, <1>1 DEF FreshIds, Positions
  <2> QED BY <2>1, <2>2, Assemble
<1>2. ASSUME NEW t \in Runs, NEW cascade \in BOOLEAN, KillAsk(k, t, cascade)
      PROVE  IInv'
  <2> DEFINE below == IF cascade THEN Descendants(reg, t) \ {t} ELSE {}
  <2>1. below \in SUBSET Runs
    BY DEF Descendants
  <2> HIDE DEF below
  <2>2. PICK q \in TopDown(below) :
            Advance(k, [family |-> IF cascade THEN t ELSE NoRun, todo |-> Append(q, t),
                        on |-> NoRun, had |-> {n \in below \cup {t} : HasEntry(n)}])
    BY <1>2 DEF KillAsk, below
  <2>3. Append(q, t) \in Seq(Runs)
    BY <2>1, TopDownIsSeq, AppendProperties
  <2>4. {n \in below \cup {t} : HasEntry(n)} \in SUBSET Runs
    BY <2>1
  <2>5. [family |-> IF cascade THEN t ELSE NoRun, todo |-> Append(q, t),
         on |-> NoRun, had |-> {n \in below \cup {t} : HasEntry(n)}] \in KillCalls
    BY <2>3, <2>4 DEF KillCalls
  <2> QED BY <1>1, <1>2, <2>2, <2>5 DEF KillAsk
<1>3. ASSUME NEW found \in SUBSET Runs, NEW q \in TopDown(found),
             Advance(k, [family |-> NoRun, todo |-> q,
                         on |-> NoRun, had |-> found]),
             UNCHANGED <<reg, saved, store, pc, tries, crashes>>
      PROVE  IInv'
  <2>1. [family |-> NoRun, todo |-> q, on |-> NoRun, had |-> found]
            \in KillCalls
    BY TopDownIsSeq DEF KillCalls
  <2> QED BY <1>1, <1>3, <2>1
<1>4. ASSUME NEW p \in Parents, NEW cascade \in BOOLEAN, KillAllAsk(k, p, cascade)
      PROVE  IInv'
  <2> DEFINE below == IF cascade THEN Descendants(reg, p) ELSE Children(reg, p)
             found == {n \in below : HasEntry(n)}
  <2>1. found \in SUBSET Runs
    BY DEF Descendants, Children
  <2>2. PICK q \in TopDown(found) :
            Advance(k, [family |-> NoRun, todo |-> q,
                        on |-> NoRun, had |-> found])
    BY <1>4 DEF KillAllAsk
  <2>3. UNCHANGED <<reg, saved, store, pc, tries, crashes>>
    BY <1>4 DEF KillAllAsk
  <2> HIDE DEF found
  <2> QED BY <1>3, <2>1, <2>2, <2>3
<1>5. ASSUME KillEverythingAsk(k) PROVE IInv'
  BY <1>3, <1>5 DEF KillEverythingAsk
<1>6. ASSUME KillNext(k) PROVE IInv'
  <2>1. kill[k] \in KillCalls
    BY <1>0 DEF RestOK
  <2> QED BY <1>1, <1>6, <2>1 DEF KillNext
<1> QED BY <1>2, <1>4, <1>5, <1>6 DEF KillStep

\* A restart: whatever copy of the registry is restored, it is sound, and no
\* run is in progress any more.
LEMMA DiePreserves ==
    ASSUME IInv,
           NEW st \in [Runs -> {"none", "active", "completed", "failed"}],
           NEW at, \A x \in Runs : at[x] = "none" => pc[x] = "none",
           DieAndRestore(st, at)
    PROVE  IInv'
<1>0. RestOK /\ Sound(reg) /\ Sound(saved) /\ FreshIds
  BY Disassemble
<1>1. PICK orphans \in SUBSET Orphans(saved) :
        /\ \E marked \in IF StoreMayFail THEN SUBSET orphans ELSE {orphans} :
              store' = MarkFailed(st, marked)
        /\ \E E \in Evictions(Reconciled(saved, orphans), {}) :
              /\ reg' = Evict(Reconciled(saved, orphans), E)
              /\ \/ saved' = Evict(Reconciled(saved, orphans), E)
                 \/ PersistMayFail /\ saved' \in {saved, Reconciled(saved, orphans)}
  BY DEF DieAndRestore
<1>2. PICK E \in Evictions(Reconciled(saved, orphans), {}) :
        /\ reg' = Evict(Reconciled(saved, orphans), E)
        /\ saved' \in {Evict(Reconciled(saved, orphans), E), saved, Reconciled(saved, orphans)}
  BY <1>1
<1> DEFINE R == Reconciled(saved, orphans)
<1>3. /\ Sound(R) /\ R.parent = saved.parent
      /\ \A r \in Runs : saved.status[r] = "none" => R.status[r] = "none"
  BY <1>0, ReconciledSound
<1>4. /\ Sound(Evict(R, E))
      /\ \A r \in Runs : r \notin E => Evict(R, E).status[r] = R.status[r]
      /\ \A r \in Runs : r \in E => Evict(R, E).status[r] = "none"
      /\ \A r \in Runs : Evict(R, E).parent[r] \in {R.parent[r], NoRun}
  BY <1>3, EvictSound
<1>5. ASSUME NEW r \in Runs, Unused(saved, r) PROVE Unused(R, r) /\ Unused(Evict(R, E), r)
  <2>1. Unused(R, r)
    BY <1>3, <1>5 DEF Unused
  <2> QED BY <2>1, <1>4, LaneAssumption DEF Unused
<1>6. Sound(reg') /\ Sound(saved')
  BY <1>0, <1>2, <1>3, <1>4
<1>7. /\ pc' = [r \in Runs |-> IF at[r] = "none" THEN "none" ELSE "gone"]
      /\ cancelReq' = [r \in Runs |-> FALSE] /\ tries' = [r \in Runs |-> 0]
      /\ kill' = [k \in Killers |-> Idle]
      /\ crashes < MaxCrashes /\ crashes' = crashes + 1
  BY DEF DieAndRestore
<1>8. FreshIds'
  BY <1>0, <1>2, <1>5, <1>7 DEF FreshIds
<1>9. Positions'
  BY <1>7 DEF Positions
<1>10. RestOK'
  <2>1. store' \in [Runs -> {"none", "active", "completed", "failed"}]
    BY <1>1 DEF MarkFailed
  <2>2. pc' \in [Runs -> Points] /\ \A r \in Runs : pc'[r] # "backoff"
    BY <1>7 DEF Points
  <2>3. Idle \in KillCalls
    BY EmptySeq DEF Idle, KillCalls
  <2>4. 0 \in 0 .. MaxAttempts /\ crashes' \in 0 .. MaxCrashes
    BY <1>0, <1>7, LaneAssumption DEF RestOK
  <2> QED BY <1>7, <2>1, <2>2, <2>3, <2>4 DEF RestOK, Attempts
<1> QED BY <1>6, <1>8, <1>9, <1>10, Assemble

LEMMA CrashPreserves ==
    ASSUME IInv, CrashStep
    PROVE  IInv'
<1>0. /\ store \in [Runs -> {"none", "active", "completed", "failed"}]
      /\ pc \in [Runs -> Points]
  BY Disassemble DEF RestOK
<1>1. ASSUME Crash PROVE IInv'
  BY <1>0, <1>1, DiePreserves DEF Crash
<1>2. ASSUME NEW r \in Runs, NEW p \in Parents, CrashInSpawn(r, p) PROVE IInv'
  <2>1. [store EXCEPT ![r] = "active"] \in [Runs -> {"none", "active", "completed", "failed"}]
    BY <1>0
  <2>2. \A x \in Runs : [pc EXCEPT ![r] = "accepting"][x] = "none" => pc[x] = "none"
    BY <1>0
  <2> QED BY <1>2, <2>1, <2>2, DiePreserves DEF CrashInSpawn
<1>3. ASSUME NEW r \in Runs, CrashInFinish(r) PROVE IInv'
  <2>1. \A s \in {"completed", "failed"} :
           [store EXCEPT ![r] = s] \in [Runs -> {"none", "active", "completed", "failed"}]
    BY <1>0
  <2> QED BY <1>3, <2>1, DiePreserves DEF CrashInFinish
<1> QED BY <1>1, <1>2, <1>3 DEF CrashStep

LEMMA NextPreserves == IInv /\ [Next]_vars => IInv'
<1> SUFFICES ASSUME IInv, [Next]_vars PROVE IInv'
  OBVIOUS
<1>1. ASSUME NEW r \in Runs, NEW p \in Parents, Spawn(r, p) \/ SpawnFails(r, p) PROVE IInv'
  BY <1>1, SpawnPreserves, SpawnFailsPreserves
<1>2. ASSUME NEW r \in Runs, SpawnStep(r) \/ TaskStep(r) PROVE IInv'
  BY <1>2, SpawnStepPreserves, TaskStepPreserves
<1>3. ASSUME NEW k \in Killers, KillStep(k) PROVE IInv'
  BY <1>3, KillStepPreserves
<1>4. ASSUME UNCHANGED vars PROVE IInv'
  BY <1>4 DEF vars, IInv, TypeOK, Attempts, FreshIds, Positions
<1> QED BY <1>1, <1>2, <1>3, <1>4, WaitPreserves, CrashPreserves DEF Next

-----------------------------------------------------------------------------
(* The theorems *)

\* IInv holds in every reachable state of the lane.
THEOREM Invariance == Spec => []IInv
<1>1. Init => IInv
  BY InitStep
<1> QED BY <1>1, NextPreserves, PTL DEF Spec

\* Every variable of the lane keeps its type: no kill(), retry, failed write or
\* restart leaves the dictionaries of the lane malformed.
THEOREM TypeCorrect == Spec => []TypeOK
<1>1. IInv => TypeOK
  BY DEF IInv
<1> QED BY <1>1, Invariance, PTL

\* No overlap of spawn() calls, no lost registry write and no restart ever lets
\* a parent exceed max_children_per_parent or gives a child a depth other than
\* one more than its registered parent's, in memory and in the registry file.
THEOREM FamilyLimitsHold == Spec => []FamilyLimits
<1>1. IInv => FamilyLimits
  BY DEF IInv, Sound, FamilyLimits
<1> QED BY <1>1, Invariance, PTL

\* _prune_retained_statuses never evicts the parent of an unfinished run, so a
\* running subrun's ancestry is never cut above its parent.
THEOREM ParentRememberedHolds == Spec => []ParentRemembered
<1>1. IInv => ParentRemembered
  BY DEF IInv, Sound, ParentRemembered
<1> QED BY <1>1, Invariance, PTL

-----------------------------------------------------------------------------
(* Retention leaves nothing behind *)

\* Nothing is evictable while the tables are over their limits.
SettledIn(R, active) == Overflow(R) > 0 => \A r \in Runs : ~CanEvict(R, active, r)

\* Evicting n registered terminal runs takes n off both totals.
LEMMA OverflowFalls ==
    ASSUME NEW R, NEW E \in SUBSET Ended(R)
    PROVE  /\ Overflow(R) \in Nat /\ Cardinality(E) \in Nat
           /\ Cardinality(E) >= Overflow(R) => Overflow(Evict(R, E)) = 0
<1> DEFINE V == Evict(R, E)
           t == Cardinality(Registered(R))
           e == Cardinality(Ended(R))
           n == Cardinality(E)
<1>1. E \subseteq Runs /\ E \subseteq Registered(R)
  BY DEF Ended, Registered, TerminalStatuses
<1>2. Registered(V) = Registered(R) \ E /\ Ended(V) = Ended(R) \ E
  BY <1>1 DEF Evict, Registered, Ended, TerminalStatuses
<1>3. IsFiniteSet(Registered(R)) /\ IsFiniteSet(Ended(R)) /\ IsFiniteSet(E)
  BY <1>1, FS_Subset, LaneAssumption DEF Registered, Ended
<1>4. Registered(R) \cap E = E /\ Ended(R) \cap E = E
  BY <1>1
<1>5. Cardinality(Registered(V)) = t - n /\ Cardinality(Ended(V)) = e - n
  <2>1. Cardinality(Registered(R) \ E) = t - n
    BY <1>3, <1>4, FS_Difference
  <2>2. Cardinality(Ended(R) \ E) = e - n
    BY <1>3, <1>4, FS_Difference
  <2> QED BY <1>2, <2>1, <2>2
<1>6. t \in Nat /\ e \in Nat /\ n \in Nat /\ n <= t /\ n <= e
  <2>1. t \in Nat /\ e \in Nat /\ n \in Nat
    BY <1>3, FS_CardinalityType
  <2>2. n <= t
    BY <1>1, <1>3, FS_Subset
  <2>3. n <= e
    BY <1>3, FS_Subset
  <2> QED BY <2>1, <2>2, <2>3
<1>7. MaxEntries \in Nat /\ MaxTerminal \in Nat
  BY LaneAssumption
<1>8. Overflow(R) = IF Over(t, MaxEntries) > Over(e, MaxTerminal)
                    THEN Over(t, MaxEntries) ELSE Over(e, MaxTerminal)
  BY DEF Overflow
<1>9. Overflow(V) = IF Over(t - n, MaxEntries) > Over(e - n, MaxTerminal)
                    THEN Over(t - n, MaxEntries) ELSE Over(e - n, MaxTerminal)
  BY <1>5 DEF Overflow
<1> HIDE DEF V, t, e, n
<1>10. Overflow(R) \in Nat /\ (n >= Overflow(R) => Overflow(V) = 0)
  BY <1>6, <1>7, <1>8, <1>9 DEF Over
<1> QED BY <1>6, <1>10 DEF V, n

\* Retention has taken all it may, or all there was.
LEMMA EvictSettles ==
    ASSUME NEW R, NEW active, NEW E \in Evictions(R, active)
    PROVE  SettledIn(Evict(R, E), active)
<1> DEFINE V == Evict(R, E)
           candidates == {r \in Runs : CanEvict(R, active, r)}
<1>1. /\ E \subseteq candidates
      /\ Cardinality(E) = IF Overflow(R) < Cardinality(candidates)
                           THEN Overflow(R) ELSE Cardinality(candidates)
  BY DEF Evictions
<1>2. E \in SUBSET Ended(R)
  BY <1>1 DEF CanEvict, Ended
<1>3. Overflow(R) \in Nat /\ (Cardinality(E) >= Overflow(R) => Overflow(V) = 0)
  BY <1>2, OverflowFalls
<1>4. IsFiniteSet(candidates)
  BY FS_Subset, LaneAssumption
<1>5. CASE Overflow(R) < Cardinality(candidates)
  BY <1>1, <1>3, <1>5 DEF SettledIn
<1>6. CASE ~(Overflow(R) < Cardinality(candidates))
  <2>1. E = candidates
    BY <1>1, <1>4, <1>6, FS_Subset
  <2>2. ASSUME NEW r \in Runs, CanEvict(V, active, r) PROVE FALSE
    <3>1. V.status[r] \in TerminalStatuses
      BY <2>2 DEF CanEvict
    <3>2. r \notin E /\ V.status[r] = R.status[r]
      BY <3>1 DEF Evict, TerminalStatuses
    <3>3. ASSUME NEW c \in Children(R, r), c \in E
          PROVE  c \notin active /\ R.status[c] \in TerminalStatuses \cup {"none"}
      BY <1>1, <3>3 DEF CanEvict
    <3>4. ASSUME NEW c \in Children(R, r), c \notin E
          PROVE  c \notin active /\ R.status[c] \in TerminalStatuses \cup {"none"}
      <4>1. c \in Children(V, r) /\ V.status[c] = R.status[c]
        BY <3>4 DEF Children, Evict
      <4> QED BY <2>2, <4>1 DEF CanEvict
    <3>5. CanEvict(R, active, r)
      BY <2>2, <3>2, <3>3, <3>4 DEF CanEvict
    <3> QED BY <2>1, <3>2, <3>5
  <2> QED BY <2>2 DEF SettledIn
<1> QED BY <1>5, <1>6

LEMMA CommitSettles ==
    ASSUME NEW R, NEW active, Commit(R, active)
    PROVE  SettledIn(reg', active)
BY EvictSettles DEF Commit

\* A step that leaves the registry alone: only unfinished runs may lose their
\* task.
LEMMA QuietSettles ==
    ASSUME RetentionSettled, UNCHANGED reg,
           \A x \in Runs : (pc[x] \in LivePoints /\ pc'[x] \notin LivePoints)
                => reg.status[x] \in {"accepted", "running"}
    PROVE  RetentionSettled'
<1>1. ASSUME NEW r \in Runs, CanEvict(reg, LiveIn(pc'), r) PROVE CanEvict(reg, Live, r)
  <2>1. ASSUME NEW x \in Runs, x \notin LiveIn(pc'),
               reg.status[x] \in TerminalStatuses \cup {"none"}
        PROVE  x \notin Live
    BY <2>1 DEF Live, LiveIn, TerminalStatuses
  <2> QED BY <1>1, <2>1 DEF CanEvict, Children
<1> QED BY <1>1 DEF RetentionSettled, Live

\* A step that ends in retention.
LEMMA PrunedSettles ==
    ASSUME NEW R, Commit(R, LiveIn(pc'))
    PROVE  RetentionSettled'
BY CommitSettles DEF RetentionSettled, SettledIn, Live

\* The same where no task begins or ends.
LEMMA PrunedBeforeSettles ==
    ASSUME NEW R, Commit(R, Live), LiveIn(pc') = Live
    PROVE  RetentionSettled'
BY CommitSettles DEF RetentionSettled, SettledIn, Live

LEMMA ConcludeSettles ==
    ASSUME IInv, RetentionSettled, NEW r \in Runs, NEW s, Conclude(r, s),
           pc[r] \in {"created", "starting", "queued", "working"}
    PROVE  RetentionSettled'
<1>1. pc \in [Runs -> Points] /\ reg.status[r] \in {"accepted", "running"}
  BY Disassemble DEF RestOK, Positions
<1>2. CASE \E t \in {s, "failed"} : Commit(SetStatus(reg, r, t), LiveIn(pc'))
  BY <1>2, PrunedSettles
<1>3. CASE UNCHANGED reg /\ pc' = [Abandon(pc, r) EXCEPT ![r] = "dead"]
  <2>1. \A x \in Runs \ {r} : pc'[x] = pc[x] \/ pc[x] = "accepting"
    BY <1>1, <1>3 DEF Abandon
  <2>2. \A x \in Runs \ {r} : pc[x] \in LivePoints => pc'[x] \in LivePoints
    BY <2>1 DEF LivePoints
  <2> QED BY <1>1, <1>3, <2>2, QuietSettles
<1> QED BY <1>2, <1>3 DEF Conclude

LEMMA SpawnFailsSettles ==
    ASSUME IInv, RetentionSettled, NEW r \in Runs, NEW p \in Parents, SpawnFails(r, p)
    PROVE  RetentionSettled'
<1>1. /\ pc \in [Runs -> Points] /\ pc[r] = "none" /\ Unused(reg, r) /\ reg \in Registry
      /\ reg' = Enrol(reg, r, p, DepthUnder(p)) /\ pc' = [pc EXCEPT ![r] = "stranded"]
  BY Disassemble DEF SpawnFails, Goto, RestOK, FreshIds
<1>2. LiveIn(pc') = Live
  BY <1>1 DEF Live, LiveIn, LivePoints
<1>3. /\ reg'.status = reg.status
      /\ \A x \in Runs : Children(reg, x) \subseteq Children(reg', x)
  BY <1>1, LaneAssumption DEF Enrol, Children, Unused, Registry
<1>4. Overflow(reg') = Overflow(reg)
  BY <1>3 DEF Overflow, Registered, Ended
<1>5. ASSUME NEW x \in Runs, CanEvict(reg', Live, x) PROVE CanEvict(reg, Live, x)
  BY <1>3, <1>5 DEF CanEvict
<1>6. SettledIn(reg', Live)
  BY <1>4, <1>5 DEF SettledIn, RetentionSettled
<1> QED BY <1>2, <1>6 DEF RetentionSettled, SettledIn, Live

LEMMA TaskStepSettles ==
    ASSUME IInv, RetentionSettled, NEW r \in Runs, TaskStep(r)
    PROVE  RetentionSettled'
<1>1. pc \in [Runs -> Points] /\ Positions
  BY Disassemble DEF RestOK
<1>2. CASE Begin(r)
  BY <1>2, PrunedSettles DEF Begin
<1>3. CASE BeginFails(r)
  BY <1>3, ConcludeSettles, PrunedSettles DEF BeginFails
<1>4. ASSUME NEW label, Goto(r, label), UNCHANGED reg, label \in LivePoints
      PROVE  RetentionSettled'
  BY <1>1, <1>4, QuietSettles DEF Goto
<1>5. CASE StartedSent(r)
  BY <1>4, <1>5, ConcludeSettles DEF StartedSent, LivePoints
<1>6. CASE Acquire(r)
  BY <1>4, <1>6 DEF Acquire, LivePoints
<1>7. CASE BodyEnds(r)
  BY <1>7, ConcludeSettles DEF BodyEnds
<1>8. CASE EndedSent(r)
  BY <1>4, <1>8, PrunedSettles DEF EndedSent, Leave, LivePoints
<1>9. CASE AnnounceSent(r)
  BY <1>9, PrunedSettles DEF AnnounceSent
<1>10. CASE AnnounceRaised(r)
  BY <1>10, PrunedSettles DEF AnnounceRaised
<1>11. CASE BackoffOver(r)
  BY <1>4, <1>11 DEF BackoffOver, LivePoints
<1>12. CASE CallbackOver(r)
  BY <1>12, PrunedSettles DEF CallbackOver, Leave
<1>13. CASE CancelDelivered(r)
  <2>1. CASE pc[r] = "created" /\ Goto(r, "dead") /\ UNCHANGED reg
    BY <1>1, <2>1, QuietSettles DEF Goto, Positions
  <2>2. CASE pc[r] \in {"starting", "queued", "working"} /\ Conclude(r, "cancelled")
    BY <2>2, ConcludeSettles
  <2>3. CASE Leave(r, "cut")
    BY <2>3, PrunedSettles DEF Leave
  <2> QED BY <1>13, <2>1, <2>2, <2>3 DEF CancelDelivered
<1> QED BY <1>2, <1>3, <1>5, <1>6, <1>7, <1>8, <1>9, <1>10, <1>11, <1>12, <1>13 DEF TaskStep

LEMMA DieSettles ==
    ASSUME NEW st, NEW at, DieAndRestore(st, at)
    PROVE  RetentionSettled'
<1>1. PICK orphans \in SUBSET Orphans(saved) :
          \E E \in Evictions(Reconciled(saved, orphans), {}) :
              reg' = Evict(Reconciled(saved, orphans), E)
  BY DEF DieAndRestore
<1>2. LiveIn(pc') = {}
  BY DEF DieAndRestore, LiveIn, LivePoints
<1>3. SettledIn(reg', {})
  BY <1>1, EvictSettles
<1> QED BY <1>2, <1>3 DEF RetentionSettled, SettledIn, Live

LEMMA NextSettles ==
    ASSUME IInv, RetentionSettled, [Next]_vars
    PROVE  RetentionSettled'
<1>1. pc \in [Runs -> Points]
  BY Disassemble DEF RestOK
<1>2. CASE UNCHANGED <<reg, pc>>
  BY <1>2, QuietSettles
<1>3. ASSUME NEW r \in Runs, NEW p \in Parents, Spawn(r, p) PROVE RetentionSettled'
  <2>1. LiveIn(pc') = Live
    BY <1>1, <1>3 DEF Spawn, Goto, Live, LiveIn, LivePoints
  <2> QED BY <1>3, <2>1, PrunedBeforeSettles DEF Spawn
<1>4. ASSUME NEW r \in Runs, SpawnStep(r) PROVE RetentionSettled'
  <2>1. CASE SpawnReturns(r)
    BY <2>1, PrunedSettles DEF SpawnReturns
  <2>2. CASE SpawnAborts(r)
    <3>1. \A x \in Runs : pc[x] \in LivePoints => pc'[x] \in LivePoints
      BY <1>1, <2>2 DEF SpawnAborts, Goto, LivePoints
    <3> QED BY <2>2, <3>1, QuietSettles DEF SpawnAborts
  <2> QED BY <1>4, <2>1, <2>2 DEF SpawnStep
<1>5. CASE \E k \in Killers : KillStep(k)
  BY <1>2, <1>5 DEF KillStep, KillAsk, KillAllAsk, KillEverythingAsk, KillNext
<1>6. CASE WaitReturns
  BY <1>6, PrunedBeforeSettles DEF WaitReturns, Live, LiveIn
<1>7. CASE CrashStep
  BY <1>7, DieSettles DEF CrashStep, Crash, CrashInSpawn, CrashInFinish
<1> QED BY <1>2, <1>3, <1>4, <1>5, <1>6, <1>7, SpawnFailsSettles, TaskStepSettles DEF Next, vars

\* Retention never leaves an evictable run in a table that is over its limits,
\* in any lane, with failing writes and restarts.
THEOREM RetentionSettledHolds == Spec => []RetentionSettled
<1>1. Init => RetentionSettled
  <2> SUFFICES ASSUME Init PROVE \A r \in Runs : ~CanEvict(reg, Live, r)
    BY DEF RetentionSettled
  <2> QED BY DEF Init, EmptyRegistry, CanEvict, TerminalStatuses
<1>2. IInv /\ RetentionSettled /\ [Next]_vars => RetentionSettled'
  BY NextSettles
<1> QED BY <1>1, <1>2, Invariance, PTL DEF Spec

-----------------------------------------------------------------------------
(* A kill that returns leaves none of the tasks it saw *)

\* Where a task that has ended is; no task comes back from there.
OverPoints == {"done", "cut", "dead", "gone"}

\* A run the call found with a task has one or had one; if it has one still,
\* the call has to cancel it yet or awaits its end.
KillSound(call) ==
    \A n \in call.had :
        /\ pc[n] \in LivePoints \cup OverPoints
        /\ pc[n] \in LivePoints => n = call.on \/ \E i \in 1 .. Len(call.todo) : call.todo[i] = n

KInv == IInv /\ \A k \in Killers : KillSound(kill[k])

\* Tasks end for good.
EndsForGood ==
    \A x \in Runs :
        /\ pc[x] \in LivePoints => pc'[x] \in LivePoints \cup OverPoints
        /\ pc[x] \in OverPoints => pc'[x] \in OverPoints

LEMMA GotoEnds ==
    ASSUME pc \in [Runs -> Points], NEW r \in Runs, NEW label, Goto(r, label),
           \/ pc[r] \notin LivePoints \cup OverPoints
           \/ pc[r] \in LivePoints /\ label \in LivePoints \cup OverPoints
    PROVE  EndsForGood
BY DEF Goto, EndsForGood, OverPoints, LivePoints

LEMMA ConcludeEnds ==
    ASSUME pc \in [Runs -> Points], NEW r \in Runs, NEW s, Conclude(r, s), pc[r] \in LivePoints
    PROVE  EndsForGood
<1>1. PICK label \in {"ending", "dead"} : pc' = [Abandon(pc, r) EXCEPT ![r] = label]
  BY DEF Conclude
<1>2. pc'[r] = label
  BY <1>1 DEF Abandon
<1>3. \A x \in Runs \ {r} : pc'[x] = pc[x] \/ pc[x] = "accepting"
  BY <1>1 DEF Abandon
<1> QED BY <1>2, <1>3 DEF EndsForGood, LivePoints, OverPoints

LEMMA TaskStepEnds ==
    ASSUME IInv, NEW r \in Runs, TaskStep(r) \/ SpawnStep(r)
    PROVE  EndsForGood
<1>1. pc \in [Runs -> Points]
  BY Disassemble DEF RestOK
<1>2. CASE SpawnStep(r)
  BY <1>1, <1>2, GotoEnds DEF SpawnStep, SpawnReturns, SpawnAborts, LivePoints, OverPoints
<1>3. ASSUME NEW s, Conclude(r, s), pc[r] \in {"created", "starting", "queued", "working"}
      PROVE  EndsForGood
  BY <1>1, <1>3, ConcludeEnds DEF LivePoints
<1>4. ASSUME NEW label \in LivePoints \cup OverPoints, Goto(r, label), pc[r] \in LivePoints
      PROVE  EndsForGood
  BY <1>1, <1>4, GotoEnds
<1> USE DEF LivePoints, OverPoints
<1>5. CASE Begin(r) \/ BeginFails(r) \/ StartedSent(r) \/ Acquire(r) \/ BodyEnds(r)
  BY <1>3, <1>4, <1>5 DEF Begin, BeginFails, StartedSent, Acquire, BodyEnds
<1>6. CASE EndedSent(r) \/ AnnounceSent(r) \/ AnnounceRaised(r) \/ BackoffOver(r) \/ CallbackOver(r)
  BY <1>4, <1>6 DEF EndedSent, AnnounceSent, AnnounceRaised, BackoffOver, CallbackOver, Leave
<1>7. CASE CancelDelivered(r)
  BY <1>3, <1>4, <1>7 DEF CancelDelivered, Leave
<1> QED BY <1>2, <1>5, <1>6, <1>7 DEF TaskStep

\* Advancing a call: when it returns, nothing it saw is alive.
LEMMA AdvanceSound ==
    ASSUME KInv, NEW k \in Killers, NEW call \in KillCalls, KillSound(call),
           call.on \notin Live, Advance(k, call), UNCHANGED pc
    PROVE  /\ \A j \in Killers : KillSound(kill[j])'
           /\ \A j \in Killers \ {k} : kill'[j] = kill[j]
           /\ kill'[k] = Idle => \A n \in call.had : pc'[n] \notin LivePoints
<1>1. /\ kill \in [Killers -> KillCalls] /\ pc \in [Runs -> Points]
      /\ \A j \in Killers : KillSound(kill[j])
  BY Disassemble DEF KInv, RestOK
<1>2. \A n \in Runs : n \in Live <=> pc[n] \in LivePoints
  BY DEF Live, LiveIn
<1>3. call.todo \in Seq(Runs) /\ call.had \subseteq Runs
  BY DEF KillCalls
<1>4. Len(call.todo) \in Nat /\ \A j \in 1 .. Len(call.todo) : call.todo[j] \in Runs
  BY <1>3, LenProperties, ElementOfSeq
<1>5. ASSUME \A i \in 1 .. Len(call.todo) : call.todo[i] \notin Live,
             kill' = [kill EXCEPT ![k] = Idle]
      PROVE  /\ KillSound(kill[k])' /\ \A n \in call.had : pc'[n] \notin LivePoints
             /\ \A j \in Killers \ {k} : kill'[j] = kill[j]
  <2>1. kill'[k].had = {}
    BY <1>1, <1>5 DEF Idle
  <2>2. \A n \in call.had : pc[n] \notin LivePoints
    BY <1>2, <1>3, <1>5 DEF KillSound
  <2> QED BY <1>1, <1>5, <2>1, <2>2 DEF KillSound
<1>6. ASSUME NEW i \in 1 .. Len(call.todo), call.todo[i] \in Live,
             \A j \in 1 .. (i - 1) : call.todo[j] \notin Live,
             kill' = [kill EXCEPT ![k] =
                 [call EXCEPT !.on = call.todo[i],
                              !.todo = SubSeq(call.todo, i + 1, Len(call.todo))]]
      PROVE  /\ KillSound(kill[k])' /\ kill'[k] # Idle
             /\ \A j \in Killers \ {k} : kill'[j] = kill[j]
  <2> DEFINE rest == SubSeq(call.todo, i + 1, Len(call.todo))
  <2>1. /\ kill'[k].on = call.todo[i] /\ kill'[k].todo = rest /\ kill'[k].had = call.had
        /\ \A j \in Killers \ {k} : kill'[j] = kill[j]
    BY <1>1, <1>6 DEF KillCalls
  <2>2. /\ Len(rest) = Len(call.todo) - i
        /\ \A j \in 1 .. Len(rest) : rest[j] = call.todo[i + j]
    <3>1. \A j \in (i + 1) .. Len(call.todo) : call.todo[j] \in Runs
      BY <1>4
    <3> QED BY <1>3, <1>4, <3>1, SubSeqProperties
  <2> HIDE DEF rest
  <2>3. ASSUME NEW n \in call.had, pc[n] \in LivePoints
        PROVE  n = call.todo[i] \/ \E j \in 1 .. Len(rest) : rest[j] = n
    <3>1. PICK m \in 1 .. Len(call.todo) : call.todo[m] = n
      BY <1>2, <1>3, <2>3 DEF KillSound
    <3>2. ~(m < i)
      BY <1>2, <1>3, <1>4, <1>6, <2>3, <3>1
    <3>3. CASE m > i
      <4>1. m - i \in 1 .. Len(rest) /\ rest[m - i] = call.todo[m]
        BY <1>4, <2>2, <3>3
      <4> QED BY <3>1, <4>1
    <3> QED BY <1>4, <3>1, <3>2, <3>3
  <2>4. kill'[k] # Idle
    BY <1>4, <2>1, LaneAssumption DEF Idle, Parents
  <2> QED BY <2>1, <2>3, <2>4 DEF KillSound
<1>7. /\ KillSound(kill[k])'
      /\ kill'[k] = Idle => \A n \in call.had : pc'[n] \notin LivePoints
      /\ \A j \in Killers \ {k} : kill'[j] = kill[j]
  BY <1>5, <1>6 DEF Advance
<1>8. ASSUME NEW j \in Killers \ {k} PROVE KillSound(kill[j])'
  BY <1>1, <1>7 DEF KillSound
<1> QED BY <1>7, <1>8

\* A list of a set without repetitions holds every member.
LEMMA TopDownLists ==
    ASSUME NEW S \in SUBSET Runs, NEW q \in TopDown(S)
    PROVE  \A n \in S : \E i \in 1 .. Len(q) : q[i] = n
<1>1. IsFiniteSet(S) /\ Cardinality(S) \in Nat
  BY FS_Subset, FS_CardinalityType, LaneAssumption
<1> DEFINE m == Cardinality(S)
<1> HIDE DEF m
<1>2. m = Cardinality(S) /\ m \in Nat
  BY <1>1 DEF m
<1>3. q \in [1 .. m -> S] /\ \A i, j \in 1 .. m : i < j => q[i] # q[j]
  BY <1>2 DEF TopDown
<1>4. q \in Injection(1 .. m, S)
  <2>1. \A i, j \in 1 .. m : i # j => q[i] # q[j]
    BY <1>2, <1>3
  <2> QED BY <1>3, <2>1 DEF Injection, IsInjective
<1>5. Cardinality(1 .. m) = m
  BY <1>2, FS_Interval
<1>6. q \in Surjection(1 .. m, S)
  BY <1>1, <1>2, <1>4, <1>5, FS_Injection
<1>7. Len(q) = m
  <2>1. q \in Seq(Runs) /\ DOMAIN q = 1 .. m
    BY <1>3, TopDownIsSeq
  <2> QED BY <1>2, <2>1, LenProperties
<1> QED BY <1>6, <1>7 DEF Surjection

LEMMA KillStepSound ==
    ASSUME KInv, NEW k \in Killers, KillStep(k)
    PROVE  /\ UNCHANGED pc /\ \A j \in Killers : KillSound(kill[j])'
           /\ \A j \in Killers \ {k} : kill'[j] = kill[j]
           /\ (kill[k] # Idle /\ kill'[k] = Idle)
                 => \A n \in kill[k].had : pc'[n] \notin LivePoints
<1>1. /\ kill \in [Killers -> KillCalls] /\ pc \in [Runs -> Points]
      /\ \A j \in Killers : KillSound(kill[j])
  BY Disassemble DEF KInv, RestOK
<1>2. ASSUME NEW list \in Seq(Runs), NEW found \in SUBSET Runs, NEW f \in Runs \cup {NoRun},
             \A n \in found : HasEntry(n) /\ \E i \in 1 .. Len(list) : list[i] = n,
             Advance(k, [family |-> f, todo |-> list, on |-> NoRun, had |-> found]),
             UNCHANGED pc
      PROVE  /\ \A j \in Killers : KillSound(kill[j])'
             /\ \A j \in Killers \ {k} : kill'[j] = kill[j]
  <2> DEFINE call == [family |-> f, todo |-> list, on |-> NoRun, had |-> found]
  <2>1. call \in KillCalls
    BY DEF KillCalls
  <2>2. KillSound(call)
    BY <1>2 DEF KillSound, HasEntry, OverPoints
  <2>3. call.on \notin Live
    BY LaneAssumption DEF Live, LiveIn
  <2>4. Advance(k, call)
    BY <1>2
  <2> HIDE DEF call
  <2> QED BY <1>2, <2>1, <2>2, <2>3, <2>4, AdvanceSound
<1>3. ASSUME NEW t \in Runs, NEW cascade \in BOOLEAN, KillAsk(k, t, cascade)
      PROVE  /\ UNCHANGED pc /\ kill[k] = Idle /\ \A j \in Killers : KillSound(kill[j])'
             /\ \A j \in Killers \ {k} : kill'[j] = kill[j]
  <2> DEFINE below == IF cascade THEN Descendants(reg, t) \ {t} ELSE {}
             found == {n \in below \cup {t} : HasEntry(n)}
  <2>1. below \in SUBSET Runs
    BY DEF Descendants
  <2> HIDE DEF below
  <2>2. PICK q \in TopDown(below) :
            Advance(k, [family |-> IF cascade THEN t ELSE NoRun, todo |-> Append(q, t),
                        on |-> NoRun, had |-> found])
    BY <1>3 DEF KillAsk, below
  <2>3. q \in Seq(Runs) /\ Append(q, t) \in Seq(Runs)
    BY <2>1, TopDownIsSeq, AppendProperties
  <2>4. \A n \in below : \E i \in 1 .. Len(q) : q[i] = n
    BY <2>1, TopDownLists
  <2>5. /\ Len(Append(q, t)) = Len(q) + 1 /\ Append(q, t)[Len(q) + 1] = t /\ Len(q) \in Nat
        /\ \A i \in 1 .. Len(q) : Append(q, t)[i] = q[i]
    BY <2>3, AppendProperties, LenProperties
  <2>6. \A n \in found : HasEntry(n) /\ \E i \in 1 .. Len(Append(q, t)) : Append(q, t)[i] = n
    BY <2>4, <2>5
  <2>7. found \in SUBSET Runs /\ (IF cascade THEN t ELSE NoRun) \in Runs \cup {NoRun}
    BY <2>1
  <2>8. UNCHANGED pc /\ kill[k] = Idle
    BY <1>3 DEF KillAsk
  <2> HIDE DEF found
  <2> QED BY <1>2, <2>2, <2>3, <2>6, <2>7, <2>8
<1>4. ASSUME NEW found \in SUBSET Runs, \A n \in found : HasEntry(n), NEW q \in TopDown(found),
             Advance(k, [family |-> NoRun, todo |-> q, on |-> NoRun, had |-> found]),
             UNCHANGED pc
      PROVE  /\ \A j \in Killers : KillSound(kill[j])'
             /\ \A j \in Killers \ {k} : kill'[j] = kill[j]
  <2>1. q \in Seq(Runs) /\ \A n \in found : \E i \in 1 .. Len(q) : q[i] = n
    BY TopDownIsSeq, TopDownLists
  <2>2. \A n \in found : HasEntry(n) /\ \E i \in 1 .. Len(q) : q[i] = n
    BY <1>4, <2>1
  <2> QED BY <1>2, <1>4, <2>1, <2>2
<1>5. ASSUME NEW p \in Parents, NEW cascade \in BOOLEAN, KillAllAsk(k, p, cascade)
      PROVE  /\ UNCHANGED pc /\ kill[k] = Idle /\ \A j \in Killers : KillSound(kill[j])'
             /\ \A j \in Killers \ {k} : kill'[j] = kill[j]
  <2> DEFINE below == IF cascade THEN Descendants(reg, p) ELSE Children(reg, p)
             found == {n \in below : HasEntry(n)}
  <2>1. found \in SUBSET Runs /\ \A n \in found : HasEntry(n)
    BY DEF Descendants, Children
  <2>2. /\ UNCHANGED pc /\ kill[k] = Idle
        /\ \E q \in TopDown(found) :
              Advance(k, [family |-> NoRun, todo |-> q, on |-> NoRun, had |-> found])
    BY <1>5 DEF KillAllAsk
  <2> HIDE DEF found
  <2> QED BY <1>4, <2>1, <2>2
<1>6. ASSUME KillEverythingAsk(k)
      PROVE  /\ UNCHANGED pc /\ kill[k] = Idle /\ \A j \in Killers : KillSound(kill[j])'
             /\ \A j \in Killers \ {k} : kill'[j] = kill[j]
  <2> DEFINE found == {n \in Runs : HasEntry(n)}
  <2>1. found \in SUBSET Runs /\ \A n \in found : HasEntry(n)
    OBVIOUS
  <2>2. /\ UNCHANGED pc /\ kill[k] = Idle
    BY <1>6 DEF KillEverythingAsk
  <2>3. PICK q \in TopDown(found) :
            Advance(k, [family |-> NoRun, todo |-> q, on |-> NoRun, had |-> found])
    BY <1>6 DEF KillEverythingAsk
  <2> HIDE DEF found
  <2> QED BY <1>4, <2>1, <2>2, <2>3
<1>7. CASE KillNext(k)
  <2>1. kill[k] \in KillCalls /\ KillSound(kill[k])
    BY <1>1
  <2>2. kill[k].on \notin Live /\ Advance(k, kill[k]) /\ UNCHANGED pc
    BY <1>7 DEF KillNext
  <2> QED BY <2>1, <2>2, AdvanceSound
<1> QED BY <1>3, <1>5, <1>6, <1>7 DEF KillStep

\* What a step that is no kill does to the kills under way.
LEMMA OtherStepSound ==
    ASSUME KInv, EndsForGood, UNCHANGED kill
    PROVE  \A j \in Killers : KillSound(kill[j])'
<1>1. kill \in [Killers -> KillCalls] /\ \A j \in Killers : KillSound(kill[j])
  BY Disassemble DEF KInv, RestOK
<1> QED BY <1>1 DEF KillSound, EndsForGood, KillCalls, OverPoints, LivePoints

LEMMA CrashSound ==
    ASSUME CrashStep
    PROVE  /\ \A j \in Killers : KillSound(kill[j])'
           /\ \A n \in Runs : pc'[n] \notin LivePoints
<1>1. ASSUME NEW st, NEW at, DieAndRestore(st, at)
      PROVE  /\ \A j \in Killers : KillSound(kill[j])'
             /\ \A n \in Runs : pc'[n] \notin LivePoints
  <2>1. /\ pc' = [r \in Runs |-> IF at[r] = "none" THEN "none" ELSE "gone"]
        /\ \A j \in Killers : kill'[j].had = {}
    BY <1>1 DEF DieAndRestore, Idle
  <2> QED BY <2>1 DEF KillSound, LivePoints
<1> QED BY <1>1 DEF CrashStep, Crash, CrashInSpawn, CrashInFinish

LEMMA KillsSound ==
    ASSUME KInv, [Next]_vars
    PROVE  /\ \A j \in Killers : KillSound(kill[j])'
           /\ \A k \in Killers : (kill[k] # Idle /\ kill'[k] = Idle)
                 => \A n \in kill[k].had : pc'[n] \notin LivePoints
<1>1. kill \in [Killers -> KillCalls] /\ pc \in [Runs -> Points] /\ IInv
  BY Disassemble DEF KInv, RestOK
<1>2. CASE UNCHANGED kill /\ EndsForGood
  BY <1>2, OtherStepSound
<1>3. CASE UNCHANGED <<kill, pc>>
  BY <1>2, <1>3 DEF EndsForGood
<1>4. ASSUME NEW r \in Runs, NEW p \in Parents, Spawn(r, p) \/ SpawnFails(r, p)
      PROVE  UNCHANGED kill /\ EndsForGood
  BY <1>1, <1>4, GotoEnds DEF Spawn, SpawnFails, LivePoints, OverPoints
<1>5. ASSUME NEW r \in Runs, SpawnStep(r) \/ TaskStep(r)
      PROVE  UNCHANGED kill /\ EndsForGood
  <2>1. EndsForGood
    BY <1>1, <1>5, TaskStepEnds
  <2>2. UNCHANGED kill
    BY <1>5 DEF SpawnStep, SpawnReturns, SpawnAborts, TaskStep, Begin, BeginFails, StartedSent,
                Acquire, BodyEnds, EndedSent, AnnounceSent, AnnounceRaised, BackoffOver,
                CallbackOver, CancelDelivered, Conclude, Leave
  <2> QED BY <2>1, <2>2
<1>6. CASE \E k \in Killers : KillStep(k)
  <2>1. PICK k \in Killers : KillStep(k)
    BY <1>6
  <2>2. /\ UNCHANGED pc /\ \A j \in Killers : KillSound(kill[j])'
        /\ \A j \in Killers \ {k} : kill'[j] = kill[j]
        /\ (kill[k] # Idle /\ kill'[k] = Idle)
              => \A n \in kill[k].had : pc'[n] \notin LivePoints
    BY <2>1, KillStepSound
  <2> QED BY <2>2
<1>7. CASE CrashStep
  <2>1. \A k \in Killers : kill[k].had \subseteq Runs
    BY <1>1 DEF KillCalls
  <2> QED BY <1>7, <2>1, CrashSound
<1>8. CASE WaitReturns
  BY <1>3, <1>8 DEF WaitReturns
<1>9. CASE UNCHANGED vars
  BY <1>3, <1>9 DEF vars
<1> QED BY <1>2, <1>4, <1>5, <1>6, <1>7, <1>8, <1>9 DEF Next

\* When kill() or kill_all() returns, no run it saw with a task has a live
\* task, in any lane and with any fault.
THEOREM KillFinishesWhatItSawHolds == Spec => KillFinishesWhatItSaw
<1>1. Init => KInv
  <2>1. Init => IInv
    BY InitStep
  <2>2. Init => \A k \in Killers : KillSound(kill[k])
    BY DEF Init, Idle, KillSound
  <2> QED BY <2>1, <2>2 DEF KInv
<1>2. KInv /\ [Next]_vars => KInv'
  <2> SUFFICES ASSUME KInv, [Next]_vars PROVE KInv'
    OBVIOUS
  <2>1. IInv' /\ \A j \in Killers : KillSound(kill[j])'
    BY NextPreserves, KillsSound DEF KInv
  <2> QED BY <2>1 DEF KInv
<1>3. KInv /\ [Next]_vars =>
        [\A k \in Killers : (kill[k] # Idle /\ kill'[k] = Idle)
            => \A n \in kill[k].had : pc'[n] \notin LivePoints]_vars
  BY KillsSound
<1> QED BY <1>1, <1>2, <1>3, PTL DEF Spec, KillFinishesWhatItSaw

-----------------------------------------------------------------------------
(* SubrunLane implements SubrunLifecycle, and the registry agrees with the *)
(* run documents, for every value of the constants under which writes      *)
(* succeed and a restart reconciles every unfinished run.  Kills, failing  *)
(* sends, retries, timeouts and crashes between any two writes are         *)
(* included.                                                               *)

-----------------------------------------------------------------------------
(* The inductive invariant *)

\* What the theorems assume of the constants.
Reliable == ~StoreMayFail /\ ~PersistMayFail /\ ~OrphanGrace

\* The file is the registry, and an id that was not handed out has no document.
LInv ==
    /\ IInv
    /\ saved = reg
    /\ \A r \in Runs : pc[r] = "none" => store[r] = "none"

\* A step of the contract for every run, which keeps LInv.
Simulates ==
    /\ \A x \in Runs : Lifecycle!Move(x)
    /\ saved' = reg'
    /\ \A x \in Runs : pc'[x] = "none" => pc[x] = "none" /\ store'[x] = store[x]

LEMMA Fields ==
    ASSUME IInv
    PROVE  /\ reg \in Registry /\ reg.status \in [Runs -> Statuses]
           /\ store \in [Runs -> {"none", "active", "completed", "failed"}]
           /\ pc \in [Runs -> Points] /\ Positions /\ FreshIds
BY RegistryFields DEF IInv, TypeOK

-----------------------------------------------------------------------------
(* Moves of one run *)

\* A run whose document stays and whose snapshot stays or is forgotten.
LEMMA KeepsOrForgets ==
    ASSUME NEW x \in Runs, store'[x] = store[x],
           \/ reg'.status[x] = reg.status[x]
           \/ reg.status[x] \in TerminalStatuses /\ reg'.status[x] = "none"
    PROVE  Lifecycle!Move(x)
BY DEF Lifecycle!Move, Lifecycle!Same, Lifecycle!Forget, Lifecycle!Terminal, TerminalStatuses

LEMMA Starts ==
    ASSUME NEW x \in Runs, store'[x] = store[x],
           reg.status[x] = "accepted", reg'.status[x] = "running"
    PROVE  Lifecycle!Move(x)
BY DEF Lifecycle!Move, Lifecycle!Start

LEMMA Accepts ==
    ASSUME NEW x \in Runs, store[x] = "none", store'[x] = "active",
           reg.status[x] = "none", reg'.status[x] = "accepted"
    PROVE  Lifecycle!Move(x)
BY DEF Lifecycle!Move, Lifecycle!Accept

LEMMA Finishes ==
    ASSUME NEW x \in Runs, reg.status[x] = "running",
           NEW s \in TerminalStatuses, reg'.status[x] = s,
           store'[x] = IF s = "completed" THEN "completed" ELSE "failed"
    PROVE  Lifecycle!Move(x)
<1>1. Lifecycle!Finish(x, s)
  BY DEF Lifecycle!Finish, Lifecycle!Terminal, Lifecycle!VerdictOf, TerminalStatuses
<1> QED BY <1>1 DEF Lifecycle!Move, Lifecycle!Terminal, TerminalStatuses

\* A restart declares an unfinished run failed and may forget it at once.
LEMMA IsReconciled ==
    ASSUME NEW x \in Runs, reg.status[x] \in {"accepted", "running"},
           reg'.status[x] \in {"failed", "none"}, store'[x] = "failed"
    PROVE  Lifecycle!Move(x)
<1>1. Lifecycle!Finish(x, "failed") \/ Lifecycle!FailAndForget(x)
  BY DEF Lifecycle!Finish, Lifecycle!FailAndForget, Lifecycle!Terminal, Lifecycle!VerdictOf
<1> QED BY <1>1 DEF Lifecycle!Move, Lifecycle!Terminal

LEMMA Orphaned ==
    ASSUME NEW x \in Runs, reg.status[x] = "none", reg'.status[x] = "none",
           store[x] = "none", store'[x] = "active"
    PROVE  Lifecycle!Move(x)
BY DEF Lifecycle!Move, Lifecycle!Orphan

-----------------------------------------------------------------------------
(* Steps *)

\* Prune and persist: a run keeps its status or, ended and without task, is
\* forgotten.
LEMMA CommitMoves ==
    ASSUME Reliable, NEW R, NEW active, Commit(R, active)
    PROVE  /\ saved' = reg'
           /\ \A x \in Runs :
                 \/ reg'.status[x] = R.status[x]
                 \/ /\ x \notin active /\ R.status[x] \in TerminalStatuses
                    /\ reg'.status[x] = "none"
<1>1. PICK E \in Evictions(R, active) : reg' = Evict(R, E) /\ saved' = Evict(R, E)
  BY DEF Commit, Reliable
<1>2. \A x \in E : x \notin active /\ R.status[x] \in TerminalStatuses
  BY EvictionsAreEvictable DEF CanEvict
<1> QED BY <1>1, <1>2 DEF Evict

\* A step that touches neither record of any run.
LEMMA QuietSimulates ==
    ASSUME LInv, UNCHANGED <<reg, saved, store>>,
           \A x \in Runs : pc'[x] = "none" => pc[x] = "none"
    PROVE  Simulates
BY KeepsOrForgets DEF LInv, Simulates

\* A step that only prunes and persists, or records an announcement.
LEMMA RecommitSimulates ==
    ASSUME LInv, Reliable, NEW R, R.status = reg.status, NEW active, Commit(R, active),
           store' = store, \A x \in Runs : pc'[x] = "none" => pc[x] = "none"
    PROVE  Simulates
BY CommitMoves, KeepsOrForgets DEF Simulates

LEMMA SpawnSimulates ==
    ASSUME LInv, Reliable, NEW r \in Runs, NEW p \in Parents, Spawn(r, p)
    PROVE  Simulates
<1>1. /\ reg \in Registry /\ reg.status \in [Runs -> Statuses]
      /\ store \in [Runs -> {"none", "active", "completed", "failed"}]
      /\ pc \in [Runs -> Points] /\ FreshIds
  BY Fields DEF LInv
<1> DEFINE R == Register(reg, r, p, DepthUnder(p))
<1>2. R.status = [reg.status EXCEPT ![r] = "accepted"]
  BY <1>1 DEF Register, Enrol, Registry
<1> HIDE DEF R
<1>3. /\ pc[r] = "none" /\ Commit(R, Live) /\ store' = [store EXCEPT ![r] = "active"]
      /\ pc' = [pc EXCEPT ![r] = "accepting"]
  BY DEF Spawn, Goto, R
<1>4. store[r] = "none" /\ reg.status[r] = "none"
  BY <1>1, <1>3 DEF LInv, FreshIds, Unused
<1>5. /\ saved' = reg'
      /\ \A x \in Runs :
            \/ reg'.status[x] = R.status[x]
            \/ R.status[x] \in TerminalStatuses /\ reg'.status[x] = "none"
  BY <1>3, CommitMoves
<1>6. Lifecycle!Move(r)
  BY <1>1, <1>2, <1>3, <1>4, <1>5, Accepts DEF TerminalStatuses
<1>7. ASSUME NEW x \in Runs, x # r PROVE Lifecycle!Move(x)
  BY <1>1, <1>2, <1>3, <1>5, <1>7, KeepsOrForgets
<1>8. \A x \in Runs : pc'[x] = "none" => pc[x] = "none" /\ store'[x] = store[x]
  BY <1>1, <1>3
<1> QED BY <1>5, <1>6, <1>7, <1>8 DEF Simulates

LEMMA BeginSimulates ==
    ASSUME LInv, Reliable, NEW r \in Runs, Begin(r)
    PROVE  Simulates
<1>1. /\ reg \in Registry /\ reg.status \in [Runs -> Statuses]
      /\ pc \in [Runs -> Points] /\ Positions
  BY Fields DEF LInv
<1> DEFINE R == SetStatus(reg, r, "running")
<1>2. R.status = [reg.status EXCEPT ![r] = "running"]
  BY <1>1 DEF SetStatus, Registry
<1> HIDE DEF R
<1>3. /\ pc[r] = "created" /\ Commit(R, LiveIn(pc')) /\ store' = store
      /\ pc' = [pc EXCEPT ![r] = "starting"]
  BY DEF Begin, Goto, R
<1>4. reg.status[r] = "accepted"
  BY <1>1, <1>3 DEF Positions
<1>5. /\ saved' = reg'
      /\ \A x \in Runs :
            \/ reg'.status[x] = R.status[x]
            \/ R.status[x] \in TerminalStatuses /\ reg'.status[x] = "none"
  BY <1>3, CommitMoves
<1>6. Lifecycle!Move(r)
  BY <1>1, <1>2, <1>3, <1>4, <1>5, Starts DEF TerminalStatuses
<1>7. ASSUME NEW x \in Runs, x # r PROVE Lifecycle!Move(x)
  BY <1>1, <1>2, <1>3, <1>5, <1>7, KeepsOrForgets
<1>8. \A x \in Runs : pc'[x] = "none" => pc[x] = "none" /\ store'[x] = store[x]
  BY <1>1, <1>3
<1> QED BY <1>5, <1>6, <1>7, <1>8 DEF Simulates

\* The terminal document and the terminal status, which no task can miss: the
\* run is still live, so retention spares it.
LEMMA ConcludeSimulates ==
    ASSUME LInv, Reliable, NEW r \in Runs, pc[r] \in {"starting", "queued", "working"},
           NEW s \in TerminalStatuses, Conclude(r, s)
    PROVE  Simulates
<1>1. /\ reg \in Registry /\ reg.status \in [Runs -> Statuses]
      /\ store \in [Runs -> {"none", "active", "completed", "failed"}]
      /\ pc \in [Runs -> Points] /\ Positions
  BY Fields DEF LInv
<1> DEFINE R == SetStatus(reg, r, s)
<1>2. R.status = [reg.status EXCEPT ![r] = s]
  BY <1>1 DEF SetStatus, Registry
<1> HIDE DEF R
<1>3. /\ store' = [store EXCEPT ![r] = IF s = "completed" THEN "completed" ELSE "failed"]
      /\ pc' = [Abandon(pc, r) EXCEPT ![r] = "ending"]
      /\ Commit(R, LiveIn(pc'))
  BY DEF Conclude, Reliable, R
<1>4. reg.status[r] = "running"
  BY <1>1 DEF Positions
<1>5. r \in LiveIn(pc')
  BY <1>3 DEF LiveIn, LivePoints, Abandon
<1>6. /\ saved' = reg'
      /\ \A x \in Runs :
            \/ reg'.status[x] = R.status[x]
            \/ /\ x \notin LiveIn(pc') /\ R.status[x] \in TerminalStatuses
               /\ reg'.status[x] = "none"
  BY <1>3, CommitMoves
<1>7. Lifecycle!Move(r)
  <2>1. reg'.status[r] = s
    BY <1>1, <1>2, <1>5, <1>6
  <2>2. store'[r] = IF s = "completed" THEN "completed" ELSE "failed"
    BY <1>1, <1>3
  <2> QED BY <1>4, <2>1, <2>2, Finishes
<1>8. ASSUME NEW x \in Runs, x # r PROVE Lifecycle!Move(x)
  BY <1>1, <1>2, <1>3, <1>6, <1>8, KeepsOrForgets
<1>9. \A x \in Runs : pc'[x] = "none" => pc[x] = "none" /\ store'[x] = store[x]
  BY <1>1, <1>3 DEF Abandon
<1> QED BY <1>6, <1>7, <1>8, <1>9 DEF Simulates

LEMMA LeaveSimulates ==
    ASSUME LInv, Reliable, NEW r \in Runs, NEW label \in {"cut", "done"}, Leave(r, label)
    PROVE  Simulates
<1>1. pc \in [Runs -> Points]
  BY Fields DEF LInv
<1>2. Commit(reg, LiveIn(pc')) /\ store' = store /\ pc' = [pc EXCEPT ![r] = label]
  BY DEF Leave, Goto
<1> QED BY <1>1, <1>2, RecommitSimulates

LEMMA AnnounceSimulates ==
    ASSUME LInv, Reliable, NEW r \in Runs, AnnounceSent(r) \/ AnnounceRaised(r)
    PROVE  Simulates
<1>1. pc \in [Runs -> Points] /\ reg \in Registry
  BY Fields DEF LInv
<1>2. /\ store' = store
      /\ \E a \in AnnounceStatuses : Commit([reg EXCEPT !.ann[r] = a], LiveIn(pc'))
      /\ \E label \in {"callback", "backoff"} : pc' = [pc EXCEPT ![r] = label]
  BY DEF AnnounceSent, AnnounceRaised, Goto, AnnounceStatuses
<1>3. PICK a \in AnnounceStatuses : Commit([reg EXCEPT !.ann[r] = a], LiveIn(pc'))
  BY <1>2
<1>4. [reg EXCEPT !.ann[r] = a].status = reg.status
  BY <1>1 DEF Registry
<1>5. \A x \in Runs : pc'[x] = "none" => pc[x] = "none"
  BY <1>1, <1>2
<1> QED BY <1>2, <1>3, <1>4, <1>5, RecommitSimulates

LEMMA SpawnStepSimulates ==
    ASSUME LInv, Reliable, NEW r \in Runs, SpawnStep(r)
    PROVE  Simulates
<1>1. pc \in [Runs -> Points]
  BY Fields DEF LInv
<1>2. CASE SpawnReturns(r)
  BY <1>1, <1>2, RecommitSimulates DEF SpawnReturns, Goto
<1>3. CASE SpawnAborts(r)
  BY <1>1, <1>3, QuietSimulates DEF SpawnAborts, Goto
<1> QED BY <1>2, <1>3 DEF SpawnStep

LEMMA TaskStepSimulates ==
    ASSUME LInv, Reliable, NEW r \in Runs, TaskStep(r)
    PROVE  Simulates
<1>1. pc \in [Runs -> Points] /\ pc \in [Runs -> Points]
  BY Fields DEF LInv
<1>2. ASSUME NEW label \in {"queued", "working", "announcing", "dead"}, Goto(r, label),
             UNCHANGED <<reg, saved, store>>
      PROVE  Simulates
  BY <1>1, <1>2, QuietSimulates DEF Goto
<1>3. CASE BeginFails(r)
  BY <1>3 DEF BeginFails, Reliable
<1>4. CASE StartedSent(r)
  BY <1>2, <1>4, ConcludeSimulates DEF StartedSent, TerminalStatuses
<1>5. CASE Acquire(r)
  BY <1>2, <1>5 DEF Acquire
<1>6. CASE BodyEnds(r)
  <2>1. PICK s \in BodyOutcomes : Conclude(r, s)
    BY <1>6 DEF BodyEnds
  <2>2. s \in TerminalStatuses
    BY LaneAssumption DEF TerminalStatuses
  <2> QED BY <1>6, <2>1, <2>2, ConcludeSimulates DEF BodyEnds
<1>7. CASE EndedSent(r)
  BY <1>2, <1>7, LeaveSimulates DEF EndedSent
<1>8. CASE BackoffOver(r)
  BY <1>2, <1>8 DEF BackoffOver
<1>9. CASE CallbackOver(r)
  BY <1>9, LeaveSimulates DEF CallbackOver
<1>10. CASE CancelDelivered(r)
  BY <1>2, <1>10, ConcludeSimulates, LeaveSimulates DEF CancelDelivered, TerminalStatuses
<1> QED BY <1>3, <1>4, <1>5, <1>6, <1>7, <1>8, <1>9, <1>10, BeginSimulates, AnnounceSimulates
        DEF TaskStep

\* A restart from the file: unfinished runs fail in both records, and a document
\* written just before the crash belongs to an unfinished or unregistered run.
LEMMA DieSimulates ==
    ASSUME LInv, Reliable, NEW st, NEW at, DieAndRestore(st, at),
           \A x \in Runs : at[x] = "none" => pc[x] = "none" /\ st[x] = store[x],
           \A x \in Runs : \/ st[x] = store[x]
                           \/ reg.status[x] = "running"
                           \/ reg.status[x] = "none" /\ store[x] = "none" /\ st[x] = "active"
    PROVE  Simulates
<1>1. /\ reg \in Registry /\ reg.status \in [Runs -> Statuses]
      /\ pc \in [Runs -> Points] /\ FreshIds /\ saved = reg
  BY Fields DEF LInv
<1> DEFINE R == Reconciled(reg, Orphans(reg))
<1>2. /\ store' = MarkFailed(st, Orphans(reg))
      /\ \E E \in Evictions(R, {}) : reg' = Evict(R, E) /\ saved' = Evict(R, E)
  BY <1>1 DEF DieAndRestore, Reliable
<1>3. R.status = [x \in Runs |-> IF x \in Orphans(reg) THEN "failed" ELSE reg.status[x]]
  BY <1>1 DEF Reconciled, Registry
<1> HIDE DEF R
<1>4. /\ saved' = reg'
      /\ \A x \in Runs :
            \/ reg'.status[x] = R.status[x]
            \/ R.status[x] \in TerminalStatuses /\ reg'.status[x] = "none"
  <2>1. PICK E \in Evictions(R, {}) : reg' = Evict(R, E) /\ saved' = Evict(R, E)
    BY <1>2
  <2>2. \A x \in E : R.status[x] \in TerminalStatuses
    BY EvictionsAreEvictable DEF CanEvict
  <2> QED BY <2>1, <2>2 DEF Evict
<1>5. \A x \in Runs : store'[x] = IF x \in Orphans(reg) THEN "failed" ELSE st[x]
  BY <1>2 DEF MarkFailed
<1>6. ASSUME NEW x \in Runs PROVE Lifecycle!Move(x)
  <2>1. CASE x \in Orphans(reg)
    <3>1. reg.status[x] \in {"accepted", "running"} /\ R.status[x] = "failed"
      BY <1>3, <2>1 DEF Orphans
    <3> QED BY <1>4, <1>5, <2>1, <3>1, IsReconciled
  <2>2. CASE x \notin Orphans(reg)
    <3>1. R.status[x] = reg.status[x] /\ store'[x] = st[x] /\ reg.status[x] # "running"
      BY <1>3, <1>5, <2>2 DEF Orphans
    <3>2. CASE st[x] = store[x]
      BY <1>4, <3>1, <3>2, KeepsOrForgets
    <3>3. CASE reg.status[x] = "none" /\ store[x] = "none" /\ st[x] = "active"
      BY <1>4, <3>1, <3>3, Orphaned DEF TerminalStatuses
    <3> QED BY <3>1, <3>2, <3>3
  <2> QED BY <2>1, <2>2
<1>7. ASSUME NEW x \in Runs, pc'[x] = "none" PROVE pc[x] = "none" /\ store'[x] = store[x]
  <2>1. pc[x] = "none" /\ st[x] = store[x]
    BY <1>7 DEF DieAndRestore
  <2>2. x \notin Orphans(reg)
    BY <1>1, <2>1 DEF FreshIds, Unused, Orphans
  <2> QED BY <1>5, <2>1, <2>2
<1> QED BY <1>4, <1>6, <1>7 DEF Simulates

LEMMA CrashSimulates ==
    ASSUME LInv, Reliable, CrashStep
    PROVE  Simulates
<1>1. /\ store \in [Runs -> {"none", "active", "completed", "failed"}]
      /\ pc \in [Runs -> Points] /\ Positions /\ FreshIds
  BY Fields DEF LInv
<1>2. CASE Crash
  BY <1>2, DieSimulates DEF Crash
<1>3. ASSUME NEW r \in Runs, NEW p \in Parents, CrashInSpawn(r, p) PROVE Simulates
  <2> DEFINE st == [store EXCEPT ![r] = "active"]
             at == [pc EXCEPT ![r] = "accepting"]
  <2>1. DieAndRestore(st, at) /\ pc[r] = "none"
    BY <1>3 DEF CrashInSpawn
  <2>2. store[r] = "none" /\ reg.status[r] = "none"
    BY <1>1, <2>1 DEF LInv, FreshIds, Unused
  <2>3. \A x \in Runs : at[x] = "none" => pc[x] = "none" /\ st[x] = store[x]
    BY <1>1
  <2>4. \A x \in Runs : \/ st[x] = store[x]
                        \/ reg.status[x] = "none" /\ store[x] = "none" /\ st[x] = "active"
    BY <1>1, <2>2
  <2> HIDE DEF st, at
  <2> QED BY <2>1, <2>3, <2>4, DieSimulates
<1>4. ASSUME NEW r \in Runs, CrashInFinish(r) PROVE Simulates
  <2>1. PICK s \in {"completed", "failed"} :
            DieAndRestore([store EXCEPT ![r] = s], pc) /\ pc[r] \in {"starting", "queued", "working"}
    BY <1>4 DEF CrashInFinish
  <2> DEFINE st == [store EXCEPT ![r] = s]
  <2>2. reg.status[r] = "running" /\ pc[r] # "none"
    BY <1>1, <2>1 DEF Positions
  <2>3. \A x \in Runs : pc[x] = "none" => pc[x] = "none" /\ st[x] = store[x]
    BY <1>1, <2>2
  <2>4. \A x \in Runs : st[x] = store[x] \/ reg.status[x] = "running"
    BY <1>1, <2>2
  <2>5. DieAndRestore(st, pc)
    BY <2>1
  <2> HIDE DEF st
  <2> QED BY <2>3, <2>4, <2>5, DieSimulates
<1> QED BY <1>2, <1>3, <1>4 DEF CrashStep

LEMMA NextSimulates ==
    ASSUME LInv, Reliable, [Next]_vars
    PROVE  Simulates
<1>1. ASSUME NEW r \in Runs, NEW p \in Parents, Spawn(r, p) \/ SpawnFails(r, p)
      PROVE  Simulates
  BY <1>1, SpawnSimulates DEF SpawnFails, Reliable
<1>2. ASSUME NEW r \in Runs, SpawnStep(r) \/ TaskStep(r) PROVE Simulates
  BY <1>2, SpawnStepSimulates, TaskStepSimulates
<1>3. ASSUME NEW k \in Killers, KillStep(k) PROVE Simulates
  <2>1. UNCHANGED <<reg, saved, store, pc>>
    BY <1>3 DEF KillStep, KillAsk, KillAllAsk, KillEverythingAsk, KillNext
  <2> QED BY <2>1, QuietSimulates
<1>4. CASE WaitReturns
  BY <1>4, RecommitSimulates DEF WaitReturns
<1>5. CASE UNCHANGED vars
  BY <1>5, QuietSimulates DEF vars
<1> QED BY <1>1, <1>2, <1>3, <1>4, <1>5, CrashSimulates DEF Next

-----------------------------------------------------------------------------
(* The theorems *)

LEMMA LInvHolds == ASSUME Reliable PROVE Spec => []LInv
<1>1. Init => LInv
  BY InitStep DEF Init, LInv
<1>2. LInv /\ [Next]_vars => LInv'
  <2> SUFFICES ASSUME LInv, [Next]_vars PROVE LInv'
    OBVIOUS
  <2>1. IInv'
    BY NextPreserves DEF LInv
  <2>2. Simulates
    BY NextSimulates
  <2> QED BY <2>1, <2>2 DEF LInv, Simulates
<1> QED BY <1>1, <1>2, PTL DEF Spec

\* Without failing writes, the status snapshots and the run documents together
\* take only the steps of SubrunLifecycle: terminal statuses are final and are
\* published with their verdict, through kills, retention and crashes.
THEOREM LifecycleImplemented == ASSUME Reliable PROVE Spec => ImplementsLifecycle
<1>1. Init => Lifecycle!AInit
  BY DEF Init, EmptyRegistry, Lifecycle!AInit
<1>2. LInv /\ [Next]_vars => [Lifecycle!ANext]_(Lifecycle!avars)
  BY NextSimulates DEF Simulates, Lifecycle!ANext
<1> QED BY <1>1, <1>2, LInvHolds, PTL DEF Spec, ImplementsLifecycle, Lifecycle!ASpec

\* Without failing writes, the document of every registered run says what its
\* status says, also after a crash between the two writes.
THEOREM RegistryMatchesStoreHolds == ASSUME Reliable PROVE Spec => []RegistryMatchesStore
<1>1. Init => RegistryMatchesStore
  BY DEF Init, EmptyRegistry, RegistryMatchesStore, Registered
<1>2. LInv /\ RegistryMatchesStore /\ [Next]_vars => RegistryMatchesStore'
  <2> SUFFICES ASSUME LInv, RegistryMatchesStore, [Next]_vars, NEW x \in Runs,
                      reg'.status[x] # "none"
               PROVE  store'[x] = CASE reg'.status[x] \in {"accepted", "running"} -> "active"
                                    [] reg'.status[x] = "completed" -> "completed"
                                    [] OTHER -> "failed"
    BY DEF RegistryMatchesStore, Registered
  <2>1. Lifecycle!Move(x)
    BY NextSimulates DEF Simulates
  <2>2. reg.status[x] # "none" =>
            store[x] = CASE reg.status[x] \in {"accepted", "running"} -> "active"
                         [] reg.status[x] = "completed" -> "completed"
                         [] OTHER -> "failed"
    BY DEF RegistryMatchesStore, Registered
  <2> QED BY <2>1, <2>2 DEF Lifecycle!Move, Lifecycle!Same, Lifecycle!Accept, Lifecycle!Start,
             Lifecycle!Forget, Lifecycle!FailAndForget, Lifecycle!Orphan, Lifecycle!Finish,
             Lifecycle!VerdictOf, Lifecycle!Terminal
<1> QED BY <1>1, <1>2, LInvHolds, PTL DEF Spec
=============================================================================
