----------------------------- MODULE Lists_proofs -----------------------------
(***************************************************************************)
(* What the operators of Lists give, and the facts about numbers and ranks  *)
(* this rests on; the proofs of the components cite them.  What is defined  *)
(* by recursion is followed with UpTo, an induction about a set, since a    *)
(* set can be instantiated where a formula cannot.                          *)
(***************************************************************************)
EXTENDS Lists, SequencesExt, FiniteSetTheorems, SequenceTheorems, WellFoundedInduction, TLAPS

-----------------------------------------------------------------------------
(* Numbers *)

\* A set of numbers has a least one.
LEMMA LeastNumber ==
    ASSUME NEW T, T \subseteq Nat, T # {}
    PROVE  \E x \in T : \A y \in T : x <= y
<1>1. IsWellFoundedOn(OpToRel(<, Nat), Nat)
  BY NatLessThanWellFounded
<1>2. PICK x \in T : \A y \in T : <<y, x>> \notin OpToRel(<, Nat)
  BY <1>1, WFMin
<1>3. \A y \in T : ~(y < x)
  BY <1>2 DEF OpToRel
<1> QED
  BY <1>3

\* A bounded one has a largest.
LEMMA LargestNumber ==
    ASSUME NEW T, NEW K \in Nat, T \subseteq 0 .. K, T # {}
    PROVE  \E x \in T : \A y \in T : y <= x
<1> DEFINE gaps == {K - x : x \in T}
<1>1. gaps \subseteq Nat /\ gaps # {}
  <2>1. PICK x \in T : TRUE
    OBVIOUS
  <2>2. K - x \in gaps
    OBVIOUS
  <2>3. \A y \in T : K - y \in Nat
    OBVIOUS
  <2> QED
    BY <2>2, <2>3
<1>2. PICK g \in gaps : \A h \in gaps : g <= h
  BY <1>1, LeastNumber
<1>3. PICK x \in T : g = K - x
  OBVIOUS
<1>4. \A y \in T : K - x <= K - y
  BY <1>2, <1>3
<1> QED
  BY <1>4

\* Induction, about a set in place of a formula.
LEMMA UpTo ==
    ASSUME NEW n \in Nat, NEW T, 0 \in T, \A k \in 1..n : k - 1 \in T => k \in T
    PROVE  \A k \in 0..n : k \in T
<1> DEFINE bad == (0..n) \ T
<1>1. SUFFICES ASSUME bad # {} PROVE FALSE
  BY DEF bad
<1>2. PICK k \in bad : \A y \in bad : k <= y
  <2>1. bad \subseteq Nat
    OBVIOUS
  <2> HIDE DEF bad
  <2> QED
    BY <1>1, <2>1, LeastNumber
<1>3. k \in 1..n /\ k - 1 \in 0..n /\ k - 1 < k
  BY <1>2
<1>4. k - 1 \in T
  BY <1>2, <1>3
<1> QED
  BY <1>2, <1>3, <1>4

\* A function on 1..n is a list.
LEMMA ListOf ==
    ASSUME NEW n \in Nat, NEW S, NEW f \in [1..n -> S]
    PROVE  f \in Seq(S) /\ Len(f) = n
<1>1. f \in Seq(S)
  BY IsASeq
<1> QED
  BY <1>1, LenProperties

LEMMA FirstAtFits ==
    ASSUME NEW places, places \subseteq Nat, places # {}
    PROVE  FirstAt(places) \in places /\ \A j \in places : FirstAt(places) <= j
<1>1. \E i \in places : \A j \in places : i <= j
  BY LeastNumber
<1> QED
  BY <1>1 DEF FirstAt

-----------------------------------------------------------------------------
(* Slices and sublists *)

\* A slice of the last n is no longer than n and has elements of the list.
LEMMA LatestFits ==
    ASSUME NEW S, NEW seq \in Seq(S), NEW n \in Nat
    PROVE  /\ Latest(seq, n) \in Seq(S)
           /\ Len(Latest(seq, n)) = IF Len(seq) > n THEN n ELSE Len(seq)
           /\ Len(seq) > n => \A i \in 1..n : Latest(seq, n)[i] = seq[Len(seq) - n + i]
<1>1. CASE Len(seq) > n
  BY <1>1 DEF Latest
<1>2. CASE ~(Len(seq) > n)
  BY <1>2 DEF Latest
<1> QED
  BY <1>1, <1>2

\* Some place is the m-th of the places.
LEMMA RankExists ==
    ASSUME NEW n \in Nat, NEW I \in SUBSET (1 .. n), NEW m \in 1 .. Cardinality(I)
    PROVE  \E i \in I : Cardinality({j \in I : j <= i}) = m
<1> DEFINE Upto(k) == {j \in I : j <= k}
           T == {k \in Nat : Cardinality(Upto(k)) >= m}
<1>1. IsFiniteSet(I) /\ Cardinality(I) \in Nat /\ m \in Nat /\ m >= 1 /\ m <= Cardinality(I)
  <2>1. IsFiniteSet(1 .. n)
    BY FS_Interval
  <2>2. IsFiniteSet(I)
    BY <2>1, FS_Subset
  <2> QED
    BY <2>2, FS_CardinalityType
<1>2. \A k \in Nat : IsFiniteSet(Upto(k)) /\ Cardinality(Upto(k)) \in Nat
  <2>1. \A k \in Nat : Upto(k) \subseteq I
    OBVIOUS
  <2> HIDE DEF Upto
  <2> QED
    BY <1>1, <2>1, FS_Subset, FS_CardinalityType
<1>a. \A i \in I : i \in Nat /\ 1 <= i /\ i <= n
  OBVIOUS
<1>3. Upto(n) = I /\ Upto(0) = {}
  <2>1. \A i \in I : i <= n /\ ~(i <= 0)
    BY <1>a
  <2> QED
    BY <2>1
<1>4. n \in T /\ T \subseteq Nat
  BY <1>1, <1>3
<1>5. PICK k \in T : \A y \in T : k <= y
  <2> HIDE DEF T
  <2> QED
    BY <1>4, LeastNumber
<1>6. k \in Nat /\ Cardinality(Upto(k)) \in Nat /\ Cardinality(Upto(k)) >= m
  BY <1>2, <1>5
<1>7. k # 0
  BY <1>1, <1>3, <1>6, FS_EmptySet
<1>8. k - 1 \in Nat /\ Cardinality(Upto(k - 1)) \in Nat /\ Cardinality(Upto(k - 1)) < m
  <2>1. k - 1 \in Nat /\ k - 1 < k
    BY <1>6, <1>7
  <2>2. k - 1 \notin T
    <3> HIDE DEF T
    <3> QED
      BY <1>5, <1>6, <2>1
  <2>3. ~(Cardinality(Upto(k - 1)) >= m)
    BY <2>1, <2>2
  <2> HIDE DEF Upto, T
  <2> QED
    BY <1>1, <1>2, <2>1, <2>3
<1>9. Upto(k) = Upto(k - 1) \/ (k \in I /\ Upto(k) = Upto(k - 1) \union {k} /\ k \notin Upto(k - 1))
  <2>1. \A i \in I : i <= k <=> i <= k - 1 \/ i = k
    BY <1>a, <1>6
  <2>2. ~(k <= k - 1)
    BY <1>6
  <2>3. \A i : i \in Upto(k) <=> i \in Upto(k - 1) \/ (i \in I /\ i = k)
    BY <2>1
  <2>4. k \notin Upto(k - 1)
    BY <2>2
  <2> HIDE DEF Upto
  <2> QED
    BY <2>3, <2>4
<1>10. k \in I /\ Upto(k) = Upto(k - 1) \union {k} /\ k \notin Upto(k - 1)
  <2> HIDE DEF Upto
  <2> QED
    BY <1>1, <1>6, <1>8, <1>9
<1>11. Cardinality(Upto(k)) = Cardinality(Upto(k - 1)) + 1
  <2> HIDE DEF Upto
  <2> QED
    BY <1>2, <1>8, <1>10, FS_AddElement
<1>12. Cardinality(Upto(k)) = m
  <2> HIDE DEF Upto, T
  <2> QED
    BY <1>1, <1>6, <1>8, <1>11
<1> QED
  BY <1>10, <1>12

\* A sublist has elements of the same set.
LEMMA OnlyAtFits ==
    ASSUME NEW S, NEW seq \in Seq(S), NEW P \in SUBSET DOMAIN seq
    PROVE  OnlyAt(seq, P) \in Seq(S)
<1>1. Len(seq) \in Nat /\ P \in SUBSET (1 .. Len(seq)) /\ \A i \in P : seq[i] \in S
  OBVIOUS
<1>2. Cardinality(P) \in Nat
  <2>1. IsFiniteSet(P)
    BY <1>1, FS_Interval, FS_Subset
  <2> QED
    BY <2>1, FS_CardinalityType
<1>3. ASSUME NEW n \in 1 .. Cardinality(P)
      PROVE  seq[CHOOSE i \in P : Cardinality({j \in P : j <= i}) = n] \in S
  <2>1. \E i \in P : Cardinality({j \in P : j <= i}) = n
    BY <1>1, RankExists
  <2>2. (CHOOSE i \in P : Cardinality({j \in P : j <= i}) = n) \in P
    BY <2>1
  <2> QED
    BY <1>1, <2>2
<1>4. OnlyAt(seq, P) \in [1 .. Cardinality(P) -> S]
  BY <1>3 DEF OnlyAt
<1> QED
  BY <1>2, <1>4

\* A place has a rank, and no other place has the same.
LEMMA RankOfPlace ==
    ASSUME NEW n \in Nat, NEW P \in SUBSET (1 .. n)
    PROVE  /\ \A i \in P : Cardinality({j \in P : j <= i}) \in 1 .. Cardinality(P)
           /\ \A i, k \in P : Cardinality({j \in P : j <= i}) = Cardinality({j \in P : j <= k}) => i = k
<1> DEFINE Upto(i) == {j \in P : j <= i}
<1>1. IsFiniteSet(P) /\ Cardinality(P) \in Nat
  <2>1. IsFiniteSet(1 .. n)
    BY FS_Interval
  <2>2. IsFiniteSet(P)
    BY <2>1, FS_Subset
  <2> QED
    BY <2>2, FS_CardinalityType
<1>2. \A i \in P : i \in Nat /\ i \in Upto(i) /\ Upto(i) \subseteq P
  OBVIOUS
<1>3. ASSUME NEW i \in P, NEW k \in P, i < k PROVE Upto(i) \subseteq Upto(k) /\ k \notin Upto(i)
  <2>1. \A j \in P : j <= i => j <= k
    BY <1>2, <1>3
  <2>2. ~(k <= i)
    BY <1>2, <1>3
  <2> QED
    BY <2>1, <2>2
<1> HIDE DEF Upto
<1>4. \A i \in P : IsFiniteSet(Upto(i)) /\ Cardinality(Upto(i)) \in Nat /\ Cardinality(Upto(i)) <= Cardinality(P)
                   /\ Cardinality(Upto(i)) # 0
  BY <1>1, <1>2, FS_Subset, FS_CardinalityType, FS_EmptySet
<1>5. ASSUME NEW i \in P, NEW k \in P, i < k PROVE Cardinality(Upto(i)) # Cardinality(Upto(k))
  <2>1. Upto(i) \subseteq Upto(k) /\ Upto(i) # Upto(k)
    BY <1>2, <1>3, <1>5
  <2> QED
    BY <1>4, <2>1, FS_Subset
<1>6. \A i, k \in P : Cardinality(Upto(i)) = Cardinality(Upto(k)) => i = k
  <2> SUFFICES ASSUME NEW i \in P, NEW k \in P, Cardinality(Upto(i)) = Cardinality(Upto(k)), i # k PROVE FALSE
    OBVIOUS
  <2>1. i < k \/ k < i
    BY <1>2
  <2> QED
    BY <1>5, <2>1
<1> QED
  BY <1>1, <1>4, <1>6 DEF Upto

\* A sublist has the elements at its places, and repeats none if they do not.
LEMMA OnlyAtHas ==
    ASSUME NEW S, NEW seq \in Seq(S), NEW P \in SUBSET DOMAIN seq
    PROVE  /\ ToSet(OnlyAt(seq, P)) = {seq[i] : i \in P}
           /\ (\A i, k \in P : seq[i] = seq[k] => i = k) => IsInjective(OnlyAt(seq, P))
<1> DEFINE rank(i) == Cardinality({j \in P : j <= i})
           place(m) == CHOOSE i \in P : rank(i) = m
           only == OnlyAt(seq, P)
<1>1. Len(seq) \in Nat /\ P \in SUBSET (1 .. Len(seq))
  OBVIOUS
<1>2. /\ \A i \in P : rank(i) \in 1 .. Cardinality(P)
      /\ \A i, k \in P : rank(i) = rank(k) => i = k
  BY <1>1, RankOfPlace
<1>3. \A m \in 1 .. Cardinality(P) : \E i \in P : rank(i) = m
  BY <1>1, RankExists
<1>4. only = [m \in 1 .. Cardinality(P) |-> seq[place(m)]]
  BY DEF OnlyAt
<1> HIDE DEF rank, only
<1>5. \A m \in 1 .. Cardinality(P) : place(m) \in P /\ rank(place(m)) = m
  BY <1>3
<1>6. \A i \in P : place(rank(i)) = i
  BY <1>2, <1>5
<1> HIDE DEF place
<1>7. DOMAIN only = 1 .. Cardinality(P) /\ \A m \in 1 .. Cardinality(P) : only[m] = seq[place(m)]
  BY <1>4
<1>8. ToSet(only) = {seq[i] : i \in P}
  <2>1. \A x : x \in ToSet(only) <=> \E m \in 1 .. Cardinality(P) : x = seq[place(m)]
    BY <1>7 DEF ToSet
  <2>2. \A x : (\E m \in 1 .. Cardinality(P) : x = seq[place(m)]) <=> x \in {seq[i] : i \in P}
    <3>1. ASSUME NEW m \in 1 .. Cardinality(P) PROVE seq[place(m)] \in {seq[i] : i \in P}
      BY <1>5
    <3>2. ASSUME NEW i \in P PROVE \E m \in 1 .. Cardinality(P) : seq[i] = seq[place(m)]
      BY <1>2, <1>6
    <3> QED
      BY <3>1, <3>2
  <2> QED
    BY <2>1, <2>2
<1>9. ASSUME \A i, k \in P : seq[i] = seq[k] => i = k PROVE IsInjective(only)
  <2> SUFFICES ASSUME NEW m \in DOMAIN only, NEW l \in DOMAIN only, only[m] = only[l] PROVE m = l
    BY DEF IsInjective
  <2>1. place(m) \in P /\ place(l) \in P /\ seq[place(m)] = seq[place(l)]
    BY <1>5, <1>7
  <2>2. place(m) = place(l)
    BY <1>9, <2>1
  <2> QED
    BY <1>5, <1>7, <2>2
<1> QED
  BY <1>8, <1>9 DEF only

\* Without x, the rest stays.
LEMMA WithoutHas ==
    ASSUME NEW S, NEW seq \in Seq(S), NEW x
    PROVE  /\ Without(seq, x) \in Seq(S)
           /\ ToSet(Without(seq, x)) = ToSet(seq) \ {x}
           /\ IsInjective(seq) => IsInjective(Without(seq, x))
<1> DEFINE P == {i \in DOMAIN seq : seq[i] # x}
<1>1. P \in SUBSET DOMAIN seq /\ Without(seq, x) = OnlyAt(seq, P)
  BY DEF Without
<1>2. {seq[i] : i \in P} = ToSet(seq) \ {x}
  BY DEF ToSet
<1>3. IsInjective(seq) => \A i, k \in P : seq[i] = seq[k] => i = k
  BY DEF IsInjective
<1> HIDE DEF P
<1> QED
  BY <1>1, <1>2, <1>3, OnlyAtFits, OnlyAtHas

-----------------------------------------------------------------------------
(* Sums *)

\* The recursion has a solution, and the sum is its last value.
LEMMA SumSteps ==
    ASSUME NEW seq \in Seq(Int)
    PROVE  \E f : /\ f = [i \in 0..Len(seq) |-> IF i = 0 THEN 0 ELSE f[i - 1] + seq[i]]
                  /\ SumOf(seq) = f[Len(seq)]
<1> DEFINE n == Len(seq)
           Upto(f, k) == f = [i \in 0..k |-> IF i = 0 THEN 0 ELSE f[i - 1] + seq[i]]
           bad == {k \in 0..n : ~ \E f : Upto(f, k)}
           upTo == CHOOSE f : Upto(f, n)
<1>1. n \in Nat
  OBVIOUS
<1>2. bad = {}
  <2> SUFFICES ASSUME bad # {} PROVE FALSE
    OBVIOUS
  <2>1. PICK k \in bad : \A y \in bad : k <= y
    <3>1. bad \subseteq Nat
      BY <1>1
    <3> HIDE DEF bad
    <3> QED
      BY <3>1, LeastNumber
  <2>2. k \in 0..n /\ ~ \E f : Upto(f, k)
    BY <2>1
  <2>3. Upto([i \in 0..0 |-> 0], 0)
    OBVIOUS
  <2>4. k # 0
    BY <2>2, <2>3
  <2>5. k - 1 \in 0..n /\ k - 1 < k
    BY <1>1, <2>2, <2>4
  <2>6. k - 1 \notin bad
    <3> HIDE DEF bad
    <3> QED
      BY <1>1, <2>1, <2>2, <2>5
  <2>7. PICK f : Upto(f, k - 1)
    BY <2>5, <2>6
  <2> DEFINE g == [i \in 0..k |-> IF i = k THEN f[k - 1] + seq[k] ELSE f[i]]
  <2>8. ASSUME NEW i \in 0..k PROVE g[i] = IF i = 0 THEN 0 ELSE g[i - 1] + seq[i]
    <3>1. CASE i = k
      <4>1. g[k] = f[k - 1] + seq[k] /\ g[k - 1] = f[k - 1]
        BY <1>1, <2>2, <2>4, <2>5
      <4> QED
        BY <2>4, <3>1, <4>1
    <3>2. CASE i # k
      <4>1. i \in 0..(k - 1)
        BY <1>1, <2>2, <3>2
      <4>2. f[i] = IF i = 0 THEN 0 ELSE f[i - 1] + seq[i]
        BY <2>7, <4>1
      <4>3. g[i] = f[i]
        BY <3>2
      <4>4. i # 0 => i - 1 \in 0..k /\ i - 1 # k
        BY <1>1, <2>2, <4>1
      <4>5. i # 0 => g[i - 1] = f[i - 1]
        BY <4>4
      <4> HIDE DEF g
      <4> QED
        BY <4>2, <4>3, <4>5
    <3> QED
      BY <3>1, <3>2
  <2>9. Upto(g, k)
    <3>1. DOMAIN g = 0..k /\ g = [i \in 0..k |-> g[i]]
      OBVIOUS
    <3> HIDE DEF g
    <3> QED
      BY <2>8, <3>1
  <2> QED
    BY <2>2, <2>9
<1>3. \E f : Upto(f, n)
  BY <1>1, <1>2
<1>4. Upto(upTo, n)
  BY <1>3
<1>5. SumOf(seq) = upTo[n]
  BY DEF SumOf
<1> QED
  BY <1>4, <1>5

\* The sums of the prefixes.
LEMMA SumBySteps ==
    ASSUME NEW seq \in Seq(Nat)
    PROVE  \E f \in [0..Len(seq) -> Nat] :
             /\ f[0] = 0 /\ SumOf(seq) = f[Len(seq)]
             /\ \A i \in 1..Len(seq) : f[i] = f[i - 1] + seq[i]
<1>1. Len(seq) \in Nat /\ seq \in Seq(Int)
  OBVIOUS
<1>2. PICK f : /\ f = [i \in 0..Len(seq) |-> IF i = 0 THEN 0 ELSE f[i - 1] + seq[i]]
               /\ SumOf(seq) = f[Len(seq)]
  BY <1>1, SumSteps
<1>3. f[0] = 0 /\ \A i \in 1..Len(seq) : f[i] = f[i - 1] + seq[i]
  <2>1. \A i \in 0..Len(seq) : f[i] = IF i = 0 THEN 0 ELSE f[i - 1] + seq[i]
    BY <1>2
  <2> QED
    BY <1>1, <2>1
<1>4. \A k \in 0..Len(seq) : f[k] \in Nat
  <2> DEFINE T == {k \in 0..Len(seq) : f[k] \in Nat}
  <2>1. 0 \in T
    BY <1>1, <1>3
  <2>2. ASSUME NEW k \in 1..Len(seq), k - 1 \in T PROVE k \in T
    <3>1. f[k] = f[k - 1] + seq[k] /\ f[k - 1] \in Nat /\ seq[k] \in Nat
      BY <1>1, <1>3, <2>2, ElementOfSeq
    <3> QED
      BY <3>1
  <2>3. \A k \in 0..Len(seq) : k \in T
    <3> HIDE DEF T
    <3> QED
      BY <1>1, <2>1, <2>2, UpTo
  <2> QED
    BY <2>3
<1>5. f \in [0..Len(seq) -> Nat]
  BY <1>2, <1>4
<1> QED
  BY <1>2, <1>3, <1>5

LEMMA SumFits == ASSUME NEW seq \in Seq(Nat) PROVE SumOf(seq) \in Nat
BY SumBySteps

\* A sum of numbers none of which is below b.
LEMMA SumAtLeast ==
    ASSUME NEW seq \in Seq(Nat), NEW b \in Nat, \A i \in DOMAIN seq : seq[i] >= b
    PROVE  SumOf(seq) \in Nat /\ SumOf(seq) >= b * Len(seq)
<1>1. Len(seq) \in Nat /\ \A i \in 1..Len(seq) : seq[i] \in Nat /\ seq[i] >= b
  OBVIOUS
<1>2. PICK f \in [0..Len(seq) -> Nat] : /\ f[0] = 0 /\ SumOf(seq) = f[Len(seq)]
                                       /\ \A i \in 1..Len(seq) : f[i] = f[i - 1] + seq[i]
  BY SumBySteps
<1> DEFINE T == {k \in 0..Len(seq) : f[k] >= b * k}
<1>3. 0 \in T
  BY <1>1, <1>2
<1>4. ASSUME NEW k \in 1..Len(seq), k - 1 \in T PROVE k \in T
  <2>1. f[k] = f[k - 1] + seq[k] /\ seq[k] \in Nat /\ seq[k] >= b /\ k \in 0..Len(seq) /\ k - 1 \in 0..Len(seq)
    BY <1>1, <1>2
  <2> DEFINE j == k - 1
  <2>2. j \in Nat /\ k = j + 1
    BY <1>1
  <2>2a. f[j] \in Nat
    BY <1>2, <2>1
  <2>2b. f[j] >= b * j
    BY <1>4
  <2>3. f[k] = f[j] + seq[k]
    BY <2>1
  <2> HIDE DEF j
  <2>4. b * (j + 1) = b * j + b /\ b * j \in Nat
    BY <2>2
  <2>5. f[k] >= b * (j + 1)
    BY <2>1, <2>2, <2>2a, <2>2b, <2>3, <2>4
  <2> QED
    BY <2>1, <2>2, <2>5
<1> HIDE DEF T
<1>5. \A k \in 0..Len(seq) : k \in T
  BY <1>1, <1>3, <1>4, UpTo
<1> QED
  BY <1>1, <1>2, <1>5 DEF T

\* A sum of percentages.
LEMMA SumOfPercents ==
    ASSUME NEW seq \in Seq(0..100)
    PROVE  SumOf(seq) \in Nat /\ SumOf(seq) <= 100 * Len(seq)
<1>1. seq \in Seq(Nat) /\ Len(seq) \in Nat /\ \A i \in 1..Len(seq) : seq[i] \in 0..100
  <2>1. seq \in [1..Len(seq) -> 0..100] /\ Len(seq) \in Nat
    BY LenProperties
  <2>2. ASSUME NEW i \in 1..Len(seq) PROVE seq[i] \in 0..100 /\ seq[i] \in Nat
    <3>1. seq[i] \in 0..100
      BY ElementOfSeq
    <3>2. \A x \in 0..100 : x \in Nat
      OBVIOUS
    <3> QED
      BY <3>1, <3>2, Zenon
  <2>3. seq = [i \in 1..Len(seq) |-> seq[i]]
    BY <2>1
  <2>4. seq \in Seq(Nat)
    BY <2>1, <2>2, <2>3, IsASeq
  <2> QED
    BY <2>1, <2>2, <2>4
<1>2. PICK f \in [0..Len(seq) -> Nat] : /\ f[0] = 0 /\ SumOf(seq) = f[Len(seq)]
                                       /\ \A i \in 1..Len(seq) : f[i] = f[i - 1] + seq[i]
  BY <1>1, SumBySteps
<1> DEFINE T == {k \in 0..Len(seq) : f[k] <= 100 * k}
<1>3. 0 \in T
  BY <1>1, <1>2
<1>4. \A k \in 1..Len(seq) : k - 1 \in T => k \in T
  <2> SUFFICES ASSUME NEW k \in 1..Len(seq), k - 1 \in T PROVE k \in T
    OBVIOUS
  <2>a. k \in Nat /\ k \in 0..Len(seq) /\ k - 1 \in 0..Len(seq)
    BY <1>1
  <2>1. f[k - 1] \in Nat /\ f[k - 1] <= 100 * (k - 1)
    BY <2>a
  <2>2. f[k] = f[k - 1] + seq[k] /\ seq[k] \in 0..100
    BY <1>1, <1>2
  <2>3. ASSUME NEW x \in Nat, NEW y \in 0..100, NEW i \in Nat, x <= 100 * (i - 1) PROVE x + y <= 100 * i
    BY <2>3
  <2>4. f[k] <= 100 * k
    BY <2>a, <2>1, <2>2, <2>3
  <2> QED
    BY <2>a, <2>4
<1>5. \A k \in 0..Len(seq) : k \in T
  <2> HIDE DEF T
  <2> QED
    BY <1>1, <1>3, <1>4, UpTo
<1> QED
  BY <1>1, <1>2, <1>5

\* Sums of parts.
LEMMA SumOfParts ==
    ASSUME NEW s \in Seq(Nat), NEW t \in Seq(Nat), NEW u \in Seq(Nat),
           Len(s) = Len(u), Len(t) = Len(u), \A i \in 1..Len(u) : s[i] + t[i] <= u[i]
    PROVE  SumOf(s) + SumOf(t) <= SumOf(u)
<1>1. /\ Len(u) \in Nat
      /\ s \in [1..Len(u) -> Nat] /\ t \in [1..Len(u) -> Nat] /\ u \in [1..Len(u) -> Nat]
  BY LenProperties
<1>2. PICK f \in [0..Len(s) -> Nat] : /\ f[0] = 0 /\ SumOf(s) = f[Len(s)]
                                     /\ \A i \in 1..Len(s) : f[i] = f[i - 1] + s[i]
  BY SumBySteps
<1>3. PICK g \in [0..Len(t) -> Nat] : /\ g[0] = 0 /\ SumOf(t) = g[Len(t)]
                                     /\ \A i \in 1..Len(t) : g[i] = g[i - 1] + t[i]
  BY SumBySteps
<1>4. PICK h \in [0..Len(u) -> Nat] : /\ h[0] = 0 /\ SumOf(u) = h[Len(u)]
                                     /\ \A i \in 1..Len(u) : h[i] = h[i - 1] + u[i]
  BY SumBySteps
<1> DEFINE T == {k \in 0..Len(u) : f[k] + g[k] <= h[k]}
<1>5. 0 \in T
  BY <1>1, <1>2, <1>3, <1>4
<1>6. \A k \in 1..Len(u) : k - 1 \in T => k \in T
  <2> SUFFICES ASSUME NEW k \in 1..Len(u), k - 1 \in T PROVE k \in T
    OBVIOUS
  <2>a. k \in 0..Len(u) /\ k - 1 \in 0..Len(u)
    BY <1>1
  <2>1. f[k - 1] \in Nat /\ g[k - 1] \in Nat /\ h[k - 1] \in Nat /\ f[k - 1] + g[k - 1] <= h[k - 1]
    BY <2>a
  <2>2. f[k] = f[k - 1] + s[k] /\ g[k] = g[k - 1] + t[k] /\ h[k] = h[k - 1] + u[k]
    BY <1>2, <1>3, <1>4
  <2>3. s[k] \in Nat /\ t[k] \in Nat /\ u[k] \in Nat /\ s[k] + t[k] <= u[k]
    BY <1>1
  <2>b. ASSUME NEW a \in Nat, NEW b \in Nat, NEW c \in Nat, NEW x \in Nat, NEW y \in Nat, NEW z \in Nat,
               a + b <= c, x + y <= z
        PROVE  (a + x) + (b + y) <= c + z
    BY <2>b
  <2>4. (f[k - 1] + s[k]) + (g[k - 1] + t[k]) <= h[k - 1] + u[k]
    BY <2>1, <2>3, <2>b
  <2>5. f[k] + g[k] <= h[k]
    BY <2>2, <2>4
  <2> QED
    BY <2>a, <2>5
<1>7. \A k \in 0..Len(u) : k \in T
  <2> HIDE DEF T
  <2> QED
    BY <1>1, <1>5, <1>6, UpTo
<1> QED
  BY <1>1, <1>2, <1>3, <1>4, <1>7

LEMMA CountTo == ASSUME NEW m \in Nat PROVE IsFiniteSet(1..m) /\ Cardinality(1..m) = m
<1>1. IsFiniteSet(1..m) /\ Cardinality(1..m) = IF 1 > m THEN 0 ELSE m - 1 + 1
  <2>1. 1 \in Int /\ m \in Int
    OBVIOUS
  <2> QED
    BY <2>1, FS_Interval
<1>2. (IF 1 > m THEN 0 ELSE m - 1 + 1) = m
  OBVIOUS
<1> QED
  BY <1>1, <1>2

\* A sum counts one block for each one in it.
Blocks(seq, k) == {p \in (1..k) \X Nat : p[2] \in 1..seq[p[1]]}

LEMMA SumCounts ==
    ASSUME NEW seq \in Seq(Nat)
    PROVE  IsFiniteSet(Blocks(seq, Len(seq))) /\ Cardinality(Blocks(seq, Len(seq))) = SumOf(seq)
<1>1. Len(seq) \in Nat /\ \A i \in 1..Len(seq) : seq[i] \in Nat
  OBVIOUS
<1>2. PICK f \in [0..Len(seq) -> Nat] : /\ f[0] = 0 /\ SumOf(seq) = f[Len(seq)]
                                       /\ \A i \in 1..Len(seq) : f[i] = f[i - 1] + seq[i]
  BY SumBySteps
<1> DEFINE T == {k \in 0..Len(seq) : IsFiniteSet(Blocks(seq, k)) /\ Cardinality(Blocks(seq, k)) = f[k]}
<1>3. 0 \in T
  <2>1. Blocks(seq, 0) = {}
    BY DEF Blocks
  <2> QED
    BY <1>1, <1>2, <2>1, FS_EmptySet
<1>4. ASSUME NEW k \in 1..Len(seq), k - 1 \in T PROVE k \in T
  <2>a. k \in 0..Len(seq) /\ k - 1 \in 0..Len(seq) /\ k \in Nat
    BY <1>1
  <2>1. k \in 0..Len(seq) /\ k - 1 \in 0..Len(seq) /\ k \in Nat /\ seq[k] \in Nat /\ f[k - 1] \in Nat
    BY <1>1, <2>a
  <2>2. IsFiniteSet(Blocks(seq, k - 1)) /\ Cardinality(Blocks(seq, k - 1)) = f[k - 1]
    BY <1>4
  <2> DEFINE row == {k} \X (1..seq[k])
  <2>3. IsFiniteSet(row) /\ Cardinality(row) = seq[k]
    <3>1. IsFiniteSet({k}) /\ Cardinality({k}) = 1
      BY FS_Singleton
    <3>2. IsFiniteSet(1..seq[k]) /\ Cardinality(1..seq[k]) = seq[k]
      BY <2>1, CountTo
    <3>3. IsFiniteSet(row) /\ Cardinality(row) = Cardinality({k}) * Cardinality(1..seq[k])
      BY <3>1, <3>2, FS_Product
    <3> HIDE DEF row
    <3> QED
      BY <2>1, <3>1, <3>2, <3>3
  <2>4. Blocks(seq, k) = Blocks(seq, k - 1) \union row
    <3>1. \A i : i \in 1..k <=> i \in 1..(k - 1) \/ i = k
      BY <2>1
    <3>2. \A p \in row : p[1] = k /\ p[2] \in 1..seq[k] /\ p[2] \in Nat /\ p = <<p[1], p[2]>>
      BY <2>1
    <3>3. \A p \in Blocks(seq, k) : p[1] = k => p \in row
      BY DEF Blocks
    <3>4. \A p \in Blocks(seq, k) : p[1] # k => p \in Blocks(seq, k - 1)
      BY <3>1 DEF Blocks
    <3>5. \A p \in row : p \in Blocks(seq, k)
      BY <3>1, <3>2 DEF Blocks
    <3>6. \A p \in Blocks(seq, k - 1) : p \in Blocks(seq, k)
      BY <3>1 DEF Blocks
    <3> HIDE DEF row
    <3> QED
      BY <3>3, <3>4, <3>5, <3>6
  <2>5. Blocks(seq, k - 1) \cap row = {}
    <3>1. \A p \in row : p[1] = k
      OBVIOUS
    <3>2. \A p \in Blocks(seq, k - 1) : p[1] # k
      BY <2>1 DEF Blocks
    <3> QED
      BY <3>1, <3>2
  <2> HIDE DEF row
  <2>6. ASSUME NEW X, NEW Y, IsFiniteSet(X), IsFiniteSet(Y), X \cap Y = {}
        PROVE  IsFiniteSet(X \union Y) /\ Cardinality(X \union Y) = Cardinality(X) + Cardinality(Y)
    <3>1. Cardinality(X) \in Nat /\ Cardinality(Y) \in Nat
      BY <2>6, FS_CardinalityType
    <3>2. Cardinality({}) = 0
      BY FS_EmptySet
    <3>3. /\ IsFiniteSet(X \union Y)
          /\ Cardinality(X \union Y) = Cardinality(X) + Cardinality(Y) - Cardinality(X \cap Y)
      BY <2>6, FS_Union
    <3>4. Cardinality(X \cap Y) = 0
      BY <2>6, <3>2
    <3> QED
      BY <3>1, <3>3, <3>4
  <2>b. IsFiniteSet(Blocks(seq, k)) /\ Cardinality(Blocks(seq, k)) = Cardinality(Blocks(seq, k - 1)) + Cardinality(row)
    BY <2>2, <2>3, <2>4, <2>5, <2>6
  <2>7. Cardinality(Blocks(seq, k)) = f[k]
    BY <1>2, <2>2, <2>3, <2>b
  <2> QED
    BY <2>1, <2>b, <2>7
<1>5. \A k \in 0..Len(seq) : k \in T
  <2> HIDE DEF T
  <2> QED
    BY <1>1, <1>3, <1>4, UpTo
<1> QED
  BY <1>1, <1>2, <1>5

\* A reordering leaves no place out.
LEMMA ReorderingReaches ==
    ASSUME NEW n \in Nat, NEW p \in [1..n -> 1..n], \A i, j \in 1..n : p[i] = p[j] => i = j
    PROVE  \A j \in 1..n : \E i \in 1..n : p[i] = j
<1>1. p \in Injection(1..n, 1..n)
  BY DEF Injection, IsInjective
<1>2. p \in Surjection(1..n, 1..n)
  BY <1>1, CountTo, FS_Injection
<1> QED
  BY <1>2 DEF Surjection

\* A sum does not depend on the order.
LEMMA SumReordered ==
    ASSUME NEW s \in Seq(Nat), NEW t \in Seq(Nat), Len(t) = Len(s),
           NEW p \in [1..Len(s) -> 1..Len(s)], \A i, j \in 1..Len(s) : p[i] = p[j] => i = j,
           \A i \in 1..Len(s) : t[i] = s[p[i]]
    PROVE  SumOf(t) = SumOf(s)
<1> DEFINE n == Len(s)
           A == Blocks(t, n)
           B == Blocks(s, n)
           move == [b \in A |-> <<p[b[1]], b[2]>>]
<1>1. n \in Nat
  OBVIOUS
<1>2. \A j \in 1..n : \E i \in 1..n : p[i] = j
  BY <1>1, ReorderingReaches
<1>3. /\ IsFiniteSet(A) /\ Cardinality(A) = SumOf(t)
      /\ IsFiniteSet(B) /\ Cardinality(B) = SumOf(s)
  BY SumCounts
<1>4. \A b : b \in A <=> b \in (1..n) \X Nat /\ b[2] \in 1..s[p[b[1]]]
  BY DEF Blocks
<1>5. \A b : b \in B <=> b \in (1..n) \X Nat /\ b[2] \in 1..s[b[1]]
  BY DEF Blocks
<1> HIDE DEF A, B
<1>6. move \in [A -> B]
  <2> SUFFICES ASSUME NEW b \in A PROVE <<p[b[1]], b[2]>> \in B
    OBVIOUS
  <2>1. b[1] \in 1..n /\ b[2] \in Nat /\ b[2] \in 1..s[p[b[1]]]
    BY <1>4
  <2>2. p[b[1]] \in 1..n
    BY <2>1
  <2> QED
    BY <1>5, <2>1, <2>2
<1>7. \A b, c \in A : move[b] = move[c] => b = c
  <2> SUFFICES ASSUME NEW b \in A, NEW c \in A, move[b] = move[c] PROVE b = c
    OBVIOUS
  <2>1. b \in (1..n) \X Nat /\ c \in (1..n) \X Nat
    BY <1>4
  <2>2. p[b[1]] = p[c[1]] /\ b[2] = c[2]
    OBVIOUS
  <2>3. b[1] = c[1]
    BY <2>1, <2>2
  <2> QED
    BY <2>1, <2>2, <2>3
<1>8. \A c \in B : \E b \in A : move[b] = c
  <2> SUFFICES ASSUME NEW c \in B PROVE \E b \in A : move[b] = c
    OBVIOUS
  <2>1. c \in (1..n) \X Nat /\ c[2] \in 1..s[c[1]]
    BY <1>5
  <2>2. PICK i \in 1..n : p[i] = c[1]
    BY <1>2, <2>1
  <2>3. <<i, c[2]>> \in A
    BY <1>4, <2>1, <2>2
  <2>4. move[<<i, c[2]>>] = c
    BY <2>1, <2>2, <2>3
  <2> QED
    BY <2>3, <2>4
<1>9. ExistsBijection(A, B)
  <2> HIDE DEF move
  <2>1. move \in Bijection(A, B)
    BY <1>6, <1>7, <1>8 DEF Bijection, Injection, Surjection, IsInjective
  <2> QED
    BY <2>1 DEF ExistsBijection
<1> QED
  BY <1>3, <1>9, FS_Bijection

-----------------------------------------------------------------------------
(* Recursion, enumeration, neighbours in a sublist *)

\* A value that is built up from one before has a value at every step.
StepsOn(n, T) == [1..n -> [T -> T]]
RunsOf(n, T, base, step) == {f \in [0..n -> T] : f[0] = base /\ \A k \in 1..n : f[k] = step[k][f[k - 1]]}
LEMMA StepsRun ==
    ASSUME NEW n \in Nat, NEW T, NEW base \in T, NEW step \in StepsOn(n, T)
    PROVE  RunsOf(n, T, base, step) # {}
<1> SUFFICES \E f \in [0..n -> T] : f[0] = base /\ \A k \in 1..n : f[k] = step[k][f[k - 1]]
  BY DEF RunsOf
<1> USE DEF StepsOn
<1> DEFINE Runs(f, k) == f[0] = base /\ \A i \in 1..k : f[i] = step[i][f[i - 1]]
           good == {k \in 0..n : \E f \in [0..k -> T] : Runs(f, k)}
<1>1. 0 \in good
  <2> DEFINE f == [i \in 0..0 |-> base]
  <2>1. f \in [0..0 -> T] /\ f[0] = base
    OBVIOUS
  <2>2. Runs(f, 0) /\ 0 \in 0..n
    BY <2>1
  <2> HIDE DEF f, Runs
  <2> QED
    BY <2>1, <2>2
<1>2. ASSUME NEW k \in 1..n, k - 1 \in good PROVE k \in good
  <2>1. PICK f \in [0..k - 1 -> T] : Runs(f, k - 1)
    BY <1>2
  <2> DEFINE g == [i \in 0..k |-> IF i = k THEN step[k][f[k - 1]] ELSE f[i]]
  <2>2. k \in 0..n /\ k - 1 \in 0..k - 1 /\ \A i \in 0..k : i # k => i \in 0..k - 1
    OBVIOUS
  <2>3. step[k][f[k - 1]] \in T
    BY <2>2
  <2>4. \A i \in 0..k : i # k => f[i] \in T
    BY <2>2
  <2>5. g \in [0..k -> T]
    BY <2>3, <2>4
  <2>6. g[k] = step[k][f[k - 1]] /\ \A i \in 0..k - 1 : g[i] = f[i]
    OBVIOUS
  <2> HIDE DEF g
  <2>7. g[0] = base
    BY <2>1, <2>6
  <2>8. ASSUME NEW i \in 1..k PROVE g[i] = step[i][g[i - 1]]
    <3>1. CASE i = k
      BY <2>2, <2>6, <3>1
    <3>2. CASE i # k
      <4>1. i \in 1..k - 1 /\ i \in 0..k - 1 /\ i - 1 \in 0..k - 1
        BY <3>2
      <4> QED
        BY <2>1, <2>6, <4>1
    <3> QED
      BY <3>1, <3>2
  <2>9. Runs(g, k)
    BY <2>7, <2>8
  <2> HIDE DEF Runs
  <2> QED
    BY <2>2, <2>5, <2>9
<1>3. \A k \in 0..n : k \in good
  <2> HIDE DEF good
  <2> QED
    BY <1>1, <1>2, UpTo
<1> QED
  BY <1>3

\* SetToSeq lists a finite set.
LEMMA ListedOnce ==
    ASSUME NEW S, IsFiniteSet(S)
    PROVE  /\ Cardinality(S) \in Nat
           /\ SetToSeq(S) \in [1..Cardinality(S) -> S]
           /\ \A x \in S : \E i \in 1..Cardinality(S) : SetToSeq(S)[i] = x
<1> DEFINE n == Cardinality(S)
<1>1. n \in Nat /\ ExistsBijection(1..n, S)
  BY FS_CardinalityType
<1>2. PICK b \in Bijection(1..n, S) : TRUE
  BY <1>1 DEF ExistsBijection
<1>3. b \in [1..n -> S] /\ IsInjective(b)
  BY <1>2 DEF Bijection, Injection, IsInjective
<1>4. SetToSeq(S) \in [1..n -> S] /\ IsInjective(SetToSeq(S))
  BY <1>3 DEF SetToSeq
<1>5. SetToSeq(S) \in Injection(1..n, S)
  BY <1>4 DEF Injection, IsInjective
<1>6. IsFiniteSet(1..n) /\ Cardinality(1..n) = n
  BY <1>1, CountTo
<1>7. SetToSeq(S) \in Surjection(1..n, S)
  BY <1>5, <1>6, FS_Injection
<1> QED
  BY <1>1, <1>4, <1>7 DEF Surjection

\* Neighbours in a sublist have no place of it between their places.
LEMMA Neighbours ==
    ASSUME NEW S, NEW seq \in Seq(S), NEW P \in SUBSET DOMAIN seq, NEW m \in 2..Cardinality(P)
    PROVE  \E i, k \in P : /\ i < k /\ \A j \in P : ~(i < j /\ j < k)
                           /\ OnlyAt(seq, P)[m - 1] = seq[i] /\ OnlyAt(seq, P)[m] = seq[k]
<1> DEFINE Upto(i) == {j \in P : j <= i}
           rank(i) == Cardinality(Upto(i))
           place(l) == CHOOSE i \in P : rank(i) = l
<1>1. Len(seq) \in Nat /\ P \in SUBSET (1 .. Len(seq)) /\ IsFiniteSet(P) /\ Cardinality(P) \in Nat
  <2>1. Len(seq) \in Nat /\ P \in SUBSET (1 .. Len(seq))
    OBVIOUS
  <2>2. IsFiniteSet(1 .. Len(seq))
    BY <2>1, CountTo
  <2>3. IsFiniteSet(P)
    BY <2>1, <2>2, FS_Subset
  <2> QED
    BY <2>1, <2>3, FS_CardinalityType
<1>2. m \in 1..Cardinality(P) /\ m - 1 \in 1..Cardinality(P) /\ m \in Nat
  BY <1>1
<1>3. \A l \in 1..Cardinality(P) : \E i \in P : rank(i) = l
  BY <1>1, RankExists
<1>4. OnlyAt(seq, P) = [l \in 1 .. Cardinality(P) |-> seq[place(l)]]
  BY DEF OnlyAt
<1> HIDE DEF rank
<1>10. \A l \in 1..Cardinality(P) : place(l) \in P /\ rank(place(l)) = l
  BY <1>3
<1> HIDE DEF place
<1>11. OnlyAt(seq, P)[m - 1] = seq[place(m - 1)] /\ OnlyAt(seq, P)[m] = seq[place(m)]
  BY <1>2, <1>4
<1> USE DEF rank
<1>5. \A i \in P : i \in Nat /\ i \in Upto(i) /\ Upto(i) \subseteq P
  BY <1>1
<1>6. ASSUME NEW i \in P, NEW k \in P, i < k PROVE rank(i) < rank(k) /\ rank(i) \in Nat /\ rank(k) \in Nat
  <2>1. Upto(i) \subseteq Upto(k) /\ k \in Upto(k) /\ k \notin Upto(i)
    BY <1>5, <1>6
  <2> HIDE DEF Upto
  <2>2. IsFiniteSet(Upto(k)) /\ rank(k) \in Nat
    BY <1>1, <1>5, FS_Subset, FS_CardinalityType
  <2>3. IsFiniteSet(Upto(i)) /\ rank(i) \in Nat /\ rank(i) <= rank(k) /\ rank(i) # rank(k)
    BY <2>1, <2>2, FS_Subset, FS_CardinalityType
  <2> QED
    BY <2>2, <2>3
<1> HIDE DEF rank
<1> DEFINE i == place(m - 1)
           k == place(m)
<1>7. i \in P /\ k \in P /\ rank(i) = m - 1 /\ rank(k) = m
  BY <1>2, <1>10
<1> HIDE DEF i, k
<1>8. i < k
  <2>1. i \in Nat /\ k \in Nat /\ (k < i => rank(k) < rank(i)) /\ rank(i) # rank(k) /\ rank(i) < rank(k)
    BY <1>2, <1>5, <1>6, <1>7
  <2> QED
    BY <2>1, <1>7, <1>2
<1>9. ASSUME NEW j \in P, i < j, j < k PROVE FALSE
  <2>1. rank(i) < rank(j) /\ rank(j) < rank(k) /\ rank(j) \in Nat
    BY <1>6, <1>7, <1>9
  <2> QED
    BY <1>2, <1>7, <2>1
<1> QED
  BY <1>7, <1>8, <1>9, <1>11 DEF i, k

\* All places give the list itself.
LEMMA OnlyAtAll ==
    ASSUME NEW S, NEW seq \in Seq(S)
    PROVE  OnlyAt(seq, DOMAIN seq) = seq
<1> DEFINE n == Len(seq)
<1>1. n \in Nat /\ DOMAIN seq = 1..n /\ Cardinality(1..n) = n
  BY CountTo
<1>2. ASSUME NEW m \in 1..n PROVE {j \in 1..n : j <= m} = 1..m
  OBVIOUS
<1>3. ASSUME NEW m \in 1..n PROVE Cardinality({j \in 1..n : j <= m}) = m
  <2>1. m \in Nat
    BY <1>1
  <2> QED
    BY <1>2, <2>1, CountTo
<1>4. ASSUME NEW m \in 1..n PROVE (CHOOSE i \in 1..n : Cardinality({j \in 1..n : j <= i}) = m) = m
  <2>1. \E i \in 1..n : Cardinality({j \in 1..n : j <= i}) = m
    BY <1>3
  <2> DEFINE c == CHOOSE i \in 1..n : Cardinality({j \in 1..n : j <= i}) = m
  <2>2. c \in 1..n /\ Cardinality({j \in 1..n : j <= c}) = m
    BY <2>1
  <2> HIDE DEF c
  <2>3. Cardinality({j \in 1..n : j <= c}) = c
    BY <1>3, <2>2
  <2>4. c = m
    BY <2>2, <2>3
  <2> QED
    BY <2>4 DEF c
<1>5. OnlyAt(seq, 1..n) = [m \in 1..n |-> seq[m]]
  <2> DEFINE place(m) == CHOOSE i \in 1..n : Cardinality({j \in 1..n : j <= i}) = m
  <2>1. OnlyAt(seq, 1..n) = [m \in 1..Cardinality(1..n) |-> seq[place(m)]]
    BY DEF OnlyAt
  <2>2. \A m \in 1..n : place(m) = m
    BY <1>4
  <2> HIDE DEF place
  <2> QED
    BY <1>1, <2>1, <2>2
<1>6. seq = [m \in 1..n |-> seq[m]]
  BY <1>1
<1> QED
  BY <1>1, <1>5, <1>6

\* Sorting reorders; what stands further on has no larger key, and of equal keys
\* the earlier stays ahead.
LEMMA SortedByFits ==
    ASSUME NEW S, NEW seq \in Seq(S), NEW key \in [DOMAIN seq -> Int]
    PROVE  /\ SortedBy(seq, key) \in [1..Len(seq) -> S]
           /\ \E p \in [1..Len(seq) -> 1..Len(seq)] :
                /\ \A i, j \in 1..Len(seq) : p[i] = p[j] => i = j
                /\ \A i \in 1..Len(seq) : SortedBy(seq, key)[i] = seq[p[i]]
                /\ \A i, j \in 1..Len(seq) : i < j =>
                     key[p[i]] > key[p[j]] \/ (key[p[i]] = key[p[j]] /\ p[i] < p[j])
<1> DEFINE n == Len(seq)
           D == 1..n
           A(i) == InFront(key, i)
           rank(i) == Cardinality(A(i))
           place(m) == CHOOSE i \in DOMAIN seq : Cardinality(InFront(key, i)) = m - 1
           p == [m \in D |-> place(m)]
<1>1. n \in Nat /\ DOMAIN seq = D /\ DOMAIN key = D /\ IsFiniteSet(D) /\ Cardinality(D) = n
      /\ \A i \in D : key[i] \in Int /\ seq[i] \in S
  BY CountTo
<1> HIDE DEF D, n
<1>0. D = 1..n
  BY DEF D
<1>2. ASSUME NEW i \in D
      PROVE  A(i) \in SUBSET D /\ i \notin A(i) /\ \A j \in D : j \in A(i) <=> key[j] > key[i] \/ (key[j] = key[i] /\ j < i)
  BY <1>0, <1>1, <1>2 DEF InFront
<1> HIDE DEF A
<1>3. ASSUME NEW i \in D PROVE rank(i) \in Nat /\ rank(i) < n /\ IsFiniteSet(A(i))
  <2>1. A(i) \in SUBSET D /\ A(i) # D
    BY <1>2
  <2>2. IsFiniteSet(A(i)) /\ Cardinality(A(i)) <= Cardinality(D) /\ Cardinality(A(i)) # Cardinality(D)
    BY <1>1, <2>1, FS_Subset
  <2>3. Cardinality(A(i)) \in Nat
    BY <2>2, FS_CardinalityType
  <2> QED
    BY <1>1, <2>2, <2>3
<1>4. ASSUME NEW i \in D, NEW k \in D, i \in A(k) PROVE rank(i) < rank(k)
  <2>1. A(i) \in SUBSET A(k)
    <3>1. ASSUME NEW j \in A(i) PROVE j \in A(k)
      <4>1. j \in D
        BY <1>2, <3>1
      <4> QED
        BY <1>0, <1>1, <1>2, <1>4, <3>1, <4>1
    <3> QED
      BY <3>1
  <2>2. A(i) # A(k)
    BY <1>2, <1>4
  <2>3. Cardinality(A(i)) <= Cardinality(A(k)) /\ Cardinality(A(i)) # Cardinality(A(k))
    <3>1. IsFiniteSet(A(k))
      BY <1>3
    <3> QED
      BY <2>1, <2>2, <3>1, FS_Subset
  <2>4. Cardinality(A(i)) \in Nat /\ Cardinality(A(k)) \in Nat
    BY <1>3
  <2> QED
    BY <2>3, <2>4
<1>5. ASSUME NEW i \in D, NEW k \in D, i # k PROVE i \in A(k) \/ k \in A(i)
  BY <1>0, <1>1, <1>2, <1>5
<1>6. ASSUME NEW i \in D, NEW k \in D, rank(i) = rank(k) PROVE i = k
  BY <1>3, <1>4, <1>5, <1>6
<1>7. ASSUME NEW m \in D PROVE \E i \in D : rank(i) = m - 1
  <2> DEFINE q == [i \in D |-> rank(i) + 1]
  <2>1. q \in [1..n -> 1..n]
    <3>1. ASSUME NEW i \in D PROVE rank(i) + 1 \in 1..n
      BY <1>1, <1>3
    <3> QED
      BY <1>0, <3>1
  <2>2. \A i, k \in 1..n : q[i] = q[k] => i = k
    <3>1. ASSUME NEW i \in D, NEW k \in D, q[i] = q[k] PROVE i = k
      <4>1. rank(i) + 1 = rank(k) + 1
        BY <3>1
      <4>2. rank(i) \in Nat /\ rank(k) \in Nat
        BY <1>3
      <4>3. rank(i) = rank(k)
        BY <4>1, <4>2
      <4> QED
        BY <1>6, <4>3
    <3> HIDE DEF q
    <3> QED
      BY <1>0, <3>1
  <2> HIDE DEF q
  <2>3. \A j \in 1..n : \E i \in 1..n : q[i] = j
    <3>1. n \in Nat
      BY <1>1
    <3> QED
      BY <2>1, <2>2, <3>1, ReorderingReaches, Zenon
  <2>4. PICK i \in D : q[i] = m
    BY <1>0, <2>3
  <2>5. rank(i) + 1 = m
    BY <2>4 DEF q
  <2> QED
    BY <1>3, <2>5
<1>8. ASSUME NEW m \in D PROVE p[m] \in D /\ rank(p[m]) = m - 1
  <2>1. \E i \in DOMAIN seq : Cardinality(InFront(key, i)) = m - 1
    BY <1>1, <1>7 DEF A
  <2>2. place(m) \in DOMAIN seq /\ Cardinality(InFront(key, place(m))) = m - 1
    BY <2>1
  <2> QED
    BY <1>1, <2>2 DEF A
<1>9. SortedBy(seq, key) = [m \in D |-> seq[p[m]]]
  BY <1>1 DEF SortedBy
<1> HIDE DEF p, rank
<1>10. p \in [D -> D]
  BY <1>8 DEF p
<1>11. ASSUME NEW i \in D, NEW j \in D, i < j
       PROVE  key[p[i]] > key[p[j]] \/ (key[p[i]] = key[p[j]] /\ p[i] < p[j])
  <2>1. p[i] \in D /\ p[j] \in D /\ rank(p[i]) = i - 1 /\ rank(p[j]) = j - 1
    BY <1>8
  <2>2. rank(p[i]) < rank(p[j])
    BY <1>0, <1>1, <1>11, <2>1
  <2>3. p[j] \notin A(p[i]) /\ p[i] # p[j]
    BY <1>3, <1>4, <2>1, <2>2
  <2>4. p[i] \in A(p[j])
    BY <1>5, <2>1, <2>3
  <2> QED
    BY <1>2, <2>1, <2>4
<1>12. \A i, j \in D : p[i] = p[j] => i = j
  <2>1. ASSUME NEW i \in D, NEW j \in D, p[i] = p[j] PROVE i = j
    <3>1. i - 1 = j - 1
      BY <1>8, <2>1
    <3> QED
      BY <1>0, <1>1, <3>1
  <2> QED
    BY <2>1
<1>13. SortedBy(seq, key) \in [D -> S]
  BY <1>1, <1>9, <1>10
<1>14. \A i \in D : SortedBy(seq, key)[i] = seq[p[i]]
  BY <1>9
<1>15. \A i, j \in D : i < j => key[p[i]] > key[p[j]] \/ (key[p[i]] = key[p[j]] /\ p[i] < p[j])
  BY <1>11
<1> QED
  BY <1>10, <1>12, <1>13, <1>14, <1>15 DEF D, n
=============================================================================
