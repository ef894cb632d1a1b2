-------------------------------- MODULE Lists --------------------------------
(***************************************************************************)
(* What the code does to lists in tools, recovery and coordination:         *)
(* comprehensions with a condition, slices, the first that fits, and sums.  *)
(* The operators of SequencesExt for it are recursive or take operators,    *)
(* which proofs about them could not follow.                                *)
(***************************************************************************)
EXTENDS Integers, FiniteSets, Sequences

\* The elements at the places, in their order.
OnlyAt(seq, places) ==
    [n \in 1..Cardinality(places) |->
        seq[CHOOSE i \in places : Cardinality({j \in places : j <= i}) = n]]

\* Without x.
Without(seq, x) == OnlyAt(seq, {i \in DOMAIN seq : seq[i] # x})

\* seq[-n:], the last n elements.
Latest(seq, n) == IF Len(seq) > n THEN SubSeq(seq, Len(seq) - n + 1, Len(seq)) ELSE seq

\* The first of the places, if there is one.
FirstAt(places) == CHOOSE i \in places : \A j \in places : i <= j

\* sorted(seq, key=..., reverse=True): the places ahead of i in key's order, and
\* the elements in it; equal ones stay as they were.
InFront(key, i) == {j \in DOMAIN key : key[j] > key[i] \/ (key[j] = key[i] /\ j < i)}
SortedBy(seq, key) ==
    [n \in DOMAIN seq |-> seq[CHOOSE i \in DOMAIN seq : Cardinality(InFront(key, i)) = n - 1]]

\* sum(seq).
SumOf(seq) ==
    LET upTo[i \in 0..Len(seq)] == IF i = 0 THEN 0 ELSE upTo[i - 1] + seq[i]
    IN upTo[Len(seq)]
=============================================================================
