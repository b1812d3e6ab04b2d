--------------------------- MODULE DistTreeProofs ---------------------------
(***************************************************************************)
(* What the operators of DistTree that list names return, for every set of *)
(* names: the lemmas that the proofs about toggleModules, for one run and  *)
(* for several, share.                                                     *)
(***************************************************************************)
EXTENDS DistTree, Sequences, TLAPS, FiniteSetTheorems, SequenceTheorems

\* A subset of Names has a natural number of elements.
LEMMA SubsetCardinality ==
  ASSUME NEW S \in SUBSET Names
  PROVE  Cardinality(S) \in Nat
  BY DistTreeAssumption, FS_Subset, FS_CardinalityType

\* An ascending listing of S is a sequence that holds every element of S and
\* nothing else, in strictly ascending order.
LEMMA AscendingSeq ==
  ASSUME NEW S \in SUBSET Names, NEW s \in Ascending(S)
  PROVE  /\ s \in Seq(S)
         /\ s \in Seq(Names)
         /\ DOMAIN s = 1..Len(s)
         /\ \A n \in S : \E k \in DOMAIN s : s[k] = n
         /\ \A k \in DOMAIN s : s[k] \in S
         /\ \A j, k \in DOMAIN s : j < k => s[j] < s[k]
<1> DEFINE c == Cardinality(S)
<1>1. c \in Nat
  BY SubsetCardinality
<1>2. /\ s \in [1..c -> S]
      /\ Range(s) = S
      /\ \A j, k \in DOMAIN s : j < k => s[j] < s[k]
  BY DEF Ascending
<1> HIDE DEF c
<1>3. s \in Seq(S) /\ s \in Seq(Names) /\ Len(s) = c
  BY <1>1, <1>2
<1>4. \A n \in S : \E k \in DOMAIN s : s[k] = n
  BY <1>2 DEF Range
<1> QED
  BY <1>2, <1>3, <1>4
=============================================================================
