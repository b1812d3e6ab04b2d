-------------------------- MODULE FuzzyMatchProofs --------------------------
(***************************************************************************)
(* For every set of patterns and of entries: a call of fuzzyMatch reads    *)
(* only inside its strings, overflows only on entries too long to exist,   *)
(* every turn of its loop makes progress, and taking each character of the *)
(* pattern as soon as it appears loses no match.                           *)
(***************************************************************************)
EXTENDS FuzzyMatch, FiniteSetTheorems, TLAPS

-----------------------------------------------------------------------------
(* Arithmetic of the bound on the score.  SMT reasons about products of    *)
(* variables only in facts as small as these.                              *)

LEMMA OneMore ==
  ASSUME NEW k \in Nat, NEW g \in Nat
  PROVE  k * g \in Nat /\ (k + 1) * g = k * g + g
BY SMT

LEMMA ProductGrows ==
  ASSUME NEW k \in Nat, NEW l \in Nat, NEW g \in Nat, k <= l
  PROVE  k * g <= l * g
BY SMT

LEMMA GainIsLarge ==
  ASSUME NEW l \in Nat
  PROVE  l * (5 * l + 20) >= 20 * l
BY SMT

-----------------------------------------------------------------------------
\* The character before the current one is read only after one was compared.
DiffReadsBack == scoreState \in {CharDiff, LeadingCharDiff} => strIndex >= 1

\* One compared character costs at most three points and gives at most
\* what a run as long as the whole entry gives.
ScoreBounds ==
  matchPc = "loop" => /\ -3 * strIndex <= score
                      /\ score <= strIndex * LongestGain(str)

IInv == FuzzyTypeOK /\ DiffReadsBack /\ ScoreBounds /\ DefectNeedsLength

LEMMA StringTypes ==
  ASSUME FuzzyTypeOK
  PROVE  /\ pattern \in Seq(Nat) /\ str \in Seq(Nat)
         /\ Len(pattern) \in Nat /\ Len(str) \in Nat
         /\ LongestGain(str) \in Nat
         /\ MaxInt \in Nat
BY FuzzyAssumption, MaxIntAssumption DEF FuzzyTypeOK, LongestGain

LEMMA InitInvariant == FuzzyInit => IInv
<1> SUFFICES ASSUME FuzzyInit PROVE IInv
  OBVIOUS
<1>1. Len(pattern) \in Nat /\ Len(str) \in Nat /\ LongestGain(str) \in Nat
  BY FuzzyAssumption DEF FuzzyInit, LongestGain
<1>2. FuzzyTypeOK
  <2>1. NoResult \in [score : Nat, matched : BOOLEAN]
    BY DEF NoResult
  <2>2. headerMatched \in BOOLEAN /\ scoreState \in ScoreCard
    BY DEF FuzzyInit, ScoreCard
  <2> QED
    BY <1>1, <2>1, <2>2 DEF FuzzyInit, FuzzyTypeOK
<1>3. DiffReadsBack
  BY DEF FuzzyInit, DiffReadsBack, StartMatch, CharDiff, LeadingCharDiff
<1>4. ScoreBounds
  BY <1>1 DEF FuzzyInit, ScoreBounds
<1>5. DefectNeedsLength
  BY DEF FuzzyInit, DefectNeedsLength
<1> QED
  BY <1>2, <1>3, <1>4, <1>5 DEF IInv

(***************************************************************************)
(* A result within the bounds of the score overflows only if the entry is  *)
(* long.                                                                   *)
(***************************************************************************)
LEMMA OverflowNeedsLength ==
  ASSUME FuzzyTypeOK, NEW n \in Int, Overflows(n),
         -3 * Len(str) <= n, n <= Len(str) * LongestGain(str) + 10
  PROVE  Len(str) * LongestGain(str) + 10 > MaxInt
<1>1. Len(str) \in Nat /\ MaxInt \in Nat
  BY StringTypes
<1>2. Len(str) * (5 * Len(str) + 20) >= 20 * Len(str)
  BY <1>1, GainIsLarge
<1>3. Len(str) * LongestGain(str) >= 20 * Len(str)
  BY <1>2 DEF LongestGain
<1>4. Len(str) * LongestGain(str) \in Nat
  BY <1>1, OneMore, StringTypes
<1> QED
  BY <1>1, <1>3, <1>4 DEF Overflows

(***************************************************************************)
(* The bounds on the score after one more character of the entry.          *)
(***************************************************************************)
LEMMA BoundsAtNext ==
  ASSUME IInv, InLoop, NEW n \in Int,
         score - 3 <= n \/ -3 <= n,
         n <= score + LongestGain(str) \/ n <= LongestGain(str)
  PROVE  /\ -3 * (strIndex + 1) <= n
         /\ n <= (strIndex + 1) * LongestGain(str)
         /\ -3 * Len(str) <= n
         /\ n <= Len(str) * LongestGain(str) + 10
<1>1. /\ strIndex \in Nat /\ Len(str) \in Nat /\ LongestGain(str) \in Nat
      /\ strIndex + 1 \in Nat /\ strIndex + 1 <= Len(str) /\ score \in Int
  BY StringTypes DEF IInv, FuzzyTypeOK, InLoop
<1>2. /\ -3 * strIndex <= score /\ score <= strIndex * LongestGain(str)
  BY DEF IInv, ScoreBounds, InLoop
<1>3. /\ strIndex * LongestGain(str) \in Nat
      /\ (strIndex + 1) * LongestGain(str) = strIndex * LongestGain(str) + LongestGain(str)
  BY <1>1, OneMore
<1>4. (strIndex + 1) * LongestGain(str) <= Len(str) * LongestGain(str)
  BY <1>1, ProductGrows
<1>5. Len(str) * LongestGain(str) \in Nat
  BY <1>1, OneMore
<1>6. -3 * (strIndex + 1) <= n
  BY <1>1, <1>2
<1>7. n <= (strIndex + 1) * LongestGain(str)
  BY <1>1, <1>2, <1>3
<1>8. /\ -3 * Len(str) <= n
      /\ n <= Len(str) * LongestGain(str) + 10
  <2> DEFINE P == (strIndex + 1) * LongestGain(str)
             Q == Len(str) * LongestGain(str)
  <2>1. P \in Int /\ Q \in Int /\ n <= P /\ P <= Q
    BY <1>1, <1>3, <1>4, <1>5, <1>7
  <2> HIDE DEF P, Q
  <2>2. n <= Q + 10
    BY <2>1
  <2>3. -3 * Len(str) <= n
    BY <1>1, <1>6
  <2> QED
    BY <2>2, <2>3 DEF Q
<1> QED
  BY <1>6, <1>7, <1>8

(***************************************************************************)
(* SetScore either keeps the score within its bounds or raises on a long   *)
(* entry.                                                                  *)
(***************************************************************************)
LEMMA SetScoreBounds ==
  ASSUME IInv, InLoop, NEW r \in Seq(Int), r # <<>>, SetScore(r),
         \A i \in DOMAIN r : \/ score - 3 <= r[i]
                             \/ -3 <= r[i],
         \A i \in DOMAIN r : r[i] <= score + LongestGain(str) \/ r[i] <= LongestGain(str)
  PROVE  /\ score' \in Int /\ matchPc' \in {"loop", "raised"}
         /\ matchPc' = "loop" => /\ -3 * (strIndex + 1) <= score'
                                 /\ score' <= (strIndex + 1) * LongestGain(str)
         /\ matchPc' = "raised" => Len(str) * LongestGain(str) + 10 > MaxInt
<1>1. \A i \in DOMAIN r : /\ -3 * (strIndex + 1) <= r[i]
                          /\ r[i] <= (strIndex + 1) * LongestGain(str)
                          /\ -3 * Len(str) <= r[i]
                          /\ r[i] <= Len(str) * LongestGain(str) + 10
  <2> SUFFICES ASSUME NEW i \in DOMAIN r
               PROVE  /\ -3 * (strIndex + 1) <= r[i]
                      /\ r[i] <= (strIndex + 1) * LongestGain(str)
                      /\ -3 * Len(str) <= r[i]
                      /\ r[i] <= Len(str) * LongestGain(str) + 10
    OBVIOUS
  <2>1. r[i] \in Int
    OBVIOUS
  <2> QED
    BY <2>1, BoundsAtNext
<1>2. Len(r) \in DOMAIN r
  OBVIOUS
<1>3. CASE \E i \in DOMAIN r : Overflows(r[i])
  <2>1. PICK i \in DOMAIN r : Overflows(r[i])
    BY <1>3
  <2>2. r[i] \in Int
    OBVIOUS
  <2>3. Len(str) * LongestGain(str) + 10 > MaxInt
    BY <1>1, <2>1, <2>2, OverflowNeedsLength DEF IInv
  <2> QED
    BY <1>3, <2>3 DEF SetScore, IInv, FuzzyTypeOK
<1>4. CASE ~\E i \in DOMAIN r : Overflows(r[i])
  <2>1. matchPc' = "loop" /\ score' = r[Len(r)] /\ r[Len(r)] \in Int
    BY <1>2, <1>4 DEF SetScore, InLoop
  <2> QED
    BY <1>1, <1>2, <2>1
<1> QED
  BY <1>3, <1>4

(***************************************************************************)
(* What every action that moves on in the entry has in common.             *)
(***************************************************************************)
LEMMA MovesOn ==
  ASSUME IInv, InLoop, UNCHANGED <<pattern, str, result>>,
         strIndex' = strIndex + 1,
         patIndex' \in {0, patIndex, patIndex + 1},
         headerMatched' \in BOOLEAN, scoreState' \in ScoreCard,
         unmatchedLeadingCharCount' \in {unmatchedLeadingCharCount, unmatchedLeadingCharCount + 1},
         consecutiveMatchCount' \in {0, consecutiveMatchCount, consecutiveMatchCount + 1},
         score' \in Int, matchPc' \in {"loop", "raised"},
         matchPc' = "loop" => /\ -3 * (strIndex + 1) <= score'
                              /\ score' <= (strIndex + 1) * LongestGain(str),
         matchPc' = "raised" => Len(str) * LongestGain(str) + 10 > MaxInt
  PROVE  IInv'
<1>1. Len(pattern) \in Nat /\ Len(str) \in Nat
  BY StringTypes DEF IInv
<1>2. FuzzyTypeOK'
  BY <1>1 DEF IInv, FuzzyTypeOK, InLoop
<1>3. DiffReadsBack'
  BY <1>1 DEF IInv, FuzzyTypeOK, DiffReadsBack
<1>4. ScoreBounds'
  BY DEF ScoreBounds, LongestGain
<1>5. DefectNeedsLength'
  BY DEF DefectNeedsLength, LongestGain
<1> QED
  BY <1>2, <1>3, <1>4, <1>5 DEF IInv

\* The same, for an action that leaves the score and the control alone.
LEMMA ScoreMayStay ==
  ASSUME IInv, InLoop
  PROVE  /\ score \in Int /\ matchPc = "loop"
         /\ -3 * (strIndex + 1) <= score
         /\ score <= (strIndex + 1) * LongestGain(str)
  <1>1. score \in Int /\ LongestGain(str) \in Nat
    BY StringTypes DEF IInv, FuzzyTypeOK
  <1> QED
    BY <1>1, BoundsAtNext DEF InLoop

-----------------------------------------------------------------------------
LEMMA SkipsKeepInvariant ==
  ASSUME IInv, SkipPatternChar \/ SkipStrChar
  PROVE  IInv'
<1>1. Len(pattern) \in Nat /\ Len(str) \in Nat
  BY StringTypes DEF IInv
<1>2. CASE SkipPatternChar
  <2>1. FuzzyTypeOK'
    BY <1>1, <1>2 DEF SkipPatternChar, InLoop, IInv, FuzzyTypeOK, counts
  <2>2. DiffReadsBack' /\ ScoreBounds' /\ DefectNeedsLength'
    BY <1>2 DEF SkipPatternChar, IInv, DiffReadsBack, ScoreBounds, DefectNeedsLength,
                LongestGain
  <2> QED
    BY <2>1, <2>2 DEF IInv
<1>3. CASE SkipStrChar
  <2>1. InLoop
    BY <1>3 DEF SkipStrChar
  <2> QED
    BY <1>3, <2>1, ScoreMayStay, MovesOn DEF SkipStrChar, counts, IInv, FuzzyTypeOK
<1> QED
  BY <1>2, <1>3

LEMMA HeaderKeepsInvariant ==
  ASSUME IInv, MatchHeader
  PROVE  IInv'
<1>1. InLoop
  BY DEF MatchHeader, Comparing
<1>2. /\ score \in Int /\ strIndex \in Nat /\ LongestGain(str) \in Nat
      /\ -3 * strIndex <= score /\ score <= strIndex * LongestGain(str)
  BY <1>1, StringTypes DEF IInv, FuzzyTypeOK, ScoreBounds, InLoop
<1>3. /\ score \div 2 \in Int
      /\ (score \div 2 <= score \/ score \div 2 <= 0)
      /\ (score <= score \div 2 \/ 0 <= score \div 2)
  BY <1>2, Z3
<1>4. /\ -3 * (strIndex + 1) <= score \div 2
      /\ score \div 2 <= (strIndex + 1) * LongestGain(str)
  <2>1. score - 3 <= score \div 2 \/ -3 <= score \div 2
    BY <1>2, <1>3
  <2>2. score \div 2 <= score + LongestGain(str) \/ score \div 2 <= LongestGain(str)
    BY <1>2, <1>3
  <2> QED
    BY <1>1, <1>3, <2>1, <2>2, BoundsAtNext
<1>5. matchPc' = "loop" /\ score' = score \div 2
  BY <1>1 DEF MatchHeader, InLoop
<1>6. scoreState' \in ScoreCard /\ headerMatched' \in BOOLEAN
  BY DEF MatchHeader, ScoreCard
<1> QED
  BY <1>1, <1>3, <1>4, <1>5, <1>6, MovesOn DEF MatchHeader, counts, IInv, FuzzyTypeOK

-----------------------------------------------------------------------------
\* The steps that compare a character and change the score by a fixed amount.
LEMMA MatchesKeepInvariant ==
  ASSUME IInv, MatchFirst \/ MatchAfterMatch \/ MatchAfterDiff
  PROVE  IInv'
<1>1. InLoop
  BY DEF MatchFirst, MatchAfterMatch, MatchAfterDiff, Equal, Comparing
<1>2. score \in Int /\ LongestGain(str) \in Nat /\ LongestGain(str) >= 20
  BY StringTypes DEF IInv, FuzzyTypeOK, LongestGain
<1>3. CASE MatchFirst
  <2>1. scoreState' \in ScoreCard
    BY <1>3 DEF MatchFirst, ScoreCard
  <2> QED
    BY <1>1, <1>3, <2>1, ScoreMayStay, MovesOn DEF MatchFirst, counts, IInv, FuzzyTypeOK
<1>4. CASE MatchAfterMatch
  <2>1. scoreState' \in ScoreCard
    BY <1>4 DEF MatchAfterMatch, ScoreCard
  <2> DEFINE r == <<score + ConsecutiveMatch>>
  <2>2. /\ r \in Seq(Int) /\ r # <<>>
        /\ \A i \in DOMAIN r : score - 3 <= r[i] \/ -3 <= r[i]
        /\ \A i \in DOMAIN r : r[i] <= score + LongestGain(str) \/ r[i] <= LongestGain(str)
    BY <1>2 DEF ConsecutiveMatch
  <2>3. SetScore(r)
    BY <1>4 DEF MatchAfterMatch
  <2> HIDE DEF r
  <2>4. /\ score' \in Int /\ matchPc' \in {"loop", "raised"}
        /\ matchPc' = "loop" => /\ -3 * (strIndex + 1) <= score'
                                /\ score' <= (strIndex + 1) * LongestGain(str)
        /\ matchPc' = "raised" => Len(str) * LongestGain(str) + 10 > MaxInt
    BY <1>1, <2>2, <2>3, SetScoreBounds
  <2> QED
    BY <1>1, <1>4, <2>1, <2>4, MovesOn DEF MatchAfterMatch, counts, IInv, FuzzyTypeOK
<1>5. CASE MatchAfterDiff
  <2>1. InBounds(strIndex - 1, Len(str))
    BY <1>1, <1>5, StringTypes DEF MatchAfterDiff, IInv, FuzzyTypeOK, DiffReadsBack, InBounds, InLoop
  <2>2. scoreState' \in ScoreCard
    BY <1>5, <2>1 DEF MatchAfterDiff, ScoreCard
  <2> QED
    BY <1>1, <1>5, <2>1, <2>2, ScoreMayStay, MovesOn DEF MatchAfterDiff, counts, IInv, FuzzyTypeOK
<1> QED
  BY <1>3, <1>4, <1>5

LEMMA ConsecutiveKeepsInvariant ==
  ASSUME IInv, MatchConsecutive
  PROVE  IInv'
<1> DEFINE gain == ConsecutiveMatch * (consecutiveMatchCount + 1)
<1>1. InLoop
  BY DEF MatchConsecutive, Equal, Comparing
<1>2. /\ score \in Int /\ gain \in Int /\ gain >= 0
      /\ gain + 20 <= LongestGain(str)
  BY <1>1, StringTypes DEF IInv, FuzzyTypeOK, LongestGain, InLoop, ConsecutiveMatch
<1>3. consecutiveMatchCount' = consecutiveMatchCount + 1
  BY DEF MatchConsecutive
<1>4. scoreState' \in ScoreCard
  BY DEF MatchConsecutive, ScoreCard
<1>5. /\ score' \in Int /\ matchPc' \in {"loop", "raised"}
      /\ matchPc' = "loop" => /\ -3 * (strIndex + 1) <= score'
                              /\ score' <= (strIndex + 1) * LongestGain(str)
      /\ matchPc' = "raised" => Len(str) * LongestGain(str) + 10 > MaxInt
  <2>1. CASE OnBoundary
    <3> DEFINE r == <<gain, score + gain, score + gain + WordBoundryMatch>>
    <3>1. SetScore(r)
      BY <2>1, <1>3 DEF MatchConsecutive
    <3>2. /\ r \in Seq(Int) /\ r # <<>>
          /\ \A i \in DOMAIN r : score - 3 <= r[i] \/ -3 <= r[i]
          /\ \A i \in DOMAIN r : r[i] <= score + LongestGain(str) \/ r[i] <= LongestGain(str)
      <4> HIDE DEF gain
      <4>1. LongestGain(str) \in Int
        BY StringTypes DEF IInv
      <4> QED
        BY <1>2, <4>1 DEF WordBoundryMatch
    <3> HIDE DEF r
    <3> QED
      BY <1>1, <3>1, <3>2, SetScoreBounds
  <2>2. CASE ~OnBoundary
    <3> DEFINE r == <<gain, score + gain>>
    <3>1. SetScore(r)
      BY <2>2, <1>3 DEF MatchConsecutive
    <3>2. /\ r \in Seq(Int) /\ r # <<>>
          /\ \A i \in DOMAIN r : score - 3 <= r[i] \/ -3 <= r[i]
          /\ \A i \in DOMAIN r : r[i] <= score + LongestGain(str) \/ r[i] <= LongestGain(str)
      <4> HIDE DEF gain
      <4>1. LongestGain(str) \in Int
        BY StringTypes DEF IInv
      <4> QED
        BY <1>2, <4>1
    <3> HIDE DEF r
    <3> QED
      BY <1>1, <3>1, <3>2, SetScoreBounds
  <2> QED
    BY <2>1, <2>2
<1> QED
  BY <1>1, <1>3, <1>4, <1>5, MovesOn DEF MatchConsecutive, counts, IInv, FuzzyTypeOK

LEMMA MissesKeepInvariant ==
  ASSUME IInv, MissAtStart \/ MissConsecutive \/ MissLeading \/ MissOther
  PROVE  IInv'
<1>1. InLoop
  BY DEF MissAtStart, MissConsecutive, MissLeading, MissOther, Unequal, Comparing
<1>2. /\ score \in Int /\ LongestGain(str) \in Nat
      /\ LeadingCharDiff \in Int /\ LeadingCharDiff = -3 /\ CharDiff \in Int /\ CharDiff = -1
  BY StringTypes DEF IInv, FuzzyTypeOK, LeadingCharDiff, CharDiff
<1>3. ASSUME NEW d \in {LeadingCharDiff, CharDiff}, SetScore(<<score + d>>)
      PROVE  /\ score' \in Int /\ matchPc' \in {"loop", "raised"}
             /\ matchPc' = "loop" => /\ -3 * (strIndex + 1) <= score'
                                     /\ score' <= (strIndex + 1) * LongestGain(str)
             /\ matchPc' = "raised" => Len(str) * LongestGain(str) + 10 > MaxInt
  <2> DEFINE r == <<score + d>>
  <2>1. /\ r \in Seq(Int) /\ r # <<>>
        /\ \A i \in DOMAIN r : score - 3 <= r[i] \/ -3 <= r[i]
        /\ \A i \in DOMAIN r : r[i] <= score + LongestGain(str) \/ r[i] <= LongestGain(str)
    BY <1>2, <1>3
  <2>2. SetScore(r)
    BY <1>3
  <2> HIDE DEF r
  <2> QED
    BY <1>1, <2>1, <2>2, SetScoreBounds
<1>4. CASE MissAtStart
  <2>1. scoreState' \in ScoreCard
    BY <1>4 DEF MissAtStart, ScoreCard
  <2> QED
    BY <1>1, <1>3, <1>4, <2>1, MovesOn DEF MissAtStart, counts, IInv, FuzzyTypeOK
<1>5. CASE MissConsecutive
  <2>1. scoreState' \in ScoreCard
    BY <1>5 DEF MissConsecutive, ScoreCard
  <2> QED
    BY <1>1, <1>3, <1>5, <2>1, MovesOn DEF MissConsecutive, counts, IInv, FuzzyTypeOK
<1>6. CASE MissLeading
  <2>1. CASE unmatchedLeadingCharCount < MaxUnmatchedLeadingChar
    BY <1>1, <1>3, <1>6, <2>1, MovesOn DEF MissLeading, counts, IInv, FuzzyTypeOK
  <2>2. CASE ~(unmatchedLeadingCharCount < MaxUnmatchedLeadingChar)
    BY <1>1, <1>6, <2>2, ScoreMayStay, MovesOn DEF MissLeading, counts, IInv, FuzzyTypeOK
  <2> QED
    BY <2>1, <2>2
<1>7. CASE MissOther
  <2>1. scoreState' \in ScoreCard
    BY <1>7 DEF MissOther, ScoreCard
  <2> QED
    BY <1>1, <1>3, <1>7, <2>1, MovesOn DEF MissOther, counts, IInv, FuzzyTypeOK
<1> QED
  BY <1>4, <1>5, <1>6, <1>7

LEMMA ReturnKeepsInvariant ==
  ASSUME IInv, ReturnScore
  PROVE  IInv'
<1> DEFINE final == IF EndsWord THEN score + 10 ELSE score
<1>1. /\ matchPc = "loop" /\ score \in Int /\ strIndex \in Nat /\ strIndex <= Len(str)
      /\ Len(str) \in Nat /\ LongestGain(str) \in Nat
  BY StringTypes DEF IInv, FuzzyTypeOK, ReturnScore
<1>2. ~(/\ patIndex = Len(pattern) /\ strIndex # Len(str)
        /\ ~InBounds(strIndex, Len(str)))
  BY <1>1 DEF InBounds
<1>3. final \in Int /\ -3 * Len(str) <= final /\ final <= Len(str) * LongestGain(str) + 10
  <2> DEFINE P == strIndex * LongestGain(str)
             Q == Len(str) * LongestGain(str)
  <2>1. P <= Q
    BY <1>1, ProductGrows
  <2>2. P \in Nat /\ Q \in Nat
    BY <1>1, OneMore
  <2>3. -3 * strIndex <= score /\ score <= P
    BY <1>1 DEF IInv, ScoreBounds
  <2> HIDE DEF P, Q
  <2>4. final \in Int /\ -3 * Len(str) <= final /\ final <= Q + 10
    BY <1>1, <2>1, <2>2, <2>3
  <2> QED
    BY <2>4 DEF Q
<1>4. CASE Overflows(final)
  <2>1. RaiseInMatch
    BY <1>2, <1>4 DEF ReturnScore
  <2>2. Len(str) * LongestGain(str) + 10 > MaxInt
    <3> HIDE DEF final
    <3> QED
      BY <1>3, <1>4, OverflowNeedsLength DEF IInv
  <2>3. FuzzyTypeOK'
    BY <2>1 DEF RaiseInMatch, counts, IInv, FuzzyTypeOK
  <2>4. DiffReadsBack' /\ ScoreBounds'
    BY <2>1 DEF RaiseInMatch, counts, IInv, DiffReadsBack, ScoreBounds
  <2>5. DefectNeedsLength'
    BY <2>1, <2>2 DEF RaiseInMatch, DefectNeedsLength, LongestGain
  <2> QED
    BY <2>3, <2>4, <2>5 DEF IInv
<1>5. CASE ~Overflows(final)
  <2>1. /\ matchPc' = "done" /\ score' = final
        /\ result' = [score |-> NimMax(0, final), matched |-> 0 < final]
        /\ UNCHANGED <<pattern, str, scoreState, headerMatched, counts, strIndex, patIndex>>
    BY <1>2, <1>5 DEF ReturnScore
  <2>2. result' \in [score : Nat, matched : BOOLEAN]
    <3>1. NimMax(0, final) \in Nat
      <4> HIDE DEF final
      <4> QED
        BY <1>3 DEF NimMax
    <3>2. (0 < final) \in BOOLEAN
      OBVIOUS
    <3> HIDE DEF final
    <3> QED
      BY <2>1, <3>1, <3>2, Zenon
  <2> HIDE DEF final
  <2>3. FuzzyTypeOK'
    BY <1>3, <2>1, <2>2 DEF counts, IInv, FuzzyTypeOK
  <2>4. DiffReadsBack' /\ ScoreBounds' /\ DefectNeedsLength'
    BY <2>1 DEF counts, IInv, DiffReadsBack, ScoreBounds, DefectNeedsLength
  <2> QED
    BY <2>3, <2>4 DEF IInv
<1> QED
  BY <1>4, <1>5

LEMMA StutterKeepsInvariant ==
  ASSUME IInv, UNCHANGED fuzzyVars
  PROVE  IInv'
BY DEF fuzzyVars, counts, IInv, FuzzyTypeOK, DiffReadsBack, ScoreBounds, DefectNeedsLength, LongestGain

LEMMA InvariantIsInductive == IInv /\ [FuzzyNext]_fuzzyVars => IInv'
BY SkipsKeepInvariant, HeaderKeepsInvariant, MatchesKeepInvariant,
   ConsecutiveKeepsInvariant, MissesKeepInvariant, ReturnKeepsInvariant,
   StutterKeepsInvariant DEF FuzzyNext

THEOREM InvariantAlways == FuzzySpec => []IInv
<1>1. FuzzyInit => IInv
  BY InitInvariant
<1>2. IInv /\ [FuzzyNext]_fuzzyVars => IInv'
  BY InvariantIsInductive
<1> QED
  BY <1>1, <1>2, PTL DEF FuzzySpec

(***************************************************************************)
(* fuzzyMatch keeps its types, whatever is typed and indexed.              *)
(***************************************************************************)
THEOREM FuzzyTypeCorrect == FuzzySpec => []FuzzyTypeOK
<1>1. IInv => FuzzyTypeOK
  BY DEF IInv
<1> QED
  BY <1>1, InvariantAlways, PTL

(***************************************************************************)
(* fuzzyMatch raises no index defect at all and no overflow defect on an   *)
(* entry of a realistic length.                                            *)
(***************************************************************************)
THEOREM DefectNeedsLengthAlways == FuzzySpec => []DefectNeedsLength
<1>1. IInv => DefectNeedsLength
  BY DEF IInv
<1> QED
  BY <1>1, InvariantAlways, PTL

-----------------------------------------------------------------------------
LEMMA RemainingIsNatural ==
  ASSUME NEW l \in Nat, NEW m \in Nat, NEW i \in 0 .. l, NEW j \in 0 .. m
  PROVE  /\ (l - i) * (m + 1) \in Nat
         /\ (l - i) * (m + 1) + (m - j) \in Nat
<1>1. l - i \in Nat /\ m + 1 \in Nat /\ m - j \in Nat
  OBVIOUS
<1>2. (l - i) * (m + 1) \in Nat
  BY <1>1, OneMore
<1> QED
  BY <1>1, <1>2

(***************************************************************************)
(* A step that moves on in the entry outweighs starting the pattern again. *)
(***************************************************************************)
LEMMA MovingOnProgresses ==
  ASSUME FuzzyTypeOK, FuzzyTypeOK', UNCHANGED <<pattern, str>>, strIndex' = strIndex + 1
  PROVE  Remaining' < Remaining
<1> DEFINE k == Len(str) - strIndex'
           g == Len(pattern) + 1
<1>1. k \in Nat /\ g \in Nat /\ Len(str) - strIndex = k + 1
  BY StringTypes DEF FuzzyTypeOK
<1>2. k * g \in Nat /\ (k + 1) * g = k * g + g
  BY <1>1, OneMore
<1>3. Remaining = (k + 1) * g + (Len(pattern) - patIndex)
  BY <1>1 DEF Remaining
<1>4. Remaining' = k * g + (Len(pattern) - patIndex')
  BY DEF Remaining
<1>5. Len(pattern) \in Nat /\ patIndex \in 0 .. Len(pattern) /\ patIndex' \in 0 .. Len(pattern)
  BY StringTypes DEF FuzzyTypeOK
<1> HIDE DEF k
<1> QED
  BY <1>1, <1>2, <1>3, <1>4, <1>5

LEMMA LoopProgresses ==
  ASSUME IInv, IInv', [FuzzyNext]_fuzzyVars, matchPc = "loop", matchPc' = "loop", fuzzyVars' # fuzzyVars
  PROVE  0 <= Remaining' /\ Remaining' < Remaining
<1>1. FuzzyTypeOK /\ FuzzyTypeOK'
  BY DEF IInv
<1>2. Remaining' \in Nat
  <2>1. /\ Len(str') \in Nat /\ Len(pattern') \in Nat
        /\ strIndex' \in 0 .. Len(str') /\ patIndex' \in 0 .. Len(pattern')
    BY <1>1, FuzzyAssumption, SMTT(30) DEF FuzzyTypeOK
  <2> QED
    BY <2>1, RemainingIsNatural DEF Remaining
<1>3. Remaining' < Remaining
  <2>1. CASE SkipPatternChar
    <3>1. UNCHANGED <<pattern, str, strIndex>> /\ patIndex' = patIndex + 1
      BY <2>1 DEF SkipPatternChar
    <3>2. /\ (Len(str) - strIndex) * (Len(pattern) + 1) \in Nat
          /\ Len(pattern) \in Nat /\ patIndex \in Nat
      <4>1. /\ Len(str) \in Nat /\ Len(pattern) \in Nat
            /\ strIndex \in 0 .. Len(str) /\ patIndex \in 0 .. Len(pattern)
        BY <1>1, FuzzyAssumption DEF FuzzyTypeOK
      <4> QED
        BY <4>1, RemainingIsNatural
    <3> QED
      BY <3>1, <3>2 DEF Remaining
  <2>2. CASE UNCHANGED <<pattern, str>> /\ strIndex' = strIndex + 1
    BY <1>1, <2>2, MovingOnProgresses
  <2>3. CASE ReturnScore
    BY <2>3 DEF ReturnScore, RaiseInMatch
  <2>4. CASE MatchAfterDiff
    <3>1. matchPc' # "raised"
      OBVIOUS
    <3>2. UNCHANGED <<pattern, str>> /\ strIndex' = strIndex + 1
      BY <2>4, <3>1 DEF MatchAfterDiff, RaiseInMatch
    <3> QED
      BY <3>2, <2>2
  <2>5. CASE SkipStrChar \/ MatchHeader \/ MatchFirst \/ MatchAfterMatch \/ MatchConsecutive
             \/ MissAtStart \/ MissConsecutive \/ MissLeading \/ MissOther
    <3>1. UNCHANGED <<pattern, str>> /\ strIndex' = strIndex + 1
      BY <2>5 DEF SkipStrChar, MatchHeader, MatchFirst, MatchAfterMatch, MatchConsecutive,
                  MissAtStart, MissConsecutive, MissLeading, MissOther
    <3> QED
      BY <3>1, <2>2
  <2> QED
    BY <2>1, <2>3, <2>4, <2>5 DEF FuzzyNext
<1> QED
  BY <1>2, <1>3

(***************************************************************************)
(* Every turn of the loop reduces what remains to be read, so that every   *)
(* call ends, also when a colon starts the pattern again.                  *)
(***************************************************************************)
THEOREM ProgressAlways == FuzzySpec => Progress
<1>1. IInv /\ IInv' /\ [FuzzyNext]_fuzzyVars
      => [matchPc = "loop" /\ matchPc' = "loop" => 0 <= Remaining' /\ Remaining' < Remaining]_fuzzyVars
  BY LoopProgresses
<1> QED
  BY <1>1, InvariantAlways, PTL DEF FuzzySpec, Progress

-----------------------------------------------------------------------------
(***************************************************************************)
(* The greedy scan.  An embedding takes the significant characters of the  *)
(* pattern, in order, to equal ones of str: it is the choice of places     *)
(* that SameText speaks of, without counting.                              *)
(***************************************************************************)
Lower(s, i) == ToLowerAscii(s[i])

Embedding(p, s, f, P, S) ==
  /\ f \in [P -> S]
  /\ \A i, j \in P : i < j => f[i] < f[j]
  /\ \A i \in P : Lower(p, i) = Lower(s, f[i])

\* After the heading, of length h, up to si there is what the pattern has up
\* to pi, and no longer part of the pattern.
Longest(p, s, h, pi, si) ==
  /\ \E f : Embedding(p, s, f, SignificantIn(p, 1 .. pi), SignificantIn(s, h + 1 .. si))
  /\ \A k \in 0 .. Len(p) :
       \A f : Embedding(p, s, f, SignificantIn(p, 1 .. k), SignificantIn(s, h + 1 .. si))
              => SignificantIn(p, 1 .. k) \subseteq 1 .. pi

\* How long the heading of s is that ends before position si.
Heading(s, matched, si, h) ==
  /\ h \in 0 .. si
  /\ matched => h # 0 /\ s[h] = Colon /\ \A j \in 1 .. h - 1 : s[j] # Colon
  /\ ~matched => h = 0 /\ \A j \in 1 .. si : s[j] # Colon

GreedyInv ==
  \E h \in Nat : /\ Heading(str, headerMatched, strIndex, h)
                 /\ Longest(pattern, str, h, patIndex, strIndex)

-----------------------------------------------------------------------------
(* The two scans, one step at a time.                                      *)

\* What is read next is passed over, or it is the one character that is new.
LEMMA OneMoreSignificant ==
  ASSUME NEW s, NEW a \in Nat, NEW b \in Nat, a <= b
  PROVE  SignificantIn(s, a + 1 .. b + 1) =
           IF Lower(s, b + 1) \in Ignored
           THEN SignificantIn(s, a + 1 .. b)
           ELSE SignificantIn(s, a + 1 .. b) \cup {b + 1}
<1>1. \A i : i \in a + 1 .. b + 1 <=> i \in a + 1 .. b \/ i = b + 1
  OBVIOUS
<1> QED
  BY <1>1 DEF SignificantIn, Lower

\* Before anything is read nothing is matched.
LEMMA NothingRead ==
  ASSUME NEW p, NEW s, NEW h \in Nat
  PROVE  Longest(p, s, h, 0, h)
<1>1. SignificantIn(p, 1 .. 0) = {} /\ SignificantIn(s, h + 1 .. h) = {}
  BY DEF SignificantIn
<1>2. \E f : Embedding(p, s, f, {}, {})
  <2> DEFINE f == [i \in {} |-> i]
  <2>1. f \in [{} -> {}]
    OBVIOUS
  <2> HIDE DEF f
  <2>2. Embedding(p, s, f, {}, {})
    BY <2>1 DEF Embedding
  <2> QED
    BY <2>2
<1>3. ASSUME NEW f, NEW P, Embedding(p, s, f, P, {}) PROVE P = {}
  BY <1>3 DEF Embedding
<1> QED
  BY <1>1, <1>2, <1>3 DEF Longest

LEMMA PatternSkipped ==
  ASSUME NEW p, NEW s, NEW h \in Nat, NEW pi \in Nat, NEW si \in Nat,
         Longest(p, s, h, pi, si), Lower(p, pi + 1) \in Ignored
  PROVE  Longest(p, s, h, pi + 1, si)
<1>1. SignificantIn(p, 1 .. pi + 1) = SignificantIn(p, 1 .. pi)
  <2>1. \A i : i \in 1 .. pi + 1 <=> i \in 1 .. pi \/ i = pi + 1
    OBVIOUS
  <2> QED
    BY <2>1 DEF SignificantIn, Lower
<1>2. 1 .. pi \subseteq 1 .. pi + 1
  OBVIOUS
<1> QED
  BY <1>1, <1>2 DEF Longest

LEMMA StrSkipped ==
  ASSUME NEW p, NEW s, NEW h \in Nat, NEW pi \in Nat, NEW si \in Nat, h <= si,
         Longest(p, s, h, pi, si), Lower(s, si + 1) \in Ignored
  PROVE  Longest(p, s, h, pi, si + 1)
<1>1. SignificantIn(s, h + 1 .. si + 1) = SignificantIn(s, h + 1 .. si)
  BY OneMoreSignificant
<1> QED
  BY <1>1 DEF Longest

(***************************************************************************)
(* An embedding into one more character takes at most one more to it, the  *)
(* last, and the one before the last leaves it where it was.               *)
(***************************************************************************)
LEMMA EmbedsOneMore ==
  ASSUME NEW p, NEW s, NEW h \in Nat, NEW pi \in Nat, NEW si \in Nat, h <= si,
         Longest(p, s, h, pi, si), pi + 1 \in Nat, pi + 1 <= Len(p), Len(p) \in Nat,
         Lower(p, pi + 1) \notin Ignored,
         NEW k \in 0 .. Len(p), NEW f,
         Embedding(p, s, f, SignificantIn(p, 1 .. k), SignificantIn(s, h + 1 .. si + 1))
  PROVE  \/ SignificantIn(p, 1 .. k) \subseteq 1 .. pi
         \/ /\ SignificantIn(p, 1 .. k) \subseteq 1 .. pi + 1
            /\ Lower(p, pi + 1) = Lower(s, si + 1)
<1> DEFINE A == SignificantIn(p, 1 .. k)
           W == SignificantIn(s, h + 1 .. si)
           V == SignificantIn(s, h + 1 .. si + 1)
<1>1. /\ f \in [A -> V] /\ \A i, j \in A : i < j => f[i] < f[j]
      /\ \A i \in A : Lower(p, i) = Lower(s, f[i])
  BY DEF Embedding
<1>2. /\ \A i \in A : i \in Nat /\ 1 <= i
      /\ \A v \in V : v \in Nat /\ v <= si + 1 /\ (v # si + 1 => v \in W)
  BY DEF SignificantIn
<1>3. CASE \A i \in A : f[i] # si + 1
  <2>1. f \in [A -> W]
    BY <1>1, <1>2, <1>3
  <2>2. Embedding(p, s, f, A, W)
    BY <1>1, <2>1 DEF Embedding
  <2> QED
    BY <2>2 DEF Longest
<1>4. ASSUME NEW m \in A, f[m] = si + 1
      PROVE  \/ A \subseteq 1 .. pi
             \/ A \subseteq 1 .. pi + 1 /\ Lower(p, pi + 1) = Lower(s, si + 1)
  <2> DEFINE B == SignificantIn(p, 1 .. m - 1)
             g == [i \in B |-> f[i]]
  <2>1. m \in 1 .. k /\ m - 1 \in 0 .. Len(p)
    BY <1>2, <1>4 DEF SignificantIn
  <2>2. ASSUME NEW i \in A PROVE i <= m
    <3>1. i \in Nat /\ m \in Nat /\ f[i] \in V /\ f[i] \in Nat /\ f[i] <= si + 1
      BY <1>1, <1>2
    <3>2. ~(m < i)
      <4>1. m < i => si + 1 < f[i]
        BY <1>1, <1>4
      <4> QED
        BY <3>1, <4>1
    <3> QED
      BY <3>1, <3>2
  <2>3. \A i \in B : i \in A /\ i < m
    BY <2>1 DEF SignificantIn
  <2>4. g \in [B -> W]
    <3> SUFFICES ASSUME NEW i \in B PROVE f[i] \in W
      OBVIOUS
    <3>1. i \in A /\ f[i] \in V /\ f[i] < si + 1
      BY <1>1, <1>4, <2>3
    <3> QED
      BY <1>2, <3>1
  <2>5. Embedding(p, s, g, B, W)
    <3> HIDE DEF B, W, A
    <3>1. \A i \in B : g[i] = f[i]
      OBVIOUS
    <3>2. \A i, j \in B : i < j => g[i] < g[j]
      BY <1>1, <2>3, <3>1
    <3>3. \A i \in B : Lower(p, i) = Lower(s, g[i])
      BY <1>1, <2>3, <3>1
    <3> HIDE DEF g
    <3> QED
      BY <2>4, <3>2, <3>3 DEF Embedding
  <2>6. B \subseteq 1 .. pi
    BY <2>1, <2>5 DEF Longest
  <2>7. m <= pi + 1
    <3> SUFFICES ASSUME pi + 1 < m PROVE FALSE
      BY <2>1
    <3>1. pi + 1 \in B
      BY <2>1 DEF SignificantIn, Lower
    <3>2. pi + 1 \in 1 .. pi
      BY <2>6, <3>1
    <3> QED
      BY <3>2
  <2>8. CASE m = pi + 1
    <3>1. \A i \in A : i \in Nat /\ 1 <= i /\ i <= pi + 1
      BY <1>2, <2>2, <2>8
    <3>2. Lower(p, pi + 1) = Lower(s, si + 1)
      BY <1>1, <1>4, <2>8
    <3> QED
      BY <3>1, <3>2
  <2>9. CASE m # pi + 1
    <3>1. m \in Nat /\ m <= pi
      BY <2>1, <2>7, <2>9
    <3>2. ASSUME NEW i \in A PROVE i \in Nat /\ 1 <= i /\ i <= pi
      <4>1. i \in Nat /\ 1 <= i /\ i <= m
        BY <1>2, <2>2
      <4> QED
        BY <3>1, <4>1
    <3> HIDE DEF A
    <3> QED
      BY <3>2
  <2> QED
    BY <2>8, <2>9
<1> QED
  BY <1>3, <1>4

\* Equal characters extend the match by one, others leave it.
LEMMA BothRead ==
  ASSUME NEW p, NEW s, NEW h \in Nat, NEW pi \in Nat, NEW si \in Nat, h <= si,
         Longest(p, s, h, pi, si), pi + 1 <= Len(p), Len(p) \in Nat,
         Lower(p, pi + 1) \notin Ignored, Lower(s, si + 1) \notin Ignored
  PROVE  /\ Lower(p, pi + 1) = Lower(s, si + 1) => Longest(p, s, h, pi + 1, si + 1)
         /\ Lower(p, pi + 1) # Lower(s, si + 1) => Longest(p, s, h, pi, si + 1)
<1> DEFINE P(k) == SignificantIn(p, 1 .. k)
           W == SignificantIn(s, h + 1 .. si)
           V == SignificantIn(s, h + 1 .. si + 1)
<1>1. V = W \cup {si + 1} /\ \A v \in W : v \in Nat /\ v < si + 1
  <2>1. V = W \cup {si + 1}
    <3>1. \A i : i \in h + 1 .. si + 1 <=> i \in h + 1 .. si \/ i = si + 1
      OBVIOUS
    <3> QED
      BY <3>1 DEF SignificantIn, Lower
  <2>2. \A v \in W : v \in Nat /\ v < si + 1
    BY DEF SignificantIn
  <2> QED
    BY <2>1, <2>2
<1>2. /\ P(pi + 1) = P(pi) \cup {pi + 1} /\ \A i \in P(pi) : i \in Nat /\ i < pi + 1
  <2>1. \A i : i \in 1 .. pi + 1 <=> i \in 1 .. pi \/ i = pi + 1
    OBVIOUS
  <2>2. P(pi + 1) = P(pi) \cup {pi + 1}
    BY <2>1 DEF SignificantIn, Lower
  <2>3. \A i \in P(pi) : i \in Nat /\ i < pi + 1
    BY DEF SignificantIn
  <2> QED
    BY <2>2, <2>3
<1>3. PICK f : Embedding(p, s, f, P(pi), W)
  BY DEF Longest
<1>4. /\ f \in [P(pi) -> W] /\ \A i, j \in P(pi) : i < j => f[i] < f[j]
      /\ \A i \in P(pi) : Lower(p, i) = Lower(s, f[i])
  BY <1>3 DEF Embedding
<1>5. /\ \A k \in 0 .. Len(p) :
           \A g : Embedding(p, s, g, P(k), V) =>
             P(k) \subseteq 1 .. pi \/ (P(k) \subseteq 1 .. pi + 1 /\ Lower(p, pi + 1) = Lower(s, si + 1))
  BY EmbedsOneMore
<1> HIDE DEF P, W, V
<1>6. CASE Lower(p, pi + 1) = Lower(s, si + 1)
  <2> DEFINE g == [i \in P(pi + 1) |-> IF i = pi + 1 THEN si + 1 ELSE f[i]]
  <2>1. g \in [P(pi + 1) -> V]
    BY <1>1, <1>2, <1>4
  <2>2. g[pi + 1] = si + 1 /\ \A i \in P(pi) : g[i] = f[i] /\ f[i] \in W
    BY <1>2, <1>4
  <2> HIDE DEF g
  <2>3. ASSUME NEW i \in P(pi + 1), NEW j \in P(pi + 1), i < j PROVE g[i] < g[j]
    <3>1. i \in P(pi)
      BY <1>2, <2>3
    <3>2. CASE j = pi + 1
      BY <1>1, <2>2, <3>1, <3>2
    <3>3. CASE j # pi + 1
      BY <1>2, <1>4, <2>2, <2>3, <3>1, <3>3
    <3> QED
      BY <3>2, <3>3
  <2>4. \A i \in P(pi + 1) : Lower(p, i) = Lower(s, g[i])
    BY <1>2, <1>4, <1>6, <2>2
  <2>5. Embedding(p, s, g, P(pi + 1), V)
    BY <2>1, <2>3, <2>4 DEF Embedding
  <2>6. 1 .. pi \subseteq 1 .. pi + 1
    OBVIOUS
  <2>7. \A k \in 0 .. Len(p) :
          \A e : Embedding(p, s, e, P(k), V) => P(k) \subseteq 1 .. pi + 1
    BY <1>5, <2>6
  <2>8. Longest(p, s, h, pi + 1, si + 1)
    BY <2>5, <2>7 DEF Longest, P, V
  <2> QED
    BY <1>6, <2>8
<1>7. CASE Lower(p, pi + 1) # Lower(s, si + 1)
  <2>1. f \in [P(pi) -> V]
    BY <1>1, <1>4
  <2>2. Embedding(p, s, f, P(pi), V)
    BY <1>4, <2>1 DEF Embedding
  <2>3. Longest(p, s, h, pi, si + 1)
    BY <1>5, <1>7, <2>2 DEF Longest, P, V
  <2> QED
    BY <1>7, <2>3
<1> QED
  BY <1>6, <1>7

-----------------------------------------------------------------------------
\* What a step of fuzzyMatch does to the two scans.
ReadsBoth ==
  /\ Comparing /\ ~(~headerMatched /\ StrChar = Colon)
  /\ strIndex' = strIndex + 1 /\ UNCHANGED headerMatched
  /\ \/ StrChar = PatternChar /\ patIndex' = patIndex + 1
     \/ StrChar # PatternChar /\ patIndex' = patIndex

LEMMA StepsOfScans ==
  ASSUME IInv, [FuzzyNext]_fuzzyVars
  PROVE  /\ UNCHANGED <<pattern, str>>
         /\ \/ UNCHANGED <<patIndex, strIndex, headerMatched>>
            \/ SkipPatternChar \/ SkipStrChar \/ MatchHeader \/ ReadsBoth
<1>1. CASE UNCHANGED fuzzyVars
  BY <1>1 DEF fuzzyVars
<1>2. CASE SkipPatternChar \/ SkipStrChar \/ MatchHeader
  BY <1>2 DEF SkipPatternChar, SkipStrChar, MatchHeader
<1>3. CASE MatchFirst \/ MatchAfterMatch \/ MatchConsecutive
  BY <1>3 DEF MatchFirst, MatchAfterMatch, MatchConsecutive, Equal, ReadsBoth
<1>4. CASE MatchAfterDiff
  BY <1>4 DEF MatchAfterDiff, RaiseInMatch, Equal, ReadsBoth
<1>5. CASE MissAtStart \/ MissConsecutive \/ MissLeading \/ MissOther
  BY <1>5 DEF MissAtStart, MissConsecutive, MissLeading, MissOther, Unequal, ReadsBoth
<1>6. CASE ReturnScore
  BY <1>6 DEF ReturnScore, RaiseInMatch
<1> QED
  BY <1>1, <1>2, <1>3, <1>4, <1>5, <1>6 DEF FuzzyNext

\* A character is a colon or not, whatever its case.
LEMMA ColonsHaveNoCase ==
  ASSUME NEW c \in Nat
  PROVE  ToLowerAscii(c) = Colon <=> c = Colon
BY DEF ToLowerAscii, Colon, UpperCase

LEMMA GreedyNext == IInv /\ GreedyInv /\ [FuzzyNext]_fuzzyVars => GreedyInv'
<1> SUFFICES ASSUME IInv, GreedyInv, [FuzzyNext]_fuzzyVars PROVE GreedyInv'
  OBVIOUS
<1>1. PICK h \in Nat : /\ Heading(str, headerMatched, strIndex, h)
                       /\ Longest(pattern, str, h, patIndex, strIndex)
  BY DEF GreedyInv
<1>2. /\ strIndex \in Nat /\ patIndex \in Nat /\ headerMatched \in BOOLEAN
      /\ Len(pattern) \in Nat /\ Len(str) \in Nat /\ str \in Seq(Nat)
      /\ patIndex <= Len(pattern) /\ strIndex <= Len(str)
  BY StringTypes DEF IInv, FuzzyTypeOK
<1>3. h <= strIndex
  BY <1>1, <1>2 DEF Heading
<1>4. UNCHANGED <<pattern, str>>
  BY StepsOfScans
<1>5. CASE UNCHANGED <<patIndex, strIndex, headerMatched>>
  BY <1>1, <1>4, <1>5 DEF GreedyInv
<1>6. CASE SkipPatternChar
  <2>1. /\ patIndex' = patIndex + 1 /\ UNCHANGED <<strIndex, headerMatched>>
        /\ Lower(pattern, patIndex + 1) \in Ignored
    BY <1>6 DEF SkipPatternChar, PatternChar, At, Lower
  <2>2. Longest(pattern, str, h, patIndex + 1, strIndex)
    BY <1>1, <1>2, <1>3, <2>1, PatternSkipped
  <2> QED
    BY <1>1, <1>4, <2>1, <2>2 DEF GreedyInv
<1>7. CASE SkipStrChar
  <2>1. /\ strIndex' = strIndex + 1 /\ UNCHANGED <<patIndex, headerMatched>>
        /\ Lower(str, strIndex + 1) \in Ignored /\ strIndex + 1 \in DOMAIN str
    BY <1>2, <1>7 DEF SkipStrChar, StrChar, At, Lower, InLoop
  <2>2. Longest(pattern, str, h, patIndex, strIndex + 1)
    BY <1>1, <1>2, <1>3, <2>1, StrSkipped
  <2>3. str[strIndex + 1] # Colon
    BY <2>1 DEF Lower, ToLowerAscii, Ignored, Colon, UpperCase
  <2>4. Heading(str, headerMatched, strIndex + 1, h)
    BY <1>1, <1>2, <2>3 DEF Heading
  <2> QED
    BY <1>4, <2>1, <2>2, <2>4 DEF GreedyInv
<1>8. CASE MatchHeader
  <2>1. /\ strIndex' = strIndex + 1 /\ patIndex' = 0 /\ headerMatched' = TRUE /\ ~headerMatched
        /\ ToLowerAscii(str[strIndex + 1]) = Colon /\ strIndex + 1 \in DOMAIN str
    BY <1>2, <1>8 DEF MatchHeader, Comparing, StrChar, At, InLoop
  <2>2. str[strIndex + 1] \in Nat
    BY <1>2, <2>1
  <2>3. str[strIndex + 1] = Colon
    BY <2>1, <2>2, ColonsHaveNoCase
  <2>4. Heading(str, TRUE, strIndex + 1, strIndex + 1)
    BY <1>1, <1>2, <2>1, <2>3 DEF Heading
  <2>5. Longest(pattern, str, strIndex + 1, 0, strIndex + 1) /\ strIndex + 1 \in Nat
    BY <1>2, NothingRead
  <2> QED
    BY <1>4, <2>1, <2>4, <2>5 DEF GreedyInv
<1>9. CASE ReadsBoth
  <2>1. /\ strIndex' = strIndex + 1 /\ UNCHANGED headerMatched
        /\ Lower(pattern, patIndex + 1) \notin Ignored /\ Lower(str, strIndex + 1) \notin Ignored
        /\ \/ Lower(pattern, patIndex + 1) = Lower(str, strIndex + 1) /\ patIndex' = patIndex + 1
           \/ Lower(pattern, patIndex + 1) # Lower(str, strIndex + 1) /\ patIndex' = patIndex
        /\ patIndex + 1 <= Len(pattern) /\ strIndex + 1 \in DOMAIN str
    BY <1>2, <1>9 DEF ReadsBoth, Comparing, PatternChar, StrChar, At, Lower, InLoop
  <2>2. Longest(pattern, str, h, patIndex', strIndex + 1)
    BY <1>1, <1>2, <1>3, <2>1, BothRead
  <2>3. ~headerMatched => str[strIndex + 1] # Colon
    <3>1. ~headerMatched => Lower(str, strIndex + 1) # Colon
      BY <1>9 DEF ReadsBoth, StrChar, At, Lower
    <3>2. str[strIndex + 1] \in Nat
      BY <1>2, <2>1
    <3> QED
      BY <3>1, <3>2, ColonsHaveNoCase DEF Lower
  <2>4. Heading(str, headerMatched, strIndex + 1, h)
    BY <1>1, <1>2, <2>3 DEF Heading
  <2> QED
    BY <1>4, <2>1, <2>2, <2>4 DEF GreedyInv
<1> QED
  BY <1>5, <1>6, <1>7, <1>8, <1>9, StepsOfScans

LEMMA GreedyInit == FuzzyInit => GreedyInv
<1> SUFFICES ASSUME FuzzyInit PROVE GreedyInv
  OBVIOUS
<1>1. strIndex = 0 /\ patIndex = 0 /\ headerMatched = FALSE
  BY DEF FuzzyInit
<1>2. Longest(pattern, str, 0, 0, 0)
  BY NothingRead
<1>3. Heading(str, FALSE, 0, 0)
  BY DEF Heading
<1> QED
  BY <1>1, <1>2, <1>3 DEF GreedyInv

-----------------------------------------------------------------------------
(***************************************************************************)
(* Counting: Nth numbers the positions of a finite set from 1 on, without  *)
(* a gap, so that places with the same text are those of an embedding.     *)
(***************************************************************************)
LEMMA NthCounts ==
  ASSUME NEW P \in SUBSET Nat, IsFiniteSet(P)
  PROVE  /\ Cardinality(P) \in Nat
         /\ \A i \in P : Nth(P, i) \in 1 .. Cardinality(P)
         /\ \A i, j \in P : i < j <=> Nth(P, i) < Nth(P, j)
         /\ \A i, j \in P : Nth(P, i) = Nth(P, j) => i = j
         /\ \A m \in 1 .. Cardinality(P) : \E i \in P : Nth(P, i) = m
<1> DEFINE Upto(i) == {j \in P : j <= i}
           n == Cardinality(P)
<1>1. n \in Nat
  BY FS_CardinalityType
<1>2. \A i : Nth(P, i) = Cardinality(Upto(i))
  BY DEF Nth
<1>3. \A i \in P : Upto(i) \in SUBSET P /\ i \in Upto(i)
  OBVIOUS
<1>4. ASSUME NEW i \in P, NEW j \in P, i < j
      PROVE  Upto(i) \in SUBSET Upto(j) /\ j \notin Upto(i)
  <2>1. i \in Nat /\ j \in Nat /\ \A k \in P : k \in Nat
    OBVIOUS
  <2>2. \A k \in P : k <= i => k <= j
    BY <1>4, <2>1
  <2>3. ~(j <= i)
    BY <1>4, <2>1
  <2> QED
    BY <2>2, <2>3
<1> HIDE DEF Upto
<1>5. ASSUME NEW i \in P PROVE /\ IsFiniteSet(Upto(i)) /\ Cardinality(Upto(i)) \in Nat
                               /\ Cardinality(Upto(i)) <= n /\ Cardinality(Upto(i)) # 0
  <2>1. IsFiniteSet(Upto(i)) /\ Cardinality(Upto(i)) <= n
    BY <1>3, <1>5, FS_Subset
  <2>2. Cardinality(Upto(i)) \in Nat
    BY <2>1, FS_CardinalityType
  <2>3. Cardinality(Upto(i)) # 0
    BY <1>3, <1>5, <2>1, FS_EmptySet
  <2> QED
    BY <2>1, <2>2, <2>3
<1>6. ASSUME NEW i \in P, NEW j \in P, i < j PROVE Nth(P, i) < Nth(P, j)
  <2>1. Upto(i) \in SUBSET Upto(j) /\ Upto(i) # Upto(j)
    BY <1>3, <1>4, <1>6
  <2>2. Cardinality(Upto(i)) <= Cardinality(Upto(j)) /\ Cardinality(Upto(i)) # Cardinality(Upto(j))
    BY <1>5, <2>1, FS_Subset
  <2> QED
    BY <1>2, <1>5, <2>2
<1>7. \A i \in P : Nth(P, i) \in 1 .. n
  BY <1>1, <1>2, <1>5
<1>8. \A i, j \in P : /\ i < j <=> Nth(P, i) < Nth(P, j)
                      /\ Nth(P, i) = Nth(P, j) => i = j
  <2> SUFFICES ASSUME NEW i \in P, NEW j \in P
               PROVE  /\ i < j <=> Nth(P, i) < Nth(P, j)
                      /\ Nth(P, i) = Nth(P, j) => i = j
    OBVIOUS
  <2>1. i \in Nat /\ j \in Nat /\ Nth(P, i) \in Int /\ Nth(P, j) \in Int
    BY <1>7
  <2>2. (i < j => Nth(P, i) < Nth(P, j)) /\ (j < i => Nth(P, j) < Nth(P, i))
    BY <1>6
  <2> QED
    BY <2>1, <2>2
<1>9. \A m \in 1 .. n : \E i \in P : Nth(P, i) = m
  <2> DEFINE r == [i \in P |-> Nth(P, i)]
  <2>1. r \in [P -> 1 .. n] /\ \A i \in P : r[i] = Nth(P, i)
    BY <1>7
  <2>2. \A i, j \in P : r[i] = r[j] => i = j
    BY <1>8, <2>1
  <2> HIDE DEF r
  <2>3. r \in Injection(P, 1 .. n)
    BY <2>1, <2>2 DEF Injection, IsInjective
  <2>4. IsFiniteSet(1 .. n) /\ Cardinality(1 .. n) = n
    BY <1>1, FS_Interval
  <2> HIDE DEF n
  <2>5. Cardinality(P) = n
    BY DEF n
  <2>6. r \in Surjection(P, 1 .. n)
    BY <2>3, <2>4, <2>5, FS_Injection
  <2> QED
    BY <2>1, <2>6 DEF Surjection
<1> QED
  BY <1>1, <1>7, <1>8, <1>9

\* Places with the same text are where an embedding goes.
LEMMA TextIsEmbedded ==
  ASSUME NEW P \in SUBSET Nat, IsFiniteSet(P), NEW S \in SUBSET Nat, IsFiniteSet(S), SameText(P, S)
  PROVE  \E f : Embedding(pattern, str, f, P, S)
<1> DEFINE f == [i \in P |-> CHOOSE j \in S : Nth(S, j) = Nth(P, i)]
<1>1. Cardinality(P) = Cardinality(S)
      /\ \A i \in P, j \in S : Nth(P, i) = Nth(S, j) => Lower(pattern, i) = Lower(str, j)
  BY DEF SameText, Lower
<1>2. \A i \in P : f[i] \in S /\ Nth(S, f[i]) = Nth(P, i)
  <2>1. \A i \in P : \E j \in S : Nth(S, j) = Nth(P, i)
    <3>1. \A i \in P : Nth(P, i) \in 1 .. Cardinality(P)
      BY NthCounts
    <3> QED
      BY <1>1, <3>1, NthCounts
  <2> QED
    BY <2>1
<1>3. f \in [P -> S]
  BY <1>2
<1> HIDE DEF f
<1>4. ASSUME NEW i \in P, NEW j \in P, i < j PROVE f[i] < f[j]
  <2>1. Nth(P, i) < Nth(P, j)
    BY <1>4, NthCounts
  <2>2. Nth(S, f[i]) < Nth(S, f[j]) /\ f[i] \in S /\ f[j] \in S
    BY <1>2, <2>1
  <2> QED
    BY <2>2, NthCounts
<1>5. \A i \in P : Lower(pattern, i) = Lower(str, f[i])
  BY <1>1, <1>2
<1> QED
  BY <1>3, <1>4, <1>5 DEF Embedding

\* An embedding goes to places with the same text.
LEMMA EmbeddedHasText ==
  ASSUME NEW P \in SUBSET Nat, IsFiniteSet(P), NEW S \in SUBSET Nat, IsFiniteSet(S),
         NEW f, Embedding(pattern, str, f, P, S)
  PROVE  \E places \in SUBSET S : SameText(P, places)
<1> DEFINE T == {f[i] : i \in P}
           Up(i) == {j \in P : j <= i}
           To(i) == {l \in T : l <= f[i]}
           g == [i \in P |-> f[i]]
<1>1. /\ f \in [P -> S] /\ \A i, j \in P : i < j => f[i] < f[j]
      /\ \A i \in P : Lower(pattern, i) = Lower(str, f[i])
  BY DEF Embedding
<1>2. T \in SUBSET S
  BY <1>1
<1>3. ASSUME NEW i \in P, NEW j \in P
      PROVE  /\ f[i] = f[j] => i = j
             /\ f[i] <= f[j] <=> i <= j
  <2>1. i \in Nat /\ j \in Nat /\ f[i] \in Nat /\ f[j] \in Nat
    BY <1>1
  <2>2. (i < j => f[i] < f[j]) /\ (j < i => f[j] < f[i])
    BY <1>1
  <2> QED
    BY <2>1, <2>2
<1>4. ASSUME NEW A \in SUBSET P
      PROVE  Cardinality({f[i] : i \in A}) = Cardinality(A)
  <2> DEFINE B == {f[i] : i \in A}
             e == [i \in A |-> f[i]]
  <2>1. IsFiniteSet(A)
    BY FS_Subset
  <2>2. e \in [A -> B] /\ (\A i, j \in A : e[i] = e[j] => i = j) /\ (\A b \in B : \E i \in A : e[i] = b)
    BY <1>3
  <2> HIDE DEF e, B
  <2>3. e \in Bijection(A, B)
    BY <2>2 DEF Bijection, Injection, Surjection, IsInjective
  <2>4. Cardinality(B) = Cardinality(A)
    BY <2>1, <2>3, FS_Bijection DEF ExistsBijection
  <2> QED
    BY <2>4 DEF B
<1>5. Cardinality(T) = Cardinality(P)
  BY <1>4
<1>6. ASSUME NEW i \in P PROVE Nth(T, f[i]) = Nth(P, i)
  <2>1. To(i) = {f[j] : j \in Up(i)}
    BY <1>3
  <2>2. Up(i) \in SUBSET P
    OBVIOUS
  <2>3. Cardinality(To(i)) = Cardinality(Up(i))
    BY <1>4, <2>1, <2>2
  <2> QED
    BY <2>3 DEF Nth
<1>7. ASSUME NEW i \in P, NEW l \in T, Nth(P, i) = Nth(T, l)
      PROVE  Lower(pattern, i) = Lower(str, l)
  <2>1. PICK j \in P : l = f[j]
    OBVIOUS
  <2>2. Nth(P, i) = Nth(P, j)
    BY <1>6, <1>7, <2>1
  <2>3. i = j
    BY <2>2, NthCounts
  <2> QED
    BY <1>1, <2>1, <2>3
<1>8. SameText(P, T)
  <2> HIDE DEF T
  <2> QED
    BY <1>5, <1>7 DEF SameText, Lower
<1> QED
  BY <1>2, <1>8

-----------------------------------------------------------------------------
\* The positions of a string are finite in number.
LEMMA PositionsFinite ==
  ASSUME NEW s, NEW a \in Nat, NEW b \in Nat
  PROVE  /\ SignificantIn(s, a .. b) \in SUBSET Nat
         /\ IsFiniteSet(SignificantIn(s, a .. b))
         /\ Cardinality(SignificantIn(s, a .. b)) \in Nat
<1>1. IsFiniteSet(a .. b)
  BY FS_Interval
<1>2. SignificantIn(s, a .. b) \in SUBSET (a .. b)
  BY DEF SignificantIn
<1>3. IsFiniteSet(SignificantIn(s, a .. b))
  BY <1>1, <1>2, FS_Subset
<1> QED
  BY <1>2, <1>3, FS_CardinalityType

\* The scan's invariant is what GreedyIsLongest says without counting.
LEMMA GreedyHolds == IInv /\ GreedyInv => GreedyIsLongest
<1> SUFFICES ASSUME IInv, GreedyInv PROVE GreedyIsLongest
  OBVIOUS
<1>1. PICK h \in Nat : /\ Heading(str, headerMatched, strIndex, h)
                       /\ Longest(pattern, str, h, patIndex, strIndex)
  BY DEF GreedyInv
<1>2. /\ strIndex \in Nat /\ patIndex \in Nat /\ headerMatched \in BOOLEAN
      /\ Len(str) \in Nat /\ Len(pattern) \in Nat
      /\ str \in Seq(Nat) /\ strIndex <= Len(str)
  BY StringTypes DEF IInv, FuzzyTypeOK
<1>3. HeadingLength = h
  <2>1. CASE headerMatched
    <3>1. h \in DOMAIN str /\ str[h] = Colon /\ \A j \in 1 .. h - 1 : str[j] # Colon
      BY <1>1, <1>2, <2>1 DEF Heading
    <3>2. ASSUME NEW i \in DOMAIN str, str[i] = Colon, \A j \in 1 .. i - 1 : str[j] # Colon
          PROVE  i = h
      <4>1. i \in Nat \ {0} /\ h \in Nat \ {0}
        BY <1>2, <3>1
      <4>2. ~(i < h) /\ ~(h < i)
        BY <3>1, <3>2, <4>1
      <4> QED
        BY <4>1, <4>2
    <3> QED
      BY <2>1, <3>1, <3>2 DEF HeadingLength
  <2>2. CASE ~headerMatched
    BY <1>1, <2>2 DEF Heading, HeadingLength
  <2> QED
    BY <2>1, <2>2
<1> DEFINE R == SignificantIn(str, h + 1 .. strIndex)
           W(k) == SignificantIn(pattern, 1 .. k)
<1>4. R \in SUBSET Nat /\ IsFiniteSet(R)
  <2>1. h + 1 \in Nat
    OBVIOUS
  <2> QED
    BY <1>2, <2>1, PositionsFinite
<1>5. /\ \E f : Embedding(pattern, str, f, W(patIndex), R)
      /\ \A k \in 0 .. Len(pattern) :
           \A f : Embedding(pattern, str, f, W(k), R) => W(k) \subseteq 1 .. patIndex
  BY <1>1 DEF Longest
<1>6. ASSUME NEW k \in 0 .. Len(pattern)
      PROVE  (\E places \in SUBSET R : SameText(W(k), places)) <=> W(k) \subseteq 1 .. patIndex
  <2>1. W(k) \in SUBSET Nat /\ IsFiniteSet(W(k))
    <3>1. k \in Nat /\ 1 \in Nat
      BY <1>2
    <3> QED
      BY <3>1, PositionsFinite
  <2>2. ASSUME NEW places \in SUBSET R, SameText(W(k), places) PROVE W(k) \subseteq 1 .. patIndex
    <3> HIDE DEF R, W
    <3>1. places \in SUBSET Nat /\ IsFiniteSet(places)
      BY <1>4, <2>2, FS_Subset
    <3>2. PICK f : Embedding(pattern, str, f, W(k), places)
      BY <2>1, <2>2, <3>1, TextIsEmbedded
    <3>3. f \in [W(k) -> R]
      BY <3>2 DEF Embedding
    <3>4. Embedding(pattern, str, f, W(k), R)
      BY <3>2, <3>3 DEF Embedding
    <3> QED
      BY <1>5, <3>4
  <2>3. ASSUME W(k) \subseteq 1 .. patIndex PROVE \E places \in SUBSET R : SameText(W(k), places)
    <3>1. \A i \in W(k) : i \in W(patIndex)
      BY <2>3 DEF SignificantIn
    <3> HIDE DEF R, W
    <3>2. PICK f : Embedding(pattern, str, f, W(patIndex), R)
      BY <1>5
    <3> DEFINE g == [i \in W(k) |-> f[i]]
    <3>3. /\ f \in [W(patIndex) -> R] /\ \A i, j \in W(patIndex) : i < j => f[i] < f[j]
          /\ \A i \in W(patIndex) : Lower(pattern, i) = Lower(str, f[i])
      BY <3>2 DEF Embedding
    <3>4. g \in [W(k) -> R] /\ \A i \in W(k) : g[i] = f[i]
      BY <3>1, <3>3
    <3> HIDE DEF g
    <3>5. Embedding(pattern, str, g, W(k), R)
      BY <3>1, <3>3, <3>4 DEF Embedding
    <3> QED
      BY <1>4, <2>1, <3>5, EmbeddedHasText
  <2> QED
    BY <2>2, <2>3
<1> QED
  BY <1>3, <1>6 DEF GreedyIsLongest

-----------------------------------------------------------------------------
(***************************************************************************)
(* Typing an entry in full.  As many significant characters of the pattern *)
(* as of str are behind, so that the next ones are equal: nothing is       *)
(* missed, no point is lost, and at the end the last ten are given.        *)
(***************************************************************************)
Behind(s, i) == Cardinality(SignificantIn(s, 1 .. i))

SelfInv ==
  IsTyped => /\ Behind(pattern, patIndex) = Behind(str, strIndex)
             /\ score >= 0 /\ scoreState \notin {CharDiff, LeadingCharDiff}
             /\ matchPc = "done" => result.matched

\* The next character is not counted, or the next to be counted.
LEMMA BehindNext ==
  ASSUME NEW s \in Seq(Nat), NEW i \in Nat, i + 1 <= Len(s)
  PROVE  /\ Behind(s, i) \in Nat
         /\ Lower(s, i + 1) \in Ignored => Behind(s, i + 1) = Behind(s, i)
         /\ Lower(s, i + 1) \notin Ignored =>
              /\ Behind(s, i + 1) = Behind(s, i) + 1
              /\ i + 1 \in SignificantIn(s, DOMAIN s)
              /\ Nth(SignificantIn(s, DOMAIN s), i + 1) = Behind(s, i) + 1
<1> DEFINE A == SignificantIn(s, 1 .. i)
           B == SignificantIn(s, 1 .. i + 1)
<1>1. Len(s) \in Nat /\ DOMAIN s = 1 .. Len(s)
  OBVIOUS
<1>2. IsFiniteSet(A) /\ Cardinality(A) \in Nat
  BY PositionsFinite
<1>3. i + 1 \notin A /\ \A j : j \in 1 .. i + 1 <=> j \in 1 .. i \/ j = i + 1
  BY DEF SignificantIn
<1>4. CASE Lower(s, i + 1) \in Ignored
  <2>1. B = A
    BY <1>3, <1>4 DEF SignificantIn, Lower
  <2> QED
    BY <1>2, <1>4, <2>1 DEF Behind
<1>5. CASE Lower(s, i + 1) \notin Ignored
  <2>1. B = A \cup {i + 1}
    BY <1>3, <1>5 DEF SignificantIn, Lower
  <2>2. i + 1 \in SignificantIn(s, DOMAIN s)
    BY <1>1, <1>5 DEF SignificantIn, Lower
  <2>3. {j \in SignificantIn(s, DOMAIN s) : j <= i + 1} = B
    BY <1>1 DEF SignificantIn
  <2> HIDE DEF A, B
  <2>4. Cardinality(B) = Cardinality(A) + 1
    BY <1>2, <1>3, <2>1, FS_AddElement
  <2> QED
    BY <1>2, <1>5, <2>2, <2>3, <2>4 DEF Behind, Nth, A, B
<1> QED
  BY <1>4, <1>5

\* What is compared in a pattern that types the entry is equal.
LEMMA TypedIsEqual ==
  ASSUME IInv, SelfInv, IsTyped, Comparing
  PROVE  /\ StrChar = PatternChar
         /\ Behind(pattern, patIndex + 1) = Behind(pattern, patIndex) + 1
         /\ Behind(str, strIndex + 1) = Behind(str, strIndex) + 1
<1>1. /\ pattern \in Seq(Nat) /\ str \in Seq(Nat) /\ patIndex \in Nat /\ strIndex \in Nat
      /\ patIndex + 1 <= Len(pattern) /\ strIndex + 1 <= Len(str)
  BY StringTypes DEF IInv, FuzzyTypeOK, Comparing, InLoop
<1>2. Lower(pattern, patIndex + 1) \notin Ignored /\ Lower(str, strIndex + 1) \notin Ignored
  BY DEF Comparing, PatternChar, StrChar, At, Lower
<1>3. /\ Behind(pattern, patIndex + 1) = Behind(pattern, patIndex) + 1
      /\ patIndex + 1 \in SignificantIn(pattern, DOMAIN pattern)
      /\ Nth(SignificantIn(pattern, DOMAIN pattern), patIndex + 1) = Behind(pattern, patIndex) + 1
  BY <1>1, <1>2, BehindNext
<1>4. /\ Behind(str, strIndex + 1) = Behind(str, strIndex) + 1
      /\ strIndex + 1 \in SignificantIn(str, DOMAIN str)
      /\ Nth(SignificantIn(str, DOMAIN str), strIndex + 1) = Behind(str, strIndex) + 1
  BY <1>1, <1>2, BehindNext
<1>5. ToLowerAscii(pattern[patIndex + 1]) = ToLowerAscii(str[strIndex + 1])
  BY <1>3, <1>4 DEF SelfInv, IsTyped, SameText
<1> QED
  BY <1>3, <1>4, <1>5 DEF StrChar, PatternChar, At

\* When the loop ends the word does.
LEMMA TypedEndsWord ==
  ASSUME IInv, SelfInv, IsTyped, matchPc = "loop", ~InLoop
  PROVE  EndsWord
<1> DEFINE P == SignificantIn(pattern, DOMAIN pattern)
           S == SignificantIn(str, DOMAIN str)
<1>1. /\ pattern \in Seq(Nat) /\ str \in Seq(Nat)
      /\ patIndex \in 0 .. Len(pattern) /\ strIndex \in 0 .. Len(str)
      /\ Len(pattern) \in Nat /\ Len(str) \in Nat
      /\ DOMAIN pattern = 1 .. Len(pattern) /\ DOMAIN str = 1 .. Len(str)
  BY StringTypes DEF IInv, FuzzyTypeOK
<1>2. /\ IsFiniteSet(P) /\ IsFiniteSet(S) /\ Cardinality(P) = Cardinality(S)
  BY <1>1, PositionsFinite DEF IsTyped, SameText
<1>3. /\ SignificantIn(pattern, 1 .. patIndex) \in SUBSET P
      /\ SignificantIn(str, 1 .. strIndex) \in SUBSET S
  BY <1>1 DEF SignificantIn
<1>4. Behind(pattern, patIndex) = Behind(str, strIndex)
  BY DEF SelfInv
<1>5. CASE strIndex = Len(str)
  <2>1. SignificantIn(str, 1 .. strIndex) = S
    BY <1>1, <1>5
  <2>2. Cardinality(SignificantIn(pattern, 1 .. patIndex)) = Cardinality(P)
    BY <1>2, <1>4, <2>1 DEF Behind
  <2>3. SignificantIn(pattern, 1 .. patIndex) = P
    BY <1>2, <1>3, <2>2, FS_Subset
  <2>4. Len(pattern) \in DOMAIN pattern /\ pattern[Len(pattern)] \notin Ignored
        /\ pattern[Len(pattern)] \in Nat
    BY <1>1 DEF IsTyped
  <2>5. Len(pattern) \in P
    <3>1. \A x \in Nat : x \notin Ignored => ToLowerAscii(x) \notin Ignored
      BY DEF ToLowerAscii, Ignored, UpperCase
    <3>2. ToLowerAscii(pattern[Len(pattern)]) \notin Ignored
      BY <2>4, <3>1
    <3> QED
      BY <2>4, <3>2 DEF SignificantIn
  <2>6. patIndex = Len(pattern)
    <3>1. Len(pattern) \in SignificantIn(pattern, 1 .. patIndex)
      BY <2>3, <2>5
    <3>2. Len(pattern) \in 1 .. patIndex
      BY <3>1 DEF SignificantIn
    <3>3. Len(pattern) \in Nat /\ patIndex \in 0 .. Len(pattern)
      BY <1>1
    <3> QED
      BY <3>2, <3>3
  <2> QED
    BY <1>5, <2>6 DEF EndsWord
<1>6. CASE patIndex = Len(pattern) /\ strIndex < Len(str)
  <2>1. SignificantIn(pattern, 1 .. patIndex) = P
    BY <1>1, <1>6
  <2>2. Cardinality(SignificantIn(str, 1 .. strIndex)) = Cardinality(S)
    BY <1>2, <1>4, <2>1 DEF Behind
  <2>3. SignificantIn(str, 1 .. strIndex) = S
    BY <1>2, <1>3, <2>2, FS_Subset
  <2>4. strIndex + 1 \in DOMAIN str /\ strIndex + 1 \notin 1 .. strIndex
    BY <1>1, <1>6
  <2>5. ToLowerAscii(str[strIndex + 1]) \in Ignored
    BY <2>3, <2>4 DEF SignificantIn
  <2>6. str[strIndex + 1] \in Nat
    BY <1>1, <2>4
  <2>7. str[strIndex + 1] \notin Letters
    BY <2>5, <2>6 DEF ToLowerAscii, Ignored, UpperCase, LowerCase, Letters
  <2> QED
    BY <1>6, <2>7 DEF EndsWord, At
<1> QED
  <2>1. strIndex = Len(str) \/ (patIndex = Len(pattern) /\ strIndex < Len(str))
    <3>1. ~(strIndex < Len(str) /\ patIndex < Len(pattern))
      BY DEF InLoop
    <3>2. /\ Len(str) \in Nat /\ Len(pattern) \in Nat
          /\ patIndex \in 0 .. Len(pattern) /\ strIndex \in 0 .. Len(str)
      BY <1>1
    <3> QED
      BY <3>1, <3>2
  <2> QED
    BY <1>5, <1>6, <2>1

\* A checked score is one of its results or stays.
LEMMA SetScoreIsOne ==
  ASSUME NEW r \in Seq(Int), r # <<>>, SetScore(r), score \in Int, score >= 0,
         \A i \in DOMAIN r : r[i] >= 0, matchPc = "loop"
  PROVE  score' >= 0 /\ matchPc' # "done"
<1>1. Len(r) \in DOMAIN r
  OBVIOUS
<1> QED
  BY <1>1 DEF SetScore

\* A match costs nothing and is no difference.
LEMMA MatchesGain ==
  ASSUME IInv, score >= 0, scoreState \notin {CharDiff, LeadingCharDiff},
         MatchFirst \/ MatchAfterMatch \/ MatchConsecutive
  PROVE  /\ score' >= 0 /\ scoreState' \notin {CharDiff, LeadingCharDiff} /\ matchPc' # "done"
         /\ UNCHANGED <<pattern, str>> /\ patIndex' = patIndex + 1 /\ strIndex' = strIndex + 1
         /\ Comparing
<1> USE DEF Equal
<1>1. matchPc = "loop" /\ score \in Int /\ consecutiveMatchCount \in Nat
  <2>1. strIndex \in Nat
    BY StringTypes DEF IInv, FuzzyTypeOK
  <2> QED
    BY <2>1 DEF MatchFirst, MatchAfterMatch, MatchConsecutive, Comparing, InLoop, IInv, FuzzyTypeOK
<1>2. CASE MatchFirst
  BY <1>1, <1>2 DEF MatchFirst, LeadingCharMatch, CharDiff, LeadingCharDiff
<1>3. CASE MatchAfterMatch
  <2> DEFINE r == <<score + ConsecutiveMatch>>
  <2>1. r \in Seq(Int) /\ r # <<>> /\ \A i \in DOMAIN r : r[i] >= 0
    BY <1>1 DEF ConsecutiveMatch
  <2>2. SetScore(r)
    BY <1>3 DEF MatchAfterMatch
  <2> HIDE DEF r
  <2>3. score' >= 0 /\ matchPc' # "done"
    BY <1>1, <2>1, <2>2, SetScoreIsOne
  <2> QED
    BY <1>3, <2>3 DEF MatchAfterMatch, ConsecutiveMatch, CharDiff, LeadingCharDiff
<1>4. CASE MatchConsecutive
  <2> DEFINE gain == ConsecutiveMatch * (consecutiveMatchCount + 1)
  <2>1. gain \in Int /\ gain >= 0
    BY <1>1 DEF ConsecutiveMatch
  <2>2. consecutiveMatchCount' = consecutiveMatchCount + 1
    BY <1>4 DEF MatchConsecutive
  <2>3. score' >= 0 /\ matchPc' # "done"
    <3>1. CASE OnBoundary
      <4> DEFINE r == <<gain, score + gain, score + gain + WordBoundryMatch>>
      <4>1. SetScore(r)
        BY <1>4, <2>2, <3>1 DEF MatchConsecutive
      <4>2. r \in Seq(Int) /\ r # <<>> /\ \A i \in DOMAIN r : r[i] >= 0
        <5> HIDE DEF gain
        <5> QED
          BY <1>1, <2>1 DEF WordBoundryMatch
      <4> HIDE DEF r
      <4> QED
        BY <1>1, <4>1, <4>2, SetScoreIsOne
    <3>2. CASE ~OnBoundary
      <4> DEFINE r == <<gain, score + gain>>
      <4>1. SetScore(r)
        BY <1>4, <2>2, <3>2 DEF MatchConsecutive
      <4>2. r \in Seq(Int) /\ r # <<>> /\ \A i \in DOMAIN r : r[i] >= 0
        <5> HIDE DEF gain
        <5> QED
          BY <1>1, <2>1
      <4> HIDE DEF r
      <4> QED
        BY <1>1, <4>1, <4>2, SetScoreIsOne
    <3> QED
      BY <3>1, <3>2
  <2>4. scoreState' \in {WordBoundryMatch, ConsecutiveMatch}
    BY <1>4 DEF MatchConsecutive
  <2> QED
    BY <1>4, <2>3, <2>4
    DEF MatchConsecutive, WordBoundryMatch, ConsecutiveMatch, CharDiff, LeadingCharDiff
<1> QED
  BY <1>2, <1>3, <1>4

LEMMA SelfInit == FuzzyInit => SelfInv
<1> SUFFICES ASSUME FuzzyInit PROVE SelfInv
  OBVIOUS
<1>1. SignificantIn(pattern, 1 .. 0) = SignificantIn(str, 1 .. 0)
  BY DEF SignificantIn
<1>2. Behind(pattern, patIndex) = Behind(str, strIndex)
  BY <1>1 DEF FuzzyInit, Behind
<1> QED
  BY <1>2 DEF FuzzyInit, SelfInv, StartMatch, CharDiff, LeadingCharDiff

LEMMA SelfNext == IInv /\ GreedyInv /\ SelfInv /\ [FuzzyNext]_fuzzyVars => SelfInv'
<1> SUFFICES ASSUME IInv, GreedyInv, SelfInv, [FuzzyNext]_fuzzyVars, IsTyped' PROVE SelfInv'
  BY DEF SelfInv
<1>1. UNCHANGED <<pattern, str>>
  BY StepsOfScans
<1>2. IsTyped
  BY <1>1 DEF IsTyped, SameText
<1>3. /\ Behind(pattern, patIndex) = Behind(str, strIndex)
      /\ score >= 0 /\ scoreState \notin {CharDiff, LeadingCharDiff}
      /\ matchPc = "done" => result.matched
  BY <1>2 DEF SelfInv
<1>4. /\ pattern \in Seq(Nat) /\ str \in Seq(Nat) /\ patIndex \in Nat /\ strIndex \in Nat
      /\ Len(pattern) \in Nat /\ Len(str) \in Nat /\ score \in Int /\ headerMatched \in BOOLEAN
  BY StringTypes DEF IInv, FuzzyTypeOK
<1>5. ~headerMatched
  <2>1. PICK h \in Nat : Heading(str, headerMatched, strIndex, h)
    BY DEF GreedyInv
  <2>2. headerMatched => h \in DOMAIN str /\ str[h] = Colon
    BY <1>4, <2>1 DEF Heading, IInv, FuzzyTypeOK
  <2> QED
    BY <1>2, <2>2 DEF IsTyped
<1>6. Comparing => StrChar = PatternChar /\ StrChar # Colon
  <2>1. ASSUME Comparing PROVE StrChar # Colon
    <3>1. strIndex + 1 \in DOMAIN str
      BY <1>4, <2>1 DEF Comparing, InLoop
    <3>2. str[strIndex + 1] \in Nat /\ str[strIndex + 1] # Colon
      BY <1>2, <1>4, <3>1 DEF IsTyped
    <3> QED
      BY <3>2, ColonsHaveNoCase DEF StrChar, At
  <2> QED
    BY <1>2, <2>1, TypedIsEqual
<1>7. CASE UNCHANGED fuzzyVars
  BY <1>3, <1>7 DEF fuzzyVars, SelfInv, Behind
<1>8. CASE SkipPatternChar
  <2>1. /\ patIndex' = patIndex + 1 /\ UNCHANGED <<strIndex, score, scoreState, matchPc, result>>
        /\ Lower(pattern, patIndex + 1) \in Ignored /\ patIndex + 1 <= Len(pattern)
    BY <1>4, <1>8 DEF SkipPatternChar, PatternChar, At, Lower, InLoop
  <2>2. Behind(pattern, patIndex + 1) = Behind(pattern, patIndex)
    BY <1>4, <2>1, BehindNext
  <2>3. Behind(pattern, patIndex)' = Behind(pattern, patIndex + 1)
        /\ Behind(str, strIndex)' = Behind(str, strIndex)
    BY <1>1, <2>1 DEF Behind
  <2> QED
    BY <1>3, <2>1, <2>2, <2>3 DEF SelfInv
<1>9. CASE SkipStrChar
  <2>1. /\ strIndex' = strIndex + 1 /\ UNCHANGED <<patIndex, score, scoreState, matchPc, result>>
        /\ Lower(str, strIndex + 1) \in Ignored /\ strIndex + 1 <= Len(str)
    BY <1>4, <1>9 DEF SkipStrChar, StrChar, At, Lower, InLoop
  <2>2. Behind(str, strIndex + 1) = Behind(str, strIndex)
    BY <1>4, <2>1, BehindNext
  <2>3. Behind(str, strIndex)' = Behind(str, strIndex + 1)
        /\ Behind(pattern, patIndex)' = Behind(pattern, patIndex)
    BY <1>1, <2>1 DEF Behind
  <2> QED
    BY <1>3, <2>1, <2>2, <2>3 DEF SelfInv
<1>10. ~MatchHeader
  BY <1>6 DEF MatchHeader
<1>11. ~(MatchAfterDiff \/ MissAtStart \/ MissConsecutive \/ MissLeading \/ MissOther)
  BY <1>3, <1>6
  DEF MatchAfterDiff, MissAtStart, MissConsecutive, MissLeading, MissOther, Unequal
<1>12. CASE MatchFirst \/ MatchAfterMatch \/ MatchConsecutive
  <2>1. /\ score' >= 0 /\ scoreState' \notin {CharDiff, LeadingCharDiff} /\ matchPc' # "done"
        /\ patIndex' = patIndex + 1 /\ strIndex' = strIndex + 1 /\ Comparing
    BY <1>3, <1>12, MatchesGain
  <2>2. Behind(pattern, patIndex + 1) = Behind(str, strIndex + 1)
    BY <1>2, <1>3, <2>1, TypedIsEqual
  <2>3. /\ Behind(pattern, patIndex)' = Behind(pattern, patIndex + 1)
        /\ Behind(str, strIndex)' = Behind(str, strIndex + 1)
    BY <1>1, <2>1 DEF Behind
  <2> QED
    BY <2>1, <2>2, <2>3 DEF SelfInv
<1>13. CASE ReturnScore
  <2>1. EndsWord
    BY <1>2, <1>13, TypedEndsWord DEF ReturnScore
  <2>2. UNCHANGED <<patIndex, strIndex, scoreState>>
        /\ \/ score' = score /\ matchPc' = "raised"
           \/ score' = score + 10 /\ result' = [score |-> NimMax(0, score + 10),
                                                matched |-> 0 < score + 10]
    BY <1>13, <2>1 DEF ReturnScore, RaiseInMatch
  <2>3. Behind(pattern, patIndex)' = Behind(str, strIndex)'
    BY <1>1, <1>3, <2>2 DEF Behind
  <2>4. score' >= 0 /\ (matchPc' = "done" => result'.matched)
    <3>1. 0 < score + 10 /\ score + 10 >= 0
      BY <1>3, <1>4
    <3>2. CASE score' = score /\ matchPc' = "raised"
      BY <1>3, <3>2
    <3>3. CASE score' = score + 10 /\ result' = [score |-> NimMax(0, score + 10),
                                                matched |-> 0 < score + 10]
      <4>1. result'.matched
        BY <3>1, <3>3, Zenon
      <4> QED
        BY <3>1, <3>3, <4>1
    <3> QED
      BY <2>2, <3>2, <3>3
  <2> QED
    BY <1>3, <2>2, <2>3, <2>4 DEF SelfInv
<1> QED
  BY <1>7, <1>8, <1>9, <1>10, <1>11, <1>12, <1>13 DEF FuzzyNext

(***************************************************************************)
(* fuzzyMatch's greedy scan loses no match, whatever is typed and indexed, *)
(* headings included, and an entry that is typed in full is found.         *)
(***************************************************************************)
THEOREM MatchesAreFoundAlways == FuzzySpec => []MatchesAreFound
<1>1. FuzzyInit => GreedyInv /\ SelfInv
  BY GreedyInit, SelfInit
<1>2. IInv /\ GreedyInv /\ SelfInv /\ [FuzzyNext]_fuzzyVars => GreedyInv' /\ SelfInv'
  BY GreedyNext, SelfNext
<1>3. IInv /\ GreedyInv /\ SelfInv => MatchesAreFound
  BY GreedyHolds DEF SelfInv, MatchesAreFound, EntryFindsItself
<1> QED
  BY <1>1, <1>2, <1>3, InvariantAlways, PTL DEF FuzzySpec
=============================================================================
