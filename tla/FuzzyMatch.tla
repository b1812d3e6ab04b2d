----------------------------- MODULE FuzzyMatch -----------------------------
(***************************************************************************)
(* fuzzyMatch of the documentation page's search: how well does an entry   *)
(* of the index (str) answer what the user typed (pattern)?  One behaviour *)
(* is one call, one action is one branch of the loop's body.  Characters   *)
(* are their codes and indices count from 0, as in the code.  Both strings *)
(* are scanned once: str is never stepped back, pattern once, at the first *)
(* colon, after which only the rest of str counts.                         *)
(***************************************************************************)
EXTENDS NimRuntime, FiniteSets

CONSTANTS
  Patterns,   \* what may be typed
  Strings     \* the entries of the index

ASSUME FuzzyAssumption ==
  /\ Patterns \subseteq Seq(Nat)
  /\ Strings \subseteq Seq(Nat)
  /\ \A s \in Patterns \cup Strings : Len(s) < MaxInt

VARIABLES
  pattern, str,
  scoreState,                  \* what the last compared character was
  headerMatched,               \* the first colon of str is behind
  unmatchedLeadingCharCount,
  consecutiveMatchCount,
  strIndex, patIndex,
  score,
  matchPc,                          \* "loop", "done" or "raised"
  result                       \* what a call that is done returns

counts == <<unmatchedLeadingCharCount, consecutiveMatchCount>>
fuzzyVars == <<pattern, str, scoreState, headerMatched, counts, strIndex, patIndex,
               score, matchPc, result>>

-----------------------------------------------------------------------------
\* The score card.
StartMatch       == -100
LeadingCharDiff  == -3
CharDiff         == -1
CharMatch        == 0
ConsecutiveMatch == 5
LeadingCharMatch == 10
WordBoundryMatch == 20

ScoreCard == {StartMatch, LeadingCharDiff, CharDiff, CharMatch,
              ConsecutiveMatch, LeadingCharMatch, WordBoundryMatch}

MaxUnmatchedLeadingChar == 3

\* The sets of characters the code tests for.
UpperCase == 65 .. 90
LowerCase == 97 .. 122
Letters   == UpperCase \cup LowerCase
Ignored   == {95, 32, 46}       \* underscore, space, dot
Colon     == 58

\* c ^ 32 sets the one bit that a capital lacks.
ToLowerAscii(c) == IF c \in UpperCase THEN c + 32 ELSE c

NoResult == [score |-> 0, matched |-> FALSE]

\* Fault: the call starts as if a character had been compared already.
FuzzyInitAfterDiff ==
  /\ pattern \in Patterns /\ str \in Strings
  /\ scoreState = CharDiff /\ headerMatched = FALSE
  /\ unmatchedLeadingCharCount = 0 /\ consecutiveMatchCount = 0
  /\ strIndex = 0 /\ patIndex = 0 /\ score = 0
  /\ matchPc = "loop" /\ result = NoResult

FuzzyInit ==
  /\ pattern \in Patterns /\ str \in Strings
  /\ scoreState = StartMatch /\ headerMatched = FALSE
  /\ unmatchedLeadingCharCount = 0 /\ consecutiveMatchCount = 0
  /\ strIndex = 0 /\ patIndex = 0 /\ score = 0
  /\ matchPc = "loop" /\ result = NoResult

-----------------------------------------------------------------------------
InLoop == matchPc = "loop" /\ strIndex < Len(str) /\ patIndex < Len(pattern)

PatternChar == ToLowerAscii(At(pattern, patIndex))
StrChar     == ToLowerAscii(At(str, strIndex))

RaiseInMatch ==
  /\ matchPc' = "raised"
  /\ UNCHANGED <<pattern, str, scoreState, headerMatched, counts, strIndex, patIndex, score, result>>

(***************************************************************************)
(* The score becomes the last of a sequence of checked results, or the     *)
(* first that does not fit raises.                                         *)
(***************************************************************************)
SetScore(results) ==
  IF \E i \in DOMAIN results : Overflows(results[i])
  THEN matchPc' = "raised" /\ score' = score
  ELSE matchPc' = matchPc /\ score' = results[Len(results)]

SkipPatternChar ==
  /\ InLoop /\ PatternChar \in Ignored
  /\ patIndex' = patIndex + 1
  /\ UNCHANGED <<pattern, str, scoreState, headerMatched, counts, strIndex, score, matchPc, result>>

SkipStrChar ==
  /\ InLoop /\ PatternChar \notin Ignored /\ StrChar \in Ignored
  /\ strIndex' = strIndex + 1
  /\ UNCHANGED <<pattern, str, scoreState, headerMatched, counts, patIndex, score, matchPc, result>>

Comparing == InLoop /\ PatternChar \notin Ignored /\ StrChar \notin Ignored

\* Fault: the pattern goes on where it was.
MatchHeaderOnly ==
  /\ Comparing /\ ~headerMatched /\ StrChar = Colon
  /\ headerMatched' = TRUE
  /\ scoreState' = StartMatch
  /\ score' = score \div 2
  /\ strIndex' = strIndex + 1
  /\ UNCHANGED <<pattern, str, counts, patIndex, matchPc, result>>

\* Fault: the colon itself is not stepped over.
MatchHeaderStays ==
  /\ Comparing /\ ~headerMatched /\ StrChar = Colon
  /\ headerMatched' = TRUE
  /\ scoreState' = StartMatch
  /\ score' = score \div 2
  /\ patIndex' = 0
  /\ UNCHANGED <<pattern, str, counts, strIndex, matchPc, result>>

(***************************************************************************)
(* The first colon ends the heading: half of its score stays, and the      *)
(* pattern starts again.  The two counters are not reset.                  *)
(***************************************************************************)
MatchHeader ==
  /\ Comparing /\ ~headerMatched /\ StrChar = Colon
  /\ headerMatched' = TRUE
  /\ scoreState' = StartMatch
  /\ score' = score \div 2
  /\ patIndex' = 0
  /\ strIndex' = strIndex + 1
  /\ UNCHANGED <<pattern, str, counts, matchPc, result>>

Equal   == Comparing /\ ~(~headerMatched /\ StrChar = Colon) /\ StrChar = PatternChar
Unequal == Comparing /\ ~(~headerMatched /\ StrChar = Colon) /\ StrChar # PatternChar

MatchFirst ==
  /\ Equal /\ scoreState \in {StartMatch, WordBoundryMatch}
  /\ scoreState' = LeadingCharMatch
  /\ patIndex' = patIndex + 1 /\ strIndex' = strIndex + 1
  /\ UNCHANGED <<pattern, str, headerMatched, counts, score, matchPc, result>>

MatchAfterMatch ==
  /\ Equal /\ scoreState = CharMatch
  /\ scoreState' = ConsecutiveMatch
  /\ SetScore(<<score + ConsecutiveMatch>>)
  /\ patIndex' = patIndex + 1 /\ strIndex' = strIndex + 1
  /\ UNCHANGED <<pattern, str, headerMatched, counts, result>>

(***************************************************************************)
(* The pattern ends here, or the next character of str ends a word and is  *)
(* not the one the pattern wants.                                          *)
(***************************************************************************)
OnBoundary ==
  \/ patIndex = Len(pattern) - 1
  \/ /\ strIndex < Len(str) - 1
     /\ ToLowerAscii(At(str, strIndex + 1)) \notin LowerCase
     /\ ToLowerAscii(At(str, strIndex + 1)) # ToLowerAscii(At(pattern, patIndex + 1))

(***************************************************************************)
(* scoreState is ConsecutiveMatch by the time the code asks whether it was *)
(* LeadingCharMatch: the ten points for a leading character are never      *)
(* given.                                                                  *)
(***************************************************************************)
MatchConsecutive ==
  /\ Equal /\ scoreState \in {LeadingCharMatch, ConsecutiveMatch}
  /\ consecutiveMatchCount' = consecutiveMatchCount + 1
  /\ LET gain == ConsecutiveMatch * consecutiveMatchCount' IN
     IF OnBoundary
     THEN /\ scoreState' = WordBoundryMatch
          /\ SetScore(<<gain, score + gain, score + gain + WordBoundryMatch>>)
     ELSE /\ scoreState' = ConsecutiveMatch
          /\ SetScore(<<gain, score + gain>>)
  /\ patIndex' = patIndex + 1 /\ strIndex' = strIndex + 1
  /\ UNCHANGED <<pattern, str, headerMatched, unmatchedLeadingCharCount, result>>

\* A word starts at strIndex: after a non-letter, or at a camel-case hump.
IsLeadingChar ==
  \/ At(str, strIndex - 1) \notin Letters
  \/ At(str, strIndex - 1) \in LowerCase /\ At(str, strIndex) \in UpperCase

MatchAfterDiff ==
  /\ Equal /\ scoreState \in {CharDiff, LeadingCharDiff}
  /\ IF ~InBounds(strIndex - 1, Len(str))
     THEN RaiseInMatch
     ELSE /\ scoreState' = IF IsLeadingChar THEN LeadingCharMatch ELSE CharMatch
          /\ patIndex' = patIndex + 1 /\ strIndex' = strIndex + 1
          /\ UNCHANGED <<pattern, str, headerMatched, counts, score, matchPc, result>>

MissAtStart ==
  /\ Unequal /\ scoreState = StartMatch
  /\ scoreState' = LeadingCharDiff
  /\ SetScore(<<score + LeadingCharDiff>>)
  /\ strIndex' = strIndex + 1
  /\ UNCHANGED <<pattern, str, headerMatched, counts, patIndex, result>>

MissConsecutive ==
  /\ Unequal /\ scoreState = ConsecutiveMatch
  /\ scoreState' = CharDiff
  /\ SetScore(<<score + CharDiff>>)
  /\ consecutiveMatchCount' = 0
  /\ strIndex' = strIndex + 1
  /\ UNCHANGED <<pattern, str, headerMatched, unmatchedLeadingCharCount, patIndex, result>>

MissLeading ==
  /\ Unequal /\ scoreState = LeadingCharDiff
  /\ IF unmatchedLeadingCharCount < MaxUnmatchedLeadingChar
     THEN SetScore(<<score + LeadingCharDiff>>)
     ELSE UNCHANGED <<score, matchPc>>
  /\ unmatchedLeadingCharCount' = unmatchedLeadingCharCount + 1
  /\ strIndex' = strIndex + 1
  /\ UNCHANGED <<pattern, str, scoreState, headerMatched, consecutiveMatchCount, patIndex, result>>

MissOther ==
  /\ Unequal /\ scoreState \notin {StartMatch, ConsecutiveMatch, LeadingCharDiff}
  /\ scoreState' = CharDiff
  /\ SetScore(<<score + CharDiff>>)
  /\ strIndex' = strIndex + 1
  /\ UNCHANGED <<pattern, str, headerMatched, counts, patIndex, result>>

\* Fault: the last character of the pattern is not waited for.
EndsWordEarly == patIndex = Len(pattern) - 1 /\ strIndex = Len(str)

\* All of the pattern is matched, and the match ends where a word of str ends.
EndsWord ==
  /\ patIndex = Len(pattern)
  /\ \/ strIndex = Len(str)
     \/ At(str, strIndex) \notin Letters

ReturnScore ==
  /\ matchPc = "loop" /\ ~InLoop
  /\ IF /\ patIndex = Len(pattern) /\ strIndex # Len(str)
        /\ ~InBounds(strIndex, Len(str))
     THEN RaiseInMatch
     ELSE LET final == IF EndsWord THEN score + 10 ELSE score IN
          IF Overflows(final)
          THEN RaiseInMatch
          ELSE /\ matchPc' = "done" /\ score' = final
               /\ result' = [score |-> NimMax(0, final), matched |-> 0 < final]
               /\ UNCHANGED <<pattern, str, scoreState, headerMatched, counts,
                              strIndex, patIndex>>

FuzzyNext ==
  \/ SkipPatternChar \/ SkipStrChar \/ MatchHeader
  \/ MatchFirst \/ MatchAfterMatch \/ MatchConsecutive \/ MatchAfterDiff
  \/ MissAtStart \/ MissConsecutive \/ MissLeading \/ MissOther
  \/ ReturnScore

FuzzySpec == FuzzyInit /\ [][FuzzyNext]_fuzzyVars

-----------------------------------------------------------------------------
\* Variables keep their types; the indices stay within one past the strings.
FuzzyTypeOK ==
  /\ pattern \in Patterns /\ str \in Strings
  /\ scoreState \in ScoreCard /\ headerMatched \in BOOLEAN
  /\ unmatchedLeadingCharCount \in 0 .. strIndex
  /\ consecutiveMatchCount \in 0 .. strIndex
  /\ strIndex \in 0 .. Len(str) /\ patIndex \in 0 .. Len(pattern)
  /\ score \in Int /\ matchPc \in {"loop", "done", "raised"}
  /\ result \in [score : Nat, matched : BOOLEAN]

(***************************************************************************)
(* No call raises a defect unless the entry is so long that every          *)
(* character of it matching in one run could overflow the score: the       *)
(* reads one before and one after the current character stay inside the    *)
(* strings, and so does the read after the loop.                           *)
(***************************************************************************)
LongestGain(s) == 5 * Len(s) + 20

DefectNeedsLength ==
  matchPc = "raised" => Len(str) * LongestGain(str) + 10 > MaxInt

(***************************************************************************)
(* Every turn of the loop makes progress, the one that starts the pattern  *)
(* again included, so that a call ends.                                    *)
(***************************************************************************)
Remaining == (Len(str) - strIndex) * (Len(pattern) + 1) + (Len(pattern) - patIndex)

Progress == [][matchPc = "loop" /\ matchPc' = "loop" => 0 <= Remaining' /\ Remaining' < Remaining]_fuzzyVars

\* The positions in I of the characters of s that are not passed over.
SignificantIn(s, I) == {i \in I : ToLowerAscii(s[i]) \notin Ignored}

\* How many of the positions in P are up to i.
Nth(P, i) == Cardinality({j \in P : j <= i})

\* The characters of pattern at P are, one after the other, those of str at S.
SameText(P, S) ==
  /\ Cardinality(P) = Cardinality(S)
  /\ \A i \in P, j \in S :
       Nth(P, i) = Nth(S, j) => ToLowerAscii(pattern[i]) = ToLowerAscii(str[j])

HeadingLength ==
  IF headerMatched
  THEN CHOOSE i \in DOMAIN str : str[i] = Colon /\ \A j \in 1 .. i - 1 : str[j] # Colon
  ELSE 0

(***************************************************************************)
(* What has been matched is the longest part of the pattern that can be    *)
(* found, in order, in what has been read of str since its heading: taking *)
(* each character as soon as it appears never loses a longer match.        *)
(***************************************************************************)
GreedyIsLongest ==
  LET read == SignificantIn(str, HeadingLength + 1 .. strIndex) IN
  \A k \in 0 .. Len(pattern) :
    LET wanted == SignificantIn(pattern, 1 .. k) IN
    (\E places \in SUBSET read : SameText(wanted, places)) <=> wanted \subseteq 1 .. patIndex

(***************************************************************************)
(* Typing an entry in full finds it, whatever the case of its letters and  *)
(* the underscores, spaces and dots left out or put in, as long as it has  *)
(* no colon and the pattern does not end in one of those three.            *)
(***************************************************************************)
IsTyped ==
  /\ pattern # <<>> /\ pattern[Len(pattern)] \notin Ignored
  /\ \A i \in DOMAIN str : str[i] # Colon
  /\ SameText(SignificantIn(pattern, DOMAIN pattern), SignificantIn(str, DOMAIN str))

EntryFindsItself == (matchPc = "done" /\ IsTyped) => result.matched

\* Nothing that is there is missed, in a part of an entry or in all of it.
MatchesAreFound == GreedyIsLongest /\ EntryFindsItself
=============================================================================
