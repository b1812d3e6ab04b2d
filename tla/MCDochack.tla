----------------------------- MODULE MCDochack ------------------------------
(***************************************************************************)
(* The procedures of dochack.js, each called for itself: fuzzyMatch, the   *)
(* conversions of strings, a slice and its defects, nimCopy and groupBy.   *)
(* They share no variable, so that a behaviour shows one of them, the      *)
(* procedure, while the others stay as they start; their states add up     *)
(* instead of multiplying.                                                 *)
(***************************************************************************)
EXTENDS FuzzyMatch, NimStrings, NimDefects, NimCopy, MCToc

CONSTANTS p, q   \* characters in memory

VARIABLE procedure

dochackVars == <<procedure, fuzzyVars, stringsVars, sliceVars, memoryVars, tocVars>>

-----------------------------------------------------------------------------
(***************************************************************************)
(* fuzzyMatch: every pattern of up to three and every entry of up to five  *)
(* characters over an alphabet that has a character of each kind the code  *)
(* tells apart, a and b, B, the colon and the underscore, and a run that   *)
(* is long enough for its score to overflow.                               *)
(***************************************************************************)
SequencesUpTo(n, alphabet) == UNION {[1 .. k -> alphabet] : k \in 0 .. n}

LongRun    == [k \in 1 .. 9 |-> 97]
MCPatterns == (SequencesUpTo(3, {97, 98, 95}) \ {<<>>}) \cup {LongRun}
MCStrings  == SequencesUpTo(5, {97, 66, 58, 95}) \cup {LongRun}

(***************************************************************************)
(* Strings around the places where an encoding grows: the last and first   *)
(* characters of one, two, three and four bytes, those next to the         *)
(* surrogates, pairs, and surrogates that stand alone.  theindex.html is   *)
(* two characters, so that addresses may be shorter than it.               *)
(***************************************************************************)
MCChars == {<<65>>, <<127>>, <<128>>, <<2047>>, <<2048>>, <<55295>>, <<57344>>,
            <<65535>>, <<55296, 56320>>, <<56319, 57343>>}
MCLone  == {<<55296>>, <<56320>>, <<56320, 65>>}

MCIndexURLs == {<<>>, <<46>>, <<46, 47>>} \cup {u \o <<46, 47>> : u \in MCChars \cup MCLone}
MCHrefs     == {<<>>} \cup MCChars \cup MCLone
MCTags      == {<<u, v>> : u, v \in {65, 37, 60, 62}}

(***************************************************************************)
(* Slices of strings of no, one, three and eleven bytes (bounds of one and *)
(* of two digits) with ends inside, at, beside and far outside of them.    *)
(***************************************************************************)
MCSliced == {[k \in 1 .. n |-> 100 + k] : n \in {0, 1, 3, 11}}
MCEnds   == {-MaxInt - 1, -MaxInt, MaxInt - 1, MaxInt} \cup (-2 .. 4) \cup (10 .. 14)
MCSlices == {[s |-> w, a |-> u, b |-> v] : w \in MCSliced, u \in MCEnds, v \in MCEnds}

(***************************************************************************)
(* nimCopy: a string, the bounds of a slice, fuzzyMatch's result and a     *)
(* defect, the types of dochack.js, and of the kinds it has no value of a  *)
(* sequence of strings of another length than the destination's, an array, *)
(* and a set and a reference to a number in a tuple.                       *)
(***************************************************************************)
Named(n, t) == [name |-> n, typ |-> t]

Pair == Tuple(<<Named("set", SetType), Named("ptr", RefTo(Scalar))>>)

MCCases ==
  { [ti |-> NimString, heap |-> << <<p, q>>, <<q>> >>, x |-> 1, y |-> 2],
    [ti |-> HSlice, heap |-> <<[a |-> p, b |-> p], [a |-> q, b |-> p]>>, x |-> 1, y |-> 2],
    [ti |-> ScoreTuple, heap |-> <<[Field0 |-> p, Field1 |-> q]>>, x |-> 1, y |-> Null],
    [ti |-> Defect,
     heap |-> << <<p>>, [parent |-> Null, name |-> p, message |-> 1, trace |-> Null, up |-> 2]>>,
     x |-> 2, y |-> Null],
    [ti |-> SequenceOf(NimString), heap |-> << <<p>>, <<1, 1>>, <<q>>, <<3>> >>, x |-> 2, y |-> 4],
    [ti |-> ArrayOf(Scalar), heap |-> << <<p, q>> >>, x |-> 1, y |-> Null],
    [ti |-> Pair,
     heap |-> << SetConstr({p}), <<p, q>>, [set |-> 1, ptr |-> 2]>>, x |-> 3, y |-> Null] }

\* Room for two or three assignments.
MCMaxHeap(t) ==
  CASE t.kind = 24 -> 7 [] t = Pair -> 6 [] OTHER -> 4

-----------------------------------------------------------------------------
\* The arguments of the procedures that are not called are fixed.
Init ==
  /\ procedure \in {"fuzzyMatch", "strings", "slice", "nimCopy", "groupBy"}
  /\ procedure # "fuzzyMatch" => pattern = LongRun /\ str = LongRun
  /\ procedure # "slice" => whole = <<>> /\ start = 0 /\ back = 1
  /\ procedure # "groupBy" => page = EmptyPage
  /\ procedure # "nimCopy" =>
       ti = ArrayOf(Scalar) /\ heap = << <<p, q>> >> /\ x = 1 /\ y = Null
  /\ StringsInit /\ CopyInit /\ TocInit /\ SliceInit /\ FuzzyInit

FuzzyStep ==
  /\ procedure = "fuzzyMatch" /\ FuzzyNext
  /\ UNCHANGED <<procedure, stringsVars, sliceVars, memoryVars, tocVars>>

StringsStep ==
  /\ procedure = "strings" /\ StringsNext
  /\ UNCHANGED <<procedure, fuzzyVars, sliceVars, memoryVars, tocVars>>

SliceStep ==
  /\ procedure = "slice" /\ SliceNext
  /\ UNCHANGED <<procedure, fuzzyVars, stringsVars, memoryVars, tocVars>>

CopyStep ==
  /\ procedure = "nimCopy" /\ CopyNext
  /\ UNCHANGED <<procedure, fuzzyVars, stringsVars, sliceVars, tocVars>>

TocStep ==
  /\ procedure = "groupBy" /\ TocNext
  /\ UNCHANGED <<procedure, fuzzyVars, stringsVars, sliceVars, memoryVars>>

Next == FuzzyStep \/ StringsStep \/ SliceStep \/ CopyStep \/ TocStep

Spec == Init /\ [][Next]_dochackVars

\* The variables of each procedure keep their types; fuzzyMatch reads within
\* its strings, and what a slice copies fits into its result.
TypeOK == FuzzyTypeOK /\ StringsTypeOK /\ SliceTypeOK /\ CopyTypeOK /\ TocTypeOK
=============================================================================
