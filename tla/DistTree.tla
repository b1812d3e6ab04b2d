------------------------------ MODULE DistTree ------------------------------
(***************************************************************************)
(* The distribution's working tree as gitnim sees it: the directories of   *)
(* dist/, the directories of dist/.attic/, and the submodules git lists    *)
(* for the commit that is checked out.  This module holds the vocabulary   *)
(* the detailed specification (Toggle) and the abstract one (Exposure)     *)
(* share; it has no variables.                                             *)
(*                                                                         *)
(* A module name is a natural number, its rank in the string order that    *)
(* both `sort` calls of the code use.  A directory's content is abstracted *)
(* to what the code and git can tell apart: Absent (no such directory),    *)
(* Bare (the empty directory git leaves for a submodule it has not         *)
(* populated), Plain (files but no .git, what an interrupted removeDir     *)
(* leaves) or the commit a populated submodule is at.                      *)
(***************************************************************************)
EXTENDS Integers, FiniteSets, Functions

CONSTANTS
  Names,       \* directory names that can occur in the distribution
  ShortNames,  \* the ones too short for parseModules' length test
  Shas,        \* commits of the submodules
  Absent,      \* no directory
  Bare,        \* an empty directory
  Plain,       \* a directory with files but without a .git file
  Releases     \* the submodule lists of the distribution's branches

Content == Shas \cup {Absent, Bare, Plain}

\* What a commit of the distribution lists: a commit for each submodule.
Gitlinks == [Names -> Shas \cup {Absent}]

Statuses == {"Missing", "OutOfDate", "UpToDate"}

ASSUME DistTreeAssumption ==
  /\ Names \subseteq Nat
  /\ IsFiniteSet(Names)
  /\ ShortNames \subseteq Names
  /\ Absent # Bare /\ Absent # Plain /\ Bare # Plain
  /\ {Absent, Bare, Plain} \cap Shas = {}
  /\ Releases \subseteq Gitlinks

\* The names with a directory in `d` (dist/ or dist/.attic/).
Dirs(d) == {n \in Names : d[n] # Absent}

\* The submodules a listing has.
Listed(g) == {n \in Names : g[n] # Absent}

\* The submodules gitnim knows of: `git submodule` prints one line for each
\* listed submodule and parseModules keeps the lines of at least 1+40+1+2
\* characters.
Wanted(g) == Listed(g) \ ShortNames

\* The first character of a `git submodule` line (external): "-" for a
\* submodule that is not populated, "+" for one at another commit than the
\* listed one, " " otherwise.
StatusOf(g, t, n) ==
  IF t[n] \notin Shas THEN "Missing"
  ELSE IF t[n] # g[n] THEN "OutOfDate" ELSE "UpToDate"

\* What `git checkout` does to the working tree when the listing goes from g
\* to h (external): a submodule that is new, or listed at another commit,
\* gets an empty directory unless it has one; a submodule that is no longer
\* listed loses its directory if that is empty and keeps it otherwise.
CheckedOut(g, h, t) ==
  [n \in Names |->
     IF h[n] # Absent /\ h[n] # g[n] /\ t[n] = Absent THEN Bare
     ELSE IF h[n] = Absent /\ g[n] # Absent /\ t[n] = Bare THEN Absent
     ELSE t[n]]

\* The working tree of a fresh clone at listing g (external): an empty
\* directory for each submodule.
Cloned(g) == [n \in Names |-> IF g[n] = Absent THEN Absent ELSE Bare]

\* The sequences that hold each element of S once, in ascending order: what
\* `sort` leaves.
Ascending(S) ==
  {s \in [1..Cardinality(S) -> S] :
     /\ Range(s) = S
     /\ \A i, j \in DOMAIN s : i < j => s[i] < s[j]}
=============================================================================
