------------------------------ MODULE MCGitnim ------------------------------
(* Gitnim with two releases, on branches 1 and 2, and main, branch 3. *)
EXTENDS Gitnim

CONSTANTS s1, s2, c0, c1, c2, c3, r1, r2

\* Two modules; the releases differ in both.
L(x, y) == [n \in Names |-> IF n = 1 THEN x ELSE y]

MCListing ==
  [c \in Commits |->
     CASE c = c0 -> L(Absent, Absent)
       [] c = c1 -> L(s1, Absent)
       [] c = c2 -> L(s2, s1)
       [] c = c3 -> L(s1, s1)]
MCReleases == {MCListing[c] : c \in Commits}
MCNoListing == L(Absent, Absent)

\* Branch 1 is there from the start; branch 2 is pushed later, and again.
MCHistory == [b \in Branches |-> CASE b = 1 -> <<c1>>
                                   [] b = 2 -> <<c2, c3>>
                                   [] b = 3 -> <<c0>>]
\* Branch 2 starts where branch 1 is.
MCSharedHistory == [MCHistory EXCEPT ![2] = <<c1, c2>>]
MCPublished == [b \in Branches |-> IF b = 2 THEN 0 ELSE 1]
MCVersionOf == [r \in NimRefs |-> IF r = r1 THEN 1 ELSE 2]
\* A release pins main, or the commit of its branch.
MCPinned == [r \in NimRefs |-> IF r = r1 THEN c1 ELSE c0]
=============================================================================
