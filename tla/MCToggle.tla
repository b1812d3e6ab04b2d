------------------------------ MODULE MCToggle ------------------------------
(* Toggle on three names and a few branches of the distribution. *)
EXTENDS Toggle

CONSTANTS s1, s2

\* The branches differ in every way that matters to one module: listed or
\* not, and at one commit or another; the first, a middle and the last name
\* are each unlisted somewhere, and one branch lists nothing in between.
MCReleases ==
  { [n \in Names |-> CASE n = 1 -> s1     [] n = 2 -> s1     [] n = 3 -> Absent],
    [n \in Names |-> CASE n = 1 -> s2     [] n = 2 -> Absent [] n = 3 -> s1],
    [n \in Names |-> CASE n = 1 -> Absent [] n = 2 -> s1     [] n = 3 -> s1] }
=============================================================================
