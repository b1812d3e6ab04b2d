------------------------------ MODULE Exposure ------------------------------
(***************************************************************************)
(* What toggleModules promises, without saying in which order it works:    *)
(* while it runs, wanted modules may be recovered from the attic or        *)
(* updated and unwanted directories may be hidden in the attic; it may     *)
(* stop early at any moment; and it may report that it is done only when   *)
(* exactly the wanted modules are exposed, each at its listed commit.      *)
(***************************************************************************)
EXTENDS DistTree

VARIABLES
  gitlink,  \* the submodules listed by the checked-out commit
  tree,     \* the directories of dist/
  attic,    \* the directories of dist/.attic/
  run       \* "running", or how the last run of toggleModules ended

vars == <<gitlink, tree, attic, run>>

\* Exactly the wanted modules are exposed, each at its listed commit.
Matches(g, t) ==
  /\ Dirs(t) = Wanted(g)
  /\ \A n \in Wanted(g) : t[n] = g[n]

Init ==
  /\ gitlink \in Releases
  /\ tree = Cloned(gitlink)
  /\ attic = [n \in Names |-> Absent]
  /\ run = "none"

\* Between runs the user or checkoutDistribution checks out another branch.
Checkout ==
  /\ run # "running"
  /\ \E h \in Releases :
       /\ gitlink' = h
       /\ tree' = CheckedOut(gitlink, h, tree)
  /\ run' = "none"
  /\ UNCHANGED attic

\* Between runs the user deletes a directory.
Remove(n) ==
  /\ run # "running"
  /\ tree' = [tree EXCEPT ![n] = Absent]
  /\ run' = "none"
  /\ UNCHANGED <<gitlink, attic>>

Begin ==
  /\ run # "running"
  /\ run' = "running"
  /\ UNCHANGED <<gitlink, tree, attic>>

\* A wanted module without a directory comes back from the attic.
Recover(n) ==
  /\ run = "running"
  /\ n \in Wanted(gitlink)
  /\ tree[n] = Absent
  /\ attic[n] # Absent
  /\ tree' = [tree EXCEPT ![n] = attic[n]]
  /\ attic' = [attic EXCEPT ![n] = Absent]
  /\ UNCHANGED <<gitlink, run>>

\* A wanted module is brought to its listed commit.
Update(n) ==
  /\ run = "running"
  /\ n \in Wanted(gitlink)
  /\ tree' = [tree EXCEPT ![n] = gitlink[n]]
  /\ UNCHANGED <<gitlink, attic, run>>

\* The attic's copy of an unwanted directory makes room for the exposed one.
Drop(n) ==
  /\ run = "running"
  /\ n \notin Wanted(gitlink)
  /\ tree[n] # Absent
  /\ attic' = [attic EXCEPT ![n] = Absent]
  /\ UNCHANGED <<gitlink, tree, run>>

\* An unwanted directory moves to the attic, where its place is free.
Hide(n) ==
  /\ run = "running"
  /\ n \notin Wanted(gitlink)
  /\ tree[n] # Absent
  /\ attic[n] = Absent
  /\ attic' = [attic EXCEPT ![n] = tree[n]]
  /\ tree' = [tree EXCEPT ![n] = Absent]
  /\ UNCHANGED <<gitlink, run>>

Finish ==
  /\ run = "running"
  /\ Matches(gitlink, tree)
  /\ run' = "ok"
  /\ UNCHANGED <<gitlink, tree, attic>>

\* The run stops early.  The submodule being cloned may be left populated at
\* any commit; the copy being dropped may be left without its .git file.
Abort ==
  /\ run = "running"
  /\ run' \in {"failed", "killed"}
  /\ \/ UNCHANGED <<tree, attic>>
     \/ \E n \in Wanted(gitlink), c \in Shas :
          /\ tree[n] \notin Shas
          /\ tree' = [tree EXCEPT ![n] = c]
          /\ UNCHANGED attic
     \/ \E n \in Names \ Wanted(gitlink) :
          /\ tree[n] # Absent
          /\ attic[n] \in Shas
          /\ attic' = [attic EXCEPT ![n] = Plain]
          /\ UNCHANGED tree
  /\ UNCHANGED gitlink

Next ==
  \/ Checkout \/ Begin \/ Finish \/ Abort
  \/ \E n \in Names :
       Remove(n) \/ Recover(n) \/ Update(n) \/ Drop(n) \/ Hide(n)

Spec == Init /\ [][Next]_vars
=============================================================================
