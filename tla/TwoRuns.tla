------------------------------- MODULE TwoRuns -------------------------------
(***************************************************************************)
(* Runs of `git nim` that share one distribution.  toggleModules takes no  *)
(* lock, so that the runs' tests, renames and removals in dist/ and        *)
(* dist/.attic/ interleave.  Toggle has one run and merges a test with the *)
(* step it guards; here each system call that another run can get between  *)
(* is a step of its own, and what fails because of another run raises an   *)
(* OSError that nothing catches.                                           *)
(*                                                                         *)
(* The runs are for one branch: another branch is checked out, and a       *)
(* directory deleted by the user, only while no run is under way.  What    *)
(* git needs the network or its own locks for is a choice here, success or *)
(* failure; Toggle says when one run's succeeds.                           *)
(***************************************************************************)
EXTENDS DistTree, Sequences

CONSTANT Runs   \* the runs that can be under way at once

ASSUME TwoRunsAssumption == Runs # {}

VARIABLES
  gitlink,  \* the submodules listed by the checked-out commit
  tree,     \* the directories of dist/
  attic,    \* the directories of dist/.attic/
  prog      \* per run, where it is and its local variables

vars == <<gitlink, tree, attic, prog>>

Module == [name : Names, status : Statuses]

\* How a run can have ended; "raised" is an OSError.
Endings == {"none", "ok", "failed", "raised", "killed"}

Steps == {"recover", "restore", "expose", "update", "sweep",
          "clear", "empty", "rmdir", "stash"}

\* A run: its step or its ending, the list of parseModules, the index of the
\* for loops, whether something was recovered, and the deque of
\* exposedModules; `lost` (history) are the modules whose last populated copy
\* this run deleted.
Ended(how, lost) ==
  [pc |-> how, modules |-> <<>>, i |-> 1, dirty |-> FALSE, exposed |-> <<>>,
   lost |-> lost]

Running(r) == prog[r].pc \in Steps

Quiet == \A r \in Runs : ~Running(r)

\* Some copy of the module's working tree is left.
Populated(n) == tree[n] \in Shas \/ attic[n] \in Shas

\* parseModules: the wanted submodules sorted by name, each with its status.
ParseModules ==
  {[k \in DOMAIN s |->
      [name |-> s[k], status |-> StatusOf(gitlink, tree, s[k])]]
     : s \in Ascending(Wanted(gitlink))}

\* rename(2) of a directory to the name of another: the source must exist and
\* the destination must not, unless it is empty.
CanRename(source, dest) == source # Absent /\ dest \in {Absent, Bare}

EndRun(r, how) == prog' = [prog EXCEPT ![r] = Ended(how, prog[r].lost)]

Init ==
  /\ gitlink \in Releases
  /\ tree = Cloned(gitlink)
  /\ attic = [n \in Names |-> Absent]
  /\ prog = [r \in Runs |-> Ended("none", {})]

-----------------------------------------------------------------------------
(* The environment, between runs. *)

Checkout ==
  /\ Quiet
  /\ \E h \in Releases :
       /\ gitlink' = h
       /\ tree' = CheckedOut(gitlink, h, tree)
  /\ prog' = [r \in Runs |-> Ended("none", {})]
  /\ UNCHANGED attic

\* The user deletes dist/n.
Remove(n) ==
  /\ Quiet
  /\ tree[n] # Absent
  /\ tree' = [tree EXCEPT ![n] = Absent]
  /\ prog' = [r \in Runs |-> Ended("none", {})]
  /\ UNCHANGED <<gitlink, attic>>

-----------------------------------------------------------------------------
(* toggleModules, as run r takes it *)

\* The modules are listed.
Begin(r) ==
  /\ ~Running(r)
  /\ \E ms \in ParseModules :
       prog' = [prog EXCEPT ![r] =
                  [Ended("recover", {}) EXCEPT !.modules = ms]]
  /\ UNCHANGED <<gitlink, tree, attic>>

Current(r) == prog[r].modules[prog[r].i]

\* r is at a step of one of the loops over its modules.
At(r, step) == prog[r].pc = step /\ prog[r].i <= Len(prog[r].modules)

After(r, step) == prog[r].pc = step /\ prog[r].i > Len(prog[r].modules)

\* fetchFromAttic's tests: the module has no directory, the attic has.
Recover(r) ==
  /\ At(r, "recover")
  /\ LET n == Current(r).name IN
     prog' = IF tree[n] = Absent /\ attic[n] # Absent
             THEN [prog EXCEPT ![r].pc = "restore"]
             ELSE [prog EXCEPT ![r].i = @ + 1]
  /\ UNCHANGED <<gitlink, tree, attic>>

\* fetchFromAttic's moveDir.
Restore(r) ==
  /\ prog[r].pc = "restore"
  /\ LET n == Current(r).name IN
     IF CanRename(attic[n], tree[n])
     THEN /\ tree' = [tree EXCEPT ![n] = attic[n]]
          /\ attic' = [attic EXCEPT ![n] = Absent]
          /\ prog' = [prog EXCEPT ![r].pc = "recover", ![r].i = @ + 1,
                                  ![r].dirty = TRUE]
     ELSE /\ EndRun(r, "raised")
          /\ UNCHANGED <<tree, attic>>
  /\ UNCHANGED gitlink

\* The modules are listed again if this run recovered one.
Relist(r) ==
  /\ After(r, "recover")
  /\ \E ms \in IF prog[r].dirty THEN ParseModules ELSE {prog[r].modules} :
       prog' = [prog EXCEPT ![r].pc = "expose", ![r].modules = ms]
  /\ UNCHANGED <<gitlink, tree, attic>>

\* exposedModules lists the directories.
Expose(r) ==
  /\ prog[r].pc = "expose"
  /\ \E ds \in Ascending(Dirs(tree)) :
       prog' = [prog EXCEPT ![r].pc = "update", ![r].i = 1,
                            ![r].exposed = ds]
  /\ UNCHANGED <<gitlink, tree, attic>>

\* update, where the module's status asks for it.
Update(r) ==
  /\ At(r, "update")
  /\ LET m == Current(r) IN
     IF m.status = "UpToDate"
     THEN UNCHANGED tree
     ELSE tree' = [tree EXCEPT ![m.name] = gitlink[m.name]]
  /\ prog' = [prog EXCEPT ![r].pc = "sweep"]
  /\ UNCHANGED <<gitlink, attic>>

\* `git submodule update` fails, without the network or because another run's
\* git holds a lock: git() quits the program.
UpdateFails(r) ==
  /\ At(r, "update")
  /\ Current(r).status # "UpToDate"
  /\ EndRun(r, "failed")
  /\ UNCHANGED <<gitlink, tree, attic>>

\* Fault: `<=` for `<` in the while loop.
StashingOrEqual(r) ==
  /\ prog[r].exposed # <<>>
  /\ \/ prog[r].pc = "sweep" /\ Head(prog[r].exposed) <= Current(r).name
     \/ After(r, "update")

\* The head of the deque sorts before the module, or is left after the last.
Stashing(r) ==
  /\ prog[r].exposed # <<>>
  /\ \/ prog[r].pc = "sweep" /\ Head(prog[r].exposed) < Current(r).name
     \/ After(r, "update")

\* Fault: the copy in the attic is not removed first.
StashOver(r) ==
  /\ Stashing(r)
  /\ prog' = [prog EXCEPT ![r].pc = "stash"]
  /\ UNCHANGED <<gitlink, tree, attic>>

\* stashInAttic's test: is there a copy in the attic that must go?
Stash(r) ==
  /\ Stashing(r)
  /\ prog' = [prog EXCEPT ![r].pc =
                IF attic[Head(prog[r].exposed)] # Absent THEN "clear"
                                                         ELSE "stash"]
  /\ UNCHANGED <<gitlink, tree, attic>>

\* r changes what the attic has of n; was that the last populated copy?
Put(r, n, c) ==
  /\ attic' = [attic EXCEPT ![n] = c]
  /\ prog' = [prog EXCEPT
                ![r].pc = IF @ = "clear" THEN "empty" ELSE "rmdir",
                ![r].lost = IF tree[n] \notin Shas /\ attic[n] \in Shas
                                 /\ c \notin Shas
                            THEN @ \cup {n} ELSE @]

\* removeDir, first: files of the copy go, its .git among them.
Clear(r) ==
  /\ prog[r].pc = "clear"
  /\ UNCHANGED <<gitlink, tree>>
  /\ LET n == Head(prog[r].exposed) IN
     Put(r, n, IF attic[n] \in Shas THEN Plain ELSE attic[n])

\* removeDir, then: what is left of it goes, by name.  Where another run has
\* moved its directory there meanwhile, the walk meets any part of that.
Empty(r) ==
  /\ prog[r].pc = "empty"
  /\ UNCHANGED <<gitlink, tree>>
  /\ LET n == Head(prog[r].exposed) IN
     \E c \in IF attic[n] \in Shas THEN {attic[n], Plain, Bare}
              ELSE IF attic[n] = Absent THEN {Absent} ELSE {Bare} :
       Put(r, n, c)

\* removeDir meets a subdirectory that another run, which removes the same
\* copy, has just removed.
EmptyRaises(r) ==
  /\ prog[r].pc = "empty"
  /\ \E q \in Runs \ {r} :
       /\ prog[q].pc \in {"empty", "rmdir"}
       /\ Head(prog[q].exposed) = Head(prog[r].exposed)
  /\ EndRun(r, "raised")
  /\ UNCHANGED <<gitlink, tree, attic>>

\* removeDir, last: the directory goes, if it is empty or gone.
Rmdir(r) ==
  /\ prog[r].pc = "rmdir"
  /\ LET n == Head(prog[r].exposed) IN
     IF attic[n] \in {Absent, Bare}
     THEN /\ attic' = [attic EXCEPT ![n] = Absent]
          /\ prog' = [prog EXCEPT ![r].pc = "stash"]
     ELSE /\ EndRun(r, "raised")
          /\ UNCHANGED attic
  /\ UNCHANGED <<gitlink, tree>>

\* Fault: a directory that is not there is passed over.
MoveIfThere(r) ==
  /\ prog[r].pc = "stash"
  /\ LET n == Head(prog[r].exposed) IN
     IF CanRename(tree[n], attic[n])
     THEN /\ attic' = [attic EXCEPT ![n] = tree[n]]
          /\ tree' = [tree EXCEPT ![n] = Absent]
     ELSE UNCHANGED <<tree, attic>>
  /\ prog' = [prog EXCEPT
                ![r].pc = IF prog[r].i <= Len(prog[r].modules)
                          THEN "sweep" ELSE "update",
                ![r].exposed = Tail(@)]
  /\ UNCHANGED gitlink

\* stashInAttic's moveDir; then the loop it is called from goes on.
MoveToAttic(r) ==
  /\ prog[r].pc = "stash"
  /\ LET n == Head(prog[r].exposed) IN
     IF CanRename(tree[n], attic[n])
     THEN /\ attic' = [attic EXCEPT ![n] = tree[n]]
          /\ tree' = [tree EXCEPT ![n] = Absent]
          /\ prog' = [prog EXCEPT
                        ![r].pc = IF prog[r].i <= Len(prog[r].modules)
                                  THEN "sweep" ELSE "update",
                        ![r].exposed = Tail(@)]
     ELSE /\ EndRun(r, "raised")
          /\ UNCHANGED <<tree, attic>>
  /\ UNCHANGED gitlink

\* Fault: the loop over the modules does not advance.
SameModule(r) ==
  /\ prog[r].pc = "sweep"
  /\ ~Stashing(r)
  /\ prog' = [prog EXCEPT
                ![r].pc = "update",
                ![r].exposed = IF @ # <<>> /\ Head(@) = Current(r).name
                               THEN Tail(@) ELSE @]
  /\ UNCHANGED <<gitlink, tree, attic>>

\* The while loop meets the module itself, or is past it, and ends.
NextModule(r) ==
  /\ prog[r].pc = "sweep"
  /\ ~Stashing(r)
  /\ prog' = [prog EXCEPT
                ![r].pc = "update",
                ![r].i = @ + 1,
                ![r].exposed = IF @ # <<>> /\ Head(@) = Current(r).name
                               THEN Tail(@) ELSE @]
  /\ UNCHANGED <<gitlink, tree, attic>>

\* Fault: the last loop, which hides what is left, is missing.
FinishWithRest(r) ==
  /\ After(r, "update")
  /\ EndRun(r, "ok")
  /\ UNCHANGED <<gitlink, tree, attic>>

Finish(r) ==
  /\ After(r, "update")
  /\ prog[r].exposed = <<>>
  /\ EndRun(r, "ok")
  /\ UNCHANGED <<gitlink, tree, attic>>

ToggleModules(r) ==
  \/ Recover(r) \/ Restore(r) \/ Relist(r) \/ Expose(r)
  \/ Update(r) \/ UpdateFails(r) \/ NextModule(r) \/ Finish(r)
  \/ Stash(r) \/ Clear(r) \/ Empty(r) \/ EmptyRaises(r) \/ Rmdir(r)
  \/ MoveToAttic(r)

\* r is killed between two steps.
Kill(r) ==
  /\ Running(r)
  /\ EndRun(r, "killed")
  /\ UNCHANGED <<gitlink, tree, attic>>

\* r is killed in a `submodule update --init` that has cloned the module and
\* left it at the commit the clone came with.
KillInUpdate(r) ==
  /\ At(r, "update")
  /\ tree[Current(r).name] \notin Shas
  /\ \E c \in Shas : tree' = [tree EXCEPT ![Current(r).name] = c]
  /\ EndRun(r, "killed")
  /\ UNCHANGED <<gitlink, attic>>

Next ==
  \/ Checkout
  \/ \E n \in Names : Remove(n)
  \/ \E r \in Runs : Begin(r) \/ ToggleModules(r) \/ Kill(r) \/ KillInUpdate(r)

Spec == Init /\ [][Next]_vars

\* A run keeps taking steps: nothing in it waits for another.
Fairness == \A r \in Runs : WF_vars(ToggleModules(r))

FairSpec == Spec /\ Fairness

-----------------------------------------------------------------------------
Program == [pc : Endings \cup Steps, modules : Seq(Module), i : Nat \ {0},
            dirty : BOOLEAN, exposed : Seq(Names), lost : SUBSET Names]

TypeOK ==
  /\ gitlink \in Gitlinks
  /\ tree \in [Names -> Content]
  /\ attic \in [Names -> Content]
  /\ prog \in [Runs -> Program]

\* Once a run has returned, exactly the wanted modules are exposed, each at
\* its listed commit, and the runs that are still under way leave it so.
DoneMatches ==
  (\E r \in Runs : prog[r].pc = "ok") =>
    /\ Dirs(tree) = Wanted(gitlink)
    /\ \A n \in Wanted(gitlink) : tree[n] = gitlink[n]

\* No step of a run destroys the last populated copy of a wanted module,
\* however the runs interleave and wherever they are killed.
WantedSurvive ==
  [][~Quiet => \A n \in Wanted(gitlink) : Populated(n) => Populated(n)']_vars

\* The removal in stashInAttic can delete what another run has just moved to
\* the attic.  The run that does so does not return as if nothing had
\* happened: its own moveDir finds no directory and raises.
LossIsReported ==
  \A r \in Runs : prog[r].pc = "ok" => prog[r].lost = {}

\* The runs get in each other's way, but never all of them: a run raises only
\* because of another that is ahead of it.
OneGetsThrough == \E r \in Runs : prog[r].pc # "raised"

\* Every run ends, whatever the others do.
Termination == \A r \in Runs : Running(r) ~> ~Running(r)
=============================================================================
