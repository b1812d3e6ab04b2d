------------------------------- MODULE Toggle -------------------------------
(***************************************************************************)
(* toggleModules (gitnim/gitnim.nim) and the procs it calls, one action    *)
(* per step that changes a directory or asks git to.  A run can be killed  *)
(* between any two of them, and git can fail, which ends the program.  The *)
(* network comes and goes at any time.  Between runs the user, or          *)
(* checkoutDistribution, checks out another branch of the distribution, a  *)
(* fetch brings commits of the submodules, and the user deletes a          *)
(* directory.                                                              *)
(*                                                                         *)
(* `createDir attic` is idempotent and nothing removes dist/.attic, so the *)
(* directory itself is not modelled; the sha that parseModules stores is   *)
(* never read and is left out.                                             *)
(***************************************************************************)
EXTENDS DistTree, Sequences

VARIABLES
  gitlink,  \* the submodules listed by the checked-out commit
  tree,     \* the directories of dist/
  attic,    \* the directories of dist/.attic/
  objects,  \* per module, the commits in its git directory
  online,   \* whether the network answers
  pc,       \* where toggleModules is
  run,      \* "running", or how the last run ended
  fetch,    \* the parameter of toggleModules
  modules,  \* the list parseModules returned
  i,        \* index of the for loops over modules
  dirty,    \* something was recovered from the attic
  exposed,  \* the deque of exposedModules
  queried   \* history: modules this run allowed git to query the network for

env == <<gitlink, tree, attic, objects, online>>
locals == <<pc, run, fetch, modules, i, dirty, exposed, queried>>
vars == <<gitlink, tree, attic, objects, online,
          pc, run, fetch, modules, i, dirty, exposed, queried>>

Module == [name : Names, status : Statuses]

\* parseModules: the wanted submodules sorted by name, each with its status.
ParseModules ==
  {[k \in DOMAIN s |->
      [name |-> s[k], status |-> StatusOf(gitlink, tree, s[k])]]
     : s \in Ascending(Wanted(gitlink))}

\* The program is over: the local variables are gone.
EndRun(how) ==
  /\ pc' = "idle"
  /\ run' = how
  /\ modules' = <<>>
  /\ i' = 1
  /\ dirty' = FALSE
  /\ exposed' = <<>>
  /\ fetch' = TRUE
  /\ queried' = {}

Init ==
  /\ gitlink \in Releases
  /\ tree = Cloned(gitlink)
  /\ attic = [n \in Names |-> Absent]
  /\ objects = [n \in Names |-> {}]
  /\ online = TRUE
  /\ pc = "idle"
  /\ run = "none"
  /\ fetch = TRUE
  /\ modules = <<>>
  /\ i = 1
  /\ dirty = FALSE
  /\ exposed = <<>>
  /\ queried = {}

-----------------------------------------------------------------------------
(* The environment: but for the network, it acts between runs. *)

\* checkoutDistribution's, or the user's own, `git checkout` in dist/.
Checkout ==
  /\ pc = "idle"
  /\ \E h \in Releases :
       /\ gitlink' = h
       /\ tree' = CheckedOut(gitlink, h, tree)
  /\ run' = "none"
  /\ UNCHANGED <<attic, objects, online, pc, fetch, modules, i, dirty,
                 exposed, queried>>

\* The user deletes dist/n.
Remove(n) ==
  /\ pc = "idle"
  /\ tree[n] # Absent
  /\ tree' = [tree EXCEPT ![n] = Absent]
  /\ run' = "none"
  /\ UNCHANGED <<gitlink, attic, objects, online, pc, fetch, modules, i,
                 dirty, exposed, queried>>

\* The network comes or goes.
Flip ==
  /\ online' = ~online
  /\ UNCHANGED <<gitlink, tree, attic, objects, locals>>

\* A `git fetch` in dist/ that brings commits with the listings in G fetches
\* in the populated submodules too (git's on-demand recursion).
FetchModules(G) ==
  /\ pc = "idle"
  /\ online
  /\ objects' = [n \in Names |->
                   IF tree[n] \in Shas
                   THEN objects[n] \cup ({g[n] : g \in G} \cap Shas)
                   ELSE objects[n]]
  /\ UNCHANGED <<gitlink, tree, attic, online, locals>>

-----------------------------------------------------------------------------
(* toggleModules *)

\* toggleModules(f) is called and lists the modules.
Begin(f) ==
  /\ pc = "idle"
  /\ pc' = "recover"
  /\ run' = "running"
  /\ fetch' = f
  /\ modules' \in ParseModules
  /\ i' = 1
  /\ dirty' = FALSE
  /\ exposed' = <<>>
  /\ queried' = {}
  /\ UNCHANGED env

\* fetchFromAttic: a module without a directory comes back from the attic.
FetchFromAttic(n) ==
  IF tree[n] = Absent /\ attic[n] # Absent
  THEN /\ tree' = [tree EXCEPT ![n] = attic[n]]
       /\ attic' = [attic EXCEPT ![n] = Absent]
       /\ dirty' = TRUE
  ELSE UNCHANGED <<tree, attic, dirty>>

\* One iteration of the loop that recovers modules.
Recover ==
  /\ pc = "recover"
  /\ i <= Len(modules)
  /\ FetchFromAttic(modules[i].name)
  /\ i' = i + 1
  /\ UNCHANGED <<gitlink, objects, online, pc, run, fetch, modules, exposed,
                 queried>>

\* Fault: the list made before the attic was searched stays in use.
ExposeStale ==
  /\ pc = "recover"
  /\ i > Len(modules)
  /\ exposed' \in Ascending(Dirs(tree))
  /\ pc' = "update"
  /\ i' = 1
  /\ UNCHANGED <<env, run, fetch, modules, dirty, queried>>

\* The modules are listed again if one was recovered; then exposedModules
\* lists the directories.
Expose ==
  /\ pc = "recover"
  /\ i > Len(modules)
  /\ IF dirty THEN modules' \in ParseModules ELSE UNCHANGED modules
  /\ exposed' \in Ascending(Dirs(tree))
  /\ pc' = "update"
  /\ i' = 1
  /\ UNCHANGED <<env, run, fetch, dirty, queried>>

\* The fetch parameter `update` is called with: an out-of-date module
\* resists the network, a missing one uses it.
UpdateFetch(m) == m.status = "Missing" \/ fetch

\* Whether the command that update runs for m may query the network: always
\* for `submodule update --init --depth=1`, which it runs when there is no
\* .git file, otherwise as fetchFlag says.
MayQuery(m) == tree[m.name] \notin Shas \/ UpdateFetch(m)

\* The command succeeds if the commit is at hand or can be fetched (external).
\* A Plain directory is no obstacle: it is left of a module that was
\* populated, so git finds the module's git directory and does not clone.
CanUpdate(m) ==
  \/ gitlink[m.name] \in objects[m.name]
  \/ MayQuery(m) /\ online

\* One iteration of the update loop up to its while loop.
Update ==
  /\ pc = "update"
  /\ i <= Len(modules)
  /\ LET m == modules[i]
         n == m.name IN
     IF m.status = "UpToDate"
     THEN UNCHANGED <<tree, objects, queried>>
     ELSE /\ CanUpdate(m)
          /\ tree' = [tree EXCEPT ![n] = gitlink[n]]
          /\ objects' = [objects EXCEPT ![n] = @ \cup {gitlink[n]}]
          /\ queried' = IF MayQuery(m) THEN queried \cup {n} ELSE queried
  /\ pc' = "sweep"
  /\ UNCHANGED <<gitlink, attic, online, run, fetch, modules, i, dirty,
                 exposed>>

\* `git submodule update` fails: git() quits the program.
UpdateFails ==
  /\ pc = "update"
  /\ i <= Len(modules)
  /\ modules[i].status # "UpToDate"
  /\ ~CanUpdate(modules[i])
  /\ EndRun("failed")
  /\ UNCHANGED env

\* stashInAttic, first step: the attic's copy of the name goes.
RemoveFromAttic(n) ==
  /\ attic[n] # Absent
  /\ attic' = [attic EXCEPT ![n] = Absent]
  /\ UNCHANGED <<tree, exposed>>

\* Fault: the arguments of moveDir are swapped.
MoveFromAttic(n) ==
  /\ attic[n] = Absent
  /\ tree' = [tree EXCEPT ![n] = attic[n]]
  /\ UNCHANGED attic
  /\ exposed' = Tail(exposed)

\* stashInAttic, second step: the directory is renamed into the attic.
MoveToAttic(n) ==
  /\ attic[n] = Absent
  /\ attic' = [attic EXCEPT ![n] = tree[n]]
  /\ tree' = [tree EXCEPT ![n] = Absent]
  /\ exposed' = Tail(exposed)

StashInAttic(n) == RemoveFromAttic(n) \/ MoveToAttic(n)

\* Fault: `<=` for `<` in the while loop.
AtSmallerOrEqual ==
  /\ pc = "sweep"
  /\ exposed # <<>>
  /\ Head(exposed) <= modules[i].name

\* The while loop is at a directory that sorts before the module.
AtSmaller ==
  /\ pc = "sweep"
  /\ exposed # <<>>
  /\ Head(exposed) < modules[i].name

\* The last loop is at a directory that is left after the last module.
AtRest ==
  /\ pc = "update"
  /\ i > Len(modules)
  /\ exposed # <<>>

Stashing == AtSmaller \/ AtRest

\* The directory the while loop is at is hidden.
HideSmaller ==
  /\ AtSmaller
  /\ StashInAttic(Head(exposed))
  /\ UNCHANGED <<gitlink, objects, online, pc, run, fetch, modules, i, dirty,
                 queried>>

\* Fault: the loop over the modules goes the wrong way.
PreviousModule ==
  /\ pc = "sweep"
  /\ exposed' = IF exposed # <<>> /\ Head(exposed) = modules[i].name
                THEN Tail(exposed) ELSE exposed
  /\ i' = i - 1
  /\ pc' = "update"
  /\ UNCHANGED <<env, run, fetch, modules, dirty, queried>>

\* Fault: the loop over the modules does not advance.
SameModule ==
  /\ pc = "sweep"
  /\ exposed' = IF exposed # <<>> /\ Head(exposed) = modules[i].name
                THEN Tail(exposed) ELSE exposed
  /\ pc' = "update"
  /\ UNCHANGED <<env, run, fetch, modules, i, dirty, queried>>

\* The while loop meets the module itself, or is past it, and ends.
NextModule ==
  /\ pc = "sweep"
  /\ \/ /\ exposed # <<>>
        /\ Head(exposed) = modules[i].name
        /\ exposed' = Tail(exposed)
     \/ /\ exposed # <<>> => Head(exposed) > modules[i].name
        /\ UNCHANGED exposed
  /\ i' = i + 1
  /\ pc' = "update"
  /\ UNCHANGED <<env, run, fetch, modules, dirty, queried>>

\* Whatever is left after the last module goes to the attic.
HideRest ==
  /\ AtRest
  /\ StashInAttic(Head(exposed))
  /\ UNCHANGED <<gitlink, objects, online, pc, run, fetch, modules, i, dirty,
                 queried>>

\* Fault: the last loop, which hides what is left, is missing.
FinishWithRest ==
  /\ pc = "update"
  /\ i > Len(modules)
  /\ EndRun("ok")
  /\ UNCHANGED env

Finish ==
  /\ pc = "update"
  /\ i > Len(modules)
  /\ exposed = <<>>
  /\ EndRun("ok")
  /\ UNCHANGED env

\* The run is killed between two steps.
Kill ==
  /\ pc # "idle"
  /\ EndRun("killed")
  /\ UNCHANGED env

\* The run is killed in a `submodule update --init` that has cloned the module
\* and left it at the commit the clone came with.
KillInUpdate ==
  /\ pc = "update"
  /\ i <= Len(modules)
  /\ online
  /\ LET n == modules[i].name IN
     /\ tree[n] \notin Shas
     /\ \E c \in Shas :
          /\ tree' = [tree EXCEPT ![n] = c]
          /\ objects' = [objects EXCEPT ![n] = @ \cup {c}]
  /\ EndRun("killed")
  /\ UNCHANGED <<gitlink, attic, online>>

\* The run is killed in stashInAttic's removeDir, after the .git file went.
KillInStash ==
  /\ Stashing
  /\ attic[Head(exposed)] \in Shas
  /\ attic' = [attic EXCEPT ![Head(exposed)] = Plain]
  /\ EndRun("killed")
  /\ UNCHANGED <<gitlink, tree, objects, online>>

ToggleModules ==
  \/ Recover \/ Expose \/ Update \/ UpdateFails
  \/ HideSmaller \/ NextModule \/ HideRest \/ Finish

Next ==
  \/ ToggleModules
  \/ \E f \in BOOLEAN : Begin(f)
  \/ Kill \/ KillInUpdate \/ KillInStash
  \/ Checkout
  \/ Flip
  \/ \E G \in SUBSET Releases : FetchModules(G)
  \/ \E n \in Names : Remove(n)

Spec == Init /\ [][Next]_vars

\* Once called, toggleModules keeps taking steps: nothing in it waits.
Fairness == WF_vars(ToggleModules)

FairSpec == Spec /\ Fairness

-----------------------------------------------------------------------------
TypeOK ==
  /\ gitlink \in Gitlinks
  /\ tree \in [Names -> Content]
  /\ attic \in [Names -> Content]
  /\ objects \in [Names -> SUBSET Shas]
  /\ online \in BOOLEAN
  /\ pc \in {"idle", "recover", "update", "sweep"}
  /\ run \in {"none", "running", "ok", "failed", "killed"}
  /\ fetch \in BOOLEAN
  /\ modules \in Seq(Module)
  /\ i \in Nat \ {0}
  /\ dirty \in BOOLEAN
  /\ exposed \in Seq(Names)
  /\ queried \in SUBSET Names

Abs == INSTANCE Exposure

\* toggleModules implements the order-free promise of Exposure: whatever it
\* hides is unwanted, whatever it recovers or updates is wanted, and it ends
\* well only on a matching tree (the sorted merge of gitnim.nim:294-316).
ImplementsExposure == Abs!Spec

\* When toggleModules returns, the directories of dist/ are exactly the
\* modules git listed, each at its listed commit, whatever earlier runs,
\* killed or failed half-way, left behind.
DoneMatches == run = "ok" => Abs!Matches(gitlink, tree)

\* Some copy of the module's working tree is left.
Populated(n) == tree[n] \in Shas \/ attic[n] \in Shas

\* No step of toggleModules, not even one after which it is killed, destroys
\* the only working copy of a module: stashInAttic deletes a copy in the
\* attic only while a populated one is exposed.
CopySurvives ==
  [][run = "running" => \A n \in Names : Populated(n) => Populated(n)']_vars

\* With fetch off, git is allowed to query the network only for a module that
\* is not populated at that moment: the statuses acted on are current, also
\* after modules were recovered from the attic.
NetworkOnlyForMissing ==
  [][~fetch => \A n \in queried' \ queried : tree[n] \notin Shas]_vars

\* Every call of toggleModules ends: its loops make progress.
Termination == run = "running" ~> run # "running"

\* "The distribution will be updated without querying the network, if
\* possible" (README.md:125): with the network up, updating does not fail.
FailsOnlyOffline ==
  [][run = "running" /\ run' = "failed" => ~online]_vars

\* "see if we need to fetch anything we might want from the attic"
\* (gitnim.nim:280): once that loop is over, no wanted module that has a copy
\* in the attic is left unpopulated.
WantedLeaveAttic ==
  pc = "update" /\ i = 1 =>
    \A n \in Wanted(gitlink) : attic[n] \in Shas => tree[n] \in Shas
=============================================================================
