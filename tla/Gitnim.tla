------------------------------- MODULE Gitnim -------------------------------
(***************************************************************************)
(* The command `git nim` (gitnim/gitnim.nim): `git nim` alone refreshes    *)
(* the releases and the distribution, `git nim REF` switches the compiler  *)
(* and the distribution.  Each git command of main, refresh, switch,       *)
(* setupDistribution, checkoutDistribution and switchDistribution that     *)
(* changes something is a step; toggleModules is the specification Toggle, *)
(* whose variables are this module's.  The program can be killed between   *)
(* any two steps; between runs, and while one is under way, branches are   *)
(* pushed to the remote distribution and the network comes and goes.       *)
(*                                                                         *)
(* A branch of the distribution is a natural number, its rank in refname   *)
(* order.  Its history is a sequence of commits; a ref is an index into    *)
(* it, 0 if the ref does not exist.  History only grows: nobody commits    *)
(* in dist/ or rewrites a pushed branch.                                   *)
(***************************************************************************)
EXTENDS DistTree, Sequences, FiniteSetsExt

CONSTANTS
  Branches,      \* the branches of the distribution
  Main,          \* the remote's default branch, one of mainBranches
  Commits,       \* commits of the distribution
  History,       \* the commits each branch goes through
  Published,     \* how many of them the remote has at first
  Listing,       \* the submodules each commit lists
  NimRefs,       \* the refs of the compiler's repository
  Installed,     \* the ones a clone of it starts with
  VersionOf,     \* the branch that `nim --version` at a ref names
  Pinned,        \* the commit of the distribution a ref pins
  NoListing,     \* the listing of a distribution that is not there
  Detached       \* the name currentBranch finds for a HEAD without a branch

ASSUME GitnimAssumption ==
  /\ Branches \subseteq Nat
  /\ \A B \in SUBSET Branches : B # {} => \E b \in B : \A c \in B : b >= c
  /\ Main \in Branches
  /\ History \in [Branches -> Seq(Commits)]
  /\ Published \in [Branches -> Nat]
  /\ \A b \in Branches : Published[b] <= Len(History[b])
  /\ Published[Main] > 0
  /\ Listing \in [Commits -> Releases]
  /\ Installed \subseteq NimRefs /\ Installed # {}
  /\ VersionOf \in [NimRefs -> Branches]
  /\ Pinned \in [NimRefs -> Commits]
  /\ \A r \in NimRefs : \E b \in Branches :
       \E n \in 1..Published[b] : Pinned[r] = History[b][n]
  /\ NoListing \in Releases /\ Listed(NoListing) = {}
  /\ Detached \notin Branches

VARIABLES
  \* the variables of Toggle
  gitlink, tree, attic, objects, online,
  pc, run, fetch, modules, i, dirty, exposed, queried,
  \* the compiler's repository
  nimHead,   \* the ref that is checked out
  nimKnown,  \* the refs that exist locally
  \* the repository in dist/
  distDir,   \* "absent", "bare" (a directory without .git) or "repo"
  head,      \* the branch that is checked out, or Detached
  at,        \* the commit that is checked out (meaningless without "repo")
  local,     \* the local branches
  tracking,  \* the remote-tracking branches
  remote,    \* the branches on the remote
  \* the program
  step,      \* the next step, "idle" between runs
  cmd,       \* "refresh" or "switch"
  want,      \* the branch to check out in dist/
  current,   \* the branch checkoutDistribution found there
  result,    \* how the last run ended
  \* history
  floor,     \* the remote's branches when the run started
  quiet,     \* the network has been up since the run started
  synced     \* the commits at which a run has ended well

toggle == <<gitlink, tree, attic, objects, online, pc, run, fetch, modules, i,
            dirty, exposed, queried>>
compiler == <<nimHead, nimKnown>>
repo == <<head, at, local, tracking>>
program == <<cmd, want, current, floor>>
vars == <<toggle, compiler, repo, program, distDir, remote, step, result,
          quiet, synced>>

T == INSTANCE Toggle

Refs == [Branches -> Nat]

Tip(refs, b) == History[b][refs[b]]

\* Nothing of Toggle changes.
ToggleRests == UNCHANGED toggle

Init ==
  /\ T!Init
  /\ gitlink = NoListing
  /\ nimHead \in Installed
  /\ nimKnown = Installed
  /\ distDir = "bare"
  /\ head = Detached
  /\ at = Pinned[nimHead]
  /\ local = [b \in Branches |-> 0]
  /\ tracking = [b \in Branches |-> 0]
  /\ remote = Published
  /\ step = "idle"
  /\ cmd = "refresh"
  /\ want = Main
  /\ current = Detached
  /\ result = "none"
  /\ floor = Published
  /\ quiet = FALSE
  /\ synced = {}

-----------------------------------------------------------------------------
(* git, as the program uses it. *)

\* Fault: the table is read in its other direction.
CurrentCommit == at

\* parseBranches and currentBranch: every local branch at HEAD's commit is
\* put in the table under the same key, so the last in refname order is
\* found; the line of a detached HEAD comes first and is found only if no
\* branch is there.
CurrentBranch ==
  LET here == {b \in Branches : local[b] > 0 /\ Tip(local, b) = at} IN
  IF here = {} THEN Detached ELSE Max(here)

\* `git checkout b` in dist/: b exists, or is made from the remote's branch.
CanCheckout(b) == b \in Branches /\ (local[b] > 0 \/ tracking[b] > 0)

\* The working tree follows the commit that is checked out.
TreeFollows == T!Checkout /\ gitlink' = Listing[at']

CheckoutBranch(b) ==
  /\ local' = [local EXCEPT ![b] = IF @ > 0 THEN @ ELSE tracking[b]]
  /\ head' = b
  /\ at' = Tip(local', b)
  /\ UNCHANGED tracking
  /\ TreeFollows

\* `git fetch origin b` in dist/ works.
CanFetch(b) == online /\ b \in Branches /\ remote[b] > 0

\* The remote's branches in S are fetched.  For commits that are new git may
\* fetch in the submodules too.
FetchBranches(S) ==
  /\ tracking' = [b \in Branches |->
                    IF b \in S /\ remote[b] > 0 THEN remote[b] ELSE tracking[b]]
  /\ \/ ToggleRests
     \/ LET new == {b \in Branches : tracking'[b] # tracking[b]} IN
        new # {} /\ T!FetchModules({Listing[Tip(remote, b)] : b \in new})

-----------------------------------------------------------------------------
(* How a run goes on and ends. *)

Goto(s) == step' = s /\ UNCHANGED <<result, current>>

\* The program is over: what checkoutDistribution remembers is gone.
End(how) == step' = "idle" /\ result' = how /\ current' = Detached

\* Nothing on disk changes.
Rest == UNCHANGED <<toggle, compiler, distDir, repo>>

\* A git command fails in git(), which quits the program with exit code 1.
Crash == End("crash") /\ Rest

\* checkoutDistribution fails: switchDistribution warns that the branch is
\* not available, nothing is toggled, and the exit code is 0.
Unavailable == End("unavailable") /\ Rest

\* The parts a step of the program leaves alone in any case.
Frame == UNCHANGED <<remote, floor, quiet>>

-----------------------------------------------------------------------------
(* git nim: refresh *)

Refresh ==
  /\ step = "idle"
  /\ step' = "fetch all"
  /\ result' = "none"
  /\ cmd' = "refresh"
  /\ want' = Main
  /\ current' = Detached
  /\ floor' = remote
  /\ quiet' = online
  /\ Rest
  /\ UNCHANGED <<remote, synced>>

\* `git fetch --all` in the compiler's repository.  When it brings releases,
\* git may fetch in dist/ too.
FetchAll ==
  /\ step = "fetch all"
  /\ \/ /\ online
        /\ nimKnown' = NimRefs
        /\ \/ ToggleRests /\ UNCHANGED tracking
           \/ nimKnown # NimRefs /\ distDir = "repo" /\ FetchBranches(Branches)
        /\ Goto("setup")
        /\ UNCHANGED <<nimHead, distDir, head, at, local>>
     \/ ~online /\ Crash
  /\ Frame
  /\ UNCHANGED <<cmd, want, synced>>

\* setupDistribution.  Without a directory it is made and `submodule add`
\* fails, since the index has dist; without a repository there it is cloned;
\* without a .gitmodules file the pinned commit is checked out.
SetupDistribution ==
  /\ step = "setup"
  /\ \/ /\ distDir = "absent"
        /\ distDir' = "bare"
        /\ End("crash")
        /\ UNCHANGED <<toggle, repo>>
     \/ /\ distDir = "bare"
        /\ online
        /\ distDir' = "repo"
        /\ tracking' = remote
        /\ local' = [local EXCEPT ![Main] = remote[Main]]
        /\ head' = Detached
        /\ at' = Pinned[nimHead]
        /\ TreeFollows
        /\ Goto("branch")
     \/ /\ distDir = "bare"
        /\ ~online
        /\ End("crash")
        /\ UNCHANGED <<toggle, distDir, repo>>
     \/ /\ distDir = "repo"
        /\ Listed(gitlink) = {}
        /\ at # Pinned[nimHead]
        /\ head' = Detached
        /\ at' = Pinned[nimHead]
        /\ TreeFollows
        /\ Goto("branch")
        /\ UNCHANGED <<distDir, local, tracking>>
     \/ /\ distDir = "repo"
        /\ Listed(gitlink) # {} \/ at = Pinned[nimHead]
        /\ Goto("branch")
        /\ UNCHANGED <<toggle, distDir, repo>>
  /\ Frame
  /\ UNCHANGED <<compiler, cmd, want, synced>>

\* Fault: the current branch is not asked for.
FindCompilersBranch ==
  /\ step = "branch"
  /\ want' = VersionOf[nimHead]
  /\ Goto("refetch")
  /\ Rest
  /\ Frame
  /\ UNCHANGED <<cmd, synced>>

\* The branch to refresh: the current one, but the compiler's for main.
FindBranch ==
  /\ step = "branch"
  /\ want' = IF CurrentBranch = Main THEN VersionOf[nimHead] ELSE CurrentBranch
  /\ Goto("refetch")
  /\ Rest
  /\ Frame
  /\ UNCHANGED <<cmd, synced>>

\* Fault: refresh leaves the fetch to checkoutDistribution.
SkipRefetch ==
  /\ step = "refetch"
  /\ Goto("checkout")
  /\ Rest
  /\ Frame
  /\ UNCHANGED <<cmd, want, synced>>

\* refresh's own `git fetch origin`, whose failure is ignored.
Refetch ==
  /\ step = "refetch"
  /\ IF CanFetch(want)
     THEN FetchBranches({want}) /\ UNCHANGED <<head, at, local>>
     ELSE UNCHANGED <<toggle, repo>>
  /\ Goto("checkout")
  /\ Frame
  /\ UNCHANGED <<compiler, distDir, cmd, want, synced>>

-----------------------------------------------------------------------------
(* git nim r: switch *)

\* The compiler's `git checkout r` leaves an empty dist/ where it was missing
\* if the pinned commit changes.  Without a repository in dist/ that is all;
\* if r is not known locally nothing happens.
Switch(r) ==
  /\ step = "idle"
  /\ cmd' = "switch"
  /\ \/ /\ r \in nimKnown
        /\ nimHead' = r
        /\ distDir' = IF distDir = "absent" /\ Pinned[r] # Pinned[nimHead]
                      THEN "bare" ELSE distDir
        /\ want' = VersionOf[r]
        /\ IF distDir = "repo" THEN step' = "checkout" /\ result' = "none"
                               ELSE End("no distribution")
     \/ /\ r \notin nimKnown
        /\ End("unknown")
        /\ UNCHANGED <<nimHead, distDir, want>>
  /\ current' = Detached
  /\ floor' = remote
  /\ quiet' = online
  /\ UNCHANGED <<toggle, repo, nimKnown, remote, synced>>

-----------------------------------------------------------------------------
(* checkoutDistribution and switchDistribution *)

\* Fault: `not result.ok` alone decides whether to fetch.
CheckoutFetchesIfAbsent ==
  /\ step = "checkout"
  /\ current' = CurrentBranch
  /\ \/ CanCheckout(want) /\ CheckoutBranch(want) /\ step' = "toggle"
     \/ ~CanCheckout(want) /\ UNCHANGED <<toggle, repo>> /\ step' = "fetch"
  /\ Frame
  /\ UNCHANGED <<compiler, distDir, cmd, want, result, synced>>

\* Fault: the network is always asked.
CheckoutAlwaysFetches ==
  /\ step = "checkout"
  /\ current' = CurrentBranch
  /\ step' = "fetch"
  /\ \/ CanCheckout(want) /\ CheckoutBranch(want)
     \/ ~CanCheckout(want) /\ UNCHANGED <<toggle, repo>>
  /\ Frame
  /\ UNCHANGED <<compiler, distDir, cmd, want, result, synced>>

\* The first `git checkout`: enough for a switch if the branch exists.
CheckoutDistribution ==
  /\ step = "checkout"
  /\ current' = CurrentBranch
  /\ \/ /\ CanCheckout(want)
        /\ CheckoutBranch(want)
        /\ step' = IF cmd = "refresh" THEN "fetch" ELSE "toggle"
     \/ /\ ~CanCheckout(want)
        /\ step' = "fetch"
        /\ UNCHANGED <<toggle, repo>>
  /\ Frame
  /\ UNCHANGED <<compiler, distDir, cmd, want, result, synced>>

\* `git fetch --prune origin` and dumpLog, whose `git log` fails if the name
\* of the current branch is the one of a detached HEAD.
FetchDistribution ==
  /\ step = "fetch"
  /\ \/ /\ CanFetch(want)
        /\ FetchBranches({want})
        /\ IF current = Detached THEN End("crash") ELSE Goto("pull")
        /\ UNCHANGED <<compiler, distDir, head, at, local>>
     \/ ~CanFetch(want) /\ Unavailable
  /\ Frame
  /\ UNCHANGED <<cmd, want, synced>>

\* `git pull` fetches every branch ...
PullFetches ==
  /\ step = "pull"
  /\ \/ /\ online
        /\ FetchBranches(Branches)
        /\ Goto("rebase")
        /\ UNCHANGED <<compiler, distDir, head, at, local>>
     \/ ~online /\ Unavailable
  /\ Frame
  /\ UNCHANGED <<cmd, want, synced>>

\* ... and brings the branch that is checked out up to date, if there is one.
PullRebases ==
  /\ step = "rebase"
  /\ \/ /\ head # Detached
        /\ local' = [local EXCEPT ![head] = tracking[head]]
        /\ at' = Tip(local', head)
        /\ TreeFollows
        /\ Goto("checkout again")
        /\ UNCHANGED <<compiler, distDir, head, tracking>>
     \/ head = Detached /\ Unavailable
  /\ Frame
  /\ UNCHANGED <<cmd, want, synced>>

\* Fault: the second checkout is missing.
NoCheckoutAgain ==
  /\ step = "checkout again"
  /\ Goto("toggle")
  /\ Rest
  /\ Frame
  /\ UNCHANGED <<cmd, want, synced>>

\* Fault: the branch is tried again from the start.
StartAgain ==
  /\ step = "checkout again"
  /\ CheckoutBranch(want)
  /\ Goto("checkout")
  /\ Frame
  /\ UNCHANGED <<compiler, distDir, cmd, want, synced>>

\* The second `git checkout` cannot fail: the branch has been fetched.
CheckoutAgain ==
  /\ step = "checkout again"
  /\ CheckoutBranch(want)
  /\ Goto("toggle")
  /\ Frame
  /\ UNCHANGED <<compiler, distDir, cmd, want, synced>>

-----------------------------------------------------------------------------
(* toggleModules *)

BeginToggle ==
  /\ step = "toggle"
  /\ T!Begin(cmd = "refresh")
  /\ Goto("toggling")
  /\ Frame
  /\ UNCHANGED <<compiler, distDir, repo, cmd, want, synced>>

Toggling ==
  /\ step = "toggling"
  /\ T!ToggleModules
  /\ \/ /\ run' = "running"
        /\ Goto("toggling")
        /\ UNCHANGED synced
     \/ /\ run' = "ok"
        /\ End("synced")
        /\ synced' = synced \cup {at}
     \/ /\ run' = "failed"
        /\ End("crash")
        /\ UNCHANGED synced
  /\ Frame
  /\ UNCHANGED <<compiler, distDir, repo, cmd, want>>

-----------------------------------------------------------------------------
(* The environment. *)

\* The program is killed.
Kill ==
  /\ step # "idle"
  /\ IF step = "toggling" THEN T!Kill \/ T!KillInUpdate \/ T!KillInStash
                          ELSE ToggleRests
  /\ End("killed")
  /\ Frame
  /\ UNCHANGED <<compiler, distDir, repo, cmd, want, synced>>

\* Somebody pushes the next commit of a branch.
Push(b) ==
  /\ remote[b] < Len(History[b])
  /\ remote' = [remote EXCEPT ![b] = @ + 1]
  /\ Rest
  /\ UNCHANGED <<program, step, result, quiet, synced>>

Flip ==
  /\ T!Flip
  /\ quiet' = FALSE
  /\ UNCHANGED <<compiler, distDir, repo, program, remote, step, result, synced>>

\* The user checks out a branch of the distribution.
UserCheckout(b) ==
  /\ step = "idle"
  /\ distDir = "repo"
  /\ CanCheckout(b)
  /\ CheckoutBranch(b)
  /\ result' = "none"
  /\ UNCHANGED <<compiler, distDir, program, remote, step, quiet, synced>>

\* The user removes the empty dist/.
UserRemoves ==
  /\ step = "idle"
  /\ distDir = "bare"
  /\ distDir' = "absent"
  /\ result' = "none"
  /\ UNCHANGED <<toggle, compiler, repo, program, remote, step, quiet, synced>>

Program ==
  \/ FetchAll \/ SetupDistribution \/ FindBranch \/ Refetch
  \/ CheckoutDistribution \/ FetchDistribution \/ PullFetches \/ PullRebases
  \/ CheckoutAgain \/ BeginToggle \/ Toggling

Next ==
  \/ Refresh
  \/ \E r \in NimRefs : Switch(r)
  \/ Program
  \/ Kill
  \/ \E b \in Branches : Push(b) \/ UserCheckout(b)
  \/ Flip
  \/ UserRemoves

Spec == Init /\ [][Next]_vars

\* A run that is not killed keeps taking steps: each git command returns.
Fairness == WF_vars(Program)

FairSpec == Spec /\ Fairness

-----------------------------------------------------------------------------
TypeOK ==
  /\ T!TypeOK
  /\ nimHead \in NimRefs
  /\ nimKnown \in SUBSET NimRefs
  /\ distDir \in {"absent", "bare", "repo"}
  /\ head \in Branches \cup {Detached}
  /\ at \in Commits
  /\ local \in Refs /\ tracking \in Refs /\ remote \in Refs /\ floor \in Refs
  /\ step \in {"idle", "fetch all", "setup", "branch", "refetch", "checkout",
               "fetch", "pull", "rebase", "checkout again", "toggle", "toggling"}
  /\ cmd \in {"refresh", "switch"}
  /\ want \in Branches \cup {Detached}
  /\ current \in Branches \cup {Detached}
  /\ result \in {"none", "synced", "unavailable", "unknown", "no distribution",
                 "crash", "killed"}
  /\ quiet \in BOOLEAN
  /\ synced \in SUBSET Commits

\* The compiler and the distribution agree where a run has ended well: dist/
\* is on the branch the run was for, which after a switch is the one of the
\* compiler's version (gitnim.nim:448-462), and exactly the modules of that
\* branch's commit are exposed.
SyncedAgrees ==
  result = "synced" =>
    /\ head = want
    /\ cmd = "switch" => head = VersionOf[nimHead]
    /\ at = Tip(local, head)
    /\ T!Abs!Matches(Listing[at], tree)

\* After a refresh that has ended well the branch is at least as new as the
\* remote's was when the run started (gitnim.nim:464-484), whichever of its
\* fetches and pulls a push or an outage fell between.
RefreshIsFresh ==
  result = "synced" /\ cmd = "refresh" => local[head] >= floor[head]

\* A release that was in use before can be switched to with or without the
\* network (README.md:122-125): once a run has ended well at a commit, no
\* later switch that finds the branch at that commit fails.
SwitchBackWorks ==
  cmd = "switch" /\ result \in {"unavailable", "crash"} =>
    ~(local[want] > 0 /\ Tip(local, want) \in synced)

\* One undisturbed refresh repairs what killed and failed runs, and the user,
\* left behind (gitnim.nim:464-484), unless dist/ is bare, or its HEAD is
\* detached away from every branch, or its branch is not on the remote.
RefreshHeals ==
  /\ cmd = "refresh"
  /\ quiet
  /\ result \in {"unavailable", "crash"}
  => \/ distDir = "bare"
     \/ want = Detached
     \/ floor[want] = 0

\* A refresh does not move the distribution from a release's branch to another
\* one: it refreshes the branch currentBranch finds, "the current branch"
\* (gitnim.nim:338).
RefreshKeepsBranch ==
  [][cmd = "refresh" /\ step # "idle" /\ head \notin {Main, Detached}
       => head' \in {head, Detached}]_vars

\* Every run ends, whatever the network does.
Termination == step # "idle" ~> step = "idle"

\* "switch compiler and distribution branches; returns true on success"
\* (gitnim.nim:449): switch returns true if it gets past the checkout of the
\* compiler and does not quit, so then the distribution has been switched.
SwitchSucceeds ==
  cmd = "switch" /\ result \in {"synced", "unavailable", "no distribution"}
    => result = "synced"

\* "The current distribution will be updated from the network, if necessary."
\* (README.md:113): with the network up, a refresh that does not quit updates
\* the distribution, if the remote has the compiler's branch.
RefreshUpdates ==
  cmd = "refresh" /\ quiet /\ result = "unavailable"
    => floor[VersionOf[nimHead]] = 0
=============================================================================
