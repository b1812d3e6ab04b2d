---------------------------- MODULE GitnimProofs ----------------------------
(***************************************************************************)
(* Theorems about the command, for every distribution and every set of     *)
(* releases.  The part of the state that belongs to toggleModules behaves  *)
(* as Toggle specifies, so what ToggleProofs shows holds of the command.   *)
(***************************************************************************)
EXTENDS Gitnim, TLAPS

TP == INSTANCE ToggleProofs

\* The two instances of Toggle, the model's and the one the proofs extend, are
\* the same specification.
LEMMA SameAssumption == TP!DistTreeAssumption
  BY DistTreeAssumption DEF TP!Gitlinks, Gitlinks, IsFiniteSet, TP!IsFiniteSet

LEMMA SameInit == T!Init => TP!Init
  BY DEF T!Init, TP!Init, T!Cloned, TP!Cloned

LEMMA SameNext == [T!Next]_(T!vars) => [TP!Next]_(TP!vars)
<1>1. \A S : T!Ascending(S) = TP!Ascending(S)
  BY DEF T!Ascending, TP!Ascending, T!Range, TP!Range, T!Cardinality, TP!Cardinality
<1>2. T!ParseModules = TP!ParseModules
  BY <1>1 DEF T!ParseModules, TP!ParseModules, T!StatusOf, TP!StatusOf, T!Wanted,
              TP!Wanted, T!Listed, TP!Listed
<1>3. T!Recover = TP!Recover
  BY DEF T!Recover, TP!Recover, T!FetchFromAttic, TP!FetchFromAttic
<1>4. T!Expose = TP!Expose
  BY <1>1, <1>2 DEF T!Expose, TP!Expose, T!Dirs, TP!Dirs, T!env, TP!env
<1>5. T!Update = TP!Update
  BY DEF T!Update, TP!Update, T!CanUpdate, TP!CanUpdate, T!MayQuery,
         TP!MayQuery, T!UpdateFetch, TP!UpdateFetch
<1>6. T!UpdateFails = TP!UpdateFails
  BY DEF T!UpdateFails, TP!UpdateFails, T!CanUpdate, TP!CanUpdate, T!MayQuery,
         TP!MayQuery, T!UpdateFetch, TP!UpdateFetch, T!EndRun, TP!EndRun,
         T!env, TP!env
<1>7. T!AtSmaller = TP!AtSmaller /\ T!AtRest = TP!AtRest
  BY DEF T!AtSmaller, TP!AtSmaller, T!AtRest, TP!AtRest
<1>8. \A n : T!StashInAttic(n) = TP!StashInAttic(n)
  BY DEF T!StashInAttic, TP!StashInAttic, T!RemoveFromAttic,
         TP!RemoveFromAttic, T!MoveToAttic, TP!MoveToAttic
<1>9. T!HideSmaller = TP!HideSmaller
  BY <1>7, <1>8 DEF T!HideSmaller, TP!HideSmaller
<1>10. T!NextModule = TP!NextModule
  BY DEF T!NextModule, TP!NextModule, T!env, TP!env
<1>11. T!HideRest = TP!HideRest
  BY <1>7, <1>8 DEF T!HideRest, TP!HideRest
<1>12. T!Finish = TP!Finish
  BY DEF T!Finish, TP!Finish, T!EndRun, TP!EndRun, T!env, TP!env
<1>13. \A f : T!Begin(f) = TP!Begin(f)
  BY <1>2 DEF T!Begin, TP!Begin, T!env, TP!env
<1>14. T!Kill = TP!Kill
  BY DEF T!Kill, TP!Kill, T!EndRun, TP!EndRun, T!env, TP!env
<1>15. T!KillInUpdate = TP!KillInUpdate
  BY DEF T!KillInUpdate, TP!KillInUpdate, T!EndRun, TP!EndRun
<1>16. T!KillInStash = TP!KillInStash
  BY <1>7 DEF T!KillInStash, TP!KillInStash, T!Stashing, TP!Stashing, T!EndRun,
              TP!EndRun
<1>17. T!Checkout = TP!Checkout
  BY DEF T!Checkout, TP!Checkout, T!CheckedOut, TP!CheckedOut
<1>18. T!Flip = TP!Flip
  BY DEF T!Flip, TP!Flip, T!locals, TP!locals
<1>19. \A G : T!FetchModules(G) = TP!FetchModules(G)
  BY DEF T!FetchModules, TP!FetchModules, T!locals, TP!locals
<1>20. \A n : T!Remove(n) = TP!Remove(n)
  BY DEF T!Remove, TP!Remove
<1> QED
  BY <1>3, <1>4, <1>5, <1>6, <1>7, <1>8, <1>9, <1>10, <1>11, <1>12,
     <1>13, <1>14, <1>15, <1>16, <1>17, <1>18, <1>19, <1>20
     DEF T!Next, TP!Next, T!ToggleModules, TP!ToggleModules, T!vars,
         TP!vars
-----------------------------------------------------------------------------
(* The inductive invariant, in named parts. *)

\* Each ref is behind the one it comes from, and behind the history.
RefsOrdered ==
  /\ local \in Refs /\ tracking \in Refs /\ remote \in Refs /\ floor \in Refs
  /\ \A b \in Branches : /\ local[b] <= tracking[b]
                         /\ tracking[b] <= remote[b]
                         /\ floor[b] <= remote[b]
                         /\ remote[b] <= Len(History[b])

CompilerTypes == nimHead \in NimRefs /\ nimKnown \in SUBSET NimRefs

\* What is checked out in dist/, by branch, commit and listing.
HeadMatches ==
  /\ head \in Branches \cup {Detached}
  /\ at \in Commits
  /\ distDir # "repo" => \A b \in Branches : local[b] = 0
  /\ distDir = "repo" => gitlink = Listing[at]
  /\ head \in Branches /\ distDir = "repo" =>
       local[head] > 0 /\ at = Tip(local, head)

\* Where a run can be.
RunAt ==
  /\ step # "idle" => result = "none"
  /\ step \notin {"idle", "fetch all", "setup"} => distDir = "repo"
  /\ cmd = "switch" /\ step # "idle" =>
       /\ step \notin {"fetch all", "setup", "branch", "refetch"}
       /\ want = VersionOf[nimHead]
  /\ step \in {"pull", "rebase", "checkout again"} =>
       want \in Branches /\ tracking[want] > 0
  /\ step \in {"toggle", "toggling"} => want \in Branches /\ head = want
  /\ step = "toggling" => run = "running" /\ fetch = (cmd = "refresh")

\* A refresh: the branch is checked out, or does not exist yet; once it is
\* fetched, its remote-tracking branch is new enough.
RefreshAt ==
  cmd = "refresh" =>
    /\ step \in {"fetch", "pull", "rebase"} /\ want \in Branches =>
         head = want \/ local[want] = 0
    /\ step \in {"pull", "rebase", "checkout again"} =>
         tracking[want] >= floor[want]
    /\ step = "checkout again" => local[want] = 0 \/ local[want] >= floor[want]
    /\ step \in {"toggle", "toggling"} => local[want] >= floor[want]

\* A switch asks the network only for a branch that does not exist.
SwitchAt ==
  cmd = "switch" /\ step \in {"fetch", "pull", "rebase"} /\ want \in Branches =>
    local[want] = 0

\* An undisturbed refresh: if it is for a branch the remote has had all along,
\* that branch is fetched and checked out.
HealingAt ==
  /\ quiet => online
  /\ cmd = "refresh" /\ want # Detached =>
       /\ step \in {"refetch", "checkout"} => CurrentBranch # Detached
       /\ step = "fetch" => current # Detached
       /\ quiet /\ step \in {"checkout", "fetch", "pull", "rebase"}
            /\ floor[want] > 0 => tracking[want] > 0
       /\ quiet /\ step \in {"fetch", "pull", "rebase"}
            /\ floor[want] > 0 => head = want
  /\ want \in Branches \cup {Detached}

\* A run that has ended well has left dist/ on the branch it was for, ...
EndedWell ==
  result = "synced" =>
    /\ run = "ok"
    /\ distDir = "repo"
    /\ want \in Branches /\ head = want
    /\ cmd = "switch" => want = VersionOf[nimHead]
    /\ cmd = "refresh" => local[want] >= floor[want]

\* ... and git has every commit listed there.
SyncedKept ==
  \A c \in synced :
    /\ c \in Commits
    /\ \A n \in Wanted(Listing[c]) : Listing[c][n] \in objects[n]

GInv ==
  /\ RefsOrdered
  /\ CompilerTypes
  /\ HeadMatches
  /\ RunAt
  /\ RefreshAt
  /\ SwitchAt
  /\ HealingAt
  /\ EndedWell
  /\ SyncedKept

-----------------------------------------------------------------------------
(* git's steps and the refs. *)

\* A set of branches that is not empty has a last one in refname order.
LEMMA LastBranch ==
  ASSUME NEW B \in SUBSET Branches, B # {}
  PROVE  Max(B) \in B
  BY GitnimAssumption DEF Max

LEMMA CurrentBranchType == CurrentBranch \in Branches \cup {Detached}
<1> DEFINE here == {b \in Branches : local[b] > 0 /\ Tip(local, b) = at}
<1>1. here \in SUBSET Branches
  OBVIOUS
<1>2. here # {} => Max(here) \in Branches
  BY <1>1, LastBranch
<1> QED
  BY <1>2 DEF CurrentBranch

\* A ref that is not ahead of the history stands for a commit.
LEMMA TipIsCommit ==
  ASSUME NEW refs \in Refs, NEW b \in Branches,
         0 < refs[b], refs[b] <= Len(History[b])
  PROVE  Tip(refs, b) \in Commits
<1>1. refs[b] \in Nat /\ History[b] \in Seq(Commits)
  BY GitnimAssumption DEF Refs
<1> QED
  BY <1>1 DEF Tip

\* A fetch brings remote-tracking branches forward, not beyond the remote's.
LEMMA FetchRefs ==
  ASSUME RefsOrdered, NEW S, FetchBranches(S)
  PROVE  /\ tracking' \in Refs
         /\ \A b \in Branches : /\ tracking[b] <= tracking'[b]
                                /\ tracking'[b] <= remote[b]
                                /\ b \in S /\ remote[b] > 0 =>
                                     tracking'[b] = remote[b]
                                /\ tracking'[b] # tracking[b] => remote[b] > 0
  BY DEF RefsOrdered, FetchBranches, Refs

\* A checkout makes a local branch of the remote-tracking one if it has to.
LEMMA CheckoutRefs ==
  ASSUME RefsOrdered, NEW b \in Branches, CheckoutBranch(b),
         local[b] > 0 \/ tracking[b] > 0
  PROVE  /\ local' \in Refs
         /\ \A c \in Branches : /\ local[c] <= local'[c]
                                /\ local'[c] <= tracking[c]
                                /\ c # b \/ local[c] > 0 => local'[c] = local[c]
         /\ local'[b] > 0
         /\ local[b] = 0 => local'[b] = tracking[b]
         /\ at' = Tip(local', b)
         /\ at' \in Commits
         /\ UNCHANGED tracking
         /\ head' = b
         /\ gitlink' = Listing[at']
<1>1. /\ local' \in Refs
      /\ \A c \in Branches : /\ local[c] <= local'[c]
                             /\ local'[c] <= tracking[c]
                             /\ c # b \/ local[c] > 0 => local'[c] = local[c]
      /\ local'[b] > 0
      /\ local[b] = 0 => local'[b] = tracking[b]
  BY DEF RefsOrdered, CheckoutBranch, Refs
<1>2. /\ UNCHANGED tracking
      /\ head' = b
      /\ at' = Tip(local', b)
      /\ gitlink' = Listing[at']
  BY DEF CheckoutBranch, TreeFollows
<1>3. local'[b] <= Len(History[b])
  <2>1. /\ local'[b] \in Nat /\ tracking[b] \in Nat /\ remote[b] \in Nat
        /\ Len(History[b]) \in Nat
    BY <1>1, GitnimAssumption DEF RefsOrdered, Refs
  <2> QED
    BY <1>1, <2>1 DEF RefsOrdered
<1>4. Tip(local', b) \in Commits
  BY <1>1, <1>3, TipIsCommit
<1> QED
  BY <1>1, <1>2, <1>4

-----------------------------------------------------------------------------
(* Every step is a step of Toggle, or none. *)

\* The commits a fetch brings have the listings of releases.
LEMMA FetchIsToggle ==
  ASSUME RefsOrdered, NEW S, FetchBranches(S)
  PROVE  T!Next \/ ToggleRests
<1> DEFINE new == {b \in Branches : tracking'[b] # tracking[b]}
           G == {Listing[Tip(remote, b)] : b \in new}
<1>1. CASE T!FetchModules(G)
  <2>1. \A b \in new : Tip(remote, b) \in Commits
    BY FetchRefs, TipIsCommit DEF RefsOrdered
  <2>2. G \in SUBSET Releases
    BY <2>1, GitnimAssumption
  <2> QED
    BY <1>1, <2>2 DEF T!Next
<1>2. CASE ToggleRests
  BY <1>2
<1> QED
  BY <1>1, <1>2 DEF FetchBranches

LEMMA StepIsToggle == RefsOrdered /\ [Next]_vars => [T!Next]_(T!vars)
<1> SUFFICES ASSUME RefsOrdered, [Next]_vars
             PROVE  T!Next \/ ToggleRests
  BY DEF T!vars, ToggleRests, toggle
<1>1. CASE Refresh \/ FindBranch \/ UserRemoves \/ UNCHANGED vars
           \/ (\E r \in NimRefs : Switch(r)) \/ (\E b \in Branches : Push(b))
  BY <1>1 DEF Refresh, FindBranch, UserRemoves, Switch, Push, Rest, ToggleRests,
              vars
<1>2. CASE FetchAll \/ Refetch \/ FetchDistribution \/ PullFetches
  BY <1>2, FetchIsToggle
     DEF FetchAll, Refetch, FetchDistribution, PullFetches, Crash, Unavailable,
         Rest, ToggleRests
<1>3. CASE \/ SetupDistribution \/ CheckoutDistribution \/ PullRebases
           \/ CheckoutAgain \/ \E b \in Branches : UserCheckout(b)
  <2>1. T!Checkout => T!Next
    BY DEF T!Next
  <2> QED
    BY <1>3, <2>1
       DEF SetupDistribution, CheckoutDistribution, PullRebases, CheckoutAgain,
           UserCheckout, CheckoutBranch, TreeFollows, Unavailable, Rest,
           ToggleRests
<1>4. CASE BeginToggle
  <2>1. (cmd = "refresh") \in BOOLEAN
    BY Zenon
  <2> QED
    BY <1>4, <2>1, Zenon DEF BeginToggle, T!Next
<1>5. CASE Toggling \/ Kill \/ Flip
  BY <1>5 DEF Toggling, Kill, Flip, T!Next
<1> QED
  BY <1>1, <1>2, <1>3, <1>4, <1>5 DEF Next, Program
-----------------------------------------------------------------------------
(* The invariant holds in the initial states. *)

LEMMA InitGInv == Init => GInv
<1> SUFFICES ASSUME Init PROVE GInv
  OBVIOUS
<1>1. /\ Published \in Refs
      /\ \A b \in Branches : Len(History[b]) \in Nat /\ Published[b] \in Nat
      /\ Pinned[nimHead] \in Commits
      /\ nimHead \in NimRefs
  BY GitnimAssumption DEF Init, Refs
<1>2. RefsOrdered
  BY <1>1, GitnimAssumption DEF Init, RefsOrdered, Refs
<1>3. HeadMatches
  BY <1>1, GitnimAssumption DEF Init, HeadMatches
<1>4. RunAt /\ RefreshAt /\ SwitchAt /\ EndedWell /\ SyncedKept
  BY DEF Init, RunAt, RefreshAt, SwitchAt, EndedWell, SyncedKept
<1>5. HealingAt
  BY GitnimAssumption DEF Init, HealingAt
<1>6. CompilerTypes
  BY GitnimAssumption DEF Init, CompilerTypes
<1> QED
  BY <1>2, <1>3, <1>4, <1>5, <1>6 DEF GInv

-----------------------------------------------------------------------------
(* The parts of the invariant are preserved, one lemma each. *)

\* What toggleModules and its environment leave alone.
LEMMA ToggleLeaves ==
  /\ T!ToggleModules \/ T!Kill \/ T!KillInUpdate \/ T!KillInStash =>
       UNCHANGED <<gitlink, online>>
  /\ \A f : T!Begin(f) =>
       UNCHANGED <<gitlink, online>> /\ run' = "running" /\ fetch' = f
  /\ T!Checkout => UNCHANGED online
  /\ T!Flip => UNCHANGED <<gitlink, run>>
  /\ \A S : FetchBranches(S) => UNCHANGED <<gitlink, online, run, fetch>>
<1>1. T!ToggleModules => UNCHANGED <<gitlink, online>>
  BY DEF T!ToggleModules, T!Recover, T!Expose, T!Update, T!UpdateFails,
         T!HideSmaller, T!NextModule, T!HideRest, T!Finish, T!env
<1>2. T!Kill \/ T!KillInUpdate \/ T!KillInStash => UNCHANGED <<gitlink, online>>
  BY DEF T!Kill, T!KillInUpdate, T!KillInStash, T!env
<1>3. \A f : T!Begin(f) =>
        UNCHANGED <<gitlink, online>> /\ run' = "running" /\ fetch' = f
  BY DEF T!Begin, T!env
<1>4. T!Checkout => UNCHANGED online
  BY DEF T!Checkout
<1>5. T!Flip => UNCHANGED <<gitlink, run>>
  BY DEF T!Flip, T!locals
<1>6. \A S : FetchBranches(S) => UNCHANGED <<gitlink, online, run, fetch>>
  BY DEF FetchBranches, ToggleRests, toggle, T!FetchModules, T!locals
<1> QED
  BY <1>1, <1>2, <1>3, <1>4, <1>5, <1>6

LEMMA NextRefsOrdered ==
  ASSUME GInv, [Next]_vars
  PROVE  RefsOrdered'
<1>0. /\ RefsOrdered
      /\ \A b \in Branches : /\ Len(History[b]) \in Nat
                             /\ local[b] \in Nat /\ tracking[b] \in Nat
                             /\ remote[b] \in Nat /\ floor[b] \in Nat
  <2>1. RefsOrdered
    BY DEF GInv
  <2>2. \A b \in Branches : Len(History[b]) \in Nat
    BY GitnimAssumption
  <2> QED
    BY <2>1, <2>2 DEF RefsOrdered, Refs
<1>1. CASE UNCHANGED <<local, tracking, remote, floor>>
  BY <1>0, <1>1 DEF RefsOrdered
<1>2. CASE UNCHANGED <<local, tracking, remote>> /\ floor' = remote
  BY <1>0, <1>2 DEF RefsOrdered
<1>3. CASE UNCHANGED <<local, remote, floor>> /\ \E S : FetchBranches(S)
  <2>1. PICK S : FetchBranches(S)
    BY <1>3
  <2>2. /\ tracking' \in Refs
        /\ \A b \in Branches : tracking[b] <= tracking'[b]
                              /\ tracking'[b] <= remote[b]
    BY <1>0, <2>1, FetchRefs
  <2>3. \A b \in Branches : tracking'[b] \in Nat
    BY <2>2 DEF Refs
  <2> QED
    BY <1>0, <1>3, <2>2, <2>3 DEF RefsOrdered
<1>4. CASE /\ UNCHANGED <<remote, floor>>
           /\ \E b \in Branches :
                CheckoutBranch(b) /\ (local[b] > 0 \/ tracking[b] > 0)
  BY <1>0, <1>4, CheckoutRefs DEF RefsOrdered
<1>5. CASE SetupDistribution
  <2>1. CASE tracking' = remote /\ local' = [local EXCEPT ![Main] = remote[Main]]
    <3>1. UNCHANGED <<remote, floor>>
      BY <1>5 DEF SetupDistribution, Frame
    <3>2. local' \in Refs /\ tracking' \in Refs
      BY <1>0, <2>1, GitnimAssumption DEF RefsOrdered, Refs
    <3>3. \A b \in Branches : /\ local'[b] <= remote[b]
                              /\ tracking'[b] = remote[b]
      BY <1>0, <2>1 DEF RefsOrdered, Refs
    <3> QED
      BY <1>0, <3>1, <3>2, <3>3 DEF RefsOrdered
  <2>2. CASE UNCHANGED <<local, tracking>>
    BY <1>0, <1>5, <2>2 DEF SetupDistribution, Frame, RefsOrdered
  <2> QED
    BY <1>5, <2>1, <2>2 DEF SetupDistribution, repo
<1>6. CASE PullRebases
  <2>1. UNCHANGED <<tracking, remote, floor>>
    BY <1>6 DEF PullRebases, Frame, Unavailable, Rest, repo
  <2>2. CASE UNCHANGED local
    BY <1>0, <2>1, <2>2 DEF RefsOrdered
  <2>3. CASE head # Detached /\ local' = [local EXCEPT ![head] = tracking[head]]
    <3>1. head \in Branches
      BY <2>3 DEF GInv, HeadMatches
    <3>2. local' \in Refs
      BY <1>0, <2>3, <3>1 DEF RefsOrdered, Refs
    <3>3. \A b \in Branches : local'[b] <= tracking[b]
      BY <1>0, <2>3, <3>1 DEF RefsOrdered, Refs
    <3> QED
      BY <1>0, <2>1, <3>2, <3>3 DEF RefsOrdered
  <2> QED
    BY <1>6, <2>2, <2>3 DEF PullRebases, Unavailable, Rest, repo
<1>7. CASE \E b \in Branches : Push(b)
  BY <1>0, <1>7 DEF Push, Rest, repo, program, RefsOrdered, Refs
<1>8. CheckoutAgain => want \in Branches /\ tracking[want] > 0
  BY DEF CheckoutAgain, GInv, RunAt
<1> QED
  BY <1>1, <1>2, <1>3, <1>4, <1>5, <1>6, <1>7, <1>8
     DEF Next, Program, Refresh, Switch, FetchAll, FindBranch, Refetch,
         CheckoutDistribution, FetchDistribution, PullFetches, CheckoutAgain,
         BeginToggle, Toggling, Kill, UserCheckout, UserRemoves, Flip, Frame,
         Crash, Unavailable, Rest, repo, program, CanCheckout, vars
LEMMA RefTypes ==
  ASSUME RefsOrdered, NEW b \in Branches
  PROVE  /\ local[b] \in Nat /\ tracking[b] \in Nat
         /\ remote[b] \in Nat /\ floor[b] \in Nat
         /\ Len(History[b]) \in Nat
  BY GitnimAssumption DEF RefsOrdered, Refs

LEMMA NextCompilerTypes ==
  ASSUME GInv, [Next]_vars
  PROVE  CompilerTypes'
<1>0. CompilerTypes
  BY DEF GInv
<1>1. CASE UNCHANGED compiler
  BY <1>0, <1>1 DEF CompilerTypes, compiler
<1>2. CASE FetchAll
  BY <1>0, <1>2 DEF FetchAll, Crash, Rest, compiler, CompilerTypes
<1>3. CASE \E r \in NimRefs : Switch(r)
  BY <1>0, <1>3 DEF Switch, CompilerTypes
<1> QED
  BY <1>1, <1>2, <1>3
     DEF Next, Program, Refresh, SetupDistribution, FindBranch, Refetch,
         CheckoutDistribution, FetchDistribution, PullFetches, PullRebases,
         CheckoutAgain, BeginToggle, Toggling, Kill, Push, UserCheckout,
         UserRemoves, Flip, Crash, Unavailable, Rest, vars

\* The rebase of a pull brings the branch that is checked out forward.
LEMMA RebaseRefs ==
  ASSUME RefsOrdered, HeadMatches, distDir = "repo", PullRebases,
         head # Detached
  PROVE  /\ head \in Branches
         /\ UNCHANGED <<head, tracking, distDir>>
         /\ local' = [local EXCEPT ![head] = tracking[head]]
         /\ local'[head] = tracking[head]
         /\ local'[head] > 0
         /\ at' = Tip(local', head)
         /\ at' \in Commits
         /\ gitlink' = Listing[at']
<1>1. head \in Branches
  BY DEF HeadMatches
<1>2. /\ UNCHANGED <<head, tracking, distDir>>
      /\ local' = [local EXCEPT ![head] = tracking[head]]
      /\ at' = Tip(local', head)
      /\ gitlink' = Listing[at']
  BY DEF PullRebases, TreeFollows
<1>3. local' \in Refs /\ local'[head] = tracking[head]
  BY <1>1, <1>2 DEF RefsOrdered, Refs
<1>4. 0 < local[head] /\ local[head] <= tracking[head]
      /\ tracking[head] <= remote[head] /\ remote[head] <= Len(History[head])
  BY <1>1 DEF HeadMatches, RefsOrdered
<1>5. 0 < tracking[head] /\ tracking[head] <= Len(History[head])
  BY <1>1, <1>4, RefTypes
<1>6. Tip(local', head) \in Commits
  BY <1>1, <1>3, <1>5, TipIsCommit
<1> QED
  BY <1>1, <1>2, <1>3, <1>5, <1>6

LEMMA NextHeadMatches ==
  ASSUME GInv, [Next]_vars
  PROVE  HeadMatches'
<1>0. RefsOrdered /\ HeadMatches /\ RunAt
  BY DEF GInv
<1>1. CASE UNCHANGED <<head, at, local, gitlink, distDir>>
  BY <1>0, <1>1 DEF HeadMatches, Tip
<1>2. CASE /\ distDir = "repo" /\ UNCHANGED distDir
           /\ \E b \in Branches :
                CheckoutBranch(b) /\ (local[b] > 0 \/ tracking[b] > 0)
  BY <1>0, <1>2, CheckoutRefs DEF HeadMatches
<1>3. CASE SetupDistribution
  <2>1. CASE distDir' # "repo"
    BY <1>0, <1>3, <2>1 DEF SetupDistribution, repo, HeadMatches
  <2>2. CASE /\ head' = Detached
             /\ at' = Pinned[nimHead]
             /\ gitlink' = Listing[at']
             /\ distDir' = "repo"
    <3>1. Pinned[nimHead] \in Commits
      BY GitnimAssumption DEF GInv, CompilerTypes
    <3> QED
      BY <2>2, <3>1, GitnimAssumption DEF HeadMatches
  <2> QED
    BY <1>1, <1>3, <2>1, <2>2 DEF SetupDistribution, TreeFollows, repo, toggle
<1>4. CASE PullRebases
  <2>1. CASE head = Detached
    BY <1>1, <1>4, <2>1 DEF PullRebases, Unavailable, Rest, repo, toggle
  <2>2. CASE head # Detached
    <3>1. distDir = "repo"
      BY <1>0, <1>4 DEF PullRebases, RunAt
    <3> QED
      BY <1>0, <1>4, <2>2, <3>1, RebaseRefs DEF HeadMatches
  <2> QED
    BY <2>1, <2>2
<1>5. CASE UserRemoves \/ \E r \in NimRefs : Switch(r)
  <2>1. /\ UNCHANGED <<head, at, local, gitlink>>
        /\ distDir' = "repo" <=> distDir = "repo"
    BY <1>5 DEF UserRemoves, Switch, repo, toggle
  <2> QED
    BY <1>0, <2>1 DEF HeadMatches, Tip
<1>6. CASE UNCHANGED <<head, at, local, distDir>> /\ \E S : FetchBranches(S)
  BY <1>1, <1>6, ToggleLeaves
<1>7. CASE BeginToggle \/ Toggling \/ Kill \/ Flip
  BY <1>1, <1>7, ToggleLeaves
     DEF BeginToggle, Toggling, Kill, Flip, repo, toggle, ToggleRests
<1>8. CASE CheckoutAgain
  BY <1>0, <1>2, <1>8 DEF CheckoutAgain, RunAt
<1>9. CASE CheckoutDistribution \/ \E b \in Branches : UserCheckout(b)
  <2>1. distDir = "repo" /\ UNCHANGED distDir
    BY <1>0, <1>9 DEF CheckoutDistribution, UserCheckout, RunAt
  <2> QED
    BY <1>1, <1>2, <1>9, <2>1
       DEF CheckoutDistribution, UserCheckout, CanCheckout, repo, toggle
<1> QED
  BY <1>1, <1>3, <1>4, <1>5, <1>6, <1>7, <1>8, <1>9
     DEF Next, Program, Refresh, FetchAll, FindBranch, Refetch,
         FetchDistribution, PullFetches, Push, Crash, Unavailable, Rest,
         ToggleRests, repo, toggle, vars
\* A run between two git commands is at a step of its own; only BeginToggle
\* and Toggling lead into toggleModules.
LEMMA NextRunAt ==
  ASSUME GInv, [Next]_vars, TP!RunContract
  PROVE  RunAt'
<1>0. RunAt /\ RefsOrdered /\ CompilerTypes
  BY DEF GInv
<1>1. CASE Refresh \/ \E r \in NimRefs : Switch(r)
  BY <1>0, <1>1, GitnimAssumption
     DEF Refresh, Switch, End, Rest, toggle, RunAt, CompilerTypes
<1>2. CASE FetchAll
  BY <1>0, <1>2 DEF FetchAll, Crash, End, Goto, Rest, RunAt
<1>3. CASE SetupDistribution
  BY <1>0, <1>3 DEF SetupDistribution, End, Goto, RunAt
<1>4. CASE FindBranch \/ Refetch
  BY <1>0, <1>4 DEF FindBranch, Refetch, Goto, Rest, compiler, RunAt
<1>5. CASE CheckoutDistribution
  <2>1. UNCHANGED <<distDir, cmd, want, nimHead, result>>
    BY <1>5 DEF CheckoutDistribution, compiler
  <2>2. CASE CanCheckout(want) /\ CheckoutBranch(want)
    BY <1>0, <1>5, <2>1, <2>2
       DEF CheckoutDistribution, CanCheckout, CheckoutBranch, RunAt
  <2>3. CASE step' = "fetch"
    BY <1>0, <1>5, <2>1, <2>3 DEF CheckoutDistribution, RunAt
  <2> QED
    BY <1>5, <2>2, <2>3 DEF CheckoutDistribution
<1>6. CASE FetchDistribution
  <2>1. UNCHANGED <<distDir, cmd, want, nimHead>>
    BY <1>6 DEF FetchDistribution, Unavailable, Rest, compiler
  <2>2. CASE step' = "idle"
    BY <1>0, <2>1, <2>2 DEF RunAt
  <2>3. CASE CanFetch(want) /\ FetchBranches({want}) /\ Goto("pull")
    <3>1. want \in Branches /\ remote[want] > 0
      BY <2>3 DEF CanFetch
    <3>2. tracking'[want] > 0
      BY <1>0, <2>3, <3>1, FetchRefs
    <3> QED
      BY <1>0, <1>6, <2>1, <2>3, <3>1, <3>2
         DEF FetchDistribution, Goto, RunAt
  <2> QED
    BY <1>6, <2>2, <2>3 DEF FetchDistribution, Unavailable, End
<1>7. CASE PullFetches
  <2>1. UNCHANGED <<distDir, cmd, want, nimHead>>
    BY <1>7 DEF PullFetches, Unavailable, Rest, compiler
  <2>2. CASE step' = "idle"
    BY <1>0, <2>1, <2>2 DEF RunAt
  <2>3. CASE FetchBranches(Branches) /\ Goto("rebase")
    <3>1. want \in Branches /\ tracking[want] > 0
      BY <1>0, <1>7 DEF PullFetches, RunAt
    <3>2. tracking'[want] >= tracking[want] /\ tracking'[want] \in Nat
      BY <1>0, <2>3, <3>1, FetchRefs DEF Refs
    <3>3. tracking'[want] > 0
      BY <1>0, <3>1, <3>2, RefTypes
    <3> QED
      BY <1>0, <1>7, <2>1, <2>3, <3>1, <3>3 DEF PullFetches, Goto, RunAt
  <2> QED
    BY <1>7, <2>2, <2>3 DEF PullFetches, Unavailable, End
<1>8. CASE PullRebases
  BY <1>0, <1>8
     DEF PullRebases, Unavailable, End, Goto, Rest, compiler, repo, RunAt
<1>9. CASE CheckoutAgain
  BY <1>0, <1>9 DEF CheckoutAgain, CheckoutBranch, Goto, compiler, RunAt
<1>10. CASE BeginToggle
  <2>1. run' = "running" /\ fetch' = (cmd = "refresh")
    BY <1>10, ToggleLeaves DEF BeginToggle
  <2> QED
    BY <1>0, <1>10, <2>1 DEF BeginToggle, Goto, compiler, repo, RunAt
<1>11. CASE Toggling
  <2>1. UNCHANGED <<distDir, cmd, want, nimHead, head>>
    BY <1>11 DEF Toggling, compiler, repo
  <2>2. CASE step' = "idle"
    BY <1>0, <2>1, <2>2 DEF RunAt
  <2>3. CASE run' = "running" /\ Goto("toggling")
    <3>1. UNCHANGED fetch
      BY <1>0, <1>11, <2>3 DEF Toggling, RunAt, TP!RunContract
    <3> QED
      BY <1>0, <1>11, <2>1, <2>3, <3>1 DEF Toggling, Goto, RunAt
  <2> QED
    BY <1>11, <2>2, <2>3 DEF Toggling, End
<1>12. CASE Kill
  BY <1>0, <1>12 DEF Kill, End, RunAt
<1>13. CASE Flip
  BY <1>0, <1>13
     DEF Flip, T!Flip, T!locals, compiler, repo, program, RunAt
<1>14. CASE \E b \in Branches : Push(b)
  BY <1>0, <1>14 DEF Push, Rest, toggle, compiler, repo, program, RunAt
<1>15. CASE UserRemoves \/ \E b \in Branches : UserCheckout(b)
  BY <1>0, <1>15 DEF UserRemoves, UserCheckout, program, RunAt
<1>16. CASE UNCHANGED vars
  BY <1>0, <1>16 DEF vars, toggle, compiler, repo, program, RunAt
<1> QED
  BY <1>1, <1>2, <1>3, <1>4, <1>5, <1>6, <1>7, <1>8, <1>9, <1>10, <1>11,
     <1>12, <1>13, <1>14, <1>15, <1>16 DEF Next, Program
LEMMA NextRefreshAt ==
  ASSUME GInv, [Next]_vars
  PROVE  RefreshAt'
<1>0. RefreshAt /\ RunAt /\ RefsOrdered /\ HeadMatches
  BY DEF GInv
<1>1. CASE step' \notin {"fetch", "pull", "rebase", "checkout again", "toggle",
                         "toggling"}
  BY <1>1 DEF RefreshAt
<1>2. CASE UNCHANGED <<step, cmd, want, head, local, tracking, floor>>
  BY <1>0, <1>2 DEF RefreshAt
<1>3. CASE CheckoutDistribution
  <2>1. UNCHANGED <<cmd, want, floor>>
    BY <1>3 DEF CheckoutDistribution, Frame
  <2>2. CASE step' = "fetch"
    <3>1. CASE ~CanCheckout(want) /\ UNCHANGED repo
      <4>1. want \in Branches => local[want] = 0
        BY <1>0, <3>1, RefTypes DEF CanCheckout
      <4> QED
        BY <2>1, <2>2, <3>1, <4>1 DEF RefreshAt, repo
    <3>2. CASE CheckoutBranch(want)
      BY <2>1, <2>2, <3>2 DEF RefreshAt, CheckoutBranch
    <3> QED
      BY <1>3, <3>1, <3>2 DEF CheckoutDistribution
  <2>3. CASE step' = "toggle" /\ cmd # "refresh"
    BY <2>1, <2>3 DEF RefreshAt
  <2> QED
    BY <1>3, <2>2, <2>3 DEF CheckoutDistribution
<1>4. CASE FetchDistribution
  <2>1. UNCHANGED <<cmd, want, floor>>
    BY <1>4 DEF FetchDistribution, Frame
  <2>2. CASE step' = "idle"
    BY <2>2 DEF RefreshAt
  <2>3. CASE /\ CanFetch(want) /\ FetchBranches({want}) /\ step' = "pull"
             /\ UNCHANGED <<head, local>>
    <3>1. want \in Branches /\ remote[want] > 0
      BY <2>3 DEF CanFetch
    <3>2. tracking'[want] = remote[want] /\ remote[want] >= floor[want]
      BY <1>0, <2>3, <3>1, FetchRefs, RefTypes DEF RefsOrdered
    <3>3. tracking'[want] >= floor[want]
      BY <3>1, <3>2
    <3> QED
      BY <1>0, <1>4, <2>1, <2>3, <3>3 DEF FetchDistribution, RefreshAt
  <2> QED
    BY <1>4, <2>2, <2>3 DEF FetchDistribution, Unavailable, End, Goto
<1>5. CASE PullFetches
  <2>1. UNCHANGED <<cmd, want, floor>> /\ want \in Branches
    BY <1>0, <1>5 DEF PullFetches, Frame, RunAt
  <2>2. CASE step' = "idle"
    BY <2>2 DEF RefreshAt
  <2>3. CASE /\ FetchBranches(Branches) /\ step' = "rebase"
             /\ UNCHANGED <<head, local>>
    <3>1. tracking[want] <= tracking'[want] /\ tracking'[want] \in Nat
      BY <1>0, <2>1, <2>3, FetchRefs DEF Refs
    <3>2. cmd = "refresh" => tracking'[want] >= floor[want]
      BY <1>0, <1>5, <2>1, <3>1, RefTypes DEF PullFetches, RefreshAt
    <3> QED
      BY <1>0, <1>5, <2>1, <2>3, <3>2 DEF PullFetches, RefreshAt
  <2> QED
    BY <1>5, <2>2, <2>3 DEF PullFetches, Unavailable, End, Goto
<1>6. CASE PullRebases
  <2>1. UNCHANGED <<cmd, want, floor>> /\ want \in Branches /\ distDir = "repo"
    BY <1>0, <1>6 DEF PullRebases, Frame, RunAt
  <2>2. CASE step' = "idle"
    BY <2>2 DEF RefreshAt
  <2>3. CASE head # Detached /\ step' = "checkout again"
    <3>1. /\ head \in Branches
          /\ UNCHANGED <<head, tracking>>
          /\ local' = [local EXCEPT ![head] = tracking[head]]
          /\ local'[head] = tracking[head]
      BY <1>0, <1>6, <2>1, <2>3, RebaseRefs
    <3>2. CASE head = want
      BY <1>0, <1>6, <2>1, <2>3, <3>1, <3>2 DEF PullRebases, RefreshAt
    <3>3. CASE head # want
      <4>1. local'[want] = local[want]
        BY <1>0, <2>1, <3>1, <3>3 DEF RefsOrdered, Refs
      <4> QED
        BY <1>0, <1>6, <2>1, <2>3, <3>1, <3>3, <4>1 DEF PullRebases, RefreshAt
    <3> QED
      BY <3>2, <3>3
  <2> QED
    BY <1>6, <2>2, <2>3 DEF PullRebases, Unavailable, End, Goto
<1>7. CASE CheckoutAgain
  <2>1. /\ UNCHANGED <<cmd, want, floor>> /\ step' = "toggle"
        /\ want \in Branches /\ tracking[want] > 0
        /\ CheckoutBranch(want)
    BY <1>0, <1>7 DEF CheckoutAgain, Frame, Goto, RunAt
  <2>2. /\ local[want] = 0 => local'[want] = tracking[want]
        /\ local[want] > 0 => local'[want] = local[want]
    BY <1>0, <2>1, CheckoutRefs
  <2>3. cmd = "refresh" => local'[want] >= floor[want]
    <3>1. cmd = "refresh" =>
            /\ tracking[want] >= floor[want]
            /\ local[want] = 0 \/ local[want] >= floor[want]
      BY <1>0, <1>7 DEF CheckoutAgain, RefreshAt
    <3>2. local[want] \in Nat
      BY <1>0, <2>1, RefTypes
    <3> QED
      BY <2>2, <3>1, <3>2
  <2> QED
    BY <2>1, <2>3 DEF RefreshAt
<1>8. CASE BeginToggle \/ Toggling
  BY <1>0, <1>1, <1>8
     DEF BeginToggle, Toggling, Frame, Goto, End, repo, RefreshAt
<1>9. CASE Refresh \/ SetupDistribution \/ FetchAll \/ FindBranch \/ Refetch \/ Kill
  BY <1>1, <1>9
     DEF Refresh, SetupDistribution, FetchAll, FindBranch, Refetch, Kill, Crash,
         End, Goto
<1>10. CASE \E r \in NimRefs : Switch(r)
  BY <1>10 DEF Switch, RefreshAt
<1>11. CASE \/ Flip \/ UserRemoves \/ UNCHANGED vars
            \/ \E b \in Branches : Push(b)
  BY <1>2, <1>11 DEF Flip, UserRemoves, Push, Rest, repo, program, vars
<1>12. CASE \E b \in Branches : UserCheckout(b)
  BY <1>1, <1>12 DEF UserCheckout
<1> QED
  BY <1>3, <1>4, <1>5, <1>6, <1>7, <1>8, <1>9, <1>10, <1>11, <1>12
     DEF Next, Program

LEMMA NextSwitchAt ==
  ASSUME GInv, [Next]_vars
  PROVE  SwitchAt'
<1>0. SwitchAt /\ RunAt /\ RefsOrdered
  BY DEF GInv
<1>1. CASE step' \notin {"fetch", "pull", "rebase"}
  BY <1>1 DEF SwitchAt
<1>2. CASE CheckoutDistribution
  <2>1. CASE CanCheckout(want)
    BY <1>2, <2>1 DEF CheckoutDistribution, SwitchAt
  <2>2. CASE ~CanCheckout(want)
    <3>1. want \in Branches => local[want] = 0
      BY <1>0, <2>2, RefTypes DEF CanCheckout
    <3>2. UNCHANGED <<want, local>>
      BY <1>2, <2>2 DEF CheckoutDistribution, repo
    <3> QED
      BY <3>1, <3>2 DEF SwitchAt
  <2> QED
    BY <2>1, <2>2
<1>3. CASE FetchDistribution \/ PullFetches
  BY <1>0, <1>3
     DEF FetchDistribution, PullFetches, Unavailable, End, Goto, SwitchAt
<1>4. CASE Flip \/ UserRemoves \/ UNCHANGED vars \/ \E b \in Branches : Push(b)
  BY <1>0, <1>4 DEF Flip, UserRemoves, Push, Rest, repo, program, vars, SwitchAt
<1> QED
  BY <1>0, <1>1, <1>2, <1>3, <1>4
     DEF Next, Program, Refresh, Switch, FetchAll, SetupDistribution, FindBranch,
         Refetch, PullRebases, CheckoutAgain, BeginToggle, Toggling, Kill,
         UserCheckout, Crash, Unavailable, End, Goto
\* currentBranch depends on what is checked out and the local branches only.
LEMMA CurrentBranchStays ==
  UNCHANGED <<at, local>> => CurrentBranch' = CurrentBranch
  BY DEF CurrentBranch, Tip

LEMMA NextHealingAt ==
  ASSUME GInv, [Next]_vars
  PROVE  HealingAt'
<1>0. /\ HealingAt /\ RunAt /\ RefsOrdered /\ HeadMatches /\ CompilerTypes
      /\ Detached \notin Branches /\ Main # Detached
      /\ VersionOf[nimHead] \in Branches
  BY GitnimAssumption DEF GInv, CompilerTypes
<1>1. CASE Refresh
  BY <1>0, <1>1, GitnimAssumption DEF Refresh, Rest, toggle, HealingAt
<1>2. CASE \E r \in NimRefs : Switch(r)
  <2>1. want' \in Branches \cup {Detached} /\ cmd' = "switch"
    <3>1. PICK r \in NimRefs : Switch(r)
      BY <1>2
    <3>2. VersionOf[r] \in Branches
      BY GitnimAssumption
    <3> QED
      BY <1>0, <3>1, <3>2 DEF Switch, HealingAt
  <2>2. quiet' = online /\ UNCHANGED online
    BY <1>2 DEF Switch, toggle
  <2> QED
    BY <2>1, <2>2 DEF HealingAt
<1>3. CASE /\ step' \notin {"refetch", "checkout", "fetch", "pull", "rebase"}
           /\ UNCHANGED <<want, quiet, online>>
  BY <1>0, <1>3 DEF HealingAt
<1>4. CASE FetchAll \/ SetupDistribution \/ Kill \/ CheckoutAgain \/ BeginToggle
           \/ Toggling \/ (\E b \in Branches : UserCheckout(b))
  <2>1. UNCHANGED <<want, quiet>>
    BY <1>4
       DEF FetchAll, SetupDistribution, Kill, CheckoutAgain, BeginToggle,
           Toggling, UserCheckout, Frame, program
  <2>2. UNCHANGED online
    BY <1>4, ToggleLeaves
       DEF FetchAll, SetupDistribution, Kill, CheckoutAgain, BeginToggle,
           Toggling, UserCheckout, CheckoutBranch, TreeFollows, ToggleRests,
           toggle, Crash, Rest
  <2>3. step' \notin {"refetch", "checkout", "fetch", "pull", "rebase"}
    BY <1>4
       DEF FetchAll, SetupDistribution, Kill, CheckoutAgain, BeginToggle,
           Toggling, UserCheckout, Crash, End, Goto
  <2> QED
    BY <1>3, <2>1, <2>2, <2>3
<1>5. CASE FindBranch
  <2>1. want' \in Branches \cup {Detached}
    BY <1>0, <1>5, CurrentBranchType DEF FindBranch
  <2>2. want' # Detached => CurrentBranch # Detached
    BY <1>0, <1>5 DEF FindBranch
  <2>3. UNCHANGED <<at, local, quiet, online>> /\ step' = "refetch"
    BY <1>5 DEF FindBranch, Frame, Goto, Rest, repo, toggle
  <2> QED
    BY <1>0, <2>1, <2>2, <2>3, CurrentBranchStays DEF HealingAt
<1>6. CASE Refetch
  <2>1. /\ UNCHANGED <<at, local, want, cmd, quiet, floor, online>>
        /\ step = "refetch" /\ step' = "checkout"
    BY <1>6, ToggleLeaves DEF Refetch, Frame, Goto, repo, toggle
  <2>2. ASSUME quiet, want \in Branches, floor[want] > 0
        PROVE  tracking'[want] > 0
    <3>1. remote[want] > 0
      BY <1>0, <2>2, RefTypes DEF RefsOrdered
    <3>2. CanFetch(want)
      BY <1>0, <2>2, <3>1 DEF CanFetch, HealingAt
    <3> QED
      BY <1>0, <1>6, <2>2, <3>1, <3>2, FetchRefs DEF Refetch
  <2> QED
    BY <1>0, <2>1, <2>2, CurrentBranchStays DEF HealingAt
<1>7. CASE CheckoutDistribution
  <2>1. /\ UNCHANGED <<want, cmd, quiet, floor>>
        /\ step = "checkout" /\ step' \in {"fetch", "toggle"}
        /\ current' = CurrentBranch
    BY <1>7 DEF CheckoutDistribution, Frame
  <2>2. UNCHANGED <<online, tracking>>
    BY <1>7, ToggleLeaves
       DEF CheckoutDistribution, CheckoutBranch, TreeFollows, toggle, repo
  <2>3. ASSUME cmd = "refresh", quiet, want \in Branches, floor[want] > 0
        PROVE  head' = want
    <3>1. tracking[want] > 0
      BY <1>0, <2>1, <2>3 DEF HealingAt
    <3> QED
      BY <1>7, <2>3, <3>1 DEF CheckoutDistribution, CanCheckout, CheckoutBranch
  <2> QED
    BY <1>0, <2>1, <2>2, <2>3 DEF HealingAt
<1>8. CASE FetchDistribution \/ PullFetches
  <2>1. /\ UNCHANGED <<want, cmd, quiet, floor, online, head>>
    BY <1>8, ToggleLeaves
       DEF FetchDistribution, PullFetches, Frame, Unavailable, Rest, repo, toggle
  <2>2. \/ step = "fetch" /\ step' \in {"pull", "idle"}
        \/ step = "pull" /\ step' \in {"rebase", "idle"}
    BY <1>8 DEF FetchDistribution, PullFetches, Unavailable, End, Goto
  <2>3. ASSUME want \in Branches, tracking[want] > 0
        PROVE  tracking'[want] > 0
    <3>1. CASE UNCHANGED tracking
      BY <2>3, <3>1
    <3>2. CASE \E S : FetchBranches(S)
      <4>1. tracking'[want] >= tracking[want] /\ tracking'[want] \in Nat
        BY <1>0, <2>3, <3>2, FetchRefs DEF Refs
      <4> QED
        BY <1>0, <2>3, <4>1, RefTypes
    <3> QED
      BY <1>8, <3>1, <3>2
         DEF FetchDistribution, PullFetches, Unavailable, Rest, repo
  <2> QED
    BY <1>0, <2>1, <2>2, <2>3 DEF HealingAt
<1>9. CASE PullRebases
  <2>1. UNCHANGED <<want, quiet, online>>
    BY <1>9, ToggleLeaves
       DEF PullRebases, Frame, TreeFollows, Unavailable, Rest, toggle
  <2> QED
    BY <1>3, <1>9, <2>1 DEF PullRebases, Unavailable, End, Goto
<1>10. CASE Flip
  BY <1>0, <1>10, CurrentBranchStays DEF Flip, repo, program, HealingAt
<1>11. CASE UserRemoves \/ UNCHANGED vars \/ \E b \in Branches : Push(b)
  BY <1>0, <1>11, CurrentBranchStays
     DEF UserRemoves, Push, Rest, repo, program, toggle, vars, HealingAt
<1> QED
  BY <1>1, <1>2, <1>4, <1>5, <1>6, <1>7, <1>8, <1>9, <1>10, <1>11
     DEF Next, Program
LEMMA NextEndedWell ==
  ASSUME GInv, [Next]_vars
  PROVE  EndedWell'
<1>0. EndedWell /\ RunAt /\ RefreshAt
  BY DEF GInv
<1>1. CASE result' # "synced"
  BY <1>1 DEF EndedWell
<1>2. CASE Toggling /\ result' = "synced"
  <2>1. /\ run' = "ok"
        /\ UNCHANGED <<distDir, cmd, want, head, local, floor, nimHead>>
    BY <1>0, <1>2
       DEF Toggling, Frame, Goto, End, repo, compiler, RunAt
  <2>2. step = "toggling"
    BY <1>2 DEF Toggling
  <2> QED
    BY <1>0, <2>1, <2>2 DEF EndedWell, RunAt, RefreshAt
<1>3. CASE Flip \/ UNCHANGED vars \/ \E b \in Branches : Push(b)
  BY <1>0, <1>3, ToggleLeaves
     DEF Flip, Push, Rest, repo, compiler, program, toggle, vars, EndedWell
<1>4. result' = "synced" => Toggling \/ Flip \/ UNCHANGED vars
                            \/ \E b \in Branches : Push(b)
  BY <1>0
     DEF Next, Program, Refresh, Switch, FetchAll, SetupDistribution, FindBranch,
         Refetch, CheckoutDistribution, FetchDistribution, PullFetches,
         PullRebases, CheckoutAgain, BeginToggle, Kill, UserCheckout,
         UserRemoves, Crash, Unavailable, End, Goto, RunAt
<1> QED
  BY <1>1, <1>2, <1>3, <1>4

LEMMA NextSyncedKept ==
  ASSUME GInv, [Next]_vars, TP!RunContract
  PROVE  SyncedKept'
<1>0. SyncedKept /\ RunAt /\ HeadMatches
  BY DEF GInv
<1>1. \A n \in Names : objects[n] \subseteq objects'[n]
  BY DEF TP!RunContract
<1>2. \A c \in synced : \A n \in Wanted(Listing[c]) :
        n \in Names /\ Listing[c][n] \in objects'[n]
  BY <1>0, <1>1 DEF SyncedKept, Wanted, Listed
<1>3. CASE UNCHANGED synced
  BY <1>0, <1>2, <1>3 DEF SyncedKept
<1>4. CASE Toggling /\ run' = "ok" /\ synced' = synced \cup {at}
  <2>1. run = "running" /\ gitlink = Listing[at] /\ at \in Commits
    BY <1>0, <1>4 DEF Toggling, RunAt, HeadMatches
  <2>2. \A n \in Wanted(gitlink) : n \in Names /\ gitlink[n] \in objects'[n]
    BY <1>1, <1>4, <2>1
       DEF TP!RunContract, TP!Wanted, TP!Listed, Wanted, Listed
  <2> QED
    BY <1>0, <1>2, <1>4, <2>1, <2>2 DEF SyncedKept
<1>5. Toggling => UNCHANGED synced \/ (run' = "ok" /\ synced' = synced \cup {at})
  BY DEF Toggling
<1> QED
  BY <1>3, <1>4, <1>5
     DEF Next, Program, Refresh, Switch, FetchAll, SetupDistribution, FindBranch,
         Refetch, CheckoutDistribution, FetchDistribution, PullFetches,
         PullRebases, CheckoutAgain, BeginToggle, Kill, Push, UserCheckout,
         UserRemoves, Flip, vars

LEMMA NextGInv == GInv /\ TP!RunContract /\ [Next]_vars => GInv'
<1> SUFFICES ASSUME GInv, TP!RunContract, [Next]_vars
             PROVE  GInv'
  OBVIOUS
<1>1. RefsOrdered' /\ CompilerTypes' /\ HeadMatches'
  BY NextRefsOrdered, NextCompilerTypes, NextHeadMatches
<1>2. RunAt' /\ RefreshAt' /\ SwitchAt'
  BY NextRunAt, NextRefreshAt, NextSwitchAt
<1>3. HealingAt' /\ EndedWell' /\ SyncedKept'
  BY NextHealingAt, NextEndedWell, NextSyncedKept
<1> QED
  BY <1>1, <1>2, <1>3 DEF GInv

-----------------------------------------------------------------------------
(* The theorems. *)

\* toggleModules' part of the state, under the command, behaves as Toggle says.
LEMMA SpecGInv == Spec => [](GInv /\ TP!Inv /\ TP!Kept) /\ TP!Spec
<1>1. Init => GInv /\ TP!Init
  BY InitGInv, SameInit DEF Init
<1>2. TP!Init => TP!Inv /\ TP!Kept
  BY TP!InitInv, TP!InitKept, SameAssumption
<1>3. GInv /\ [Next]_vars => [TP!Next]_(TP!vars)
  BY StepIsToggle, SameNext DEF GInv
<1>4. TP!Inv /\ TP!Kept /\ [TP!Next]_(TP!vars) =>
        TP!Inv' /\ TP!Kept' /\ TP!RunContract
  BY TP!NextInv, TP!NextKept, TP!StepContract, SameAssumption
<1>5. GInv /\ TP!Inv /\ TP!Kept /\ [Next]_vars => GInv' /\ TP!Inv' /\ TP!Kept'
  BY <1>3, <1>4, NextGInv
<1> QED
  BY <1>1, <1>2, <1>3, <1>5, PTL DEF Spec, TP!Spec

\* SyncedAgrees: a run of main (gitnim.nim:519-557) that has ended well leaves
\* dist/ on the branch it was for, the compiler's after a switch, and exactly
\* the modules of that branch's commit exposed.
THEOREM SyncedAgreesAlways == Spec => []SyncedAgrees
<1>1. TP!DoneMatches => T!DoneMatches
  BY DEF T!DoneMatches, TP!DoneMatches, T!Abs!Matches, TP!Abs!Matches,
         T!Abs!Dirs, TP!Abs!Dirs, T!Abs!Wanted, TP!Abs!Wanted, T!Abs!Listed,
         TP!Abs!Listed
<1>2. GInv /\ T!DoneMatches => SyncedAgrees
  <2> SUFFICES ASSUME GInv, T!DoneMatches, result = "synced"
               PROVE  /\ head = want
                      /\ cmd = "switch" => head = VersionOf[nimHead]
                      /\ at = Tip(local, head)
                      /\ T!Abs!Matches(Listing[at], tree)
    BY DEF SyncedAgrees
  <2>1. EndedWell /\ HeadMatches
    BY DEF GInv
  <2> QED
    BY <2>1 DEF EndedWell, HeadMatches, T!DoneMatches
<1>3. TP!Spec => []TP!DoneMatches
  BY TP!DoneMatchesAlways, SameAssumption
<1> QED
  BY <1>1, <1>2, <1>3, SpecGInv, PTL

\* RefreshIsFresh: a refresh (gitnim.nim:464-484) that has ended well leaves the
\* branch at least as new as the remote's was when the run started.
THEOREM RefreshIsFreshAlways == Spec => []RefreshIsFresh
<1>1. GInv => RefreshIsFresh
  BY DEF GInv, EndedWell, RefreshIsFresh
<1> QED
  BY <1>1, SpecGInv, PTL
\* A run of toggleModules fails for want of a commit that is not in git's
\* store, which after an earlier good run at the same commit cannot be.
LEMMA NextSwitchBack ==
  ASSUME GInv, SwitchBackWorks, TP!RunContract, [Next]_vars
  PROVE  SwitchBackWorks'
<1>0. SwitchAt /\ RunAt /\ HeadMatches /\ SyncedKept /\ CompilerTypes
  BY DEF GInv
<1>1. CASE cmd' # "switch" \/ result' \notin {"unavailable", "crash"}
  BY <1>1 DEF SwitchBackWorks
<1>2. CASE (Flip \/ UNCHANGED vars \/ \E b \in Branches : Push(b))
  BY <1>2
     DEF Flip, Push, Rest, repo, program, vars, SwitchBackWorks, Tip
<1>3. CASE (FetchDistribution \/ PullFetches \/ PullRebases) /\ cmd' = "switch"
  <2>1. /\ cmd = "switch" /\ step \in {"fetch", "pull", "rebase"}
        /\ UNCHANGED want
    BY <1>3 DEF FetchDistribution, PullFetches, PullRebases
  <2>2. want \in Branches
    <3>1. VersionOf[nimHead] \in Branches
      BY <1>0, GitnimAssumption DEF CompilerTypes
    <3> QED
      BY <1>0, <2>1, <3>1 DEF RunAt
  <2>3. local[want] = 0
    BY <1>0, <2>1, <2>2 DEF SwitchAt
  <2>4. result' \in {"unavailable", "crash"} => UNCHANGED local
    BY <1>0, <1>3
       DEF FetchDistribution, PullFetches, PullRebases, Unavailable, Goto, Rest,
           repo, RunAt
  <2> QED
    BY <2>1, <2>3, <2>4 DEF SwitchBackWorks
<1>4. CASE Toggling /\ run' = "failed"
  <2>1. /\ run = "running" /\ gitlink = Listing[at]
        /\ want \in Branches /\ head = want
        /\ at = Tip(local, want)
        /\ UNCHANGED <<want, local, synced>>
    BY <1>0, <1>4 DEF Toggling, repo, RunAt, HeadMatches
  <2>2. \E n \in Wanted(gitlink) : gitlink[n] \notin objects[n]
    BY <1>4, <2>1 DEF TP!RunContract, TP!Wanted, TP!Listed, Wanted, Listed
  <2>3. at \notin synced
    BY <1>0, <2>1, <2>2 DEF SyncedKept
  <2> QED
    BY <2>1, <2>3 DEF SwitchBackWorks, Tip
<1>5. cmd' = "switch" /\ result' \in {"unavailable", "crash"} =>
        \/ Flip \/ UNCHANGED vars \/ (\E b \in Branches : Push(b))
        \/ FetchDistribution \/ PullFetches \/ PullRebases
        \/ Toggling /\ run' = "failed"
  BY <1>0
     DEF Next, Program, Refresh, Switch, FetchAll, SetupDistribution, FindBranch,
         Refetch, CheckoutDistribution, CheckoutAgain, BeginToggle, Toggling,
         Kill, UserCheckout, UserRemoves, End, Goto, RunAt
<1> QED
  BY <1>1, <1>2, <1>3, <1>4, <1>5

LEMMA Contract ==
  GInv /\ TP!Inv /\ TP!Kept /\ [Next]_vars => TP!RunContract
  BY StepIsToggle, SameNext, TP!StepContract, SameAssumption DEF GInv

\* SwitchBackWorks: a switch (gitnim.nim:448-462) that finds its branch at a
\* commit at which a run has ended well does not fail, network or not.
THEOREM SwitchBackWorksAlways == Spec => []SwitchBackWorks
<1>1. Init => SwitchBackWorks
  BY DEF Init, SwitchBackWorks
<1>2. GInv /\ TP!Inv /\ TP!Kept /\ SwitchBackWorks /\ [Next]_vars
        => SwitchBackWorks'
  BY Contract, NextSwitchBack
<1> QED
  BY <1>1, <1>2, SpecGInv, PTL DEF Spec
\* Where an undisturbed refresh can still fail.
LEMMA NextHeals ==
  ASSUME GInv, RefreshHeals, TP!RunContract, [Next]_vars
  PROVE  RefreshHeals'
<1>0. HealingAt /\ RunAt /\ RefsOrdered /\ HeadMatches
  BY DEF GInv
<1>1. CASE cmd' # "refresh" \/ ~quiet' \/ result' \notin {"unavailable", "crash"}
  BY <1>1 DEF RefreshHeals
<1>2. CASE UNCHANGED vars \/ \E b \in Branches : Push(b)
  BY <1>2 DEF Push, Rest, program, vars, RefreshHeals
<1>3. ASSUME Program, quiet', cmd' = "refresh"
      PROVE  /\ quiet /\ online /\ cmd = "refresh"
             /\ UNCHANGED floor
             /\ want # Detached => want \in Branches
  BY <1>0, <1>3
     DEF Program, FetchAll, SetupDistribution, FindBranch, Refetch,
         CheckoutDistribution, FetchDistribution, PullFetches, PullRebases,
         CheckoutAgain, BeginToggle, Toggling, Frame, HealingAt
<1>4. CASE /\ FetchAll \/ SetupDistribution
           /\ quiet' /\ cmd' = "refresh" /\ result' \in {"unavailable", "crash"}
  <2>1. online /\ step # "idle"
    BY <1>3, <1>4 DEF Program, FetchAll, SetupDistribution
  <2>2. distDir' = "bare"
    BY <1>0, <1>4, <2>1
       DEF FetchAll, SetupDistribution, Goto, Rest, RunAt
  <2> QED
    BY <2>2 DEF RefreshHeals
<1>5. CASE FetchDistribution /\ quiet' /\ cmd' = "refresh"
  <2>1. /\ UNCHANGED <<want, floor>> /\ step = "fetch"
        /\ quiet /\ online /\ cmd = "refresh"
        /\ want # Detached => want \in Branches
    BY <1>3, <1>5 DEF Program, FetchDistribution
  <2>2. CASE ~CanFetch(want)
    <3>1. want # Detached => remote[want] = 0
      BY <1>0, <2>1, <2>2, RefTypes DEF CanFetch
    <3>2. want # Detached => floor[want] = 0
      BY <1>0, <2>1, <3>1, RefTypes DEF RefsOrdered
    <3> QED
      BY <2>1, <3>2 DEF RefreshHeals
  <2>3. CASE current = Detached
    BY <1>0, <2>1, <2>3 DEF HealingAt, RefreshHeals
  <2>4. CASE CanFetch(want) /\ current # Detached
    BY <1>0, <1>5, <2>4 DEF FetchDistribution, Goto, RunAt, RefreshHeals
  <2> QED
    BY <2>2, <2>3, <2>4
<1>6. CASE (PullFetches \/ PullRebases) /\ quiet' /\ cmd' = "refresh"
  <2>1. /\ UNCHANGED <<want, floor>> /\ step \in {"pull", "rebase"}
        /\ quiet /\ online /\ cmd = "refresh" /\ result = "none"
        /\ want \in Branches
    BY <1>0, <1>3, <1>6 DEF Program, PullFetches, PullRebases, RunAt
  <2>2. CASE result' = "none"
    BY <2>2 DEF RefreshHeals
  <2>3. CASE PullRebases /\ head = Detached
    <3>1. ~(floor[want] > 0)
      BY <1>0, <2>1, <2>3, GitnimAssumption DEF PullRebases, HealingAt
    <3> QED
      BY <1>0, <2>1, <3>1, RefTypes DEF RefreshHeals
  <2> QED
    BY <1>6, <2>1, <2>2, <2>3 DEF PullFetches, PullRebases, Goto
<1>7. CASE Toggling /\ quiet' /\ cmd' = "refresh"
  <2>1. online /\ run = "running" /\ fetch /\ result = "none"
    BY <1>0, <1>3, <1>7 DEF Program, Toggling, RunAt
  <2>2. run' # "failed"
    BY <2>1 DEF TP!RunContract
  <2> QED
    BY <1>7, <2>1, <2>2 DEF Toggling, Goto, End, RefreshHeals
<1>8. quiet' /\ cmd' = "refresh" /\ result' \in {"unavailable", "crash"} =>
        \/ UNCHANGED vars \/ (\E b \in Branches : Push(b))
        \/ FetchAll \/ SetupDistribution \/ FetchDistribution \/ PullFetches
        \/ PullRebases \/ Toggling
  BY <1>0
     DEF Next, Program, Refresh, Switch, FindBranch, Refetch,
         CheckoutDistribution, CheckoutAgain, BeginToggle, Kill, UserCheckout,
         UserRemoves, Flip, End, Goto, RunAt
<1> QED
  BY <1>1, <1>2, <1>4, <1>5, <1>6, <1>7, <1>8

\* RefreshHeals: one undisturbed refresh (gitnim.nim:464-484) ends well whatever
\* earlier runs left behind, but for the three cases it names.
THEOREM RefreshHealsAlways == Spec => []RefreshHeals
<1>1. Init => RefreshHeals
  BY DEF Init, RefreshHeals
<1>2. GInv /\ TP!Inv /\ TP!Kept /\ RefreshHeals /\ [Next]_vars => RefreshHeals'
  BY Contract, NextHeals
<1> QED
  BY <1>1, <1>2, SpecGInv, PTL DEF Spec
\* The types the invariant does not need.
ProgramTypes ==
  /\ distDir \in {"absent", "bare", "repo"}
  /\ step \in {"idle", "fetch all", "setup", "branch", "refetch", "checkout",
               "fetch", "pull", "rebase", "checkout again", "toggle", "toggling"}
  /\ cmd \in {"refresh", "switch"}
  /\ current \in Branches \cup {Detached}
  /\ result \in {"none", "synced", "unavailable", "unknown", "no distribution",
                 "crash", "killed"}
  /\ quiet \in BOOLEAN

LEMMA NextProgramTypes ==
  ASSUME ProgramTypes, online \in BOOLEAN, [Next]_vars
  PROVE  ProgramTypes'
<1>1. CASE Refresh \/ \E r \in NimRefs : Switch(r)
  BY <1>1 DEF Refresh, Switch, End, Rest, ProgramTypes
<1>2. CASE FetchAll \/ SetupDistribution \/ FindBranch \/ Refetch
  BY <1>2
     DEF FetchAll, SetupDistribution, FindBranch, Refetch, Crash, End, Goto,
         Rest, Frame, ProgramTypes
<1>3. CASE CheckoutDistribution
  BY <1>3, CurrentBranchType DEF CheckoutDistribution, Frame, ProgramTypes
<1>4. CASE FetchDistribution \/ PullFetches \/ PullRebases \/ CheckoutAgain
  BY <1>4
     DEF FetchDistribution, PullFetches, PullRebases, CheckoutAgain, Unavailable,
         End, Goto, Rest, Frame, ProgramTypes
<1>5. CASE BeginToggle \/ Toggling \/ Kill
  BY <1>5 DEF BeginToggle, Toggling, Kill, End, Goto, Frame, ProgramTypes
<1>6. CASE \/ Flip \/ UserRemoves \/ UNCHANGED vars
           \/ \E b \in Branches : Push(b) \/ UserCheckout(b)
  BY <1>6
     DEF Flip, UserRemoves, Push, UserCheckout, Rest, program, vars, ProgramTypes
<1> QED
  BY <1>1, <1>2, <1>3, <1>4, <1>5, <1>6 DEF Next, Program

\* TypeOK, of the command's variables (gitnim.nim:374-557) and those of
\* toggleModules, holds in every reachable state.
THEOREM CommandTypeCorrect == Spec => []TypeOK
<1>1. Init => ProgramTypes
  BY Zenon DEF Init, ProgramTypes
<1>2. TP!Inv => online \in BOOLEAN
  BY DEF TP!Inv, TP!TypeOK
<1>3. TP!Inv /\ ProgramTypes /\ [Next]_vars => ProgramTypes'
  BY <1>2, NextProgramTypes
<1>4. TP!TypeOK => T!TypeOK
  BY DEF TP!TypeOK, T!TypeOK, TP!Gitlinks, T!Gitlinks, TP!Content, T!Content,
         TP!Module, T!Module, TP!Statuses, T!Statuses
<1>5. GInv /\ TP!Inv /\ ProgramTypes => TypeOK
  <2> SUFFICES ASSUME GInv, TP!Inv, ProgramTypes PROVE TypeOK
    OBVIOUS
  <2>1. T!TypeOK
    BY <1>4 DEF TP!Inv
  <2>2. synced \in SUBSET Commits
    BY DEF GInv, SyncedKept
  <2> QED
    BY <2>1, <2>2, Zenon
       DEF GInv, RefsOrdered, CompilerTypes, HeadMatches, HealingAt,
           ProgramTypes, TypeOK
<1> QED
  BY <1>1, <1>3, <1>5, SpecGInv, PTL DEF Spec
\* Under the command (gitnim.nim:415-557), what happens to dist/ and to
\* toggleModules is what Toggle allows; so every theorem of ToggleProofs, the
\* implementation of Exposure among them, holds of the command.
THEOREM ImplementsToggle == Spec => T!Spec
<1>1. Init => T!Init
  BY DEF Init
<1>2. GInv /\ [Next]_vars => [T!Next]_(T!vars)
  BY StepIsToggle DEF GInv
<1> QED
  BY <1>1, <1>2, SpecGInv, PTL DEF Spec, T!Spec

-----------------------------------------------------------------------------
(***************************************************************************)
(* A refresh stays on its branch where no commit of a release's branch is  *)
(* also one of a branch after it in refname order: then currentBranch      *)
(* finds the branch that is checked out.  Branches that share commits make *)
(* it find the last of them, and the property fails.                       *)
(***************************************************************************)
BranchesApart ==
  \A b \in Branches \ {Main}, c \in Branches :
    c > b => \A m \in 1 .. Len(History[b]), n \in 1 .. Len(History[c]) :
               History[b][m] # History[c][n]

OnRelease == head \in Branches \ {Main}

\* From findBranch on, a refresh wants the release that is checked out.
WantsHead ==
  cmd = "refresh" /\ step \notin {"idle", "fetch all", "setup", "branch"} /\ OnRelease
  => want = head

LEMMA FoundIsHead ==
  ASSUME BranchesApart, RefsOrdered, HeadMatches, distDir = "repo", OnRelease
  PROVE  CurrentBranch = head
<1> DEFINE here == {b \in Branches : local[b] > 0 /\ Tip(local, b) = at}
<1>1. head \in here
  BY DEF HeadMatches, OnRelease
<1>2. here \in SUBSET Branches /\ here # {}
  BY <1>1
<1>3. CurrentBranch = Max(here) /\ Max(here) \in here
  <2>1. CurrentBranch = Max(here)
    BY <1>2 DEF CurrentBranch
  <2> QED
    BY <1>2, <2>1, LastBranch
<1>4. \A b \in here : b \in Branches /\ local[b] \in 1 .. Len(History[b]) /\ History[b][local[b]] = at
  <2> SUFFICES ASSUME NEW b \in here PROVE local[b] \in 1 .. Len(History[b])
    BY DEF Tip
  <2>1. /\ local[b] \in Nat /\ tracking[b] \in Nat /\ remote[b] \in Nat
        /\ Len(History[b]) \in Nat
    BY RefTypes
  <2> QED
    BY <2>1 DEF RefsOrdered
<1>5. \A b \in here : ~(b > head)
  BY <1>1, <1>4 DEF BranchesApart, OnRelease
<1>6. Max(here) >= head
  BY <1>1, <1>2, GitnimAssumption DEF Max
<1>7. Max(here) \in Nat /\ head \in Nat
  BY <1>1, <1>3, GitnimAssumption
<1> QED
  BY <1>3, <1>5, <1>6, <1>7

LEMMA InitWantsHead == Init => WantsHead
  BY DEF Init, WantsHead

LEMMA NextWantsHead ==
  ASSUME BranchesApart, GInv, WantsHead, [Next]_vars
  PROVE  WantsHead'
<1>1. CASE FindBranch
  <2>1. /\ step = "branch" /\ UNCHANGED <<head, cmd>>
        /\ want' = IF CurrentBranch = Main THEN VersionOf[nimHead] ELSE CurrentBranch
    BY <1>1 DEF FindBranch, Rest, repo
  <2>2. ASSUME OnRelease PROVE want' = head
    <3>1. CurrentBranch = head
      BY <2>1, <2>2, FoundIsHead DEF GInv, RunAt
    <3> QED
      BY <2>1, <2>2, <3>1 DEF OnRelease
  <2> QED
    BY <2>1, <2>2 DEF WantsHead, OnRelease
<1>2. CASE CheckoutDistribution \/ CheckoutAgain
  <2>1. /\ UNCHANGED <<cmd, want>> /\ step \in {"checkout", "checkout again"}
        /\ head' = want \/ head' = head
    BY <1>2 DEF CheckoutDistribution, CheckoutAgain, CheckoutBranch, repo
  <2> QED
    BY <2>1 DEF WantsHead, OnRelease
<1>3. CASE SetupDistribution \/ Refresh \/ \E r \in NimRefs : Switch(r)
  BY <1>3 DEF SetupDistribution, Refresh, Switch, End, Goto, WantsHead
<1>4. CASE FetchAll
  BY <1>4 DEF FetchAll, Crash, End, Goto, WantsHead
<1>5. CASE \E b \in Branches : UserCheckout(b)
  BY <1>5 DEF UserCheckout, program, WantsHead
<1>6. CASE \/ Refetch \/ FetchDistribution \/ PullFetches \/ PullRebases
           \/ BeginToggle \/ Toggling
  <2>1. UNCHANGED <<head, want, cmd>>
    BY <1>6 DEF Refetch, FetchDistribution, PullFetches, PullRebases, BeginToggle, Toggling,
                Unavailable, Rest, repo
  <2>2. step \notin {"idle", "fetch all", "setup", "branch"}
    BY <1>6 DEF Refetch, FetchDistribution, PullFetches, PullRebases, BeginToggle, Toggling
  <2> QED
    BY <2>1, <2>2 DEF WantsHead, OnRelease
<1>7. CASE Kill
  BY <1>7 DEF Kill, End, WantsHead
<1>8. CASE Flip \/ UserRemoves \/ UNCHANGED vars \/ \E b \in Branches : Push(b)
  BY <1>8 DEF Flip, UserRemoves, Push, Rest, repo, program, vars, WantsHead, OnRelease
<1> QED
  BY <1>1, <1>2, <1>3, <1>4, <1>5, <1>6, <1>7, <1>8 DEF Next, Program

LEMMA RefreshStays ==
  ASSUME GInv, WantsHead, Next, cmd = "refresh", step # "idle", head \notin {Main, Detached}
  PROVE  head' \in {head, Detached}
<1>1. OnRelease
  BY DEF GInv, HeadMatches, OnRelease
<1>2. CASE CheckoutDistribution \/ CheckoutAgain
  BY <1>1, <1>2 DEF CheckoutDistribution, CheckoutAgain, CheckoutBranch, repo, WantsHead
<1>3. CASE SetupDistribution
  BY <1>3 DEF SetupDistribution, repo
<1>4. CASE \/ FetchAll \/ FindBranch \/ Refetch \/ FetchDistribution \/ PullFetches
           \/ PullRebases \/ BeginToggle \/ Toggling \/ Kill
  BY <1>4 DEF FetchAll, FindBranch, Refetch, FetchDistribution, PullFetches, PullRebases,
              BeginToggle, Toggling, Kill, Crash, Unavailable, Rest, repo
<1>5. CASE Refresh \/ UserRemoves \/ (\E r \in NimRefs : Switch(r))
           \/ \E b \in Branches : UserCheckout(b)
  BY <1>5 DEF Refresh, UserRemoves, Switch, UserCheckout
<1>6. CASE Flip \/ \E b \in Branches : Push(b)
  BY <1>6 DEF Flip, Push, Rest, repo
<1> QED
  BY <1>2, <1>3, <1>4, <1>5, <1>6 DEF Next, Program

(***************************************************************************)
(* Whatever is pushed, killed or checked out between runs, and whether or  *)
(* not the network answers, a refresh leaves dist/ on the release's branch *)
(* it was on, or detached, if its branches are apart (gitnim.nim:338).     *)
(***************************************************************************)
THEOREM RefreshKeepsBranchAlways ==
  ASSUME BranchesApart
  PROVE  Spec => RefreshKeepsBranch
<1>1. GInv /\ WantsHead /\ [Next]_vars => WantsHead'
  BY NextWantsHead
<1>2. GInv /\ WantsHead /\ [Next]_vars
      => [cmd = "refresh" /\ step # "idle" /\ head \notin {Main, Detached}
            => head' \in {head, Detached}]_vars
  BY RefreshStays
<1> QED
  BY <1>1, <1>2, InitWantsHead, SpecGInv, PTL DEF Spec, RefreshKeepsBranch
=============================================================================
