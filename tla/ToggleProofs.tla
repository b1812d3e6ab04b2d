---------------------------- MODULE ToggleProofs ----------------------------
(***************************************************************************)
(* Theorems about toggleModules, for every set of names, every set of      *)
(* commits and every set of branches: the invariants and action properties *)
(* that Toggle states, and that Toggle implements Exposure.                *)
(***************************************************************************)
EXTENDS Toggle, DistTreeProofs

(* The inductive invariant, in named parts. *)

\* The update loop has been reached.
Merging == pc \in {"update", "sweep"}

\* The update loop has brought modules[k] to its commit.
Handled(k) == k < i \/ (pc = "sweep" /\ k = i)

RunMatchesPc == run = "running" <=> pc # "idle"

\* During a run, modules lists the wanted submodules in ascending order.
ListsWanted ==
  pc # "idle" =>
    /\ \A n \in Names :
         n \in Wanted(gitlink) <=> \E k \in DOMAIN modules : modules[k].name = n
    /\ \A j, k \in DOMAIN modules : j < k => modules[j].name < modules[k].name

InLoop == pc = "sweep" => i \in DOMAIN modules

\* The statuses yet to be acted on are what git would say now; before the
\* list is made again they are as long as nothing was recovered.
StatusesCurrent ==
  \A k \in DOMAIN modules :
    \/ pc = "recover" /\ ~dirty
    \/ Merging /\ ~Handled(k)
    => modules[k].status = StatusOf(gitlink, tree, modules[k].name)

HandledMatch ==
  Merging => \A k \in DOMAIN modules :
               Handled(k) => tree[modules[k].name] = gitlink[modules[k].name]

\* exposed is ascending, holds directories, and is ahead of the loop.
ExposedAhead ==
  Merging =>
    /\ \A j, k \in DOMAIN exposed : j < k => exposed[j] < exposed[k]
    /\ \A k \in DOMAIN exposed : tree[exposed[k]] # Absent
    /\ \A k \in DOMAIN modules, j \in DOMAIN exposed :
         k < i => modules[k].name < exposed[j]

\* Every directory is still to be looked at, or a handled module.
Accounted ==
  Merging => \A n \in Dirs(tree) :
               \/ \E j \in DOMAIN exposed : exposed[j] = n
               \/ \E k \in DOMAIN modules : Handled(k) /\ modules[k].name = n

\* An empty directory is a listed submodule's; a Plain one has no populated
\* copy in the attic; a module parseModules cannot see is never populated.
Copies ==
  \A n \in Names :
    /\ tree[n] = Bare => n \in Listed(gitlink)
    /\ tree[n] = Plain => attic[n] \notin Shas
    /\ n \in ShortNames => tree[n] \notin Shas /\ attic[n] \notin Shas

Inv ==
  /\ TypeOK
  /\ RunMatchesPc
  /\ ListsWanted
  /\ InLoop
  /\ StatusesCurrent
  /\ HandledMatch
  /\ ExposedAhead
  /\ Accounted
  /\ Copies

-----------------------------------------------------------------------------
\* What parseModules returns: the wanted names in strictly ascending order,
\* each with the status git gives it now.
LEMMA ParseModulesSeq ==
  ASSUME NEW ms \in ParseModules, gitlink \in Gitlinks
  PROVE  /\ ms \in Seq(Module)
         /\ \A n \in Names :
              n \in Wanted(gitlink) <=> \E k \in DOMAIN ms : ms[k].name = n
         /\ \A j, k \in DOMAIN ms : j < k => ms[j].name < ms[k].name
         /\ \A k \in DOMAIN ms :
              ms[k].status = StatusOf(gitlink, tree, ms[k].name)
<1> DEFINE W == Wanted(gitlink)
<1>1. W \in SUBSET Names
  BY DEF Wanted, Listed
<1>2. PICK s \in Ascending(W) :
        ms = [k \in DOMAIN s |->
                [name |-> s[k], status |-> StatusOf(gitlink, tree, s[k])]]
  BY DEF ParseModules
<1> HIDE DEF W
<1>3. /\ s \in Seq(W)
      /\ DOMAIN s = 1..Len(s)
      /\ \A n \in W : \E k \in DOMAIN s : s[k] = n
      /\ \A k \in DOMAIN s : s[k] \in W
      /\ \A j, k \in DOMAIN s : j < k => s[j] < s[k]
  BY <1>1, AscendingSeq
<1>4. /\ DOMAIN ms = DOMAIN s
      /\ \A k \in DOMAIN s :
           /\ ms[k].name = s[k]
           /\ ms[k].status = StatusOf(gitlink, tree, s[k])
           /\ ms[k] \in Module
  <2>1. \A n \in Names : StatusOf(gitlink, tree, n) \in Statuses
    BY DEF StatusOf, Statuses
  <2> QED
    BY <1>1, <1>2, <1>3, <2>1 DEF Module
<1>5. Len(s) \in Nat
  BY <1>3
<1>6. ms \in Seq(Module)
  BY <1>2, <1>3, <1>4, <1>5
<1>7. \A n \in Names :
        n \in W <=> \E k \in DOMAIN ms : ms[k].name = n
  BY <1>3, <1>4
<1> QED
  BY <1>3, <1>4, <1>6, <1>7 DEF W

-----------------------------------------------------------------------------
(* Type correctness. *)

LEMMA EmptyLists == <<>> \in Seq(Names) /\ <<>> \in Seq(Module)
  OBVIOUS

LEMMA InitTypeOK == Init => TypeOK
<1> SUFFICES ASSUME Init PROVE TypeOK
  OBVIOUS
<1>1. gitlink \in Gitlinks
  BY DistTreeAssumption DEF Init
<1>2. tree \in [Names -> Content]
  BY <1>1 DEF Init, Cloned, Content
<1>3. /\ attic \in [Names -> Content]
      /\ objects \in [Names -> SUBSET Shas]
      /\ queried \in SUBSET Names
      /\ i \in Nat \ {0}
  BY DEF Init, Content
<1>4. online \in BOOLEAN /\ fetch \in BOOLEAN /\ dirty \in BOOLEAN
  BY Zenon DEF Init
<1>5. modules \in Seq(Module) /\ exposed \in Seq(Names)
  BY EmptyLists, Zenon DEF Init
<1> QED
  BY <1>1, <1>2, <1>3, <1>4, <1>5, Zenon DEF Init, TypeOK

\* Whatever else a step does, when the program ends its variables are reset.
LEMMA EndRunTypes ==
  ASSUME TypeOK, NEW how \in {"ok", "failed", "killed"}, EndRun(how)
  PROVE  /\ pc' = "idle"
         /\ run' \in {"ok", "failed", "killed"}
         /\ fetch' \in BOOLEAN
         /\ modules' \in Seq(Module)
         /\ i' \in Nat \ {0}
         /\ dirty' \in BOOLEAN
         /\ exposed' \in Seq(Names)
         /\ queried' \in SUBSET Names
<1>1. i' \in Nat \ {0} /\ queried' \in SUBSET Names
  BY DEF TypeOK, EndRun
<1>2. modules' \in Seq(Module) /\ exposed' \in Seq(Names)
  BY EmptyLists, Zenon DEF EndRun
<1> QED
  BY <1>1, <1>2, Zenon DEF TypeOK, EndRun

\* The module an index of the loop stands for is a module.
LEMMA ModuleTypes ==
  ASSUME TypeOK, NEW k \in DOMAIN modules
  PROVE  modules[k].name \in Names /\ modules[k].status \in Statuses
<1>1. modules[k] \in Module
  BY DEF TypeOK
<1> QED
  BY <1>1 DEF Module

LEMMA LoopIndex ==
  ASSUME TypeOK, i <= Len(modules)
  PROVE  i \in DOMAIN modules
  BY DEF TypeOK

\* The directory a loop hides is the first of exposed.
LEMMA HeadOfExposed ==
  ASSUME TypeOK, exposed # <<>>
  PROVE  /\ Head(exposed) \in Names
         /\ Head(exposed) = exposed[1]
         /\ 1 \in DOMAIN exposed
         /\ Tail(exposed) \in Seq(Names)
         /\ Len(Tail(exposed)) = Len(exposed) - 1
         /\ DOMAIN Tail(exposed) = 1..(Len(exposed) - 1)
         /\ DOMAIN exposed = 1..Len(exposed)
         /\ Len(exposed) \in Nat \ {0}
         /\ \A k \in 1..(Len(exposed) - 1) : Tail(exposed)[k] = exposed[k + 1]
  BY DEF TypeOK

\* A module of the list has a listed commit.
LEMMA WantedCommit ==
  ASSUME TypeOK, ListsWanted, pc # "idle", NEW k \in DOMAIN modules
  PROVE  /\ modules[k].name \in Wanted(gitlink)
         /\ gitlink[modules[k].name] \in Shas
<1>1. modules[k].name \in Wanted(gitlink)
  BY ModuleTypes DEF ListsWanted
<1> QED
  BY <1>1 DEF Wanted, Listed, TypeOK, Gitlinks

\* TypeOK is preserved; that a commit is only ever recorded for a module that
\* is listed takes ListsWanted.
LEMMA NextTypeOK == TypeOK /\ ListsWanted /\ [Next]_vars => TypeOK'
<1> SUFFICES ASSUME TypeOK, ListsWanted, [Next]_vars
             PROVE  TypeOK'
  OBVIOUS
<1>1. CASE Recover
  <2>1. modules[i].name \in Names
    BY <1>1, LoopIndex, ModuleTypes DEF Recover
  <2>2. /\ tree' \in [Names -> Content]
        /\ attic' \in [Names -> Content]
        /\ dirty' \in BOOLEAN
    BY <1>1, <2>1 DEF Recover, FetchFromAttic, TypeOK, Content
  <2> QED
    BY <1>1, <2>2 DEF Recover, TypeOK
<1>2. CASE Expose
  <2>1. modules' \in Seq(Module)
    BY <1>2, ParseModulesSeq DEF Expose, TypeOK
  <2>2. exposed' \in Seq(Names)
    <3>1. Dirs(tree) \in SUBSET Names
      BY DEF Dirs
    <3> QED
      BY <1>2, <3>1, AscendingSeq DEF Expose
  <2> QED
    BY <1>2, <2>1, <2>2 DEF Expose, TypeOK, env
<1>3. CASE Update
  <2>1. i \in DOMAIN modules /\ pc # "idle"
    BY <1>3, LoopIndex DEF Update
  <2>2. modules[i].name \in Names /\ gitlink[modules[i].name] \in Shas
    BY <2>1, ModuleTypes, WantedCommit
  <2>3. /\ tree' \in [Names -> Content]
        /\ objects' \in [Names -> SUBSET Shas]
        /\ queried' \in SUBSET Names
    <3>1. CASE modules[i].status = "UpToDate"
      BY <1>3, <3>1 DEF Update, TypeOK
    <3>2. CASE modules[i].status # "UpToDate"
      <4>1. gitlink[modules[i].name] \in Content
        BY <2>2 DEF Content
      <4>2. tree' \in [Names -> Content] /\ queried' \in SUBSET Names
        BY <1>3, <2>2, <3>2, <4>1 DEF Update, TypeOK
      <4>3. objects' \in [Names -> SUBSET Shas]
        BY <1>3, <2>2, <3>2 DEF Update, TypeOK
      <4> QED
        BY <4>2, <4>3
    <3> QED
      BY <3>1, <3>2
  <2> QED
    BY <1>3, <2>3 DEF Update, TypeOK
<1>4. CASE UpdateFails
  BY <1>4, EndRunTypes DEF UpdateFails, TypeOK, env
<1>5. CASE HideSmaller
  BY <1>5, HeadOfExposed
     DEF HideSmaller, AtSmaller, StashInAttic, RemoveFromAttic, MoveToAttic,
         TypeOK, Content
<1>6. CASE NextModule
  <2>1. exposed' \in Seq(Names)
    BY <1>6, HeadOfExposed DEF NextModule, TypeOK
  <2>2. i' \in Nat \ {0}
    BY <1>6 DEF NextModule, TypeOK
  <2> QED
    BY <1>6, <2>1, <2>2 DEF NextModule, TypeOK, env
<1>7. CASE HideRest
  BY <1>7, HeadOfExposed
     DEF HideRest, AtRest, StashInAttic, RemoveFromAttic, MoveToAttic,
         TypeOK, Content
<1>8. CASE Finish
  BY <1>8, EndRunTypes DEF Finish, TypeOK, env
<1>9. CASE \E f \in BOOLEAN : Begin(f)
  <2>1. PICK f \in BOOLEAN : Begin(f)
    BY <1>9
  <2>2. modules' \in Seq(Module)
    BY <2>1, ParseModulesSeq DEF Begin, TypeOK
  <2>3. dirty' \in BOOLEAN /\ fetch' \in BOOLEAN /\ exposed' \in Seq(Names)
    BY <2>1, EmptyLists, Zenon DEF Begin
  <2> QED
    BY <2>1, <2>2, <2>3 DEF Begin, TypeOK, env
<1>10. CASE Kill
  BY <1>10, EndRunTypes DEF Kill, TypeOK, env
<1>11. CASE KillInUpdate
  <2>1. modules[i].name \in Names
    BY <1>11, LoopIndex, ModuleTypes DEF KillInUpdate
  <2>2. /\ tree' \in [Names -> Content]
        /\ objects' \in [Names -> SUBSET Shas]
    BY <1>11, <2>1 DEF KillInUpdate, TypeOK, Content
  <2> QED
    BY <1>11, <2>2, EndRunTypes DEF KillInUpdate, TypeOK
<1>12. CASE KillInStash
  <2>1. exposed # <<>>
    BY <1>12 DEF KillInStash, Stashing, AtSmaller, AtRest
  <2>2. attic' \in [Names -> Content]
    BY <1>12, <2>1, HeadOfExposed DEF KillInStash, TypeOK, Content
  <2> QED
    BY <1>12, <2>2, EndRunTypes DEF KillInStash, TypeOK
<1>13. CASE Checkout
  <2>1. PICK h \in Releases :
          gitlink' = h /\ tree' = CheckedOut(gitlink, h, tree)
    BY <1>13 DEF Checkout
  <2>2. gitlink' \in Gitlinks
    BY <2>1, DistTreeAssumption
  <2>3. tree' \in [Names -> Content]
    BY <2>1 DEF CheckedOut, TypeOK, Content
  <2> QED
    BY <1>13, <2>2, <2>3 DEF Checkout, TypeOK
<1>14. CASE Flip
  BY <1>14 DEF Flip, TypeOK, locals
<1>15. CASE \E n \in Names : Remove(n)
  <2>1. PICK n \in Names : Remove(n)
    BY <1>15
  <2> QED
    BY <2>1 DEF Remove, TypeOK, Content
<1>16. CASE \E G \in SUBSET Releases : FetchModules(G)
  BY <1>16 DEF FetchModules, TypeOK, locals
<1>17. CASE UNCHANGED vars
  BY <1>17 DEF vars, TypeOK
<1> QED
  BY <1>1, <1>2, <1>3, <1>4, <1>5, <1>6, <1>7, <1>8, <1>9, <1>10, <1>11,
     <1>12, <1>13, <1>14, <1>15, <1>16, <1>17 DEF Next, ToggleModules

-----------------------------------------------------------------------------
(* The inductive invariant. *)

LEMMA InitInv == Init => Inv
<1> SUFFICES ASSUME Init PROVE Inv
  OBVIOUS
<1>1. TypeOK
  BY InitTypeOK
<1>2. RunMatchesPc /\ ListsWanted /\ InLoop /\ HandledMatch /\ Accounted
  BY DEF Init, RunMatchesPc, ListsWanted, InLoop, HandledMatch, Accounted,
         Merging
<1>3. StatusesCurrent /\ ExposedAhead
  BY DEF Init, StatusesCurrent, ExposedAhead, Merging
<1>4. Copies
  BY <1>1, DistTreeAssumption
     DEF Init, Copies, Cloned, Listed, TypeOK, Gitlinks
<1> QED
  BY <1>1, <1>2, <1>3, <1>4 DEF Inv

\* When the program ends only what it leaves in the directories matters.
LEMMA EndRunInv ==
  ASSUME Inv, TypeOK', Copies', NEW how \in {"ok", "failed", "killed"},
         EndRun(how)
  PROVE  Inv'
<1>1. RunMatchesPc' /\ ListsWanted' /\ InLoop' /\ HandledMatch' /\ Accounted'
  BY DEF EndRun, RunMatchesPc, ListsWanted, InLoop, HandledMatch, Accounted,
         Merging
<1>2. StatusesCurrent' /\ ExposedAhead'
  BY DEF EndRun, StatusesCurrent, ExposedAhead, Merging
<1> QED
  BY <1>1, <1>2 DEF Inv

\* What stands at the head of exposed when a loop hides it: a directory of
\* no module of the list, populated if its copy in the attic is.
LEMMA HeadUnwanted ==
  ASSUME Inv, Stashing
  PROVE  /\ exposed # <<>>
         /\ Merging
         /\ Head(exposed) \in Names
         /\ tree[Head(exposed)] # Absent
         /\ \A k \in DOMAIN modules : modules[k].name # Head(exposed)
         /\ Head(exposed) \notin Wanted(gitlink)
         /\ attic[Head(exposed)] \in Shas => tree[Head(exposed)] \in Shas
<1> DEFINE n == Head(exposed)
<1>1. exposed # <<>> /\ Merging /\ TypeOK
  BY DEF Stashing, AtSmaller, AtRest, Merging, Inv
<1>2. n \in Names /\ n = exposed[1] /\ 1 \in DOMAIN exposed
  BY <1>1, HeadOfExposed
<1>3. tree[n] # Absent
  BY <1>1, <1>2 DEF Inv, ExposedAhead
<1>4. \A k \in DOMAIN modules : k < i => modules[k].name < n
  BY <1>1, <1>2 DEF Inv, ExposedAhead
<1>5. \A k \in DOMAIN modules : modules[k].name \in Nat
  BY <1>1, ModuleTypes, DistTreeAssumption
<1>6. n \in Nat
  BY <1>2, DistTreeAssumption
<1>7. \A k \in DOMAIN modules : modules[k].name # n
  <2>1. CASE AtSmaller
    <3>1. i \in DOMAIN modules /\ n < modules[i].name
      BY <2>1 DEF AtSmaller, Inv, InLoop
    <3>2. \A k \in DOMAIN modules : i < k => modules[i].name < modules[k].name
      BY <1>1, <2>1, <3>1 DEF AtSmaller, Inv, ListsWanted
    <3>3. \A k \in DOMAIN modules : k \in Nat
      BY <1>1 DEF TypeOK
    <3> HIDE DEF n
    <3>4. SUFFICES ASSUME NEW k \in DOMAIN modules
                   PROVE  modules[k].name # n
      OBVIOUS
    <3>5. k < i \/ k = i \/ i < k
      BY <3>1, <3>3
    <3> QED
      BY <1>4, <1>5, <1>6, <3>1, <3>2, <3>5
  <2>2. CASE AtRest
    <3>1. \A k \in DOMAIN modules : k < i
      BY <1>1, <2>2 DEF AtRest, TypeOK
    <3> QED
      BY <1>4, <1>5, <1>6, <3>1
  <2> QED
    BY <2>1, <2>2 DEF Stashing
<1>8. n \notin Wanted(gitlink)
  BY <1>1, <1>2, <1>7 DEF Inv, ListsWanted, Merging
<1>9. attic[n] \in Shas => tree[n] \in Shas
  <2>1. tree[n] \in Content
    BY <1>1, <1>2 DEF TypeOK
  <2>2. tree[n] = Plain => attic[n] \notin Shas
    BY <1>2 DEF Inv, Copies
  <2>3. tree[n] = Bare => attic[n] \notin Shas
    BY <1>2, <1>8 DEF Inv, Copies, Wanted
  <2> QED
    BY <1>3, <2>1, <2>2, <2>3 DEF Content
<1> QED
  BY <1>1, <1>2, <1>3, <1>7, <1>8, <1>9

\* stashInAttic's two steps, in either loop.
LEMMA StashInv ==
  ASSUME Inv, TypeOK', Stashing, StashInAttic(Head(exposed)),
         UNCHANGED <<gitlink, pc, run, modules, i, dirty>>
  PROVE  Inv'
<1> DEFINE n == Head(exposed)
<1>1. /\ exposed # <<>>
      /\ n \in Names
      /\ Merging
      /\ tree[n] # Absent
      /\ \A k \in DOMAIN modules : modules[k].name # n
      /\ n \notin Wanted(gitlink)
      /\ attic[n] \in Shas => tree[n] \in Shas
  BY HeadUnwanted
<1>2. TypeOK
  BY DEF Inv
<1>3. /\ n = exposed[1]
      /\ 1 \in DOMAIN exposed
      /\ DOMAIN Tail(exposed) = 1..(Len(exposed) - 1)
      /\ DOMAIN exposed = 1..Len(exposed)
      /\ Len(exposed) \in Nat \ {0}
      /\ \A k \in 1..(Len(exposed) - 1) : Tail(exposed)[k] = exposed[k + 1]
  BY <1>1, <1>2, HeadOfExposed
<1>4. RunMatchesPc' /\ ListsWanted' /\ InLoop'
  BY DEF Inv, RunMatchesPc, ListsWanted, InLoop
<1> HIDE DEF n
<1>5. CASE RemoveFromAttic(n)
  <2>. tree' = tree /\ exposed' = exposed
    BY <1>5 DEF RemoveFromAttic
  <2>1. StatusesCurrent' /\ HandledMatch'
    BY DEF Inv, StatusesCurrent, HandledMatch, Merging, Handled, StatusOf
  <2>3. ExposedAhead'
    BY DEF Inv, ExposedAhead, Merging
  <2>4. Accounted'
    BY DEF Inv, Accounted, Merging, Handled, Dirs
  <2>2. Copies'
    BY <1>1, <1>2, <1>5, DistTreeAssumption
       DEF RemoveFromAttic, Inv, Copies, TypeOK
  <2> QED
    BY <1>4, <2>1, <2>2, <2>3, <2>4 DEF Inv
<1>6. CASE MoveToAttic(n)
  <2>1. /\ \A k \in DOMAIN modules :
             tree'[modules[k].name] = tree[modules[k].name]
        /\ \A m \in Names \ {n} : tree'[m] = tree[m] /\ attic'[m] = attic[m]
        /\ tree'[n] = Absent /\ attic'[n] = tree[n]
        /\ exposed' = Tail(exposed)
    BY <1>1, <1>2, <1>6, ModuleTypes DEF MoveToAttic, TypeOK
  <2>2. \A k \in DOMAIN modules :
          StatusOf(gitlink, tree, modules[k].name)'
            = StatusOf(gitlink, tree, modules[k].name)
    BY <2>1 DEF StatusOf
  <2>3. StatusesCurrent' /\ HandledMatch'
    BY <2>1, <2>2
       DEF Inv, StatusesCurrent, HandledMatch, Merging, Handled
  <2>4. ExposedAhead'
    <3>1. \A k \in DOMAIN exposed' : k + 1 \in DOMAIN exposed
                                    /\ exposed'[k] = exposed[k + 1]
      BY <1>3, <2>1
    <3>2. \A k \in DOMAIN exposed' : k \in Nat
      BY <1>3, <2>1
    <3>3. \A j, k \in DOMAIN exposed' : j < k => exposed'[j] < exposed'[k]
      BY <1>1, <3>1, <3>2 DEF Inv, ExposedAhead
    <3>4. \A k \in DOMAIN exposed' : tree'[exposed'[k]] # Absent
      <4>1. SUFFICES ASSUME NEW k \in DOMAIN exposed'
                     PROVE  tree'[exposed'[k]] # Absent
        OBVIOUS
      <4>2. exposed[1] < exposed[k + 1] /\ tree[exposed[k + 1]] # Absent
        BY <1>1, <1>3, <2>1, <3>1, <3>2 DEF Inv, ExposedAhead
      <4>3. exposed[k + 1] \in Names /\ exposed[k + 1] \in Nat
        <5>1. k + 1 \in DOMAIN exposed
          BY <3>1
        <5>2. exposed[k + 1] \in Names
          BY <1>2, <5>1 DEF TypeOK
        <5> QED
          BY <5>2, DistTreeAssumption
      <4>4. exposed[k + 1] # n
        BY <1>3, <4>2, <4>3
      <4> QED
        BY <2>1, <3>1, <4>2, <4>3, <4>4
    <3>5. Merging' => \A k \in DOMAIN modules, j \in DOMAIN exposed' :
                        k < i => modules[k].name < exposed'[j]
      BY <3>1 DEF Inv, ExposedAhead, Merging
    <3> QED
      BY <3>3, <3>4, <3>5 DEF ExposedAhead, Merging
  <2>5. Accounted'
    <3>1. SUFFICES ASSUME NEW m \in Dirs(tree)'
                   PROVE  \/ \E j \in DOMAIN exposed' : exposed'[j] = m
                          \/ \E k \in DOMAIN modules :
                               Handled(k)' /\ modules[k].name = m
      BY DEF Accounted
    <3>2. m \in Names /\ m # n /\ m \in Dirs(tree)
      BY <2>1 DEF Dirs
    <3>3. CASE \E j \in DOMAIN exposed : exposed[j] = m
      <4>1. PICK j \in DOMAIN exposed : exposed[j] = m
        BY <3>3
      <4>2. j - 1 \in DOMAIN exposed' /\ exposed'[j - 1] = m
        BY <1>3, <2>1, <3>2, <4>1
      <4> QED
        BY <4>2
    <3>4. CASE \E k \in DOMAIN modules : Handled(k) /\ modules[k].name = m
      BY <3>4 DEF Handled
    <3> QED
      BY <1>1, <3>2, <3>3, <3>4 DEF Inv, Accounted
  <2>6. Copies'
    BY <1>1, <1>2, <2>1, DistTreeAssumption DEF Inv, Copies, TypeOK, Content
  <2> QED
    BY <1>4, <2>3, <2>4, <2>5, <2>6 DEF Inv
<1> QED
  BY <1>5, <1>6 DEF StashInAttic, n

LEMMA RecoverInv == Inv /\ TypeOK' /\ Recover => Inv'
<1> SUFFICES ASSUME Inv, TypeOK', Recover
             PROVE  Inv'
  OBVIOUS
<1> DEFINE n == modules[i].name
<1>1. TypeOK /\ i \in DOMAIN modules /\ n \in Names /\ pc = "recover"
  BY LoopIndex, ModuleTypes DEF Recover, Inv
<1>2. n \in Wanted(gitlink)
  BY <1>1, WantedCommit DEF Inv
<1>3. pc' = "recover" /\ UNCHANGED <<gitlink, run, modules, exposed>>
  BY DEF Recover
<1>4. RunMatchesPc' /\ ListsWanted' /\ InLoop' /\ HandledMatch' /\ Accounted'
  BY <1>1, <1>3
     DEF Inv, RunMatchesPc, ListsWanted, InLoop, HandledMatch, Accounted,
         Merging
<1> HIDE DEF n
<1>5. CASE tree[n] = Absent /\ attic[n] # Absent
  <2>1. /\ tree' = [tree EXCEPT ![n] = attic[n]]
        /\ attic' = [attic EXCEPT ![n] = Absent]
        /\ dirty' = TRUE
    BY <1>5 DEF Recover, FetchFromAttic, n
  <2>2. StatusesCurrent'
    BY <1>3, <2>1 DEF StatusesCurrent, Merging
  <2>3. ExposedAhead'
    <3>1. \A m \in Names : tree[m] # Absent => tree'[m] # Absent
      BY <1>1, <1>5, <2>1 DEF TypeOK
    <3>2. \A k \in DOMAIN exposed : exposed[k] \in Names
      BY <1>1 DEF TypeOK
    <3> QED
      BY <1>3, <3>1, <3>2 DEF Inv, ExposedAhead, Merging
  <2>4. Copies'
    <3>1. n \in Listed(gitlink) /\ n \notin ShortNames
      BY <1>2 DEF Wanted
    <3>2. /\ tree'[n] = attic[n] /\ attic'[n] = Absent
          /\ \A m \in Names \ {n} : tree'[m] = tree[m] /\ attic'[m] = attic[m]
      BY <1>1, <2>1 DEF TypeOK
    <3> QED
      BY <1>3, <3>1, <3>2, DistTreeAssumption DEF Inv, Copies
  <2> QED
    BY <1>4, <2>2, <2>3, <2>4 DEF Inv
<1>6. CASE ~(tree[n] = Absent /\ attic[n] # Absent)
  <2>1. tree' = tree /\ attic' = attic /\ dirty' = dirty
    BY <1>6 DEF Recover, FetchFromAttic, n
  <2>2. StatusesCurrent'
    BY <1>1, <1>3, <2>1 DEF Inv, StatusesCurrent, Merging, StatusOf
  <2>3. ExposedAhead' /\ Copies'
    BY <1>1, <1>3, <2>1 DEF Inv, ExposedAhead, Merging, Copies
  <2> QED
    BY <1>4, <2>2, <2>3 DEF Inv
<1> QED
  BY <1>5, <1>6

LEMMA ExposeInv == Inv /\ TypeOK' /\ Expose => Inv'
<1> SUFFICES ASSUME Inv, TypeOK', Expose
             PROVE  Inv'
  OBVIOUS
<1>1. /\ pc = "recover" /\ pc' = "update"
      /\ i' = 1
      /\ UNCHANGED <<gitlink, tree, attic, run>>
      /\ TypeOK
  BY DEF Expose, env, Inv
<1>2. /\ \A k \in DOMAIN modules' : k \in Nat /\ k >= 1
      /\ \A k \in DOMAIN modules' : ~Handled(k)'
  BY <1>1 DEF TypeOK, Handled
<1>3. /\ \A n \in Names :
           n \in Wanted(gitlink) <=> \E k \in DOMAIN modules' : modules'[k].name = n
      /\ \A j, k \in DOMAIN modules' : j < k => modules'[j].name < modules'[k].name
      /\ \A k \in DOMAIN modules' :
           modules'[k].status = StatusOf(gitlink, tree, modules'[k].name)
  <2>1. CASE dirty
    BY <1>1, <2>1, ParseModulesSeq DEF Expose, TypeOK
  <2>2. CASE ~dirty
    BY <1>1, <2>2 DEF Expose, Inv, ListsWanted, StatusesCurrent
  <2> QED
    BY <2>1, <2>2
<1>4. /\ \A n \in Dirs(tree) : \E k \in DOMAIN exposed' : exposed'[k] = n
      /\ \A k \in DOMAIN exposed' : exposed'[k] \in Dirs(tree)
      /\ \A j, k \in DOMAIN exposed' : j < k => exposed'[j] < exposed'[k]
  <2>1. Dirs(tree) \in SUBSET Names
    BY DEF Dirs
  <2> QED
    BY <2>1, AscendingSeq DEF Expose
<1>5. RunMatchesPc' /\ ListsWanted' /\ InLoop' /\ HandledMatch'
  BY <1>1, <1>2, <1>3
     DEF Inv, RunMatchesPc, ListsWanted, InLoop, HandledMatch
<1>6. StatusesCurrent'
  BY <1>1, <1>3 DEF StatusesCurrent, StatusOf
<1>7. ExposedAhead' /\ Accounted'
  BY <1>1, <1>2, <1>4 DEF ExposedAhead, Accounted, Dirs
<1>8. Copies'
  BY <1>1 DEF Inv, Copies
<1> QED
  BY <1>5, <1>6, <1>7, <1>8 DEF Inv

LEMMA UpdateInv == Inv /\ TypeOK' /\ Update => Inv'
<1> SUFFICES ASSUME Inv, TypeOK', Update
             PROVE  Inv'
  OBVIOUS
<1> DEFINE n == modules[i].name
<1>1. /\ TypeOK
      /\ i \in DOMAIN modules
      /\ n \in Names
      /\ pc = "update" /\ pc' = "sweep"
      /\ UNCHANGED <<gitlink, attic, run, modules, i, dirty, exposed>>
  BY LoopIndex, ModuleTypes DEF Update, Inv
<1>2. n \in Wanted(gitlink) /\ gitlink[n] \in Shas
  BY <1>1, WantedCommit DEF Inv
<1>3. /\ \A k \in DOMAIN modules : k \in Nat
      /\ i \in Nat
      /\ \A k \in DOMAIN modules : modules[k].name \in Names
  BY <1>1, ModuleTypes DEF TypeOK
<1>4. \A k \in DOMAIN modules : k # i => modules[k].name # n
  <2>1. \A j, k \in DOMAIN modules : j < k => modules[j].name < modules[k].name
    BY <1>1 DEF Inv, ListsWanted
  <2>2. SUFFICES ASSUME NEW k \in DOMAIN modules, k # i
                 PROVE  modules[k].name # modules[i].name
    OBVIOUS
  <2>3. modules[k].name \in Nat /\ modules[i].name \in Nat
    BY <1>1, <1>3, DistTreeAssumption
  <2>4. k < i \/ i < k
    BY <1>3, <2>2
  <2> QED
    BY <1>1, <2>1, <2>3, <2>4
<1>5. /\ tree'[n] = gitlink[n]
      /\ \A m \in Names \ {n} : tree'[m] = tree[m]
  <2>1. CASE modules[i].status = "UpToDate"
    <3>1. modules[i].status = StatusOf(gitlink, tree, n)
      BY <1>1, <1>3 DEF Inv, StatusesCurrent, Merging, Handled
    <3>2. tree[n] = gitlink[n]
      BY <2>1, <3>1 DEF StatusOf
    <3> QED
      BY <2>1, <3>2 DEF Update
  <2>2. CASE modules[i].status # "UpToDate"
    BY <1>1, <2>2 DEF Update, TypeOK
  <2> QED
    BY <2>1, <2>2
<1> HIDE DEF n
<1>6. RunMatchesPc' /\ ListsWanted' /\ InLoop'
  BY <1>1 DEF Inv, RunMatchesPc, ListsWanted, InLoop
<1>7. StatusesCurrent'
  <2>1. SUFFICES ASSUME NEW k \in DOMAIN modules, ~(k < i \/ k = i)
                 PROVE  modules[k].status
                          = StatusOf(gitlink, tree', modules[k].name)
    BY <1>1 DEF StatusesCurrent, Merging, Handled, StatusOf
  <2>2. modules[k].status = StatusOf(gitlink, tree, modules[k].name)
    BY <1>1, <2>1 DEF Inv, StatusesCurrent, Merging, Handled
  <2>3. tree'[modules[k].name] = tree[modules[k].name]
    BY <1>3, <1>4, <1>5, <2>1
  <2> QED
    BY <2>2, <2>3 DEF StatusOf
<1>8. HandledMatch'
  <2>1. SUFFICES ASSUME NEW k \in DOMAIN modules, k < i \/ k = i
                 PROVE  tree'[modules[k].name] = gitlink[modules[k].name]
    BY <1>1 DEF HandledMatch, Handled
  <2>2. CASE k = i
    BY <1>5, <2>2 DEF n
  <2>3. CASE k # i
    <3>1. tree[modules[k].name] = gitlink[modules[k].name]
      BY <1>1, <2>1, <2>3 DEF Inv, HandledMatch, Merging, Handled
    <3> QED
      BY <1>3, <1>4, <1>5, <2>3, <3>1
  <2> QED
    BY <2>2, <2>3
<1>9. ExposedAhead'
  <2>1. \A m \in Names : tree[m] # Absent => tree'[m] # Absent
    BY <1>2, <1>5, DistTreeAssumption
  <2>2. \A k \in DOMAIN exposed : exposed[k] \in Names
    BY <1>1 DEF TypeOK
  <2> QED
    BY <1>1, <2>1, <2>2 DEF Inv, ExposedAhead, Merging
<1>10. Accounted'
  <2>1. SUFFICES ASSUME NEW m \in Names, tree'[m] # Absent
                 PROVE  \/ \E j \in DOMAIN exposed : exposed[j] = m
                        \/ \E k \in DOMAIN modules :
                             (k < i \/ k = i) /\ modules[k].name = m
    BY <1>1 DEF Accounted, Dirs, Handled
  <2>2. CASE m = n
    BY <1>1, <2>2 DEF n
  <2>3. CASE m # n
    <3>1. m \in Dirs(tree)
      BY <1>5, <2>1, <2>3 DEF Dirs
    <3> QED
      BY <1>1, <3>1 DEF Inv, Accounted, Merging, Handled
  <2> QED
    BY <2>2, <2>3
<1>11. Copies'
  BY <1>1, <1>2, <1>5, DistTreeAssumption DEF Inv, Copies, Wanted
<1> QED
  BY <1>6, <1>7, <1>8, <1>9, <1>10, <1>11 DEF Inv

LEMMA NextModuleInv == Inv /\ TypeOK' /\ NextModule => Inv'
<1> SUFFICES ASSUME Inv, TypeOK', NextModule
             PROVE  Inv'
  OBVIOUS
<1>1. /\ TypeOK
      /\ pc = "sweep" /\ pc' = "update"
      /\ i \in DOMAIN modules
      /\ i' = i + 1
      /\ UNCHANGED <<gitlink, tree, attic, run, modules, dirty>>
  BY DEF NextModule, Inv, InLoop, env
<1>2. /\ i \in Nat
      /\ \A k \in DOMAIN modules : k \in Nat /\ modules[k].name \in Nat
      /\ \A k \in DOMAIN exposed : k \in Nat /\ exposed[k] \in Nat
  <2>1. \A k \in DOMAIN exposed : k \in Nat /\ exposed[k] \in Names
    BY <1>1 DEF TypeOK
  <2>2. \A k \in DOMAIN modules : k \in Nat
    BY <1>1 DEF TypeOK
  <2> QED
    BY <1>1, <2>1, <2>2, ModuleTypes, DistTreeAssumption DEF TypeOK
<1>3. \A k \in DOMAIN modules : Handled(k)' <=> Handled(k)
  BY <1>1, <1>2 DEF Handled
<1>4. RunMatchesPc' /\ ListsWanted' /\ InLoop' /\ StatusesCurrent'
      /\ HandledMatch' /\ Copies'
  BY <1>1, <1>3
     DEF Inv, RunMatchesPc, ListsWanted, InLoop, StatusesCurrent, HandledMatch,
         Copies, Merging, StatusOf
<1>5. \A j, k \in DOMAIN exposed : j < k => exposed[j] < exposed[k]
  BY <1>1 DEF Inv, ExposedAhead, Merging
<1>6. PICK d \in {0, 1} :
        /\ \A j \in DOMAIN exposed' :
             /\ j \in Nat
             /\ j + d \in DOMAIN exposed
             /\ exposed'[j] = exposed[j + d]
             /\ modules[i].name < exposed[j + d]
        /\ \A j \in DOMAIN exposed :
             exposed[j] = modules[i].name \/ j - d \in DOMAIN exposed'
  <2>1. CASE exposed # <<>> /\ Head(exposed) = modules[i].name
    <3>1. exposed' = Tail(exposed)
      BY <1>2, <2>1, <1>1, HeadOfExposed DEF NextModule
    <3>2. /\ exposed[1] = modules[i].name
          /\ 1 \in DOMAIN exposed
          /\ Len(exposed) \in Nat \ {0}
          /\ DOMAIN exposed' = 1..(Len(exposed) - 1)
          /\ DOMAIN exposed = 1..Len(exposed)
          /\ \A j \in 1..(Len(exposed) - 1) : exposed'[j] = exposed[j + 1]
      BY <1>1, <2>1, <3>1, HeadOfExposed
    <3>3. \A j \in DOMAIN exposed' :
            /\ j \in Nat
            /\ j + 1 \in DOMAIN exposed
            /\ exposed'[j] = exposed[j + 1]
            /\ modules[i].name < exposed[j + 1]
      BY <1>5, <3>2
    <3>4. \A j \in DOMAIN exposed :
            exposed[j] = modules[i].name \/ j - 1 \in DOMAIN exposed'
      BY <3>2
    <3> QED
      BY <3>3, <3>4
  <2>2. CASE ~(exposed # <<>> /\ Head(exposed) = modules[i].name)
    <3>1. /\ exposed' = exposed
          /\ exposed # <<>> => Head(exposed) > modules[i].name
      BY <2>2 DEF NextModule
    <3>2. \A j \in DOMAIN exposed : modules[i].name < exposed[j]
      <4>1. SUFFICES ASSUME NEW j \in DOMAIN exposed
                     PROVE  modules[i].name < exposed[j]
        OBVIOUS
      <4>2. exposed # <<>>
        BY <1>1, <4>1 DEF TypeOK
      <4>3. modules[i].name < exposed[1] /\ 1 \in DOMAIN exposed /\ j >= 1
        BY <1>1, <1>2, <3>1, <4>1, <4>2, HeadOfExposed
      <4> QED
        BY <1>1, <1>2, <1>5, <4>1, <4>3
    <3>3. \A j \in DOMAIN exposed : j + 0 = j /\ j - 0 = j
      BY <1>2
    <3> QED
      BY <1>2, <3>1, <3>2, <3>3
  <2> QED
    BY <2>1, <2>2
<1>7. ExposedAhead'
  <2>1. \A j, k \in DOMAIN exposed' : j < k => exposed'[j] < exposed'[k]
    BY <1>5, <1>6
  <2>2. \A j \in DOMAIN exposed' : tree[exposed'[j]] # Absent
    BY <1>1, <1>6 DEF Inv, ExposedAhead, Merging
  <2>3. \A k \in DOMAIN modules, j \in DOMAIN exposed' :
          k < i + 1 => modules[k].name < exposed'[j]
    <3>1. SUFFICES ASSUME NEW k \in DOMAIN modules, NEW j \in DOMAIN exposed',
                          k < i + 1
                   PROVE  modules[k].name < exposed'[j]
      OBVIOUS
    <3>2. k < i \/ k = i
      BY <1>2, <3>1
    <3> QED
      BY <1>1, <1>6, <3>2 DEF Inv, ExposedAhead, Merging
  <2> QED
    BY <1>1, <2>1, <2>2, <2>3 DEF ExposedAhead
<1>8. Accounted'
  <2>1. SUFFICES ASSUME NEW m \in Dirs(tree)
                 PROVE  \/ \E j \in DOMAIN exposed' : exposed'[j] = m
                        \/ \E k \in DOMAIN modules :
                             Handled(k) /\ modules[k].name = m
    BY <1>1, <1>3 DEF Accounted, Dirs
  <2>2. CASE \E j \in DOMAIN exposed : exposed[j] = m
    <3>1. PICK j \in DOMAIN exposed : exposed[j] = m
      BY <2>2
    <3>2. CASE exposed[j] = modules[i].name
      BY <1>1, <3>1, <3>2 DEF Handled
    <3>3. CASE j - d \in DOMAIN exposed'
      <4>1. (j - d) + d = j
        BY <1>2
      <4> QED
        BY <1>6, <3>1, <3>3, <4>1
    <3> QED
      BY <1>6, <3>2, <3>3
  <2> QED
    BY <1>1, <2>2 DEF Inv, Accounted, Merging
<1> QED
  BY <1>4, <1>7, <1>8 DEF Inv

LEMMA BeginInv ==
  ASSUME Inv, TypeOK', NEW f \in BOOLEAN, Begin(f)
  PROVE  Inv'
<1>1. /\ TypeOK
      /\ pc' = "recover" /\ run' = "running"
      /\ UNCHANGED <<gitlink, tree, attic>>
      /\ modules' \in ParseModules
      /\ exposed' = <<>>
  BY DEF Begin, env, Inv
<1>2. ListsWanted' /\ StatusesCurrent'
  BY <1>1, ParseModulesSeq
     DEF ListsWanted, StatusesCurrent, TypeOK, StatusOf
<1>3. RunMatchesPc' /\ InLoop' /\ HandledMatch' /\ Accounted' /\ ExposedAhead'
  BY <1>1
     DEF RunMatchesPc, InLoop, HandledMatch, Accounted, ExposedAhead, Merging
<1>4. Copies'
  BY <1>1 DEF Inv, Copies
<1> QED
  BY <1>2, <1>3, <1>4 DEF Inv

LEMMA KillInUpdateInv == Inv /\ TypeOK' /\ KillInUpdate => Inv'
<1> SUFFICES ASSUME Inv, TypeOK', KillInUpdate
             PROVE  Inv'
  OBVIOUS
<1> DEFINE n == modules[i].name
<1>1. TypeOK /\ i \in DOMAIN modules /\ pc # "idle" /\ n \in Names
  BY LoopIndex, ModuleTypes DEF KillInUpdate, Inv
<1>2. n \in Wanted(gitlink)
  BY <1>1, WantedCommit DEF Inv
<1>3. PICK c \in Shas : tree' = [tree EXCEPT ![n] = c]
  BY DEF KillInUpdate
<1> HIDE DEF n
<1>4. Copies'
  BY <1>1, <1>2, <1>3, DistTreeAssumption
     DEF KillInUpdate, Inv, Copies, Wanted, TypeOK
<1> QED
  BY <1>4, EndRunInv DEF KillInUpdate

LEMMA KillInStashInv == Inv /\ TypeOK' /\ KillInStash => Inv'
<1> SUFFICES ASSUME Inv, TypeOK', KillInStash
             PROVE  Inv'
  OBVIOUS
<1>1. TypeOK /\ Head(exposed) \in Names
  BY HeadUnwanted DEF KillInStash, Inv
<1>2. Copies'
  BY <1>1, DistTreeAssumption DEF KillInStash, Inv, Copies, TypeOK
<1> QED
  BY <1>2, EndRunInv DEF KillInStash

\* Between runs nothing but the directories and the listing matters.
LEMMA EnvironmentInv ==
  ASSUME Inv, TypeOK', Copies', pc = "idle",
         run' = "none" \/ UNCHANGED run,
         UNCHANGED <<pc, modules, i, dirty, exposed>>
  PROVE  Inv'
<1>1. RunMatchesPc' /\ ListsWanted' /\ InLoop'
  BY DEF Inv, RunMatchesPc, ListsWanted, InLoop
<1>2. StatusesCurrent' /\ HandledMatch' /\ ExposedAhead' /\ Accounted'
  BY DEF StatusesCurrent, HandledMatch, ExposedAhead, Accounted, Merging
<1> QED
  BY <1>1, <1>2 DEF Inv

LEMMA CheckoutInv == Inv /\ TypeOK' /\ Checkout => Inv'
<1> SUFFICES ASSUME Inv, TypeOK', Checkout
             PROVE  Inv'
  OBVIOUS
<1>1. PICK h \in Releases :
        gitlink' = h /\ tree' = CheckedOut(gitlink, h, tree)
  BY DEF Checkout
<1>2. \A n \in Names :
        /\ tree'[n] = Bare => n \in Listed(h)
        /\ tree'[n] # Bare => tree'[n] = tree[n] \/ tree'[n] = Absent
    BY <1>1, DistTreeAssumption DEF CheckedOut, Listed, Inv, Copies
<1>3. Copies'
  BY <1>1, <1>2, DistTreeAssumption DEF Checkout, Inv, Copies
<1> QED
  BY <1>3, EnvironmentInv DEF Checkout

LEMMA RemoveInv ==
  ASSUME Inv, TypeOK', NEW n \in Names, Remove(n)
  PROVE  Inv'
<1>1. Copies'
  BY DistTreeAssumption DEF Remove, Inv, Copies, TypeOK
<1> QED
  BY <1>1, EnvironmentInv DEF Remove

\* Inv is inductive.
LEMMA NextInv == Inv /\ [Next]_vars => Inv'
<1> SUFFICES ASSUME Inv, [Next]_vars
             PROVE  Inv'
  OBVIOUS
<1>0. TypeOK'
  BY NextTypeOK DEF Inv
<1>1. CASE Recover
  BY <1>0, <1>1, RecoverInv
<1>2. CASE Expose
  BY <1>0, <1>2, ExposeInv
<1>3. CASE Update
  BY <1>0, <1>3, UpdateInv
<1>4. CASE UpdateFails
  BY <1>0, <1>4, EndRunInv DEF UpdateFails, env, Inv, Copies
<1>5. CASE HideSmaller
  BY <1>0, <1>5, StashInv DEF HideSmaller, Stashing
<1>6. CASE NextModule
  BY <1>0, <1>6, NextModuleInv
<1>7. CASE HideRest
  BY <1>0, <1>7, StashInv DEF HideRest, Stashing
<1>8. CASE Finish
  BY <1>0, <1>8, EndRunInv DEF Finish, env, Inv, Copies
<1>9. CASE \E f \in BOOLEAN : Begin(f)
  BY <1>0, <1>9, BeginInv
<1>10. CASE Kill
  BY <1>0, <1>10, EndRunInv DEF Kill, env, Inv, Copies
<1>11. CASE KillInUpdate
  BY <1>0, <1>11, KillInUpdateInv
<1>12. CASE KillInStash
  BY <1>0, <1>12, KillInStashInv
<1>13. CASE Checkout
  BY <1>0, <1>13, CheckoutInv
<1>14. CASE \E n \in Names : Remove(n)
  BY <1>0, <1>14, RemoveInv
<1>15. CASE \/ Flip
            \/ \E G \in SUBSET Releases : FetchModules(G)
            \/ UNCHANGED vars
  <2>1. UNCHANGED <<gitlink, tree, attic, locals>>
    BY <1>15 DEF Flip, FetchModules, vars, locals
  <2>2. UNCHANGED <<RunMatchesPc, ListsWanted, InLoop, Copies>>
    BY <2>1 DEF locals, RunMatchesPc, ListsWanted, InLoop, Copies
  <2>3. UNCHANGED <<StatusesCurrent, HandledMatch, ExposedAhead, Accounted>>
    BY <2>1
       DEF locals, StatusesCurrent, HandledMatch, ExposedAhead, Accounted,
           Merging, Handled, StatusOf, Dirs
  <2> QED
    BY <1>0, <2>2, <2>3 DEF Inv
<1> QED
  BY <1>1, <1>2, <1>3, <1>4, <1>5, <1>6, <1>7, <1>8, <1>9, <1>10, <1>11,
     <1>12, <1>13, <1>14, <1>15 DEF Next, ToggleModules

LEMMA SpecInv == Spec => []Inv
<1> QED
  BY InitInv, NextInv, PTL DEF Spec

-----------------------------------------------------------------------------
(* What a caller of toggleModules relies on. *)

\* git has every commit a module is populated at, here or in the attic.
Kept ==
  \A n \in Names : /\ tree[n] \in Shas => tree[n] \in objects[n]
                   /\ attic[n] \in Shas => attic[n] \in objects[n]

LEMMA InitKept == Init => Kept
  BY DistTreeAssumption DEF Init, Kept, Cloned

LEMMA StashKept ==
  ASSUME Inv, Kept, Stashing, StashInAttic(Head(exposed)), UNCHANGED objects
  PROVE  Kept'
<1>1. TypeOK /\ Head(exposed) \in Names
  BY HeadUnwanted DEF Inv
<1> QED
  BY <1>1, DistTreeAssumption
     DEF StashInAttic, RemoveFromAttic, MoveToAttic, Kept, TypeOK

LEMMA NextKept == Inv /\ Kept /\ [Next]_vars => Kept'
<1> SUFFICES ASSUME Inv, Kept, [Next]_vars
             PROVE  Kept'
  OBVIOUS
<1>0. TypeOK
  BY DEF Inv
<1>1. CASE Recover
  <2>1. modules[i].name \in Names
    BY <1>0, <1>1, LoopIndex, ModuleTypes DEF Recover
  <2> QED
    BY <1>0, <1>1, <2>1, DistTreeAssumption
       DEF Recover, FetchFromAttic, Kept, TypeOK
<1>2. CASE Update
  <2>1. modules[i].name \in Names
    BY <1>0, <1>2, LoopIndex, ModuleTypes DEF Update
  <2> QED
    BY <1>0, <1>2, <2>1, SMTT(30) DEF Update, Kept, TypeOK
<1>3. CASE HideSmaller
  BY <1>3, StashKept DEF HideSmaller, Stashing
<1>4. CASE HideRest
  BY <1>4, StashKept DEF HideRest, Stashing
<1>5. CASE KillInUpdate
  <2>1. modules[i].name \in Names
    BY <1>0, <1>5, LoopIndex, ModuleTypes DEF KillInUpdate
  <2> QED
    BY <1>0, <1>5, <2>1 DEF KillInUpdate, Kept, TypeOK
<1>6. CASE KillInStash
  <2>1. Head(exposed) \in Names
    BY <1>6, HeadUnwanted DEF KillInStash
  <2> QED
    BY <1>0, <1>6, <2>1, DistTreeAssumption DEF KillInStash, Kept, TypeOK
<1>7. CASE Checkout
  BY <1>0, <1>7, DistTreeAssumption DEF Checkout, CheckedOut, Kept, TypeOK
<1>8. CASE \E n \in Names : Remove(n)
  BY <1>0, <1>8, DistTreeAssumption DEF Remove, Kept, TypeOK
<1>9. CASE \E G \in SUBSET Releases : FetchModules(G)
  BY <1>0, <1>9 DEF FetchModules, Kept, TypeOK
<1>10. CASE \/ Expose \/ UpdateFails \/ NextModule \/ Finish \/ Kill \/ Flip
            \/ (\E f \in BOOLEAN : Begin(f)) \/ UNCHANGED vars
  <2>1. UNCHANGED <<tree, attic, objects>>
    BY <1>10
       DEF Expose, UpdateFails, NextModule, Finish, Kill, Flip, Begin, vars,
           env
  <2> QED
    BY <2>1 DEF Kept
<1> QED
  BY <1>1, <1>2, <1>3, <1>4, <1>5, <1>6, <1>7, <1>8, <1>9, <1>10
     DEF Next, ToggleModules

LEMMA SpecKept == Spec => []Kept
<1> QED
  BY InitKept, NextKept, SpecInv, PTL DEF Spec

-----------------------------------------------------------------------------
(* The theorems. *)

\* TypeOK, of the variables of toggleModules (gitnim.nim:270-316) and of the
\* directories it works on, holds in every reachable state.
THEOREM TypeCorrect == Spec => []TypeOK
<1>1. Inv => TypeOK
  BY DEF Inv
<1> QED
  BY <1>1, SpecInv, PTL

\* Where toggleModules returns, everything it listed has been handled and
\* everything that was exposed has been looked at.
LEMMA FinishMatches == Inv /\ Finish => Abs!Matches(gitlink, tree)
<1> SUFFICES ASSUME Inv, Finish
             PROVE  Abs!Matches(gitlink, tree)
  OBVIOUS
<1>1. TypeOK /\ Merging /\ pc = "update" /\ exposed = <<>> /\ i > Len(modules)
  BY DEF Inv, Finish, Merging
<1>2. \A k \in DOMAIN modules : Handled(k)
  BY <1>1 DEF TypeOK, Handled
<1>3. \A n \in Wanted(gitlink) : n \in Names /\ gitlink[n] # Absent
  BY DEF Wanted, Listed
<1>4. \A n \in Wanted(gitlink) : tree[n] = gitlink[n]
  BY <1>1, <1>2, <1>3 DEF Inv, ListsWanted, HandledMatch
<1>5. \A n \in Dirs(tree) : n \in Wanted(gitlink)
  <2>1. SUFFICES ASSUME NEW n \in Dirs(tree)
                 PROVE  n \in Wanted(gitlink)
    OBVIOUS
  <2>2. n \in Names
    BY DEF Dirs
  <2>3. \E k \in DOMAIN modules : modules[k].name = n
    BY <1>1, <2>1 DEF Inv, Accounted
  <2> QED
    BY <1>1, <2>2, <2>3 DEF Inv, ListsWanted
<1> QED
  BY <1>3, <1>4, <1>5
     DEF Abs!Matches, Abs!Dirs, Abs!Wanted, Abs!Listed, Dirs, Wanted, Listed

\* DoneMatches: toggleModules (gitnim.nim:270-316) returns only when exactly
\* the listed modules are exposed, each at its listed commit.
THEOREM DoneMatchesAlways == Spec => []DoneMatches
<1>1. Init => DoneMatches
  BY DEF Init, DoneMatches
<1>2. Inv /\ DoneMatches /\ [Next]_vars => DoneMatches'
  <2> SUFFICES ASSUME Inv, DoneMatches, [Next]_vars, run' = "ok"
               PROVE  Abs!Matches(gitlink, tree)'
    BY DEF DoneMatches
  <2>1. CASE Finish
    BY <2>1, FinishMatches DEF Finish, env
  <2>2. CASE UNCHANGED <<run, gitlink, tree>>
    BY <2>2 DEF DoneMatches
  <2>3. CASE ~Finish /\ ~UNCHANGED <<run, gitlink, tree>>
    <3>0. ~UNCHANGED vars /\ ~Flip /\ ~\E G \in SUBSET Releases : FetchModules(G)
      BY <2>3 DEF vars, Flip, FetchModules, locals
    <3>1. CASE run = "running"
      BY <2>3, <3>0, <3>1
         DEF Next, ToggleModules, Recover, Expose, Update, UpdateFails,
             HideSmaller, NextModule, HideRest, Begin, Kill, KillInUpdate,
             KillInStash, Checkout, Remove, EndRun
    <3>2. CASE run # "running"
      <4>1. pc = "idle"
        BY <3>2 DEF Inv, RunMatchesPc
      <4> QED
        BY <2>3, <3>0, <4>1
           DEF Next, ToggleModules, Recover, Expose, Update, UpdateFails,
               HideSmaller, AtSmaller, NextModule, HideRest, AtRest, Begin,
               Kill, KillInUpdate, KillInStash, Stashing, Checkout, Remove
    <3> QED
      BY <3>1, <3>2
  <2> QED
    BY <2>1, <2>2, <2>3
<1> QED
  BY <1>1, <1>2, SpecInv, PTL DEF Spec

\* Commits are never lost; the parameter stays what it is; a run fails for want
\* of a commit, and not if it may use a network that answers.
RunContract ==
  /\ \A n \in Names : objects[n] \subseteq objects'[n]
  /\ run = "running" /\ run' = "running" => fetch' = fetch
  /\ run = "running" /\ run' = "failed" =>
       /\ ~(fetch /\ online)
       /\ \E n \in Wanted(gitlink) : gitlink[n] \notin objects[n]
       /\ UNCHANGED gitlink
  /\ run = "running" /\ run' = "ok" =>
       /\ \A n \in Wanted(gitlink) : gitlink[n] \in objects[n]
       /\ UNCHANGED gitlink

LEMMA StepContract == Inv /\ Kept /\ [Next]_vars => RunContract
<1> SUFFICES ASSUME Inv, Kept, [Next]_vars
             PROVE  RunContract
  OBVIOUS
<1>0. TypeOK /\ RunMatchesPc
  BY DEF Inv
<1>1. CASE Update
  <2>1. /\ modules[i].name \in Names
        /\ run = "running" /\ UNCHANGED <<run, fetch>>
    BY <1>0, <1>1, LoopIndex, ModuleTypes DEF Update, RunMatchesPc
  <2>2. \A n \in Names : objects[n] \subseteq objects'[n]
    BY <1>0, <1>1, <2>1 DEF Update, TypeOK
  <2> QED
    BY <2>1, <2>2 DEF RunContract
<1>2. CASE UpdateFails
  <2>1. i \in DOMAIN modules /\ pc # "idle"
    BY <1>0, <1>2, LoopIndex DEF UpdateFails
  <2>2. modules[i].name \in Wanted(gitlink)
    BY <1>0, <2>1, WantedCommit DEF Inv
  <2>3. /\ gitlink[modules[i].name] \notin objects[modules[i].name]
        /\ ~(fetch /\ online)
    BY <1>2 DEF UpdateFails, CanUpdate, MayQuery, UpdateFetch
  <2>4. run' = "failed" /\ UNCHANGED <<gitlink, objects>>
    BY <1>2 DEF UpdateFails, EndRun, env
  <2> QED
    BY <2>2, <2>3, <2>4 DEF RunContract
<1>3. CASE Finish
  <2>1. run' = "ok" /\ UNCHANGED <<gitlink, objects>>
    BY <1>3 DEF Finish, EndRun, env
  <2>2. \A n \in Wanted(gitlink) :
          n \in Names /\ gitlink[n] \in Shas /\ tree[n] = gitlink[n]
    BY <1>0, <1>3, FinishMatches
       DEF Wanted, Listed, TypeOK, Gitlinks, Abs!Matches, Abs!Wanted, Abs!Listed
  <2>3. \A n \in Wanted(gitlink) : gitlink[n] \in objects[n]
    BY <2>2 DEF Kept
  <2> QED
    BY <2>1, <2>3 DEF RunContract
<1>4. CASE KillInUpdate
  <2>1. modules[i].name \in Names
    BY <1>0, <1>4, LoopIndex, ModuleTypes DEF KillInUpdate
  <2>2. \A n \in Names : objects[n] \subseteq objects'[n]
    BY <1>0, <1>4, <2>1 DEF KillInUpdate, TypeOK
  <2>3. run' = "killed"
    BY <1>4 DEF KillInUpdate, EndRun
  <2> QED
    BY <2>2, <2>3 DEF RunContract
<1>5. CASE \E G \in SUBSET Releases : FetchModules(G)
  <2>1. run # "running" /\ UNCHANGED run
    BY <1>0, <1>5 DEF FetchModules, locals, RunMatchesPc
  <2>2. \A n \in Names : objects[n] \subseteq objects'[n]
    BY <1>0, <1>5 DEF FetchModules, TypeOK
  <2> QED
    BY <2>1, <2>2 DEF RunContract
<1>6. CASE \/ Checkout \/ (\E f \in BOOLEAN : Begin(f))
           \/ (\E n \in Names : Remove(n))
  <2>1. run # "running" /\ UNCHANGED objects
    BY <1>0, <1>6 DEF Checkout, Begin, Remove, RunMatchesPc, env
  <2> QED
    BY <2>1 DEF RunContract
<1>7. CASE Kill \/ KillInStash
  <2>1. run' = "killed" /\ UNCHANGED objects
    BY <1>7 DEF Kill, KillInStash, EndRun, env
  <2> QED
    BY <2>1 DEF RunContract
<1>8. CASE \/ Recover \/ Expose \/ HideSmaller \/ NextModule \/ HideRest
           \/ Flip \/ UNCHANGED vars
  <2>1. UNCHANGED <<run, fetch, objects>>
    BY <1>8
       DEF Recover, Expose, HideSmaller, NextModule, HideRest, Flip, vars, env,
           locals
  <2> QED
    BY <2>1 DEF RunContract
<1> QED
  BY <1>1, <1>2, <1>3, <1>4, <1>5, <1>6, <1>7, <1>8 DEF Next, ToggleModules

\* Only Update may query the network.
LEMMA QueriedGrows ==
  ASSUME Inv, [Next]_vars, queried' # queried, NEW n \in queried' \ queried
  PROVE  Update /\ n = modules[i].name /\ modules[i].status # "UpToDate"
         /\ MayQuery(modules[i])
<1>1. Update
  BY DEF Next, ToggleModules, Recover, Expose, UpdateFails, HideSmaller,
         NextModule, HideRest, Finish, Begin, Kill, KillInUpdate, KillInStash,
         Checkout, Flip, FetchModules, Remove, EndRun, vars, locals
<1> QED
  BY <1>1 DEF Update

\* NetworkOnlyForMissing: with fetch off, update (gitnim.nim:261-268) may
\* query the network only for a module that is not populated.
THEOREM NetworkOnlyForMissingAlways == Spec => NetworkOnlyForMissing
<1>1. Inv /\ [Next]_vars =>
        [~fetch => \A n \in queried' \ queried : tree[n] \notin Shas]_vars
  <2> SUFFICES ASSUME Inv, [Next]_vars, ~fetch, NEW n \in queried' \ queried
               PROVE  tree[n] \notin Shas
    OBVIOUS
  <2>1. Update /\ n = modules[i].name /\ MayQuery(modules[i])
    BY QueriedGrows
  <2>2. CASE modules[i].status = "Missing"
    <3>1. i \in DOMAIN modules
      BY <2>1, LoopIndex DEF Update, Inv
    <3>2. ~Handled(i) /\ Merging
      BY <2>1 DEF Update, Handled, Merging, Inv, TypeOK
    <3>3. StatusOf(gitlink, tree, n) = "Missing"
      BY <2>1, <2>2, <3>1, <3>2 DEF Inv, StatusesCurrent
    <3> QED
      BY <3>3 DEF StatusOf
  <2>3. CASE modules[i].status # "Missing"
    BY <2>1, <2>3 DEF MayQuery, UpdateFetch
  <2> QED
    BY <2>2, <2>3
<1> QED
  BY <1>1, SpecInv, PTL DEF Spec, NetworkOnlyForMissing

\* The first of stashInAttic's steps needs a populated directory to be exposed;
\* the other steps move a copy or make one.
LEMMA StashKeepsCopy ==
  ASSUME Inv, Stashing, StashInAttic(Head(exposed)),
         NEW m \in Names, Populated(m)
  PROVE  Populated(m)'
<1> DEFINE n == Head(exposed)
<1>1. /\ TypeOK
      /\ n \in Names
      /\ attic[n] \in Shas => tree[n] \in Shas
  BY HeadUnwanted DEF Inv
<1> HIDE DEF n
<1>2. CASE RemoveFromAttic(n)
  BY <1>1, <1>2 DEF RemoveFromAttic, Populated, TypeOK
<1>3. CASE MoveToAttic(n)
  BY <1>1, <1>3, DistTreeAssumption DEF MoveToAttic, Populated, TypeOK
<1> QED
  BY <1>2, <1>3 DEF StashInAttic, n

\* CopySurvives: no step of toggleModules (gitnim.nim:270-316) leaves a module
\* without a working copy, neither exposed nor in the attic.
THEOREM CopySurvivesAlways == Spec => CopySurvives
<1>1. Inv /\ [Next]_vars =>
        [run = "running" =>
           \A n \in Names : Populated(n) => Populated(n)']_vars
  <2> SUFFICES ASSUME Inv, [Next]_vars, run = "running",
                      NEW m \in Names, Populated(m)
               PROVE  Populated(m)'
    OBVIOUS
  <2>1. TypeOK /\ pc # "idle"
    BY DEF Inv, RunMatchesPc
  <2>2. CASE Recover
    <3>1. modules[i].name \in Names
      BY <2>1, <2>2, LoopIndex, ModuleTypes DEF Recover
    <3> QED
      BY <2>1, <2>2, <3>1, DistTreeAssumption
         DEF Recover, FetchFromAttic, Populated, TypeOK
  <2>3. CASE Update
    <3>1. modules[i].name \in Names /\ gitlink[modules[i].name] \in Shas
      BY <2>1, <2>3, LoopIndex, ModuleTypes, WantedCommit DEF Update, Inv
    <3> QED
      BY <2>1, <2>3, <3>1 DEF Update, Populated, TypeOK
  <2>4. CASE HideSmaller
    BY <2>4, StashKeepsCopy DEF HideSmaller, Stashing
  <2>5. CASE HideRest
    BY <2>5, StashKeepsCopy DEF HideRest, Stashing
  <2>6. CASE KillInUpdate
    <3>1. modules[i].name \in Names
      BY <2>1, <2>6, LoopIndex, ModuleTypes DEF KillInUpdate
    <3> QED
      BY <2>1, <2>6, <3>1 DEF KillInUpdate, Populated, TypeOK
  <2>7. CASE KillInStash
    <3>1. /\ Head(exposed) \in Names
          /\ attic[Head(exposed)] \in Shas => tree[Head(exposed)] \in Shas
      BY <2>7, HeadUnwanted DEF KillInStash
    <3> QED
      BY <2>1, <2>7, <3>1 DEF KillInStash, Populated, TypeOK
  <2>8. CASE Expose \/ UpdateFails \/ NextModule \/ Finish \/ Kill \/ Flip
             \/ (\E G \in SUBSET Releases : FetchModules(G)) \/ UNCHANGED vars
    <3>1. UNCHANGED <<tree, attic>>
      BY <2>8
         DEF Expose, UpdateFails, NextModule, Finish, Kill, Flip, FetchModules,
             vars, env
    <3> QED
      BY <3>1 DEF Populated
  <2> QED
    BY <2>1, <2>2, <2>3, <2>4, <2>5, <2>6, <2>7, <2>8
       DEF Next, ToggleModules, Begin, Checkout, Remove
<1> QED
  BY <1>1, SpecInv, PTL DEF Spec, CopySurvives

-----------------------------------------------------------------------------
(* Refinement. *)

LEMMA InitImplements == Init => Abs!Init
  BY DistTreeAssumption
     DEF Init, Abs!Init, Abs!Cloned, Cloned

LEMMA StashImplements ==
  ASSUME Inv, Stashing, StashInAttic(Head(exposed)), UNCHANGED <<gitlink, run>>
  PROVE  Abs!Next
<1> DEFINE n == Head(exposed)
<1>1. /\ n \in Names
      /\ n \notin Abs!Wanted(gitlink)
      /\ tree[n] # Absent
      /\ run = "running"
  BY HeadUnwanted
     DEF Wanted, Listed, Abs!Wanted, Abs!Listed, Inv, RunMatchesPc, Merging
<1> HIDE DEF n
<1>2. CASE RemoveFromAttic(n)
  <2>1. Abs!Drop(n)
    BY <1>1, <1>2 DEF RemoveFromAttic, Abs!Drop
  <2> QED
    BY <1>1, <2>1 DEF Abs!Next
<1>3. CASE MoveToAttic(n)
  <2>1. Abs!Hide(n)
    BY <1>1, <1>3 DEF MoveToAttic, Abs!Hide
  <2> QED
    BY <1>1, <2>1 DEF Abs!Next
<1> QED
  BY <1>2, <1>3 DEF StashInAttic, n

\* The module a loop is at is wanted in the abstract specification too.
LEMMA ModuleImplements ==
  ASSUME Inv, pc # "idle", i <= Len(modules)
  PROVE  /\ modules[i].name \in Names
         /\ modules[i].name \in Abs!Wanted(gitlink)
         /\ run = "running"
<1>1. i \in DOMAIN modules /\ TypeOK /\ ListsWanted
  BY LoopIndex DEF Inv
<1> QED
  BY <1>1, ModuleTypes, WantedCommit
     DEF Wanted, Listed, Abs!Wanted, Abs!Listed, Inv, RunMatchesPc

\* Every step of toggleModules is a step of Exposure or changes nothing there.
LEMMA NextImplements == Inv /\ [Next]_vars => [Abs!Next]_(Abs!vars)
<1> SUFFICES ASSUME Inv, [Next]_vars
             PROVE  Abs!Next \/ UNCHANGED <<gitlink, tree, attic, run>>
  BY DEF Abs!vars
<1>1. CASE Recover
  <2> DEFINE n == modules[i].name
  <2>1. n \in Names /\ n \in Abs!Wanted(gitlink) /\ run = "running"
    BY <1>1, ModuleImplements DEF Recover
  <2>2. CASE tree[n] = Absent /\ attic[n] # Absent
    <3>1. Abs!Recover(n)
      BY <1>1, <2>1, <2>2 DEF Recover, FetchFromAttic, Abs!Recover
    <3> QED
      BY <2>1, <3>1 DEF Abs!Next
  <2>3. CASE ~(tree[n] = Absent /\ attic[n] # Absent)
    BY <1>1, <2>3 DEF Recover, FetchFromAttic
  <2> QED
    BY <2>2, <2>3
<1>2. CASE Update
  <2> DEFINE n == modules[i].name
  <2>1. n \in Names /\ n \in Abs!Wanted(gitlink) /\ run = "running"
    BY <1>2, ModuleImplements DEF Update
  <2>2. CASE modules[i].status = "UpToDate"
    BY <1>2, <2>2 DEF Update
  <2>3. CASE modules[i].status # "UpToDate"
    <3>1. Abs!Update(n)
      BY <1>2, <2>1, <2>3 DEF Update, Abs!Update
    <3> QED
      BY <2>1, <3>1 DEF Abs!Next
  <2> QED
    BY <2>2, <2>3
<1>3. CASE HideSmaller
  BY <1>3, StashImplements DEF HideSmaller, Stashing
<1>4. CASE HideRest
  BY <1>4, StashImplements DEF HideRest, Stashing
<1>5. CASE Finish
  <2>1. Abs!Finish
    BY <1>5, FinishMatches
       DEF Finish, EndRun, env, Abs!Finish, Inv, RunMatchesPc
  <2> QED
    BY <2>1 DEF Abs!Next
<1>6. CASE UpdateFails \/ Kill
  <2>1. Abs!Abort
    BY <1>6
       DEF UpdateFails, Kill, EndRun, env, Abs!Abort, Inv, RunMatchesPc
  <2> QED
    BY <2>1 DEF Abs!Next
<1>7. CASE KillInUpdate
  <2>1. modules[i].name \in Abs!Wanted(gitlink) /\ run = "running"
    BY <1>7, ModuleImplements DEF KillInUpdate
  <2>2. Abs!Abort
    BY <1>7, <2>1 DEF KillInUpdate, EndRun, Abs!Abort
  <2> QED
    BY <2>2 DEF Abs!Next
<1>8. CASE KillInStash
  <2>1. /\ Head(exposed) \in Names
        /\ Head(exposed) \notin Abs!Wanted(gitlink)
        /\ tree[Head(exposed)] # Absent
        /\ run = "running"
    BY <1>8, HeadUnwanted
       DEF KillInStash, Wanted, Listed, Abs!Wanted, Abs!Listed, Inv,
           RunMatchesPc, Merging
  <2>2. Abs!Abort
    BY <1>8, <2>1 DEF KillInStash, EndRun, Abs!Abort
  <2> QED
    BY <2>2 DEF Abs!Next
<1>9. CASE \E f \in BOOLEAN : Begin(f)
  <2>1. Abs!Begin
    BY <1>9 DEF Begin, env, Abs!Begin, Inv, RunMatchesPc
  <2> QED
    BY <2>1 DEF Abs!Next
<1>10. CASE Checkout
  <2>1. Abs!Checkout
    BY <1>10
       DEF Checkout, Abs!Checkout, CheckedOut, Abs!CheckedOut, Inv,
           RunMatchesPc
  <2> QED
    BY <2>1 DEF Abs!Next
<1>11. CASE \E n \in Names : Remove(n)
  <2>1. PICK n \in Names : Remove(n)
    BY <1>11
  <2>2. Abs!Remove(n)
    BY <2>1 DEF Remove, Abs!Remove, Inv, RunMatchesPc
  <2> QED
    BY <2>2 DEF Abs!Next
<1>12. CASE \/ Expose \/ NextModule \/ Flip \/ UNCHANGED vars
            \/ \E G \in SUBSET Releases : FetchModules(G)
  BY <1>12 DEF Expose, NextModule, Flip, FetchModules, vars, env, locals
<1> QED
  BY <1>1, <1>2, <1>3, <1>4, <1>5, <1>6, <1>7, <1>8, <1>9, <1>10, <1>11,
     <1>12 DEF Next, ToggleModules

\* ImplementsExposure: the sorted merge of gitnim.nim:294-316 does what the
\* order-free specification promises, whatever it is interrupted by.
THEOREM Implements == Spec => ImplementsExposure
  BY InitImplements, NextImplements, SpecInv, PTL
     DEF Spec, ImplementsExposure, Abs!Spec
=============================================================================
