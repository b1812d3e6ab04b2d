# A verification development for gitnim

`git nim` is a git subcommand (`gitnim/gitnim.nim`, 557 lines, with the logger
`gitnim/cutelog.nim`) that manages an installation of Nim: the compiler is a git
repository with a branch or tag for each release, and its submodule `dist/` is
the *distribution*, a repository whose branches list the modules (submodules)
that go with a release. `git nim` refreshes both; `git nim REF` switches both.

The rest of the repository is what such an installation contains: Nim 2.0 itself
(compiler, runtime, library, tools), which is maintained upstream. One program
of it is small, concurrent and shipped to every reader of the documentation:
`tools/dochack`, the script of the generated HTML pages, with its search, its
theme and its second table of contents. The repository holds both the Nim
sources and the JavaScript they were compiled to, `tools/dochack/dochack.js`
(1609 lines; `doc/html/dochack.js` and `doc/html/compiler/dochack.js` are the same
file), with the checks the compiler put in. The second half of this development
is about that program. The compiler, the library and the other tools are not
modelled.

This directory holds TLA+ specifications of the program, the TLC runs that check
them on small instances, and TLAPS proofs of their theorems for all instances.

## Inventory

### The parts of git nim

| part | state | operations | modelled by |
|---|---|---|---|
| toggleModules (lines 181-316) | directories of `dist/` and `dist/.attic/`; its local list of modules, deque of exposed directories, `dirty` | recover from the attic, list again, update a module, hide a directory | `Toggle`, `Exposure`, `DistTree`; several runs at once: `TwoRuns` |
| the command: `refresh`, `switch`, `checkoutDistribution`, `switchDistribution`, `setupDistribution`, `currentBranch` (318-484), main (519-557) | compiler's checked-out ref; `dist/`'s HEAD, local and remote-tracking branches; the branch wanted | fetch, set up, find the branch, checkout, fetch, pull, checkout, toggle | `Gitnim` |
| `install` (486-517) | the file the program runs from, the one next to the compiler; the processes that execute them | compare the two, move the program (rename, or copy and remove), start it in its new place | `Install` |
| running programs: `run`, `git`, `crash`, `withinDirectory` (68-179) | the working directory, color.ui | run a command; quit if it fails | the failing disjuncts of `Gitnim` and `Toggle`; the rest is not modelled |
| `moveDir`, `removeDir`, `moveFile`, `sameFile` of the library, as gitnim uses them | the file system | rename, copy, remove, step by step | the steps of `TwoRuns` and `Install` |
| `nim`, `currentNimVersion` (349-372) | none | read `nim --version` | the constant `VersionOf` |
| `repointDistribution`, `maybeStripColor` | none | no caller | not modelled |
| URLs guessed at compile time (1-63) | none | a function of a string | not modelled |
| `cutelog.nim` | none | formats messages | not modelled |

### The parts of dochack

Lines are those of `tools/dochack/dochack.js`.

| part | state | operations | modelled by |
|---|---|---|---|
| search (1186-1535): `search`, its `wrapper`, `loadIndex`, `dosearch` | the box, `oldtoc`, `db`, `loadIndexFut`, the timer, the element `tocRoot` | a key, the timer, an answer of the network | `DocSearch`; its promise: `SearchPage` |
| `fuzzyMatch` (1246-1389) | a score, two positions, what the last character was | one turn of its loop | `FuzzyMatch` |
| table of contents by type (650-1161): `groupBy`, `toToc`, `extractItems`, `buildToc`, `mergeTocs`, `toHtml` | `alternative`, the marks on the page's nodes | choose a grouping | `Toc`; what it shares with the search: `DocSearch` |
| theme (426-431, 626, 1592-1601) | `localStorage`, `data-theme`, the select, in every open page | read, set, choose | `Theme` |
| listings (617-648, 1537-1583): `updatePreTags`, `onDOMLoaded`, `copyToClipboard` | the listeners of the page, the handlers of its elements, the clipboard | load, click, copy, hover | `PageLoad` |
| runtime (58-597, 1163-1184): checks, defects, strings, slices, `nimCopy` | `excHandler`, `lastJSError`; memory | raise, convert, slice, copy | `NimRuntime`, `NimStrings`, `NimDefects`, `NimCopy` |
| `docgen` of the compiler, which writes the pages | | | not modelled; `MCToc` has pages of the shapes it has written |

### How they interact

main calls `refresh` or `switch`; each ends, through `switchDistribution`, in
`toggleModules`. They call git as a child process and wait for it, so within a
run there is one thread of control. What is shared, and with whom:

* the two working trees, with the user, with git (which puts placeholder
  directories into `dist/` at every checkout) and with earlier runs that were
  killed or quit half-way;
* the remote repositories, with whoever pushes to them;
* the network, which comes and goes between any two commands.

Several `git nim` may run at once: nothing locks `dist/`, the attic, or the file
the program is in, and `install` itself leaves a parent that waits for its child.

`git()` quits the whole program when a command fails, `run()` returns a result
that the caller may ignore; which of the two a proc uses decides what a run
leaves behind. Nothing is rolled back.

dochack's pages are threads of their own that share `localStorage`. Within a page
everything is a handler that runs to its end: keys, timers, answers of the
network and of the clipboard, the choices of the two selects, in any order.
`wrapper` runs in the timer and as the continuation of the load; search and
groupBy replace the same element; the two listeners for the page's end must run
in the order they were registered.

### What is hard about it

* A run is a long sequence of commands on three repositories, any of which can
  fail, between any two of which the program can be killed or the remote can
  change, and each of which starts from whatever the last run left.
* The merge in `toggleModules` walks two sorted lists at once while it moves the
  directories one of them lists.
* Statuses are read, then directories are moved, then the statuses are used.
* `stashInAttic` deletes before it moves.
* `checkoutDistribution` pulls *the branch that is checked out*, which need not
  be the one that is wanted.
* Two runs test, remove and rename the same directories without a lock, and two
  commands move and execute the same file.
* A branch is named by what `git branch -v` prints, where a detached HEAD has a
  name too, and is found by its commit, which two branches can share.

* In the page an edit, the timer and the load race; results of an older text must
  not win, and an element saved in one grouping is put back in another.
* `fuzzyMatch` is greedy, starts its pattern again at a colon, and computes in
  checked ints with reads next to the current character.
* Strings are bytes on one side and UTF-16 on the other; the runtime decodes by
  way of an exception that is caught, and counts handlers by hand.

What makes the parts correct: toggleModules must end with exactly the listed
modules exposed, at the listed commits, must not lose the only copy of one, and
must not use the network where it is told not to. The command must leave
compiler, branch and modules in agreement, fresh after a refresh, must let a
release that was in use be used again offline, and must be able to repair what
it left behind. Commands that run at once may fail, but not all of them, not
silently, and not at the cost of a listed module or of the program itself. The
page must show the best results for what is in the box, miss no match, keep
every entry of its contents and the reader's choice of a theme; the runtime must
raise exactly when it has to and mean by an assignment what Nim means.

`PROJECT.json` lists the hazards line by line with the properties that cover
them, and for those that no property covers the reason.

## The modules

### DistTree

The vocabulary: names, contents of a directory, listings, and what git does to
the working tree. No variables.

* A name is a natural number: its rank in the string order that `sort` uses for
  both lists. `ShortNames` are the ones `parseModules` drops because their line
  in the output of `git submodule` is shorter than 44 characters.
* A directory is `Absent`, `Bare` (the empty placeholder), `Plain` (files without
  `.git`, what an interrupted `removeDir` leaves) or a commit.
* `CheckedOut` is what `git checkout` does to submodules' directories: it makes
  a placeholder for a new one and removes a dropped one only if it is empty.
  `StatusOf` is the first character of a line of `git submodule`. These, and
  the other definitions marked external in `PROJECT.json`, describe git; they
  were compared with git's behaviour on small repositories.

### Exposure: what toggleModules promises

No order, no local variables. A run may recover a wanted module from the attic,
bring a wanted one to its listed commit, drop the attic's copy of an unwanted
one *that is exposed*, hide an unwanted one; it may end well only when exactly
the wanted modules are exposed at their commits; it may be aborted at any time.
(`Abort` says what a kill inside `git submodule update` or inside `removeDir`
may leave.)

### Toggle: toggleModules in detail

One action per step that changes a directory or runs git:

| action | code |
|---|---|
| `Begin` | call; `parseModules` (270-279) |
| `Recover` | one iteration of the attic loop (280-284) |
| `Expose` | list again if `dirty`; `exposedModules` (285-291) |
| `Update`, `UpdateFails` | one iteration of the loop over the modules, up to its `while` (294-301) and `update` (261-268) |
| `HideSmaller`, `NextModule` | the `while` loop (303-311) |
| `HideRest`, `Finish` | the last loop (312-316) |
| `Kill`, `KillInUpdate`, `KillInStash` | the program is killed between steps, in a clone, in `removeDir` |
| `Checkout`, `Remove`, `FetchModules`, `Flip` | the environment |

`stashInAttic` is two steps, since it deletes and then moves. `queried` is a
history variable: the modules for which git was given leave to use the network.

### Gitnim: the whole command

`T == INSTANCE Toggle` over the same variables, so that toggleModules is not
abstracted away: it runs as the last part of a run, with its own interleavings.
Each action is the handler of one git command, with every effect the code gives
it before the next command:

| action | code |
|---|---|
| `Refresh`, `FetchAll` | `git nim`; `git fetch --all` (464-467) |
| `SetupDistribution` | `setupDistribution` (374-389) |
| `FindBranch` | `currentBranch`, `mainBranches`, `currentNimVersion` (470-477) |
| `Refetch` | `run("git", "fetch", ...)`, whose failure is ignored (478-479) |
| `Switch(r)` | `git nim r`; the compiler's checkout (448-458) |
| `CheckoutDistribution` | the first checkout; whether to fetch (415-420) |
| `FetchDistribution` | the fetch and `dumpLog` (405-425) |
| `PullFetches`, `PullRebases` | the pull, in its two halves, so that a push can fall between (426-427) |
| `CheckoutAgain` | the second checkout (428-430) |
| `BeginToggle`, `Toggling` | `toggleModules` (432-446, 484) |
| `Kill`, `Push`, `Flip`, `UserCheckout`, `UserRemoves` | the environment |

A branch is a sequence of commits and a ref an index into it, so "newer" is `>`.
History only grows: nobody commits in `dist/`, force-pushes or deletes a branch.
`floor` (the remote when the run began), `quiet` (no outage since) and `synced`
(the commits at which a run ended well) are history variables.

### TwoRuns: toggleModules without a lock

The same loops for any number of `Runs` over one `tree` and one `attic`. Toggle
merges a test with the step it guards; here every system call that another run
can get between is an action: the test of `stashInAttic` (`Stash`), the
removal's files, subdirectories and directory (`Put`, `Clear`, `Empty`,
`EmptyRaises`, `Rmdir`), the rename (`MoveToAttic`), the test and the rename of
`fetchFromAttic` (`Recover`, `Restore`). `CanRename` is rename(2) on directories;
what fails because of another run raises an `OSError` that nothing catches
(`"raised"`). Whether a git command succeeds, given the network and git's own
locks, is a choice here; Toggle says when one run's succeeds. The runs are for
one branch: another one is checked out, or a directory deleted by the user, only
while no run is under way.

Two properties of one run, `CopySurvives` and `NetworkOnlyForMissing`, are *not*
properties of two: between the test of `stashInAttic` and its removal the other
run can move the exposed copy to the attic, where the removal then deletes it.
What remains is stated instead: the copies of *listed* modules survive
(`WantedSurvive`), and a run that has destroyed another copy does not return as
if nothing had happened (`LossIsReported`), its own move raises.

### Install

Two places, *outside* (where nimble or the user has put the program) and
*beside* (next to the compiler), each with a file: an inode, whether it has all
its bytes, whether it is executable. Commands execute inodes, with a parent
that waits. `entry` says how PATH leads to nim: not at all, by the real name, by
another name for it, or by a relative entry. `device` decides between rename and
copying; on `"readonly"` the source cannot be removed.

| action | code |
|---|---|
| `GetAppFilename`, `GoOn`, `SameFileRaises`, `Move` | the comparison of names and files (499-504) |
| `Rename` | `moveFile` by rename(2) (507) |
| `OpenSource`, `OpenDest`, `Write`, `SetFilePermissions`, `RemoveSource` | `moveFile` between file systems, each system call (library) |
| `StartProcess`, `RunMain` | the child that takes over, and the rest of the command |
| `Start`, `KillCommand`, `Build` | git executing the program, a signal, nimble |

A process executes an inode, not a name: a file that is executed cannot be
opened for writing, and one that is open for writing cannot be executed. The name
of a file that was removed while it is executed ends in " (deleted)", and in the
model the comparison never finds it in place (`"gone"`): the command goes on to move
it and fails. In the code one that was removed from beside nim compares equal to
itself (503) and goes on; the model is the harder of the two.
`MCTwoRuns` has both stages, `TwoRuns` and `Install`, of two commands.

### DocSearch and SearchPage

`SearchPage` is the promise: an edit the page was told of is answered by a best
list for the text (`BestFor`), or by the page itself when the box is empty, or
given up when there is no index. `DocSearch` is the code: `Key` (`search`),
`TimerFires` and `TextArrives` (both run `wrapper`), `ResponseArrives`,
`LoadFails`, `GroupBy`, and `EditWithoutKey`, an edit with the mouse, of which
`onkeyup` learns nothing. `timer` is the handle of the timer that runs; a key
clears it and starts another one, which has another handle (two are enough to tell
a timer from the one it replaces). Scores are a constant. `Promise` instantiates SearchPage
with the refinement mapping; `ImplementsSearchPage` is checked and proved.

### FuzzyMatch

One action for each branch of the loop's body, with the index checks and the
overflow checks the compiler put in. Characters are their codes, ints have the
width `MaxInt`.

### Toc, Theme, PageLoad

`Toc` has the page as a tree: a sequence of its nodes in document order, each with
its children and the last node below it. An entry that `toToc` makes is written as
the node of its heading and the node of its list, so that the entries of a page are
a finite set and `extractItems`, `uncovered` and `toHtml` are recursive functions on
them. There is one action per turn of `buildToc`'s loops, since those mark nodes
before they can raise. `Theme` has one process per tab: a choice in one tab can fall between
the read and the write of another. `PageLoad` has the listeners, the
handlers that are set and lost, and the clipboard, which answers later.

### NimRuntime, NimStrings, NimDefects, NimCopy

`NimRuntime` has the checks and what they raise. `NimStrings` is `cstrToNimstr`,
`toJSStr` with its try and its counter, the join in `loadIndex` and
`escapeCString`. `NimDefects` is one slice `s[a .. ^b]` and the message of the
defect it may raise. `NimCopy` is `nimCopy` over a memory of JavaScript objects, for
every type dochack.js has a value of and each kind it has a case for.

`MCPage` and `MCDochack` compose what runs in one page: the parts share no
variables, so a behaviour shows one of them (`aspect`, `procedure`) while the
others stay as they start, and their states add up instead of multiplying.

### What the definitions named as faults are

Beside some definitions stands a variant marked `Fault:`. It is what a plausible
mistake in those lines would make of the definition, and is used nowhere in the
specification. Putting it in the place of the definition must make TLC report the
property it is paired with in `PROJECT.json`; that is how each property is known
to depend on the code.

## The runs

| run | checks |
|---|---|
| `toggle_safety` | `TypeOK`, `DoneMatches`, `CopySurvives`, `NetworkOnlyForMissing`, `ImplementsExposure` |
| `toggle_liveness` | `Termination` of toggleModules, with a name that is too short |
| `command_safety` | `TypeOK`, `SyncedAgrees`, `RefreshIsFresh`, `SwitchBackWorks`, `RefreshHeals`, `RefreshKeepsBranch`, `Termination` of the command |
| `two_runs` | `MCTypeOK`, `DoneMatches`, `LossIsReported`, `OneGetsThrough`, `WantedSurvive` of TwoRuns; `ProgramSurvives`, `OneIsInstalled` of Install; `RunsEnd` of both |
| `page` | `TypeOK`, `ChoiceIsKept`, `SelectShowsTheme`, `ListingsRespond`, `SelectedWasCopied`, `ResultsAreForInput`, `PageMatchesGrouping`, `ImplementsSearchPage`, `EditsAreAnswered` |
| `procedures` | `TypeOK`, `DefectNeedsLength`, `MatchesAreFound`, `Progress`, `TextIsKept`, `DefectsAreReported`, `SlicesAreRight`, `CopiesAreRight`, `GroupingIsComplete`, `TypesHaveTheirRoutines` |
| `toggle_offline`, `toggle_attic`, `command_switch_result`, `command_detached`, `command_shared_commit`, `toc_details` | one property each, which TLC refutes |

What the passing runs show:

* **DoneMatches, ImplementsExposure.** From any tree that killed and failed
  runs, checkouts and deletions can leave, the merge ends right, and on the way
  never hides a wanted module or exposes an unwanted one.
* **CopySurvives.** `stashInAttic` removes a copy from the attic only while a
  populated one is exposed, so that not even a kill inside the removal loses a
  module. This rests on an invariant about the whole history (see the proofs),
  not on anything `stashInAttic` tests.
* **NetworkOnlyForMissing.** With fetch off only an unpopulated module may use
  the network: the list is made again when the attic gave something back.
* **SyncedAgrees, RefreshIsFresh.** The repeated fetching and the second
  checkout of `checkoutDistribution` are enough, wherever a push falls.
* **SwitchBackWorks.** The promise of the top README that a release can be
  switched to without the network holds for every release that was in use.
* **RefreshHeals.** One refresh without an outage ends well whatever state the
  last runs left, except in the states it names: `dist/` was missing, HEAD is
  detached where no branch is, or the remote lacks the branch.
* **RefreshKeepsBranch.** A refresh stays on the branch it finds, here with
  branches that never share a commit.

* **two_runs.** Runs that interleave without a lock, fail, raise and are killed:
  one that returns has exposed exactly the listed modules and the other leaves
  it so; no listed module loses its last copy; a run that deleted the last copy
  of an unlisted one raises; the two never both raise. Commands that move the
  same program: there is always one that can be executed, and one of the two
  commands gets through, with the exceptions below.
* **ImplementsSearchPage, ResultsAreForInput, EditsAreAnswered.** However keys,
  the timer and the load interleave, the page answers with the best results for
  what is in the box, and every edit is answered unless the text is changed again,
  there is no index, or, from some moment on, keys follow each other within 400 ms
  for ever (`HeldOff`): every key, an arrow key too, restarts the timer, and without
  that exception TLC shows an edit made after the index was loaded that is never
  answered.
* **PageMatchesGrouping.** Search and groupBy agree about the element they both
  replace, except that the box, when it is emptied, puts back the element of the
  grouping at the first search.
* **ChoiceIsKept, SelectShowsTheme.** A choice of a theme is lost, or a select
  wrong, only if another tab was between its read and its write.
* **ListingsRespond, SelectedWasCopied.** The order of the two listeners keeps
  every handler; a button marks only a copy that succeeded.
* **MatchesAreFound, DefectNeedsLength, Progress.** The greedy scan loses no
  match that is there, never reads outside its strings, and overflows only for
  entries longer than about the square root of the largest int.
* **TextIsKept, DefectsAreReported, SlicesAreRight, CopiesAreRight.** Addresses
  survive the way through bytes, with runs across the joint of two; the handler
  counter comes back to 0 whatever throws; a slice is the part asked for, or an
  error with the true index; nimCopy copies and never shares.
* **GroupingIsComplete, TypesHaveTheirRoutines.** Grouping keeps every entry once
  and puts every routine below its type, or raises on exactly the pages with
  entries it cannot read.

What the refuted ones show (the quotations are in `PROJECT.json`, "findings"):

* `FailsOnlyOffline`: a switch uses `--no-fetch` for an out-of-date module, and
  quits half-way if the commit is not at hand, even with the network up.
* `WantedLeaveAttic`: a module in the attic is not recovered when git has already
  put a placeholder in its place, which it always does at a checkout that lists
  the module again; it is cloned again instead.
* `SwitchSucceeds`: `switch` returns true although the distribution was not
  switched.
* `RefreshUpdates`: in a fresh clone the distribution has a detached HEAD, and
  refresh never populates it.
* `RefreshKeepsBranch`, where two branches are at one commit: refresh moves the
  distribution to the one that is last in refname order.
* `TypesAreGroups`: the pages of the present template keep their sections in
  `DETAILS` elements, which `toToc` takes for leaves; "Group by: Type" groups
  nothing there.

Other things the models made visible, which no line of the repository denies:

* Where the program's old file cannot be removed, `moveFile` takes the copy back and
  the command fails. A child that another command has started from that copy finds
  no program beside it, so it moves itself, onto itself once the next command has
  put one there, and starts again. It ends unless other commands go on doing this
  for ever, which `RunsEnd` excepts (`TakesBack`); without the exception TLC shows
  the loop.
* With a relative entry for nim in PATH `install` computes the new place from
  within the place itself, so that every `git nim` warns and quits with 1, also
  one that runs from where it belongs (500-511).
* Where the source cannot be removed, `moveFile` removes the copy, and with it
  the program that was installed before.
* Between file systems a command that is killed while it copies what another one
  has moved or is moving can lose the program (`torn`); a kill after the copy was
  truncated leaves a broken file that git may find first.
* `fuzzyMatch` does not skip an underscore, space or dot at the end of the
  pattern, so that such a pattern never ends a word; the penalty for leading
  characters is given four times for a maximum of 3; the bonus for a leading
  character is never given. (`fuzzysearch.nim:53`, `:12`, `:111`)
* `escapeCString` pushes UTF-16 code units into a string of bytes: tags that are
  not ASCII are mangled (`dochack.nim:244`). `TextIsKept` is therefore about ASCII
  tags.

### Bounds

* Toggle: three names, two commits per module, three listings (in the safety
  runs), chosen so that a listing drops a module, adds one, and lists another commit,
  at each place of the order: a directory can stand before, between and after the listed ones.
  The merge looks at one directory and one module at a time, so a fourth name
  adds no new relation between the two; the proofs have no such bound.
* Gitnim: two modules; two releases and main; branch 2 does not exist at first
  and is pushed twice, so that a run can meet no branch, a new one, and one that
  moves under it. Listings of the releases differ in both modules. One compiler
  ref is known from the start and one only after `fetch --all`.
* TwoRuns: two runs, two names, three listings (both modules listed, one at
  another commit, none), so that both modules can be hidden or recovered by one
  run while the other handles the other one. The proofs have no such bound.
* Install: two commands; six inodes are as many as can be named or executed at
  once, so the bound excludes nothing. nimble builds only while no command runs.
* DocSearch: three texts, an index of five entries of which one is excluded, at
  most 2 results instead of 29, so that a list is cut, full, short or empty and
  a tie falls across the cut.
* Theme: three tabs, so that one reads, one writes and one loads; two themes.
  PageLoad: three listings, two of them with dots; at most `MaxCopies` = 2
  requests to the clipboard unanswered at a time.
* FuzzyMatch: patterns of up to 3 and entries of up to 5 characters over an
  alphabet with one character of each kind the code tells apart; `MaxInt` is 200,
  so that one run of 9 equal characters overflows.
* NimStrings: characters on both sides of each length of UTF-8 and of the
  surrogates, whole and alone; the index's file name is 2 characters instead of 13.
  NimDefects: strings of 0, 1, 3 and 11 bytes and ends inside, beside and far
  outside. NimCopy: seven types, room for two or three assignments (`MaxHeap`),
  strings of up to 2 characters (`MaxLen`).
* Toc: 87 pages, among them every way to attach four routines to two types or
  to one the page does not list.
* Runs of the command are not bounded in number, nor are outages, kills and user actions: the
  state spaces are finite because refs stop at the end of the history. No action
  has a guard that serves as a bound other than `Push`, which stops there, and
  those named above (`MaxCopies`, `MaxHeap`, `MaxLen`).
* No symmetry is used: names and branches are ordered, commits are told apart by
  the listings, and the runs that check liveness do not allow it.

### Fairness

gitnim: weak fairness of the program's own steps only, `ToggleModules` in Toggle,
`Program` in Gitnim, the steps of each run by itself in TwoRuns and Install. A run
is sequential and waits for nothing but git, system calls and its own child, so
it justifies this as long as those return. Nothing is assumed of the network,
of pushes, of the user, or of the other run; a run that is killed has ended.

dochack: weak fairness of `TimerFires` for each handle of a timer, since a browser
runs a timer unless it is cleared: one that stays the same fires in the end, while
one that a key clears (1528-1532) is owed nothing, nor is the next as long as keys
go on clearing it. And weak fairness of the load's next step, whichever it is, since
a fetch is settled one way or the other. The reader owes nothing: keys and choices
have no fairness, and neither has their absence.

## The proofs

tlapm checks every theorem below, for every value of the constants that
satisfies the assumptions of its modules. For gitnim: `DistTreeAssumption` (names
are a finite set of naturals; a listing gives each name a commit or nothing; the
marks for contents are distinct and no commits) and, for the command,
`GitnimAssumption` (branches are naturals and every non-empty set of them has a
last one; what is published is a prefix of the history; each release pins a
published commit; the name of a detached HEAD is no branch's) and, for install,
`InstallAssumption` (there is a command and there are two inodes, and neither an inode
nor a file is `None`) and `TwoRunsAssumption` (there is a run). For dochack: the
index has no entry twice and scores are naturals (`SearchAssumption`), strings are
shorter than the largest int (`FuzzyAssumption`), the default is a theme
(`ThemeAssumption`), dots stand in listings (`PageAssumption`), code units are
below 65536 (`StringsAssumption`), bytes below 256, and the length of a string and
the two ends of a slice fit into ints (`DefectsAssumption`), a page is a tree whose
nodes are numbered in document order and whose first is the list of contents
(`PagesAssumption`), and texts are compared by a natural number (`RankAssumption`).

### ToggleProofs

The theorems `TypeCorrect`, `DoneMatchesAlways`, `NetworkOnlyForMissingAlways`,
`CopySurvivesAlways` and `Implements` (Toggle implements Exposure).

None of the properties is inductive by itself: that the tree matches at the end
follows only from what has been done to each module and each directory so far.
The invariant `Inv` says, for the point the loops have reached:

* `ListsWanted`, `StatusesCurrent`: the list is the wanted modules in order, and
  the statuses still to be used are what git would say now;
* `HandledMatch`: modules behind the loop are at their commits;
* `ExposedAhead`, `Accounted`: the deque is ascending and ahead of the loop, and
  every directory is either in it or a module behind the loop. This is the
  merge's invariant; at the end the deque is empty, whence `DoneMatches`;
* `Copies`: the part about *all* earlier runs. An empty directory is a listed
  submodule's (so it is never one that gets hidden), a `Plain` one has no copy in
  the attic, and names too short are never populated. With it `CopySurvives`
  follows: what a loop hides is populated if its copy in the attic is.

`NextInv` proves it inductive, one lemma per action. `Kept` adds that git has the
commit of every populated module, and `RunContract` collects what a caller may
rely on: commits are never lost, a run fails only for want of a commit, and not
when it may use a network that answers.

### GitnimProofs

First, that the command is a legal environment of toggleModules:
`ImplementsToggle` (`Spec => T!Spec`), so that the theorems of ToggleProofs hold
of the command. (`TP == INSTANCE ToggleProofs` has copies of Toggle's
definitions; `SameInit` and `SameNext` show that they are the same.)

Then `CommandTypeCorrect`, `SyncedAgreesAlways`, `RefreshIsFreshAlways`,
`SwitchBackWorksAlways` and `RefreshHealsAlways`, from the invariant `GInv`:

* `RefsOrdered`: local branch, remote-tracking branch, remote branch, history:
  each is behind the next, and `floor` is behind the remote;
* `HeadMatches`: the branch, the commit and the listing that are checked out;
* `RunAt`, `RefreshAt`, `SwitchAt`, `HealingAt`: what is known at each step of a
  run. The part that matters is `RefreshAt`: between the two checkouts the
  wanted branch is either checked out or does not exist locally, so that the pull
  in between cannot leave it behind, although it may pull another branch;
* `EndedWell`, `SyncedKept`: what is known after a run, and that git still has
  all that is listed at the commits in `synced`.

`RefreshKeepsBranchAlways` has a hypothesis, `BranchesApart`: no commit of a release's
branch is also one of a branch after it in refname order. Then `currentBranch`, which looks
for branches by their commit, finds the one that is checked out (`FoundIsHead`),
and what a refresh wants from then on is what it has (`WantsHead`). Without the hypothesis
the property is false: that is the run `command_shared_commit`. The instance of the
run `command_safety` satisfies it.

### TwoRunsProofs

`TypeCorrect`, `DoneMatchesAlways`, `LossIsReportedAlways`,
`WantedSurviveAlways` and `OneGetsThroughAlways`, for any number of runs. The argument is by rely and
guarantee. `RunInv` says what one run knows of the shared directories: the
conjuncts of Toggle's invariant that no other run can invalidate, and that a
module it has lost is the one it is about to move and is no longer exposed.
`Interferes` bounds what a step of another run may do to `dist/`: a wanted module
at its listed commit stays there, and an unwanted directory can only disappear.
Every step of a run keeps its own `RunInv`, stays within `Interferes`, and
`RunInv` survives whatever does. `CopiesOf`, about the directories of all runs
and all time, carries `WantedSurvive`, as `Copies` does in ToggleProofs.

`OneGetsThrough` is about all runs at once, and no run knows of the others that it is
in their way. `FitInv` says that one run is always `Fit`: all directories it still
has to hide are there, and the module it recovers is in the attic only. The step of another
run that makes it unfit moves or recovers a directory; but every run hides in
ascending order (`OrderInv`: of what a run has to hide, what is gone comes first),
so the run that moves a directory has all after it before it and is itself fit after
the move. `Yields` is what every step does to the order. Whoever raises was unfit
(`OvertakenUnfit`), or leaves another that stands at the same directory and is fit.

`StagesTyped` and `StagesSafe` carry the theorems of this module, about the runs and
about the move of the program, to `MCTwoRuns`, which runs the two one after the other.

Of the move, `ProgramSurvivesAlways`, `InstallTypeAlways` and `OneIsInstalledAlways`, for any number
of commands, inodes and kills.
`ProgramSurvives` says nothing of how far a move has come, so `IInv` adds, per kind of
file system:

* what is outside is a program (`OutsideWorks`); where it cannot be removed it stays
  (`SourceStays`); where one rename moves it nobody copies (`RenameMoves`);
* between file systems, `Copies`: all that write have opened the file that is
  beside, which is executable before any source is removed; and `Written`: a copy
  that is not whole either has a writer that was the last to truncate it, and so will
  make it whole, or was left behind while the source was there and nobody was
  past opening. A kill that is not `torn` leads from the first to the second.

For `OneIsInstalled`, `AbleInv` adds that some command is `Able`: what it executes still
has a name, and the name it found is still a file's. `Knows` says what each
command knows of the two places when it can go on, and `Apart` that what is copied is not
the copy. A step that takes a name away is a rename or a removal, and the command that makes it is able
afterwards; one that fails was not able, or leaves the one that writes.

### FuzzyMatchProofs

`FuzzyTypeCorrect`, `DefectNeedsLengthAlways`, `ProgressAlways` and
`MatchesAreFoundAlways`, for every pattern, entry and width of ints. The invariant bounds the score by the number
of characters read and the length of the run of matches, and says when the
character before the current one exists.

`MatchesAreFound` compares with all ways to find a part of the pattern in what has been
read, by counting: `Nth(P, i)` numbers the positions in `P`. `GreedyInv` says where the
heading ends and, with order-preserving embeddings in the place of counts, that places
for a prefix of the pattern have been read if and only if it is matched. A step that reads a character adds at most one place, and
the last place of a longer part can only be that one. `SelfInv` says of an entry that is
typed in full that as many significant characters of the pattern as of the entry are
behind, so that no point is lost.

### PageProofs

Of Theme, `ChoiceIsKeptAlways` and `SelectShowsThemeAlways` for any number of tabs
and themes: the invariant ties what a tab has read and not yet written to the store.
Of PageLoad,
`ListingsRespondAlways` and `SelectedWasCopiedAlways` for any listings: the
invariant `Stages` says for each stage of loading which listeners are left and
what the others have done.

Of DocSearch, `ResultsAreForInputAlways`, `PageMatchesGroupingAlways`, also that what wrapper
saved is never a list of results and that the index is loaded once. `DoSearchAnswers`
is about `dosearch` alone, for every index, score and maximum: sorting by rank and
cutting gives a best list, in the sense of SearchPage. With it `Implements` shows
that each turn of the event loop is a step of SearchPage or a stutter.

`MCPage` puts the three on one page whose handlers take turns. `PartsImplement` shows
that each part of it behaves as its own specification says, so `TypeCorrect`,
`PageIsSafe` and `PageImplements` state the results for the page as a whole.

### NimProofs

`SlicesAreRightAlways`, for every string of bytes and every two ends;
`DefectsAreReportedAlways` and `TextIsKeptAlways`, for every address and text.
`SliceTypeCorrect` and `StringsTypeCorrect`, the types: strings need not be well formed
there, so `EncodedUnits` and `DecodedUnits` say of every string of units, and of every
percent text, what the conversions return.

A slice is right by the invariant `SliceInv`: what has been copied is the part so far
(`CopiedRight`), and the copy is stuck exactly where the asked part leaves the string
(`PartsPass`, `StuckIsNoPart`, `FirstMissing`). That the message is true is a fact about decimal
numbers: reading the digits that `Dollar` writes gives the number back, for every
int (`DollarReads`). Both are recursive functions, so this is an induction. The
library's induction theorems have an operator as parameter and cannot be used; its theorem that a
well-founded relation has minimal elements is about sets and can. `Smallest` says
that a non-empty set of naturals has a least element, `SetInduction` that a set has all
naturals if it has each one whose predecessors it has, and `RecursionExists` and
`RecursionAgrees` that a recursive function that looks back is defined and satisfies its
equation.

`TextIsKept` is an induction of the same kind over well-formed strings (`Formed`): each but
the empty one begins with the one or two units of a code point (`Peel`), so that a set
of strings that is closed under one more code point has all of them
(`StringInduction`). `cstrToNimstr` and `decodeURIComponent` are recursive functions that
look ahead; `EncodedSolved` and `DecodedSolved` show that each has a value, `EncodedMore`,
`EncodedJoin` and `DecodedRest` how it goes on from one code point to the next. `BytesOf` has
the arithmetic of UTF-8. The invariant `TextInv` says that `toJSStr` was given the bytes of
one well-formed text, which for an address is what both parts are together (`BaseIs`, `FormedJoin`).
Between two runs the bytes ahead encode what the result still lacks. Inside a run the percent
text is that of the bytes passed, and the whole run is well formed, because what ends it is an
ASCII character (`RunOf`): so the decoding gives the run back (`RunDecodes`) and never throws.

### TocProofs

`TocSpec_GroupingIsComplete`, `TocSpec_TypesHaveTheirRoutines` and `TocSpec_TypeOK`, for
every page.

The first half is about the operators. A recursive function on the entries of a page
looks only at kids, and the kids of an entry lie strictly below it in document order,
so `SetInduction` over the number of nodes below shows that `ToToc`, `ExtractItems`,
`Uncovered`, `EntryToHtml` and `Leaves` have values that satisfy their equations.
`Nested` and `Listed` say that the kids of an entry are apart and in order, the LI that
is taken with the UL beside it included (`TakenWith`, `ListPieces`). From this follow:
what is collected under two headings is apart (`CollectedAre`), what is left after
the merge and what is shown of it is every entry that is not marked, once and in order
(`HtmlOrdered`), and `Parts` says for a flattened sequence which piece each element
is from. `Sorted` is a permutation in ascending order that exists for every finite
sequence.

The second half is the invariant. `TocInv` has what has been collected (`Collected`), where the
loops are (`Bounds`), that what they have passed was not missing (`Passed`), and what they
have built (`Built`): unless the page is `Troubled`, that is, one of the headings that the
loops will meet is missing, the marks are exactly the types taken and the routines placed so
far (`MarksOf`, `Placed`), and the new branch has a group for each of these types, with the
routines attached to it if no type of the same name came before (`GroupIs`, `Filling`).
The last conjunct is needed because a routine is marked by the first type of its name. Marks
that a raising call leaves are the reason for the exception: on a troubled page
nothing is known of them, but every later call raises as well, so nothing is ever shown. What is
shown is `Settled`: then `HtmlKeeps` has that no entry is lost or listed twice, and `HtmlGroups`
what stands below each type.

### Only model-checked

* Liveness: both `Termination`s, `RunsEnd`, `EditsAreAnswered`; ENABLED is out of the
  prover's reach.
* `NimCopy`, whose operators are recursive over types: no module that reaches a RECURSIVE
  operator can have a theorem. `MCDochack.TypeOK` is a property of such a module; all of
  its conjuncts but the one of `NimCopy` are proved (`FuzzyTypeCorrect`,
  `SliceTypeCorrect`, `StringsTypeCorrect`, `TocSpec_TypeOK`).

### Not modelled

* The working directory, and with it the error when the user's own directory is
  hidden (gitnim.nim:99); color settings; the output of the program.
* Two commands that switch to different branches at once, and a checkout or a
  deletion by the user in the middle of a run of toggleModules.
* What a kill inside a git command other than `submodule update` leaves (lock
  files, half-written refs): git's own affair.
* A compiler binary that is missing or fails, and a user who edits the modules,
  commits in `dist/`, or removes a populated `dist/`; force-pushed and deleted
  branches; autostash conflicts in the pull.
* `moveDir` is one rename, which it is as long as `dist/` is on one file system.
* In `install`, a full disk (it leaves the files a kill leaves) and what `findExe`
  searches.
* The length of shas and the wording of git's output.
* In dochack: a browser that refuses `localStorage`; the first three dots that a
  copied listing loses; a page on which groupBy raises is left out of DocSearch
  (`Toc` has it).
* `docgen`, the compiler, the library and the tools: upstream's.

## Plan

In this order; what is done is marked.

1. **Toggle** with Exposure (done), its proofs (done).
2. **Gitnim** (done), its proofs (done): agreement, freshness, switching back,
   healing.
3. **Two runs** (done), its proofs (done).
4. **Install** (done), its proofs (done).
5. **dochack**: search, fuzzyMatch, theme, listings, slices, strings, contents by type
   (done, with proofs); copies (done, model-checked).
6. **More proofs**: `RefreshKeepsBranch` where branches share no commits, `TextIsKept`
   of NimStrings, `Toc` (done); `NimCopy` with recursive functions in the place of its
   recursive operators.
7. **The working directory** of `withinDirectory`, with hidden directories.
8. **Different branches at once**: runs of TwoRuns with a listing each; the question
   is what the weakest lock is that restores `CopySurvives`.
9. **The library below**: `moveDir` with its copy-and-remove fallback and `execCmdEx`
   with the pipe between parent and child.
