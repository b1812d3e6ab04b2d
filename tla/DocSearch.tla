----------------------------- MODULE DocSearch ------------------------------
(***************************************************************************)
(* The search box and the grouping of a documentation page, dochack.js.    *)
(* The page is one thread: an action is one turn of the browser's event    *)
(* loop, a key pressed, the timer, an answer of the network or the choice  *)
(* of a grouping.  search() starts the loading of the index once and       *)
(* restarts the timer at every key; wrapper(), which reads the box and     *)
(* replaces the element called tocRoot, runs when the timer fires and when *)
(* the index is there.  groupBy() replaces the same element.               *)
(***************************************************************************)
EXTENDS Integers, Sequences, FiniteSets

CONSTANTS
  Queries,      \* texts a reader may type
  Empty,        \* the empty text
  Index,        \* the references of theindex.html, in its order
  Excluded,     \* the entries called Examples or PEG construction
  Score(_, _),  \* the score fuzzyMatch gives an entry for a query
  MaxResults,   \* 29 in the code
  NoElement     \* nil

Entries == {Index[i] : i \in DOMAIN Index}

ASSUME SearchAssumption ==
  /\ Empty \notin Queries
  /\ Index \in Seq(Entries)
  /\ \A i, j \in DOMAIN Index : Index[i] = Index[j] => i = j
  /\ \A q \in Queries, e \in Entries : Score(q, e) \in Nat
  /\ MaxResults \in Nat \ {0}

VARIABLES
  input,          \* the value of searchInput
  grouping,       \* the value of the Group by select
  root,           \* the element that is tocRoot
  tocShown,       \* toc-list is displayed
  alternative,    \* the table of contents by type has been built
  oldtoc,         \* the element wrapper saved, or NoElement
  db,             \* the entries loaded
  loadIndexFut,   \* "none", "fetching", "reading", "loaded" or "rejected"
  timer,          \* the handle of the 400 ms timer, or NoTimer
  \* Observations that the code does not make:
  unnoticed,      \* the box was changed without a key since it was last read
  savedGrouping   \* the grouping when oldtoc was saved

groupingVars   == <<grouping, tocShown, alternative>>
loadVars   == <<db, loadIndexFut>>
searchVars == <<root, oldtoc, savedGrouping>>
docSearchVars == <<input, groupingVars, searchVars, loadVars, timer, unnoticed>>

Texts == Queries \cup {Empty}

\* The elements that take the place of tocRoot: the page's own (empty) one,
\* what groupBy makes, and lists of results.
Toc == [kind |-> "toc"]
Alternative == [kind |-> "alternative"]
Blank == [kind |-> "blank"]
PageElements == {Toc, Alternative, Blank}

ASSUME NoElementAssumption == NoElement \notin PageElements

\* A timer that is started anew is another one; two handles tell it apart.
Timers == {1, 2}
NoTimer == 0

SearchInit ==
  /\ input = Empty /\ grouping = "section"
  /\ root = Toc /\ tocShown = TRUE /\ alternative = FALSE
  /\ oldtoc = NoElement /\ savedGrouping = "section"
  /\ db = <<>> /\ loadIndexFut = "none" /\ timer = NoTimer
  /\ unnoticed = FALSE

-----------------------------------------------------------------------------
(***************************************************************************)
(* dosearch: the positions of the matching entries, sorted by score (the   *)
(* sort is stable), and of the entries the first MaxResults.               *)
(***************************************************************************)
Found(q, d) == {i \in DOMAIN d : d[i] \notin Excluded /\ Score(q, d[i]) > 0}

Before(q, d, i, j) ==
  \/ Score(q, d[i]) > Score(q, d[j])
  \/ Score(q, d[i]) = Score(q, d[j]) /\ i < j

\* Fault: the comparator's operands are swapped.
RankFromWorst(q, d, i) == Cardinality({j \in Found(q, d) : Before(q, d, i, j)})

\* How many matches the sort puts before the one at i.
Rank(q, d, i) == Cardinality({j \in Found(q, d) : Before(q, d, j, i)})

Sorted(q, d) ==
  [k \in 1 .. Cardinality(Found(q, d)) |->
     d[CHOOSE i \in Found(q, d) : Rank(q, d, i) = k - 1]]

FirstOnes(s) == SubSeq(s, 1, IF Len(s) <= MaxResults THEN Len(s) ELSE MaxResults)

DoSearch(q, d) ==
  [kind |-> "results", query |-> q, list |-> FirstOnes(Sorted(q, d))]

\* Fault: the tocRoot of the moment is saved on every search.
WrapperSavesAlways(d) ==
  /\ \/ /\ input # Empty
        /\ oldtoc' = root /\ savedGrouping' = grouping
        /\ root' = IF d = <<>> THEN root ELSE DoSearch(input, d)
     \/ /\ input = Empty
        /\ root' = IF oldtoc = NoElement THEN root ELSE oldtoc
        /\ UNCHANGED <<oldtoc, savedGrouping>>
  /\ unnoticed' = FALSE

(***************************************************************************)
(* wrapper, with the entries d loaded.  Without any dosearch returns nil   *)
(* and replaceById throws, after oldtoc was saved.                         *)
(***************************************************************************)
Wrapper(d) ==
  /\ \/ /\ input # Empty
        /\ IF oldtoc = NoElement
           THEN oldtoc' = root /\ savedGrouping' = grouping
           ELSE UNCHANGED <<oldtoc, savedGrouping>>
        /\ root' = IF d = <<>> THEN root ELSE DoSearch(input, d)
     \/ /\ input = Empty
        /\ root' = IF oldtoc = NoElement THEN root ELSE oldtoc
        /\ UNCHANGED <<oldtoc, savedGrouping>>
  /\ unnoticed' = FALSE

\* search: the index is loaded once; a timer that runs is cleared for a new one.
Search ==
  /\ loadIndexFut' = IF loadIndexFut = "none" THEN "fetching" ELSE loadIndexFut
  /\ timer' = IF timer = 1 THEN 2 ELSE 1

\* A key is released in the search box (onkeyup).
Key(q) ==
  /\ input' = q /\ unnoticed' = FALSE
  /\ Search
  /\ UNCHANGED <<groupingVars, searchVars, db>>

\* The box is cleared or filled with the mouse: nothing is called.
EditWithoutKey(q) ==
  /\ q # input
  /\ input' = q /\ unnoticed' = TRUE
  /\ UNCHANGED <<groupingVars, searchVars, loadVars, timer>>

TimerFires ==
  /\ timer # NoTimer /\ timer' = NoTimer
  /\ Wrapper(db)
  /\ UNCHANGED <<input, groupingVars, loadVars>>

\* fetch has the head of the answer; its text is still to come.
ResponseArrives ==
  /\ loadIndexFut = "fetching"
  /\ loadIndexFut' = "reading"
  /\ UNCHANGED <<input, groupingVars, searchVars, db, timer, unnoticed>>

\* Fault: nothing is run once the index is there.
TextArrivesOnly ==
  /\ loadIndexFut = "reading"
  /\ loadIndexFut' = "loaded"
  /\ db' \in {Index, <<>>}
  /\ UNCHANGED <<input, groupingVars, searchVars, timer, unnoticed>>

(***************************************************************************)
(* The text is there: db is filled, empty if it is no index (an error page *)
(* is an answer too), and wrapper runs as the promise's continuation       *)
(* before any other event.                                                 *)
(***************************************************************************)
TextArrives ==
  /\ loadIndexFut = "reading"
  /\ loadIndexFut' = "loaded"
  /\ db' \in {Index, <<>>}
  /\ Wrapper(db')
  /\ UNCHANGED <<input, groupingVars, timer>>

\* No answer: the promise is rejected, nobody listens, nobody tries again.
LoadFails ==
  /\ loadIndexFut \in {"fetching", "reading"}
  /\ loadIndexFut' = "rejected"
  /\ UNCHANGED <<input, groupingVars, searchVars, db, timer, unnoticed>>

\* Fault: the list of contents is toggled only when the other one is built.
GroupByTogglesOnce(value) ==
  /\ value # grouping
  /\ grouping' = value /\ alternative' = TRUE
  /\ root' = IF value = "type" THEN Alternative ELSE Blank
  /\ tocShown' = IF alternative THEN tocShown ELSE ~tocShown
  /\ UNCHANGED <<input, oldtoc, savedGrouping, loadVars, timer, unnoticed>>

(***************************************************************************)
(* groupBy, on a change of the select: builds the contents by type the     *)
(* first time, replaces tocRoot and toggles toc-list.                      *)
(***************************************************************************)
GroupBy(value) ==
  /\ value # grouping
  /\ grouping' = value /\ alternative' = TRUE
  /\ root' = IF value = "type" THEN Alternative ELSE Blank
  /\ tocShown' = ~tocShown
  /\ UNCHANGED <<input, oldtoc, savedGrouping, loadVars, timer, unnoticed>>

SearchNext ==
  \/ \E q \in Texts : Key(q) \/ EditWithoutKey(q)
  \/ TimerFires
  \/ ResponseArrives \/ TextArrives \/ LoadFails
  \/ \E value \in {"section", "type"} : GroupBy(value)

(***************************************************************************)
(* The browser runs a timer unless it is cleared, and settles every fetch. *)
(* A key clears the timer, so that nothing is owed to a reader whose keys  *)
(* always come before it is due; the reader owes nothing either.           *)
(***************************************************************************)
Fairness ==
  /\ \A handle \in Timers : WF_docSearchVars(TimerFires /\ timer = handle)
  /\ WF_docSearchVars(ResponseArrives \/ TextArrives \/ LoadFails)

SearchSpec == SearchInit /\ [][SearchNext]_docSearchVars /\ Fairness

-----------------------------------------------------------------------------
\* Every variable keeps its type.
SearchTypeOK ==
  /\ input \in Texts /\ grouping \in {"section", "type"}
  /\ \/ root \in PageElements
     \/ \E q \in Queries : root = DoSearch(q, Index)
  /\ tocShown \in BOOLEAN /\ alternative \in BOOLEAN
  /\ oldtoc \in PageElements \cup {NoElement}
  /\ savedGrouping \in {"section", "type"}
  /\ db \in {<<>>, Index}
  /\ loadIndexFut \in {"none", "fetching", "reading", "loaded", "rejected"}
  /\ timer \in Timers \cup {NoTimer} /\ unnoticed \in BOOLEAN

(***************************************************************************)
(* When no timer runs, the results that are displayed are those of the     *)
(* text in the box, unless the box was changed without a key; in           *)
(* particular an empty box never stands beside results.                    *)
(***************************************************************************)
ResultsAreForInput ==
  (timer = NoTimer /\ ~unnoticed /\ root.kind = "results") => root.query = input

(***************************************************************************)
(* The element saved for an empty box is never a list of results, and      *)
(* results are displayed only when it has been saved.                      *)
(***************************************************************************)
SavedIsPage ==
  /\ oldtoc # NoElement => oldtoc \in PageElements
  /\ root.kind = "results" => oldtoc # NoElement

(***************************************************************************)
(* The list of contents is displayed exactly when the page is grouped by   *)
(* section, and the contents by type stand in for it exactly when it is    *)
(* grouped by type, as long as the element saved by a search is one of the *)
(* present grouping.                                                       *)
(***************************************************************************)
PageMatchesGrouping ==
  /\ tocShown <=> grouping = "section"
  /\ (root.kind # "results" /\ (oldtoc = NoElement \/ savedGrouping = grouping))
     => (root = Alternative <=> grouping = "type")

\* The index is loaded once: its promise is neither replaced nor reopened.
LoadedOnce ==
  [][/\ loadIndexFut # "none" => loadIndexFut' # "none"
     /\ loadIndexFut # "none" => (loadIndexFut' = "fetching" => loadIndexFut = "fetching")
     /\ db # <<>> => db' = db]_docSearchVars

(***************************************************************************)
(* What the page promises: the box and the display as they are; an edit is *)
(* pending while the timer runs or the index is on its way.                *)
(***************************************************************************)
Displayed ==
  IF root.kind = "results" THEN root ELSE [kind |-> "page"]

IndexState ==
  IF db # <<>> THEN "available"
  ELSE IF loadIndexFut \in {"loaded", "rejected"} THEN "unavailable" ELSE "unknown"

Promise == INSTANCE SearchPage WITH
  query   <- input,
  shown   <- Displayed,
  pending <- timer # NoTimer \/ loadIndexFut \in {"fetching", "reading"},
  index   <- IndexState,
  Entries <- Entries \ Excluded

ImplementsSearchPage == Promise!SSpec

\* From some moment on keys follow each other within 400 ms for ever.
HeldOff ==
  /\ <>[](timer # NoTimer)
  /\ []<><<\E q \in Texts : Key(q)>>_docSearchVars

(***************************************************************************)
(* Every edit the page was told of is answered, by the timer or by the     *)
(* load's continuation, unless the text is changed again, there is no      *)
(* index, or the reader's keys hold the timer off for ever.                *)
(***************************************************************************)
EditsAreAnswered == HeldOff \/ Promise!Answered
=============================================================================
