-------------------------------- MODULE Toc ---------------------------------
(***************************************************************************)
(* Grouping the table of contents of a documentation page by type: the     *)
(* first choice of a grouping reads toc-list into a tree (toToc), collects *)
(* the entries under the headings Types, Procs and so on (extractItems),   *)
(* hangs every routine attached to a type under that type (buildToc),      *)
(* merges this with what is left (mergeTocs) and renders it (toHtml).      *)
(* What has found its place is marked on the page itself.  buildToc's      *)
(* loops are taken step by step, since an exception in them leaves the     *)
(* marks made so far.                                                      *)
(***************************************************************************)
EXTENDS Integers, Sequences, SequencesExt

CONSTANTS
  Pages,      \* pages: their nodes in document order, the first is toc-list
  Rank(_)     \* the alphabetical place of a text

\* No node: nil.  The nodes of a page are 1, 2 and so on.
Nil == 0

\* The last of a node is the last of all that are below it.
Node == [tag : STRING, text : STRING, title : STRING, attached : Seq(STRING),
         isType : BOOLEAN, kids : Seq(Nat), last : Nat]

\* A page is a tree, whose nodes are numbered in document order.
InOrder(pg) ==
  \A n \in DOMAIN pg :
    LET kids == pg[n].kids IN
    /\ pg[n].last \in n .. Len(pg)
    /\ \A k \in DOMAIN kids : kids[k] \in n + 1 .. pg[n].last /\ pg[kids[k]].last <= pg[n].last
    /\ \A k, l \in DOMAIN kids : k < l => pg[kids[k]].last < kids[l]

ASSUME PagesAssumption ==
  \A pg \in Pages : pg \in Seq(Node) /\ pg # <<>> /\ pg[1].tag = "UL" /\ InOrder(pg)

ASSUME RankAssumption ==
  \A pg \in Pages : \A n \in DOMAIN pg : Rank(pg[n].text) \in Nat /\ Rank(pg[n].title) \in Nat

VARIABLES
  page,
  grouping,         \* the value of the select
  tocPc,            \* "idle", "types" or "procs": the loops of buildToc
  types, procs, typeIndex, procIndex,
  newStuff, c,      \* the groups of the new branch and the one being filled
  marks,            \* the nodes with __karaxMarker__
  alternative,      \* the rendered contents by type, empty until they are built
  tocRoot, tocShown,
  raised            \* some call has raised (the code does not record it)

locals == <<types, procs, typeIndex, procIndex, newStuff, c>>
shownVars == <<alternative, tocRoot, tocShown>>
tocVars == <<page, grouping, tocPc, locals, marks, shownVars, raised>>

-----------------------------------------------------------------------------
(***************************************************************************)
(* A TocEntry that toToc makes has a heading, or none, and the entries of  *)
(* a list, or none: it is written as these two nodes.                      *)
(***************************************************************************)
Entry(heading, list) == [heading |-> heading, list |-> list]

Entries(pg) == [heading : Nil .. Len(pg), list : Nil .. Len(pg)]

IsWhitespace(pg, n) == pg[n].tag = "#blank"

\* An LI of a heading and a list, and nothing else but white space, is a section.
Section(pg, n) ==
  LET solid == {pg[n].kids[k] : k \in {k \in DOMAIN pg[n].kids : ~IsWhitespace(pg, pg[n].kids[k])}}
  IN {e \in [heading : solid, list : solid] :
        solid = {e.heading, e.list} /\ e.heading < e.list /\ pg[e.list].tag = "UL"}

\* toToc: the entries that a node adds to its father.
ToToc(pg) ==
  LET toToc[n \in DOMAIN pg] ==
        IF pg[n].tag = "UL" THEN <<Entry(Nil, n)>>
        ELSE IF IsWhitespace(pg, n) THEN <<>>
        ELSE IF pg[n].tag # "LI" THEN <<Entry(n, Nil)>>
        ELSE IF Section(pg, n) # {} THEN <<CHOOSE e \in Section(pg, n) : TRUE>>
        ELSE FlattenSeq([k \in DOMAIN pg[n].kids |-> toToc[pg[n].kids[k]]])
  IN toToc

\* The k-th child is an LI of a heading alone, and the l-th the UL beside it.
SideBySide(pg, nodes, k, l) ==
  /\ k < l /\ \A m \in k + 1 .. l - 1 : IsWhitespace(pg, nodes[m])
  /\ pg[nodes[k]].tag = "LI" /\ Len(pg[nodes[k]].kids) = 1 /\ pg[nodes[l]].tag = "UL"

\* The UL branch: what a list adds to its own entry for its k-th child.
ListToToc(pg, nodes, k) ==
  LET uls == {l \in DOMAIN nodes : SideBySide(pg, nodes, k, l)}
  IN IF uls # {} THEN <<Entry(pg[nodes[k]].kids[1], nodes[CHOOSE l \in uls : TRUE])>>
     ELSE IF \E l \in DOMAIN nodes : SideBySide(pg, nodes, l, k) THEN <<>>
     ELSE ToToc(pg)[nodes[k]]

\* The kids of an entry: of a list as such, or of one that belongs to a heading.
Kids(pg, e) ==
  IF e.list = Nil THEN <<>>
  ELSE LET nodes == pg[e.list].kids
       IN FlattenSeq([k \in DOMAIN nodes |->
                        IF e.heading = Nil THEN ListToToc(pg, nodes, k) ELSE ToToc(pg)[nodes[k]]])

\* groupBy's tt
Contents(pg) == ToToc(pg)[1][1]

\* The headings of the entries below every entry with this heading.
ExtractItems(pg, x, heading) ==
  LET items[e \in Entries(pg)] ==
        LET kids == Kids(pg, e) IN
        IF e.heading # Nil /\ pg[e.heading].text = heading
        THEN [k \in DOMAIN kids |-> kids[k].heading]
        ELSE FlattenSeq([k \in DOMAIN kids |-> items[kids[k]]])
  IN items[x]

RoutineHeadings == <<"Procs", "Converters", "Methods", "Templates", "Macros", "Iterators">>

\* Fault: what has found its place elsewhere is kept.
UncoveredKeepsAll(pg, marked, x) == {x}

\* An entry, or nothing when all that it lists is marked.
Uncovered(pg, marked, x) ==
  LET left[e \in Entries(pg)] ==
        LET kids == Kids(pg, e) IN
        IF kids = <<>> /\ e.heading # Nil
        THEN IF e.heading \in marked THEN {} ELSE {e}
        ELSE IF \A k \in DOMAIN kids : left[kids[k]] = {} THEN {} ELSE {e}
  IN left[x]

(***************************************************************************)
(* An entry of the new branch: a copy of a type and links to routines.     *)
(***************************************************************************)
Group(heading) == [heading |-> heading, kids |-> <<>>]

Add(father, kid) == [father EXCEPT !.kids = Append(@, kid)]

\* Fault: nothing left of the old contents is nothing at all.
MergeTocsWithNothing(pg, marked, orig, news) ==
  LET left == Uncovered(pg, marked, orig)
  IN [orig |-> left, news |-> IF left = {} THEN <<>> ELSE news]

MergeTocs(pg, marked, orig, news) == [orig |-> Uncovered(pg, marked, orig), news |-> news]

(***************************************************************************)
(* toHtml: an element is the sequence of the headings that it shows, each  *)
(* with the type it is below.  The comparator goes by the texts of the     *)
(* headings, since all that is sorted has one, and the sort is stable.     *)
(***************************************************************************)
Original(n) == [made |-> "original", node |-> n, below |-> Nil]
Clone(n)    == [made |-> "clone",    node |-> n, below |-> Nil]
Link(n, t)  == [made |-> "link",     node |-> n, below |-> t]

\* Fault: the entries stay in the order of the sections.
SortedByPlace(kids, rank) == kids

Sorted(kids, rank) ==
  LET places == DOMAIN kids
      order  == CHOOSE o \in [places -> places] :
                  /\ \A k \in places : \E l \in places : o[l] = k
                  /\ \A k, l \in places : k < l =>
                       rank[o[k]] < rank[o[l]] \/ (rank[o[k]] = rank[o[l]] /\ o[k] < o[l])
  IN [k \in places |-> kids[order[k]]]

\* An entry of the old contents: its heading and what is left below it.
EntryToHtml(pg, marked, x) ==
  LET html[e \in Entries(pg)] ==
        LET kids == Kids(pg, e)
            heading == IF e.heading # Nil /\ (kids = <<>> \/ e.heading \notin marked)
                       THEN <<e.heading>> ELSE <<>>
        IN heading \o FlattenSeq([k \in DOMAIN kids |->
             IF Uncovered(pg, marked, kids[k]) = {} THEN <<>> ELSE html[kids[k]]])
  IN html[x]

\* An entry of the new branch: the type and its routines, sorted by name.
GroupToHtml(pg, group) ==
  LET routines == Sorted(group.kids, [k \in DOMAIN group.kids |-> Rank(pg[group.kids[k]].title)])
  IN <<Clone(group.heading)>> \o [k \in DOMAIN routines |-> Link(routines[k], group.heading)]

\* The root is sorted if it is the new branch itself.
ToHtml(pg, marked, toc) ==
  LET ranks  == [k \in DOMAIN toc.news |-> Rank(pg[toc.news[k].heading].text)]
      groups == IF toc.orig = {} THEN Sorted(toc.news, ranks) ELSE toc.news
      old    == IF toc.orig = {} THEN <<>>
                ELSE EntryToHtml(pg, marked, CHOOSE x \in toc.orig : TRUE)
  IN [k \in DOMAIN old |-> Original(old[k])]
       \o FlattenSeq([k \in DOMAIN groups |-> GroupToHtml(pg, groups[k])])

-----------------------------------------------------------------------------
TocInit ==
  /\ page \in Pages
  /\ grouping = "section" /\ tocPc = "idle"
  /\ types = <<>> /\ procs = <<>> /\ typeIndex = 1 /\ procIndex = 1
  /\ newStuff = <<>> /\ c = Group(Nil)
  /\ marks = {} /\ alternative = <<>>
  /\ tocRoot = <<>> /\ tocShown = TRUE /\ raised = FALSE

\* replaceById("tocRoot", ...) and togglevis(toc-list).
Show(value, built) ==
  /\ tocRoot' = IF value = "type" THEN built ELSE <<>>
  /\ tocShown' = ~tocShown
  /\ tocPc' = "idle"

GroupByAgain(value) ==
  /\ tocPc = "idle" /\ value # grouping /\ alternative # <<>>
  /\ grouping' = value
  /\ Show(value, alternative)
  /\ UNCHANGED <<page, locals, marks, alternative, raised>>

GroupByFirst(value) ==
  /\ tocPc = "idle" /\ value # grouping /\ alternative = <<>>
  /\ grouping' = value
  /\ types' = ExtractItems(page, Contents(page), "Types")
  /\ procs' = FlattenSeq([k \in DOMAIN RoutineHeadings |->
                           ExtractItems(page, Contents(page), RoutineHeadings[k])])
  /\ newStuff' = <<>> /\ typeIndex' = 1
  /\ tocPc' = "types"
  /\ UNCHANGED <<page, procIndex, c, marks, shownVars, raised>>

\* An exception ends the call: the select has changed, the page has not.
RaiseInToc ==
  /\ tocPc' = "idle" /\ raised' = TRUE
  /\ UNCHANGED <<page, grouping, locals, marks, shownVars>>

TakeType ==
  /\ tocPc = "types" /\ typeIndex <= Len(types)
  /\ IF types[typeIndex] = Nil
     THEN RaiseInToc
     ELSE /\ c' = Group(types[typeIndex])
          /\ marks' = marks \cup {types[typeIndex]}
          /\ procIndex' = 1 /\ tocPc' = "procs"
          /\ UNCHANGED <<page, grouping, types, procs, typeIndex, newStuff, shownVars, raised>>

\* A routine that is not placed yet and names this type, and only one, as its own.
IsAttached(n, t) == n \notin marks /\ page[n].attached = <<page[t].text>>

TakeProc ==
  /\ tocPc = "procs" /\ procIndex <= Len(procs)
  /\ IF procs[procIndex] = Nil
     THEN RaiseInToc
     ELSE /\ IF IsAttached(procs[procIndex], types[typeIndex])
             THEN /\ c' = Add(c, procs[procIndex])
                  /\ marks' = marks \cup {procs[procIndex]}
             ELSE UNCHANGED <<c, marks>>
          /\ procIndex' = procIndex + 1
          /\ UNCHANGED <<page, grouping, tocPc, types, procs, typeIndex, newStuff, shownVars, raised>>

EndType ==
  /\ tocPc = "procs" /\ procIndex > Len(procs)
  /\ newStuff' = Append(newStuff, c)
  /\ typeIndex' = typeIndex + 1 /\ tocPc' = "types"
  /\ UNCHANGED <<page, grouping, types, procs, procIndex, c, marks, shownVars, raised>>

\* The rendered tree goes into a DIV, which a page with no contents lacks.
Finish ==
  /\ tocPc = "types" /\ typeIndex > Len(types)
  /\ LET html == ToHtml(page, marks, MergeTocs(page, marks, Contents(page), newStuff)) IN
     IF html = <<>>
     THEN RaiseInToc
     ELSE /\ alternative' = html
          /\ Show(grouping, html)
          /\ UNCHANGED <<page, grouping, locals, marks, raised>>

TocNext ==
  \/ \E value \in {"section", "type"} : GroupByAgain(value) \/ GroupByFirst(value)
  \/ TakeType \/ TakeProc \/ EndType \/ Finish

TocSpec == TocInit /\ [][TocNext]_tocVars

-----------------------------------------------------------------------------
Nodes == DOMAIN page

\* The collected headings are nodes of the page or missing, and so are the marks.
TocTypeOK ==
  /\ grouping \in {"section", "type"}
  /\ types \in Seq(Nodes \cup {Nil}) /\ procs \in Seq(Nodes \cup {Nil})
  /\ typeIndex \in 1 .. Len(types) + 1 /\ procIndex \in 1 .. Len(procs) + 1
  /\ marks \subseteq Nodes
  /\ tocShown \in BOOLEAN /\ raised \in BOOLEAN

\* The entries of the original contents.
Leaves(pg, x) ==
  LET leaves[e \in Entries(pg)] ==
        LET kids == Kids(pg, e) IN
        IF kids = <<>> THEN {e.heading} \ {Nil}
        ELSE UNION {leaves[kids[k]] : k \in DOMAIN kids}
  IN leaves[x]

Lines == DOMAIN alternative

(***************************************************************************)
(* No entry of the contents is lost and none is listed twice when they are *)
(* grouped by type: the merge takes away exactly what the new branch has.  *)
(***************************************************************************)
EntriesAreKept ==
  alternative # <<>> =>
    /\ Leaves(page, Contents(page)) \subseteq {alternative[k].node : k \in Lines}
    /\ \A k, l \in Lines : alternative[k].node = alternative[l].node => k = l

(***************************************************************************)
(* Below a type are the routines attached to it, each by a link of its own *)
(* and in alphabetical order, and below a type of a name that was there    *)
(* before, nothing.                                                        *)
(***************************************************************************)
TypesHaveTheirRoutines ==
  \A i \in Lines : alternative[i].made = "clone" =>
    LET t == alternative[i].node
        first == \A k, l \in DOMAIN types :
                   (types[k] = t /\ page[types[l]].text = page[t].text) => k <= l
        own == {n \in {procs[k] : k \in DOMAIN procs} : page[n].attached = <<page[t].text>>}
        below == {k \in Lines : alternative[k].below = t}
    IN /\ {alternative[k] : k \in below} = {Link(n, t) : n \in IF first THEN own ELSE {}}
       /\ \A k, l \in below :
            k < l => Rank(page[alternative[k].node].title) <= Rank(page[alternative[l].node].title)

(***************************************************************************)
(* A call raises only on a page without contents or with entries below     *)
(* Types, or beside types below a heading of routines, that are lists of   *)
(* their own and have no heading.                                          *)
(***************************************************************************)
RaisesForNestedLists ==
  raised => \/ Nil \in {types[k] : k \in DOMAIN types}
            \/ types # <<>> /\ Nil \in {procs[k] : k \in DOMAIN procs}
            \/ Leaves(page, Contents(page)) = {}

(***************************************************************************)
(* "Group by: Section, Type" (config/nimdoc.cfg:196-199): grouping a page  *)
(* that lists types by type makes each of them a group.                    *)
(***************************************************************************)
TypeEntries == {n \in Nodes : page[n].tag = "A" /\ page[n].isType}

TypesAreGroups ==
  (alternative # <<>> /\ TypeEntries # {})
  => \A t \in TypeEntries : \E k \in Lines : alternative[k] = Clone(t)

\* Grouping keeps every entry, or raises on the pages it cannot read.
GroupingIsComplete == EntriesAreKept /\ RaisesForNestedLists
=============================================================================
