----------------------------- MODULE SearchPage -----------------------------
(***************************************************************************)
(* What the search box of a documentation page promises its reader: once   *)
(* told of an edit, the page shows the best entries for what is in the     *)
(* box, or the page itself when the box is empty; it waits for the index   *)
(* as long as that is being loaded and gives up only if it cannot be had.  *)
(***************************************************************************)
EXTENDS Integers, Sequences, FiniteSets

CONSTANTS
  Queries,      \* what may be typed, the empty text aside
  Empty,        \* the empty search box
  Entries,      \* the entries of the index that may be found
  Score(_, _),  \* Score(q, e): how well entry e answers query q
  MaxResults    \* how many entries a list of results has at most

VARIABLES
  query,        \* what is in the search box
  shown,        \* Page, or the results for a query
  pending,      \* an edit waits for its answer
  index         \* "unknown", "available" or "unavailable"

sVars == <<query, shown, pending, index>>

Page == [kind |-> "page"]
Results(q, list) == [kind |-> "results", query |-> q, list |-> list]

\* An entry answers a query when its score is positive.
Matches(q) == {e \in Entries : Score(q, e) > 0}

(***************************************************************************)
(* A list of results for q: different matching entries, as many as there   *)
(* are up to MaxResults, the best first, and no better one left out.       *)
(***************************************************************************)
BestFor(q, list) ==
  LET listed == {list[i] : i \in DOMAIN list} IN
  /\ listed \subseteq Matches(q)
  /\ \A i, j \in DOMAIN list : i < j => /\ list[i] # list[j]
                                        /\ Score(q, list[i]) >= Score(q, list[j])
  /\ Len(list) <= MaxResults
  /\ listed # Matches(q) => Len(list) = MaxResults
  /\ \A e \in Matches(q) \ listed, f \in listed : Score(q, f) >= Score(q, e)

Answers(q, display) ==
  IF q = Empty
  THEN display.kind = "page"
  ELSE display.kind = "results" /\ display.query = q /\ BestFor(q, display.list)

SInit ==
  /\ query = Empty /\ shown = Page /\ pending = FALSE /\ index = "unknown"

\* The reader edits the text, and the page is told of it.
Ask ==
  /\ query' \in Queries \cup {Empty} /\ pending' = TRUE
  /\ UNCHANGED <<shown, index>>

\* The reader edits the text in a way the page does not notice.
Edit ==
  /\ query' \in Queries \cup {Empty}
  /\ UNCHANGED <<shown, pending, index>>

Answer ==
  /\ pending /\ pending' \in BOOLEAN
  /\ query # Empty => index' = "available"
  /\ \/ index' = index
     \/ index = "unknown" /\ index' \in {"available", "unavailable"}
  /\ Answers(query, shown')
  /\ UNCHANGED query

\* There is no index to search: the display stays.
GiveUp ==
  /\ pending /\ pending' \in BOOLEAN
  /\ index' = "unavailable" /\ index \in {"unknown", "unavailable"}
  /\ UNCHANGED <<query, shown>>

\* The reader turns to the table of contents instead.
Regroup ==
  /\ shown' = Page
  /\ UNCHANGED <<query, pending, index>>

SNext == Ask \/ Edit \/ Answer \/ GiveUp \/ Regroup

SSpec == SInit /\ [][SNext]_sVars

(***************************************************************************)
(* An edit the page was told of is answered in the end, unless the text is *)
(* changed again or there is no index.                                     *)
(***************************************************************************)
Answered ==
  \A q \in Queries \cup {Empty} :
    (pending /\ query = q) ~> (\/ Answers(q, shown)
                               \/ query # q
                               \/ index = "unavailable")
=============================================================================
