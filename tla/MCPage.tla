------------------------------- MODULE MCPage -------------------------------
(***************************************************************************)
(* A documentation page: its theme, its loading and its search.  The three *)
(* share no variable, neither in dochack.js nor here, so that a behaviour  *)
(* shows one of them, the aspect, while the others stay as they start;     *)
(* their states add up instead of multiplying.                             *)
(*                                                                         *)
(* Three tabs, so that one may read, one write and one load at a time, and *)
(* two themes; three listings, two with abbreviated pragmas; three texts   *)
(* and an index of five entries, one of them excluded, of which at most    *)
(* two are listed: "a" matches four with a tie across the cut, "b" one and *)
(* "c" none, so that a list may be cut, full, short or empty.              *)
(***************************************************************************)
EXTENDS Theme, PageLoad, DocSearch

VARIABLE aspect   \* what the behaviour is about

pageVars == <<aspect, themeVars, pageLoadVars, docSearchVars>>

MCIndex == <<"e1", "e2", "e3", "e4", "e5">>

MCScore(q, e) ==
  CASE q = "a" -> (CASE e = "e1" -> 5 [] e = "e2" -> 10 [] e = "e3" -> 45
                     [] e = "e4" -> 10 [] OTHER -> 0)
    [] q = "b" -> IF e = "e5" THEN 10 ELSE 0
    [] OTHER -> 0

\* The kind of page is fixed where loading is not the aspect.
Init ==
  /\ aspect \in {"theme", "load", "search"}
  /\ aspect # "load" => hasSelect = TRUE /\ hasClipboard = TRUE
  /\ ThemeInit /\ PageInit /\ SearchInit

ThemeStep ==
  /\ aspect = "theme" /\ ThemeNext
  /\ UNCHANGED <<aspect, pageLoadVars, docSearchVars>>

LoadStep ==
  /\ aspect = "load" /\ PageNext
  /\ UNCHANGED <<aspect, themeVars, docSearchVars>>

SearchStep ==
  /\ aspect = "search" /\ SearchNext
  /\ UNCHANGED <<aspect, themeVars, pageLoadVars>>

Next == ThemeStep \/ LoadStep \/ SearchStep

\* The fairness of the browser, as in DocSearch.
Spec ==
  /\ Init /\ [][Next]_pageVars
  /\ \A handle \in Timers :
       WF_pageVars(SearchStep /\ TimerFires /\ timer = handle)
  /\ WF_pageVars(SearchStep /\ (ResponseArrives \/ TextArrives \/ LoadFails))

\* The variables of each part keep their types.
TypeOK == ThemeTypeOK /\ PageTypeOK /\ SearchTypeOK
=============================================================================
