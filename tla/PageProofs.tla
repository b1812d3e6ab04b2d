----------------------------- MODULE PageProofs -----------------------------
(***************************************************************************)
(* The documentation pages, for any number of tabs, themes and listings.   *)
(*                                                                         *)
(* Theme: the reader's last choice is what is stored unless it was made    *)
(* while another tab was between reading and writing, and a loaded page's  *)
(* select names its theme unless the theme changed while it was loading.   *)
(*                                                                         *)
(* PageLoad: once the page is ready every listing is replaced and every    *)
(* abbreviated pragma responds, and no button claims a copy that did not   *)
(* happen, whatever the reader does and the clipboard answers.             *)
(*                                                                         *)
(* Search: for every index, every score and any texts, the search box and  *)
(* the grouping keep their invariants, and the page implements SearchPage. *)
(* The heart of the refinement is that the list that is left of the sorted *)
(* matches is a best one (DoSearchAnswers).                                *)
(*                                                                         *)
(* The whole page: the three share no variable, and each keeps on a page   *)
(* that does all three what it keeps alone.                                *)
(***************************************************************************)
EXTENDS MCPage, FiniteSetTheorems, TLAPS

(***************************************************************************)
(*                                 Theme                                   *)
(***************************************************************************)

\* Functions stay functions; a page that has run its script has stored a theme.
ThemeTyped ==
  /\ ThemeTypeOK
  /\ t \in [Tabs -> Themes \cup {NoTheme}]
  /\ dataTheme \in [Tabs -> Themes \cup {NoTheme}]
  /\ \A tab \in Tabs : tabPhase[tab] \in {"set", "loaded"} => storage \in Themes

\* What a page is about to write back is the last choice, if nobody raced with it.
ReadsAreCurrent ==
  /\ storage = NoTheme => lastChoice = Default
  /\ ~raced => \A tab \in Tabs : tabPhase[tab] = "read" => t[tab] = lastChoice

\* Until its document ends a page has the theme that is stored, if nobody overtook it.
SetsAreCurrent ==
  \A tab \in Tabs :
    (tabPhase[tab] = "set" /\ tab \notin overtaken) => dataTheme[tab] = storage

ThemeIInv == ThemeTyped /\ ReadsAreCurrent /\ ChoiceIsKept /\ SetsAreCurrent /\ SelectShowsTheme

-----------------------------------------------------------------------------
(* The initial state: nothing is stored and no page is open.               *)

LEMMA ThemeInitHolds == ThemeInit => ThemeIInv
BY ThemeAssumption DEF ThemeInit, ThemeIInv, ThemeTyped, ThemeTypeOK, ReadsAreCurrent, ChoiceIsKept,
   SetsAreCurrent, SelectShowsTheme

-----------------------------------------------------------------------------
(* Types, action by action.                                                *)

LEMMA TypedNext == ThemeIInv /\ [ThemeNext]_themeVars => ThemeTyped'
<1> SUFFICES ASSUME ThemeIInv, [ThemeNext]_themeVars PROVE ThemeTyped'
  OBVIOUS
<1> USE ThemeAssumption DEF ThemeIInv, ThemeTyped, ThemeTypeOK
<1>1. CASE UNCHANGED themeVars
  BY <1>1 DEF themeVars, tabVars, history
<1>2. ASSUME NEW tab \in Tabs, Read(tab) PROVE ThemeTyped'
  BY <1>2 DEF Read, history
<1>3. ASSUME NEW tab \in Tabs, RunScriptInTab(tab) PROVE ThemeTyped'
  BY <1>3 DEF RunScriptInTab, SetTheme
<1>4. ASSUME NEW tab \in Tabs, OnDOMLoadedInTab(tab) PROVE ThemeTyped'
  BY <1>4 DEF OnDOMLoadedInTab, history
<1>5. ASSUME NEW tab \in Tabs, NEW theme \in Themes, Choose(tab, theme) PROVE ThemeTyped'
  <2>1. raced' \in BOOLEAN
    BY <1>5, Zenon DEF Choose
  <2> QED
    BY <1>5, <2>1 DEF Choose, SetTheme
<1>6. ASSUME NEW tab \in Tabs, Close(tab) PROVE ThemeTyped'
  BY <1>6 DEF Close
<1> QED
  BY <1>1, <1>2, <1>3, <1>4, <1>5, <1>6 DEF ThemeNext

-----------------------------------------------------------------------------
(* The last choice: only Choose changes it, and it notes who had read.     *)

LEMMA ChoiceNext == ThemeIInv /\ [ThemeNext]_themeVars => ReadsAreCurrent' /\ ChoiceIsKept'
<1> SUFFICES ASSUME ThemeIInv, [ThemeNext]_themeVars PROVE ReadsAreCurrent' /\ ChoiceIsKept'
  OBVIOUS
<1> USE ThemeAssumption DEF ThemeIInv, ThemeTyped, ThemeTypeOK, ReadsAreCurrent, ChoiceIsKept
<1>1. CASE UNCHANGED themeVars
  BY <1>1 DEF themeVars, tabVars, history
<1>2. ASSUME NEW tab \in Tabs, Read(tab) PROVE ReadsAreCurrent' /\ ChoiceIsKept'
  BY <1>2 DEF Read, history
<1>3. ASSUME NEW tab \in Tabs, RunScriptInTab(tab) PROVE ReadsAreCurrent' /\ ChoiceIsKept'
  BY <1>3 DEF RunScriptInTab, SetTheme
<1>4. ASSUME NEW tab \in Tabs, OnDOMLoadedInTab(tab) PROVE ReadsAreCurrent' /\ ChoiceIsKept'
  BY <1>4 DEF OnDOMLoadedInTab, history
<1>5. ASSUME NEW tab \in Tabs, NEW theme \in Themes, Choose(tab, theme)
      PROVE  ReadsAreCurrent' /\ ChoiceIsKept'
  BY <1>5 DEF Choose, SetTheme
<1>6. ASSUME NEW tab \in Tabs, Close(tab) PROVE ReadsAreCurrent' /\ ChoiceIsKept'
  BY <1>6 DEF Close
<1> QED
  BY <1>1, <1>2, <1>3, <1>4, <1>5, <1>6 DEF ThemeNext

-----------------------------------------------------------------------------
(* The select: what changes the store notes which pages it overtakes.      *)

LEMMA SelectNext == ThemeIInv /\ [ThemeNext]_themeVars => SetsAreCurrent' /\ SelectShowsTheme'
<1> SUFFICES ASSUME ThemeIInv, [ThemeNext]_themeVars PROVE SetsAreCurrent' /\ SelectShowsTheme'
  OBVIOUS
<1> USE ThemeAssumption DEF ThemeIInv, ThemeTyped, ThemeTypeOK, SetsAreCurrent, SelectShowsTheme
<1>1. CASE UNCHANGED themeVars
  BY <1>1 DEF themeVars, tabVars, history
<1>2. ASSUME NEW tab \in Tabs, Read(tab) PROVE SetsAreCurrent' /\ SelectShowsTheme'
  BY <1>2 DEF Read, history
<1>3. ASSUME NEW tab \in Tabs, RunScriptInTab(tab) PROVE SetsAreCurrent' /\ SelectShowsTheme'
  BY <1>3 DEF RunScriptInTab, SetTheme
<1>4. ASSUME NEW tab \in Tabs, OnDOMLoadedInTab(tab) PROVE SetsAreCurrent' /\ SelectShowsTheme'
  BY <1>4 DEF OnDOMLoadedInTab, history
<1>5. ASSUME NEW tab \in Tabs, NEW theme \in Themes, Choose(tab, theme)
      PROVE  SetsAreCurrent' /\ SelectShowsTheme'
  BY <1>5 DEF Choose, SetTheme
<1>6. ASSUME NEW tab \in Tabs, Close(tab) PROVE SetsAreCurrent' /\ SelectShowsTheme'
  BY <1>6 DEF Close
<1> QED
  BY <1>1, <1>2, <1>3, <1>4, <1>5, <1>6 DEF ThemeNext

-----------------------------------------------------------------------------
\* The inductive invariant of the pages that share one store.
THEOREM ThemeInvariantAlways == ThemeSpec => []ThemeIInv
<1>1. ThemeIInv /\ [ThemeNext]_themeVars => ThemeIInv'
  BY TypedNext, ChoiceNext, SelectNext DEF ThemeIInv
<1> QED
  BY ThemeInitHolds, <1>1, PTL DEF ThemeSpec

\* Every page that has run its script has a theme, and so have select and store.
THEOREM ThemeTypeCorrect == ThemeSpec => []ThemeTypeOK
<1>1. ThemeIInv => ThemeTypeOK
  BY DEF ThemeIInv, ThemeTyped
<1> QED
  BY ThemeInvariantAlways, <1>1, PTL

\* The script's read and write at load lose a choice only to another tab's in between.
THEOREM ChoiceIsKeptAlways == ThemeSpec => []ChoiceIsKept
<1>1. ThemeIInv => ChoiceIsKept
  BY DEF ThemeIInv
<1> QED
  BY ThemeInvariantAlways, <1>1, PTL

\* onDOMLoaded's select is right unless the store changed since the script ran.
THEOREM SelectShowsThemeAlways == ThemeSpec => []SelectShowsTheme
<1>1. ThemeIInv => SelectShowsTheme
  BY DEF ThemeIInv
<1> QED
  BY ThemeInvariantAlways, <1>1, PTL

(***************************************************************************)
(*                                PageLoad                                 *)
(***************************************************************************)

PageTyped ==
  /\ phase \in {"script", "parsing", "loaded", "ready"}
  /\ hasSelect \in BOOLEAN /\ hasClipboard \in BOOLEAN /\ failedHovers \in BOOLEAN
  /\ present \subseteq Listings /\ wrapped \subseteq present
  /\ dotsRespond \subseteq WithDots /\ dotsOpen \subseteq WithDots
  /\ selected \subseteq wrapped /\ copies \subseteq wrapped /\ copied \subseteq wrapped
  /\ clipboard \in Listings \cup {Nothing}

\* How far loading has come: what is left to run, and what has been done.
Stages ==
  \/ phase = "script" /\ listeners = <<>> /\ wrapped = {} /\ dotsRespond = {}
  \/ phase = "parsing" /\ listeners = <<"updatePreTags", "onDOMLoaded">> /\ wrapped = {}
     /\ dotsRespond = {}
  \/ phase = "loaded" /\ listeners = <<"updatePreTags", "onDOMLoaded">> /\ present = Listings
     /\ wrapped = {} /\ dotsRespond = {}
  \/ phase = "loaded" /\ listeners = <<"onDOMLoaded">> /\ present = Listings
     /\ wrapped = Listings /\ dotsRespond = {}
  \/ phase = "ready" /\ listeners = <<>> /\ present = Listings
     /\ wrapped = Listings /\ dotsRespond = IF hasSelect THEN WithDots ELSE {}

PageIInv == PageTyped /\ Stages /\ SelectedWasCopied /\ HoversAreSafe

-----------------------------------------------------------------------------
LEMMA PageInitHolds == PageInit => PageIInv
<1> SUFFICES ASSUME PageInit PROVE PageIInv
  OBVIOUS
<1>1. PageTyped
  BY DEF PageInit, PageTyped
<1>2. Stages
  BY DEF PageInit, Stages
<1>3. SelectedWasCopied /\ HoversAreSafe
  BY DEF PageInit, SelectedWasCopied, HoversAreSafe
<1> QED
  BY <1>1, <1>2, <1>3 DEF PageIInv

-----------------------------------------------------------------------------
(* Loading: the script, the parser and the two listeners.                  *)

LEMMA Running ==
  /\ Head(<<"updatePreTags", "onDOMLoaded">>) = "updatePreTags"
  /\ Tail(<<"updatePreTags", "onDOMLoaded">>) = <<"onDOMLoaded">>
  /\ Head(<<"onDOMLoaded">>) = "onDOMLoaded" /\ Tail(<<"onDOMLoaded">>) = <<>>
  /\ <<"onDOMLoaded">> # <<>>
OBVIOUS

LEMMA UpdatePreTagsStep == PageIInv /\ UpdatePreTags => PageIInv'
<1> SUFFICES ASSUME PageIInv, UpdatePreTags PROVE PageIInv'
  OBVIOUS
<1>1. /\ listeners = <<"updatePreTags", "onDOMLoaded">> /\ phase = "loaded"
      /\ present = Listings /\ wrapped = {}
  BY Running, SMT DEF PageIInv, Stages, UpdatePreTags, NextListener
<1>2. listeners' = <<"onDOMLoaded">> /\ phase' = "loaded"
  BY <1>1, Running, SMT DEF UpdatePreTags, NextListener
<1>3. PageTyped'
  BY <1>1, <1>2, PageAssumption DEF PageIInv, PageTyped, UpdatePreTags, NextListener, browserVars, copyVars
<1>4. Stages'
  BY <1>1, <1>2 DEF Stages, UpdatePreTags, NextListener, browserVars, copyVars
<1>5. SelectedWasCopied' /\ HoversAreSafe'
  BY DEF PageIInv, SelectedWasCopied, HoversAreSafe, UpdatePreTags, NextListener, copyVars
<1> QED
  BY <1>3, <1>4, <1>5 DEF PageIInv

LEMMA OnDOMLoadedStep == PageIInv /\ OnDOMLoaded => PageIInv'
<1> SUFFICES ASSUME PageIInv, OnDOMLoaded PROVE PageIInv'
  OBVIOUS
<1>1. /\ listeners = <<"onDOMLoaded">> /\ phase = "loaded"
      /\ present = Listings /\ wrapped = Listings /\ dotsRespond = {}
  BY Running, SMT DEF PageIInv, Stages, OnDOMLoaded, NextListener
<1>2. listeners' = <<>> /\ phase' = "ready"
  BY <1>1, Running, SMT DEF OnDOMLoaded, NextListener
<1>3. dotsRespond' = IF hasSelect THEN WithDots ELSE {}
  BY <1>1, PageAssumption DEF OnDOMLoaded
<1>4. PageTyped'
  BY <1>1, <1>2, <1>3 DEF PageIInv, PageTyped, OnDOMLoaded, NextListener, browserVars, copyVars
<1>5. Stages'
  BY <1>1, <1>2, <1>3 DEF Stages, OnDOMLoaded, NextListener, browserVars, copyVars
<1>6. SelectedWasCopied' /\ HoversAreSafe'
  BY DEF PageIInv, SelectedWasCopied, HoversAreSafe, OnDOMLoaded, NextListener, copyVars
<1> QED
  BY <1>4, <1>5, <1>6 DEF PageIInv

-----------------------------------------------------------------------------
LEMMA PageNextHolds == PageIInv /\ [PageNext]_pageLoadVars => PageIInv'
<1> SUFFICES ASSUME PageIInv, [PageNext]_pageLoadVars PROVE PageIInv'
  OBVIOUS
<1> USE PageAssumption DEF PageIInv, PageTyped, Stages, SelectedWasCopied, HoversAreSafe,
        browserVars, stageVars, copyVars
<1>1. CASE UNCHANGED pageLoadVars
  BY <1>1 DEF pageLoadVars
<1>2. CASE RunScript
  BY <1>2 DEF RunScript
<1>3. CASE DOMContentLoaded
  BY <1>3 DEF DOMContentLoaded
<1>4. CASE UpdatePreTags
  BY <1>4, UpdatePreTagsStep
<1>5. CASE OnDOMLoaded
  BY <1>5, OnDOMLoadedStep
<1>6. ASSUME NEW p \in Listings, Parse(p) PROVE PageIInv'
  BY <1>6 DEF Parse
<1>7. ASSUME NEW p \in Listings, ClickDots(p) PROVE PageIInv'
  BY <1>7 DEF ClickDots
<1>8. ASSUME NEW p \in Listings, ClickCopy(p) PROVE PageIInv'
  BY <1>8 DEF ClickCopy
<1>9. ASSUME NEW p \in Listings, CopySucceeds(p) PROVE PageIInv'
  BY <1>9 DEF CopySucceeds
<1>10. ASSUME NEW p \in Listings, CopyFails(p) PROVE PageIInv'
  BY <1>10 DEF CopyFails
<1>11. ASSUME NEW p \in Listings, MouseOver(p) PROVE PageIInv'
  BY <1>11 DEF MouseOver
<1> QED
  BY <1>1, <1>2, <1>3, <1>4, <1>5, <1>6, <1>7, <1>8, <1>9, <1>10, <1>11 DEF PageNext

-----------------------------------------------------------------------------
\* The inductive invariant: each stage of loading and what it has done.
THEOREM PageInvariantAlways == PageSpec => []PageIInv
BY PageInitHolds, PageNextHolds, PTL DEF PageSpec

\* Only listings that are parsed are replaced, copied and marked.
THEOREM PageTypeCorrect == PageSpec => []PageTypeOK
<1>1. PageIInv => PageTypeOK
  BY DEF PageIInv, PageTyped, Stages, PageTypeOK
<1> QED
  BY PageInvariantAlways, <1>1, PTL

\* The order in which the script registers its listeners keeps onDOMLoaded's
\* handlers, and the mouseover handler finds a button next to every listing of
\* a page that is ready.
THEOREM ListingsRespondAlways == PageSpec => []ListingsRespond
<1>1. PageIInv => DotsRespondWhenReady
  BY DEF PageIInv, Stages, DotsRespondWhenReady
<1>2. PageIInv => HoversAreSafe
  BY DEF PageIInv
<1> QED
  BY PageInvariantAlways, <1>1, <1>2, PTL DEF ListingsRespond

\* copyTextToClipboard marks a button only in the answer that the copy succeeded.
THEOREM SelectedWasCopiedAlways == PageSpec => []SelectedWasCopied
<1>1. PageIInv => SelectedWasCopied
  BY DEF PageIInv
<1> QED
  BY PageInvariantAlways, <1>1, PTL

(***************************************************************************)
(*                                Search                                   *)
(***************************************************************************)

\* The index is there once it is loaded, and results need it.
LoadStages ==
  /\ db # <<>> => loadIndexFut = "loaded"
  /\ timer # NoTimer => loadIndexFut # "none"
  /\ db = <<>> => root \in PageElements

\* The saved element is one of the grouping it was saved under.
SavedMatches ==
  oldtoc # NoElement => (oldtoc = Alternative <=> savedGrouping = "type")

IInv ==
  /\ SearchTypeOK /\ LoadStages /\ SavedMatches
  /\ SavedIsPage /\ ResultsAreForInput /\ PageMatchesGrouping

-----------------------------------------------------------------------------
LEMMA Kinds ==
  /\ \A e \in PageElements : e.kind # "results"
  /\ \A q, d : DoSearch(q, d).kind = "results" /\ DoSearch(q, d).query = q
  /\ Toc # Alternative /\ Blank # Alternative
  /\ {Toc, Alternative, Blank} \subseteq PageElements
BY DEF PageElements, Toc, Alternative, Blank, DoSearch

LEMMA InitHolds == SearchInit => IInv
<1> SUFFICES ASSUME SearchInit PROVE IInv
  OBVIOUS
<1>1. SearchTypeOK
  BY Kinds DEF SearchInit, SearchTypeOK, Texts
<1>2. LoadStages /\ SavedMatches
  BY Kinds DEF SearchInit, LoadStages, SavedMatches
<1>3. SavedIsPage /\ ResultsAreForInput /\ PageMatchesGrouping
  BY Kinds DEF SearchInit, SavedIsPage, ResultsAreForInput, PageMatchesGrouping
<1> QED
  BY <1>1, <1>2, <1>3 DEF IInv

-----------------------------------------------------------------------------
(* wrapper, which the timer and the load share.                            *)

LEMMA WrapperHolds ==
  ASSUME IInv, NEW d \in {<<>>, Index}, db \in {<<>>, d}, db' = d, Wrapper(d),
         UNCHANGED <<input, grouping, tocShown, alternative>>,
         loadIndexFut' \in {"none", "fetching", "reading", "loaded", "rejected"},
         d # <<>> => loadIndexFut' = "loaded",
         timer' \in Timers \cup {NoTimer}, timer' # NoTimer => loadIndexFut' # "none"
  PROVE  IInv'
<1> USE Kinds, NoElementAssumption
<1>1. CASE input # Empty /\ oldtoc = NoElement
  <2>1. root \in PageElements /\ root.kind # "results"
    BY <1>1 DEF IInv, SearchTypeOK, SavedIsPage
  <2>2. oldtoc' = root /\ savedGrouping' = grouping /\ unnoticed' = FALSE
    BY <1>1 DEF Wrapper
  <2>3. root' = IF d = <<>> THEN root ELSE DoSearch(input, d)
    BY <1>1 DEF Wrapper
  <2>4. input \in Queries
    BY <1>1 DEF IInv, SearchTypeOK, Texts
  <2>5. SearchTypeOK'
    BY <2>1, <2>2, <2>3, <2>4 DEF IInv, SearchTypeOK
  <2>6. LoadStages' /\ SavedMatches'
    BY <1>1, <2>1, <2>2, <2>3 DEF IInv, LoadStages, SavedMatches, PageMatchesGrouping
  <2>7. SavedIsPage' /\ ResultsAreForInput'
    BY <2>1, <2>2, <2>3 DEF SavedIsPage, ResultsAreForInput
  <2>8. PageMatchesGrouping'
    BY <1>1, <2>1, <2>2, <2>3 DEF IInv, PageMatchesGrouping
  <2> QED
    BY <2>5, <2>6, <2>7, <2>8 DEF IInv
<1>2. CASE input # Empty /\ oldtoc # NoElement
  <2>2. oldtoc' = oldtoc /\ savedGrouping' = savedGrouping /\ unnoticed' = FALSE
    BY <1>2 DEF Wrapper
  <2>3. root' = IF d = <<>> THEN root ELSE DoSearch(input, d)
    BY <1>2 DEF Wrapper
  <2>4. input \in Queries
    BY <1>2 DEF IInv, SearchTypeOK, Texts
  <2>1. d = <<>> => root \in PageElements
    BY DEF IInv, LoadStages
  <2>5. SearchTypeOK'
    BY <2>1, <2>2, <2>3, <2>4 DEF IInv, SearchTypeOK
  <2>6. LoadStages' /\ SavedMatches'
    BY <2>1, <2>2, <2>3 DEF IInv, LoadStages, SavedMatches
  <2>7. SavedIsPage' /\ ResultsAreForInput'
    BY <1>2, <2>1, <2>2, <2>3 DEF IInv, SavedIsPage, ResultsAreForInput
  <2>8. PageMatchesGrouping'
    BY <2>1, <2>2, <2>3 DEF IInv, PageMatchesGrouping
  <2> QED
    BY <2>5, <2>6, <2>7, <2>8 DEF IInv
<1>3. CASE input = Empty
  <2>1. oldtoc' = oldtoc /\ savedGrouping' = savedGrouping /\ unnoticed' = FALSE
    BY <1>3 DEF Wrapper
  <2>2. root' = IF oldtoc = NoElement THEN root ELSE oldtoc
    BY <1>3 DEF Wrapper
  <2>3. root' \in PageElements /\ root'.kind # "results"
    BY <2>2 DEF IInv, SearchTypeOK, SavedIsPage
  <2>4. SearchTypeOK'
    BY <2>1, <2>3 DEF IInv, SearchTypeOK
  <2>5. LoadStages' /\ SavedMatches'
    BY <2>1, <2>3 DEF IInv, LoadStages, SavedMatches
  <2>6. SavedIsPage' /\ ResultsAreForInput'
    BY <2>1, <2>3 DEF IInv, SavedIsPage, ResultsAreForInput
  <2>7. PageMatchesGrouping'
    BY <2>1, <2>2, <2>3 DEF IInv, PageMatchesGrouping, SavedMatches
  <2> QED
    BY <2>4, <2>5, <2>6, <2>7 DEF IInv
<1> QED
  BY <1>1, <1>2, <1>3

LEMMA GroupByHolds ==
  ASSUME IInv, NEW value \in {"section", "type"}, GroupBy(value)
  PROVE  IInv'
<1> USE Kinds
<1>1. /\ grouping # value /\ grouping' = value /\ alternative' = TRUE
      /\ root' = IF value = "type" THEN Alternative ELSE Blank
      /\ tocShown' = ~tocShown
      /\ UNCHANGED <<input, oldtoc, savedGrouping, db, loadIndexFut, timer, unnoticed>>
  BY DEF GroupBy, loadVars
<1>2. root' \in PageElements /\ root'.kind # "results"
  BY <1>1
<1>3. SearchTypeOK'
  <2>1. tocShown' \in BOOLEAN /\ alternative' \in BOOLEAN
    BY <1>1, Zenon
  <2> QED
    BY <1>1, <1>2, <2>1 DEF IInv, SearchTypeOK
<1>4. LoadStages' /\ SavedMatches' /\ SavedIsPage' /\ ResultsAreForInput'
  BY <1>1, <1>2 DEF IInv, LoadStages, SavedMatches, SavedIsPage, ResultsAreForInput
<1>5. PageMatchesGrouping'
  <2>1. tocShown <=> grouping = "section"
    BY DEF IInv, PageMatchesGrouping
  <2>2. grouping \in {"section", "type"}
    BY DEF IInv, SearchTypeOK
  <2>3. tocShown' <=> grouping' = "section"
    <3>1. (grouping' = "section") <=> ~(grouping = "section")
      BY <1>1, <2>2
    <3>2. tocShown' <=> ~tocShown
      BY <1>1, Zenon
    <3> QED
      BY <2>1, <3>1, <3>2, Zenon
  <2>4. root' = Alternative <=> grouping' = "type"
    BY <1>1
  <2> QED
    BY <2>3, <2>4 DEF PageMatchesGrouping
<1> QED
  BY <1>3, <1>4, <1>5 DEF IInv

LEMMA NextHolds == IInv /\ [SearchNext]_docSearchVars => IInv'
<1> SUFFICES ASSUME IInv, [SearchNext]_docSearchVars PROVE IInv'
  OBVIOUS
<1> USE Kinds
<1>1. CASE UNCHANGED docSearchVars
  BY <1>1 DEF docSearchVars, groupingVars, searchVars, loadVars, IInv, SearchTypeOK, LoadStages, SavedMatches,
     SavedIsPage, ResultsAreForInput, PageMatchesGrouping
<1>2. ASSUME NEW q \in Texts, Key(q) PROVE IInv'
  <2>1. /\ input' = q /\ unnoticed' = FALSE /\ timer' \in Timers
        /\ loadIndexFut' = IF loadIndexFut = "none" THEN "fetching" ELSE loadIndexFut
        /\ UNCHANGED <<groupingVars, searchVars, db>>
    BY <1>2 DEF Key, Search, Timers
  <2>2. timer' # NoTimer
    BY <2>1 DEF Timers, NoTimer
  <2>3. loadIndexFut' # "none"
    BY <2>1
  <2> QED
    BY <1>2, <2>1, <2>2, <2>3 DEF groupingVars, searchVars, IInv, SearchTypeOK, LoadStages, SavedMatches,
       SavedIsPage, ResultsAreForInput, PageMatchesGrouping
<1>3. ASSUME NEW q \in Texts, EditWithoutKey(q) PROVE IInv'
  BY <1>3 DEF EditWithoutKey, groupingVars, searchVars, loadVars, IInv, SearchTypeOK, LoadStages,
     SavedMatches, SavedIsPage, ResultsAreForInput, PageMatchesGrouping
<1>4. CASE TimerFires
  <2>1. timer' = NoTimer /\ Wrapper(db)
        /\ UNCHANGED <<input, grouping, tocShown, alternative, db, loadIndexFut>>
    BY <1>4 DEF TimerFires, groupingVars, loadVars
  <2>2. db \in {<<>>, Index}
        /\ loadIndexFut \in {"none", "fetching", "reading", "loaded", "rejected"}
        /\ (db # <<>> => loadIndexFut = "loaded")
    BY DEF IInv, SearchTypeOK, LoadStages
  <2>3. PICK d \in {<<>>, Index} : d = db
    BY <2>2
  <2>4. Wrapper(d) /\ db' = d
    BY <2>1, <2>3
  <2> QED
    BY <2>1, <2>2, <2>3, <2>4, WrapperHolds
<1>5. CASE ResponseArrives
  BY <1>5 DEF ResponseArrives, groupingVars, searchVars, IInv, SearchTypeOK, LoadStages, SavedMatches,
     SavedIsPage, ResultsAreForInput, PageMatchesGrouping
<1>6. CASE TextArrives
  <2>1. /\ loadIndexFut = "reading" /\ loadIndexFut' = "loaded"
        /\ db' \in {<<>>, Index} /\ Wrapper(db')
        /\ UNCHANGED <<input, grouping, tocShown, alternative, timer>>
    BY <1>6 DEF TextArrives, groupingVars
  <2>2. db = <<>> /\ timer \in Timers \cup {NoTimer}
    BY <2>1 DEF IInv, LoadStages, SearchTypeOK
  <2>3. PICK d \in {<<>>, Index} : d = db'
    BY <2>1
  <2>4. Wrapper(d)
    BY <2>1, <2>3
  <2> QED
    BY <2>1, <2>2, <2>3, <2>4, WrapperHolds
<1>7. CASE LoadFails
  BY <1>7 DEF LoadFails, groupingVars, searchVars, IInv, SearchTypeOK, LoadStages, SavedMatches,
     SavedIsPage, ResultsAreForInput, PageMatchesGrouping
<1>8. ASSUME NEW value \in {"section", "type"}, GroupBy(value) PROVE IInv'
  BY <1>8, GroupByHolds
<1> QED
  BY <1>1, <1>2, <1>3, <1>4, <1>5, <1>6, <1>7, <1>8 DEF SearchNext

-----------------------------------------------------------------------------
\* The inductive invariant of the page.
THEOREM InvariantAlways == SearchSpec => []IInv
BY InitHolds, NextHolds, PTL DEF SearchSpec

\* What is displayed, saved and loaded keeps its type.
THEOREM SearchTypeCorrect == SearchSpec => []SearchTypeOK
<1>1. IInv => SearchTypeOK
  BY DEF IInv
<1> QED
  BY InvariantAlways, <1>1, PTL

\* wrapper never saves a list of results for the empty box.
THEOREM SavedIsPageAlways == SearchSpec => []SavedIsPage
<1>1. IInv => SavedIsPage
  BY DEF IInv
<1> QED
  BY InvariantAlways, <1>1, PTL

\* However timer, load and keys interleave, settled results are for what is in the box.
THEOREM ResultsAreForInputAlways == SearchSpec => []ResultsAreForInput
<1>1. IInv => ResultsAreForInput
  BY DEF IInv
<1> QED
  BY InvariantAlways, <1>1, PTL

\* groupBy and wrapper, which replace the same element, agree on the grouping.
THEOREM PageMatchesGroupingAlways == SearchSpec => []PageMatchesGrouping
<1>1. IInv => PageMatchesGrouping
  BY DEF IInv
<1> QED
  BY InvariantAlways, <1>1, PTL

LEMMA LoadedOnceStep ==
  IInv /\ [SearchNext]_docSearchVars
  => [/\ loadIndexFut # "none" => loadIndexFut' # "none"
      /\ loadIndexFut # "none" => (loadIndexFut' = "fetching" => loadIndexFut = "fetching")
      /\ db # <<>> => db' = db]_docSearchVars
<1> SUFFICES ASSUME IInv, SearchNext
             PROVE  /\ loadIndexFut # "none" => loadIndexFut' # "none"
                    /\ loadIndexFut # "none"
                       => (loadIndexFut' = "fetching" => loadIndexFut = "fetching")
                    /\ db # <<>> => db' = db
  OBVIOUS
<1>1. db # <<>> => loadIndexFut = "loaded"
  BY DEF IInv, LoadStages
<1> QED
  BY <1>1 DEF SearchNext, Key, Search, EditWithoutKey, TimerFires, ResponseArrives, TextArrives,
     LoadFails, GroupBy, loadVars

\* search starts one load for the life of the page.
THEOREM LoadedOnceAlways == SearchSpec => LoadedOnce
BY InvariantAlways, LoadedOnceStep, PTL DEF SearchSpec, LoadedOnce
-----------------------------------------------------------------------------
(***************************************************************************)
(* What is left of the sorted matches is a best list.  Rank numbers the    *)
(* matches 0, 1, ... without a gap, because Before is a strict total order *)
(* on them: the positions the CHOOSE of Sorted looks for exist.            *)
(***************************************************************************)
LEMMA BeforeIsOrder ==
  ASSUME NEW q \in Queries
  PROVE  \A i, j, k \in Found(q, Index) :
           /\ ~Before(q, Index, i, i)
           /\ Before(q, Index, i, j) /\ Before(q, Index, j, k) => Before(q, Index, i, k)
           /\ i # j => Before(q, Index, i, j) \/ Before(q, Index, j, i)
<1>1. \A i \in Found(q, Index) : i \in Int /\ Score(q, Index[i]) \in Int
  BY SearchAssumption DEF Found, Entries
<1> QED
  BY <1>1 DEF Before

LEMMA FoundFinite ==
  ASSUME NEW q
  PROVE  /\ IsFiniteSet(Found(q, Index)) /\ Cardinality(Found(q, Index)) \in Nat
         /\ Found(q, Index) \subseteq DOMAIN Index
<1>1. Found(q, Index) \in SUBSET (1 .. Len(Index)) /\ Len(Index) \in Nat
  BY SearchAssumption DEF Found
<1>2. IsFiniteSet(Found(q, Index))
  <2>1. IsFiniteSet(1 .. Len(Index))
    BY <1>1, FS_Interval
  <2> QED
    BY <1>1, <2>1, FS_Subset
<1>3. Cardinality(Found(q, Index)) \in Nat
  BY <1>2, FS_CardinalityType
<1>4. Found(q, Index) \subseteq DOMAIN Index
  BY DEF Found
<1> QED
  BY <1>2, <1>3, <1>4

LEMMA RankGrows ==
  ASSUME NEW q \in Queries
  PROVE  /\ \A i \in Found(q, Index) :
              Rank(q, Index, i) \in 0 .. Cardinality(Found(q, Index)) - 1
         /\ \A i, k \in Found(q, Index) :
              Before(q, Index, i, k) => Rank(q, Index, i) < Rank(q, Index, k)
<1> DEFINE M == Found(q, Index)
           Ahead(i) == {j \in M : Before(q, Index, j, i)}
<1>1. IsFiniteSet(M) /\ Cardinality(M) \in Nat
  BY FoundFinite
<1>2. \A i \in M : Rank(q, Index, i) = Cardinality(Ahead(i))
  BY DEF Rank
<1>3. \A i \in M : Ahead(i) \in SUBSET M /\ i \notin Ahead(i)
  BY BeforeIsOrder
<1>4. ASSUME NEW i, NEW k \in M, i \in M, Before(q, Index, i, k)
      PROVE  Ahead(i) \in SUBSET Ahead(k) /\ i \in Ahead(k)
  BY <1>4, BeforeIsOrder
<1> HIDE DEF Ahead, M
<1>5. \A i \in M : IsFiniteSet(Ahead(i)) /\ Cardinality(Ahead(i)) \in Nat
  BY <1>1, <1>3, FS_Subset, FS_CardinalityType
<1>6. ASSUME NEW i \in M PROVE Cardinality(Ahead(i)) < Cardinality(M)
  <2>1. Cardinality(Ahead(i)) <= Cardinality(M) /\ Cardinality(M) # Cardinality(Ahead(i))
    BY <1>1, <1>3, <1>6, FS_Subset
  <2> QED
    BY <2>1, <1>1, <1>5
<1>7. ASSUME NEW i \in M, NEW k \in M, Before(q, Index, i, k)
      PROVE  Cardinality(Ahead(i)) < Cardinality(Ahead(k))
  <2>1. Ahead(i) \in SUBSET Ahead(k) /\ Ahead(i) # Ahead(k)
    BY <1>3, <1>4, <1>7
  <2>2. /\ Cardinality(Ahead(i)) <= Cardinality(Ahead(k))
        /\ Cardinality(Ahead(k)) # Cardinality(Ahead(i))
    BY <1>5, <2>1, FS_Subset
  <2> QED
    BY <1>5, <2>2
<1> QED
  BY <1>1, <1>2, <1>5, <1>6, <1>7 DEF M

LEMMA RanksAreFilled ==
  ASSUME NEW M, NEW n \in Nat, IsFiniteSet(M), Cardinality(M) = n,
         NEW r \in [M -> 0 .. n - 1], \A i, k \in M : i # k => r[i] # r[k]
  PROVE  \A m \in 0 .. n - 1 : \E i \in M : r[i] = m
<1>1. r \in Injection(M, 0 .. n - 1)
  BY DEF Injection, IsInjective
<1>2. IsFiniteSet(0 .. n - 1) /\ Cardinality(0 .. n - 1) = n
  BY FS_Interval
<1>3. r \in Surjection(M, 0 .. n - 1)
  BY <1>1, <1>2, FS_Injection
<1> QED
  BY <1>3 DEF Surjection

\* The matches in the order of the sort, by their positions in the index.
LEMMA SortedPositions ==
  ASSUME NEW q \in Queries
  PROVE  LET M == Found(q, Index)
             n == Cardinality(M)
         IN  \E pos \in [1 .. n -> M] :
               /\ Sorted(q, Index) = [k \in 1 .. n |-> Index[pos[k]]]
               /\ \A k, l \in 1 .. n : k < l => Before(q, Index, pos[k], pos[l])
               /\ \A i \in M : \E k \in 1 .. n : pos[k] = i
<1> DEFINE M == Found(q, Index)
           n == Cardinality(M)
           r == [i \in M |-> Rank(q, Index, i)]
           At(k) == CHOOSE i \in M : Rank(q, Index, i) = k - 1
           pos == [k \in 1 .. n |-> At(k)]
<1>1. IsFiniteSet(M) /\ n \in Nat
  BY FoundFinite
<1>2. \A i, k \in M : /\ i # k => Before(q, Index, i, k) \/ Before(q, Index, k, i)
                      /\ ~Before(q, Index, i, i)
  BY BeforeIsOrder
<1>3. /\ \A i \in M : Rank(q, Index, i) \in 0 .. n - 1
      /\ \A i, k \in M : Before(q, Index, i, k) => Rank(q, Index, i) < Rank(q, Index, k)
  BY RankGrows
<1>4. Sorted(q, Index) = [k \in 1 .. n |-> Index[pos[k]]]
  BY DEF Sorted
<1> HIDE DEF M, n
<1>5. \A i, k \in M : i # k => Rank(q, Index, i) # Rank(q, Index, k)
  BY <1>2, <1>3, <1>1
<1>6. \A m \in 0 .. n - 1 : \E i \in M : Rank(q, Index, i) = m
  <2>1. /\ r \in [M -> 0 .. n - 1] /\ \A i, k \in M : i # k => r[i] # r[k]
        /\ \A i \in M : r[i] = Rank(q, Index, i)
    BY <1>3, <1>5
  <2> HIDE DEF r
  <2>2. n = Cardinality(M)
    BY DEF n
  <2>3. \A m \in 0 .. n - 1 : \E i \in M : r[i] = m
    BY <1>1, <2>1, <2>2, RanksAreFilled
  <2> QED
    BY <2>1, <2>3
<1>7. \A k \in 1 .. n : At(k) \in M /\ Rank(q, Index, At(k)) = k - 1
  BY <1>1, <1>6
<1> HIDE DEF At
<1>8. pos \in [1 .. n -> M]
  BY <1>7
<1>9. \A k, l \in 1 .. n : k < l => Before(q, Index, pos[k], pos[l])
  BY <1>1, <1>2, <1>3, <1>7
<1>10. \A i \in M : \E k \in 1 .. n : pos[k] = i
  <2> SUFFICES ASSUME NEW i \in M PROVE \E k \in 1 .. n : pos[k] = i
    OBVIOUS
  <2>1. Rank(q, Index, i) + 1 \in 1 .. n
    BY <1>1, <1>3
  <2>2. Rank(q, Index, At(Rank(q, Index, i) + 1)) = Rank(q, Index, i)
        /\ At(Rank(q, Index, i) + 1) \in M
    BY <1>1, <1>3, <1>7, <2>1
  <2>3. pos[Rank(q, Index, i) + 1] = i
    BY <1>5, <2>1, <2>2
  <2> QED
    BY <2>1, <2>3
<1>11. \E p \in [1 .. n -> M] :
         /\ Sorted(q, Index) = [k \in 1 .. n |-> Index[p[k]]]
         /\ \A k, l \in 1 .. n : k < l => Before(q, Index, p[k], p[l])
         /\ \A i \in M : \E k \in 1 .. n : p[k] = i
  BY <1>4, <1>8, <1>9, <1>10
<1> QED
  BY <1>11 DEF M, n

LEMMA MatchesAreFound ==
  ASSUME NEW q \in Queries
  PROVE  Promise!Matches(q) = {Index[i] : i \in Found(q, Index)}
BY DEF Promise!Matches, Found, Entries

(***************************************************************************)
(* dosearch: the list that is displayed for a query is a best one, its     *)
(* entries are different, match, stand best first, and none that was left  *)
(* out is better.                                                          *)
(***************************************************************************)
THEOREM DoSearchAnswers ==
  \A q \in Queries : Promise!Answers(q, DoSearch(q, Index))
<1> SUFFICES ASSUME NEW q \in Queries PROVE Promise!Answers(q, DoSearch(q, Index))
  OBVIOUS
<1> DEFINE M == Found(q, Index)
           n == Cardinality(M)
           m == IF n <= MaxResults THEN n ELSE MaxResults
           list == FirstOnes(Sorted(q, Index))
           listed == {list[i] : i \in DOMAIN list}
<1>1. n \in Nat /\ M \subseteq DOMAIN Index
  BY FoundFinite
<1>2. PICK pos \in [1 .. n -> M] :
        /\ Sorted(q, Index) = [k \in 1 .. n |-> Index[pos[k]]]
        /\ \A k, l \in 1 .. n : k < l => Before(q, Index, pos[k], pos[l])
        /\ \A i \in M : \E k \in 1 .. n : pos[k] = i
  BY SortedPositions
<1>3. \A i \in M : Index[i] \in Entries /\ Score(q, Index[i]) \in Nat
  BY <1>1, SearchAssumption DEF Entries
<1>4. \A i, k \in M : /\ Index[i] = Index[k] => i = k
                      /\ ~Before(q, Index, i, i)
                      /\ Before(q, Index, i, k) => Score(q, Index[i]) >= Score(q, Index[k])
  <2>1. \A i, k \in M : Index[i] = Index[k] => i = k
    BY <1>1, SearchAssumption
  <2>2. \A i \in M : ~Before(q, Index, i, i)
    BY BeforeIsOrder
  <2>3. \A i, k \in M : Before(q, Index, i, k) => Score(q, Index[i]) >= Score(q, Index[k])
    BY <1>3 DEF Before
  <2> QED
    BY <2>1, <2>2, <2>3
<1>5. Promise!Matches(q) = {Index[i] : i \in M}
  BY MatchesAreFound
<1> HIDE DEF M, n
<1>6. m \in Nat /\ m <= n /\ m <= MaxResults /\ (m < n => m = MaxResults)
  BY <1>1, SearchAssumption
<1>7. Sorted(q, Index) \in Seq(Entries) /\ Len(Sorted(q, Index)) = n
  BY <1>1, <1>2, <1>3
<1>8. list = SubSeq(Sorted(q, Index), 1, m)
  BY <1>7 DEF FirstOnes
<1>9. DOMAIN list = 1 .. m /\ Len(list) = m /\ \A k \in 1 .. m : list[k] = Index[pos[k]]
  <2>1. \A k \in 1 .. n : Sorted(q, Index)[k] = Index[pos[k]]
    BY <1>2
  <2> HIDE DEF m, list
  <2>2. /\ DOMAIN SubSeq(Sorted(q, Index), 1, m) = 1 .. m
        /\ Len(SubSeq(Sorted(q, Index), 1, m)) = m
        /\ \A k \in 1 .. m : SubSeq(Sorted(q, Index), 1, m)[k] = Sorted(q, Index)[k]
    BY <1>1, <1>6, <1>7
  <2> QED
    BY <1>1, <1>6, <1>8, <2>1, <2>2
<1> HIDE DEF list, m
<1>10. listed \subseteq Promise!Matches(q)
  BY <1>1, <1>2, <1>5, <1>6, <1>9
<1>11. \A k, l \in DOMAIN list :
         k < l => list[k] # list[l] /\ Score(q, list[k]) >= Score(q, list[l])
  BY <1>1, <1>2, <1>4, <1>6, <1>9
<1>12. listed # Promise!Matches(q) => Len(list) = MaxResults
  BY <1>1, <1>2, <1>5, <1>6, <1>9, <1>10
<1>13. \A e \in Promise!Matches(q) \ listed, f \in listed : Score(q, f) >= Score(q, e)
  <2> SUFFICES ASSUME NEW e \in Promise!Matches(q), e \notin listed,
                      NEW k \in 1 .. m
               PROVE  Score(q, list[k]) >= Score(q, e)
    BY <1>9
  <2>1. PICK l \in 1 .. n : e = Index[pos[l]]
    BY <1>2, <1>5
  <2>2. l > m
    BY <1>9, <1>6, <1>1, <2>1
  <2>3. Before(q, Index, pos[k], pos[l])
    BY <1>1, <1>2, <1>6, <2>2
  <2> QED
    BY <1>1, <1>2, <1>4, <1>6, <1>9, <2>1, <2>3
<1>14. Promise!BestFor(q, list)
  BY <1>6, <1>9, <1>10, <1>11, <1>12, <1>13 DEF Promise!BestFor
<1>15. q # Empty
  BY SearchAssumption
<1> QED
  BY <1>14, <1>15 DEF Promise!Answers, DoSearch, list

-----------------------------------------------------------------------------
(***************************************************************************)
(* The simulation: a turn of the event loop is a step of SearchPage or     *)
(* changes nothing of what it speaks about.                                *)
(***************************************************************************)
Loading == loadIndexFut \in {"fetching", "reading"}

LEMMA InitSimulates == SearchInit => Promise!SInit
<1> SUFFICES ASSUME SearchInit PROVE Promise!SInit
  OBVIOUS
<1>1. Displayed = Promise!Page
  BY Kinds DEF SearchInit, Displayed, Promise!Page
<1>2. IndexState = "unknown"
  BY DEF SearchInit, IndexState
<1>3. (timer # NoTimer \/ loadIndexFut \in {"fetching", "reading"}) = FALSE
  BY DEF SearchInit
<1> QED
  BY <1>1, <1>2, <1>3 DEF SearchInit, Promise!SInit

\* Once wrapper has run with an index or an empty box, the display answers.
LEMMA WrapperAnswers ==
  ASSUME IInv, NEW d \in {<<>>, Index}, Wrapper(d), input = Empty \/ d # <<>>
  PROVE  Promise!Answers(input, Displayed')
<1> USE Kinds
<1>1. CASE input = Empty
  <2>1. root'.kind # "results"
    BY <1>1 DEF Wrapper, IInv, SavedIsPage
  <2> QED
    BY <1>1, <2>1 DEF Displayed, Promise!Answers
<1>2. CASE input # Empty
  <2>1. root' = DoSearch(input, Index) /\ input \in Queries
    BY <1>2 DEF Wrapper, IInv, SearchTypeOK, Texts
  <2>2. Displayed' = DoSearch(input, Index)
    BY <2>1 DEF Displayed
  <2> QED
    BY <2>1, <2>2, DoSearchAnswers
<1> QED
  BY <1>1, <1>2

\* Without an index wrapper leaves the display of a query alone.
LEMMA WrapperGivesUp ==
  ASSUME Wrapper(<<>>), input # Empty
  PROVE  Displayed' = Displayed
BY DEF Wrapper, Displayed

LEMMA KeySimulates ==
  ASSUME IInv, NEW q \in Texts, Key(q)
  PROVE  Promise!Ask
<1>1. /\ input' = q /\ timer' # NoTimer /\ UNCHANGED <<root, db>>
      /\ \/ loadIndexFut' = "fetching" /\ loadIndexFut = "none"
         \/ UNCHANGED loadIndexFut
  BY DEF Key, Search, searchVars, NoTimer
<1>2. UNCHANGED <<Displayed, IndexState>>
  BY <1>1 DEF Displayed, IndexState
<1>3. (timer' # NoTimer \/ loadIndexFut' \in {"fetching", "reading"}) = TRUE
  BY <1>1
<1> QED
  BY <1>1, <1>2, <1>3 DEF Promise!Ask, Texts

LEMMA EditSimulates ==
  ASSUME NEW q \in Texts, EditWithoutKey(q)
  PROVE  Promise!Edit
BY DEF EditWithoutKey, Promise!Edit, Texts, searchVars, loadVars, Displayed, IndexState

LEMMA TimerSimulates ==
  ASSUME IInv, TimerFires
  PROVE  [Promise!SNext]_Promise!sVars
<1>1. /\ timer # NoTimer /\ timer' = NoTimer /\ Wrapper(db)
      /\ UNCHANGED <<input, db, loadIndexFut>>
  BY DEF TimerFires, loadVars
<1>2. db \in {<<>>, Index} /\ IndexState' = IndexState
  BY <1>1 DEF IInv, SearchTypeOK, IndexState
<1>3. db # <<>> => IndexState = "available"
  BY DEF IndexState
<1>4. (timer' # NoTimer \/ loadIndexFut' \in {"fetching", "reading"}) \in BOOLEAN
  BY Zenon
<1>5. CASE input = Empty \/ db # <<>>
  <2>1. PICK d \in {<<>>, Index} : d = db
    BY <1>2
  <2>2. Wrapper(d) /\ (input = Empty \/ d # <<>>)
    BY <1>1, <1>5, <2>1
  <2>3. Promise!Answers(input, Displayed')
    BY <2>2, WrapperAnswers
  <2>4. Promise!Answer
    BY <1>1, <1>2, <1>3, <1>4, <1>5, <2>3 DEF Promise!Answer
  <2> QED
    BY <2>4 DEF Promise!SNext
<1>6. CASE input # Empty /\ db = <<>>
  <2>1. Displayed' = Displayed
    BY <1>1, <1>6, WrapperGivesUp
  <2>2. CASE Loading
    <3>1. (timer' # NoTimer \/ loadIndexFut' \in {"fetching", "reading"}) = TRUE
          /\ (timer # NoTimer \/ loadIndexFut \in {"fetching", "reading"}) = TRUE
      BY <1>1, <2>2 DEF Loading
    <3> QED
      BY <1>1, <1>2, <2>1, <3>1 DEF Promise!sVars
  <2>3. CASE ~Loading
    <3>1. IndexState = "unavailable"
      BY <1>1, <1>6, <2>3 DEF IInv, SearchTypeOK, LoadStages, Loading, IndexState
    <3>2. Promise!GiveUp
      BY <1>1, <1>2, <1>4, <2>1, <3>1 DEF Promise!GiveUp
    <3> QED
      BY <3>2 DEF Promise!SNext
  <2> QED
    BY <2>2, <2>3
<1> QED
  BY <1>5, <1>6

LEMMA TextSimulates ==
  ASSUME IInv, TextArrives
  PROVE  Promise!SNext
<1>1. /\ loadIndexFut = "reading" /\ loadIndexFut' = "loaded"
      /\ db' \in {<<>>, Index} /\ Wrapper(db') /\ UNCHANGED input
  BY DEF TextArrives
<1>2. db = <<>> /\ IndexState = "unknown"
  BY <1>1 DEF IInv, LoadStages, IndexState
<1>3. IndexState' = IF db' = <<>> THEN "unavailable" ELSE "available"
  BY <1>1 DEF IndexState
<1>4. /\ timer # NoTimer \/ loadIndexFut \in {"fetching", "reading"}
      /\ (timer' # NoTimer \/ loadIndexFut' \in {"fetching", "reading"}) \in BOOLEAN
  BY <1>1, Zenon
<1>5. CASE input = Empty \/ db' # <<>>
  <2>1. PICK d \in {<<>>, Index} : d = db'
    BY <1>1
  <2>2. Wrapper(d) /\ (input = Empty \/ d # <<>>)
    BY <1>1, <1>5, <2>1
  <2>3. Promise!Answers(input, Displayed')
    BY <2>2, WrapperAnswers
  <2>4. Promise!Answer
    BY <1>1, <1>2, <1>3, <1>4, <1>5, <2>3 DEF Promise!Answer
  <2> QED
    BY <2>4 DEF Promise!SNext
<1>6. CASE input # Empty /\ db' = <<>>
  <2>1. Displayed' = Displayed
    BY <1>1, <1>6, WrapperGivesUp
  <2>2. Promise!GiveUp
    BY <1>1, <1>2, <1>3, <1>4, <1>6, <2>1 DEF Promise!GiveUp
  <2> QED
    BY <2>2 DEF Promise!SNext
<1> QED
  BY <1>5, <1>6

LEMMA FailureSimulates ==
  ASSUME IInv, LoadFails
  PROVE  Promise!GiveUp
<1>1. /\ loadIndexFut \in {"fetching", "reading"} /\ loadIndexFut' = "rejected"
      /\ UNCHANGED <<input, root, db>>
  BY DEF LoadFails, searchVars
<1>2. db = <<>> /\ IndexState = "unknown" /\ IndexState' = "unavailable"
  BY <1>1 DEF IInv, LoadStages, IndexState
<1>3. /\ timer # NoTimer \/ loadIndexFut \in {"fetching", "reading"}
      /\ (timer' # NoTimer \/ loadIndexFut' \in {"fetching", "reading"}) \in BOOLEAN
  BY <1>1, Zenon
<1>4. Displayed' = Displayed
  BY <1>1 DEF Displayed
<1> QED
  BY <1>1, <1>2, <1>3, <1>4 DEF Promise!GiveUp

LEMMA GroupBySimulates ==
  ASSUME NEW value \in {"section", "type"}, GroupBy(value)
  PROVE  Promise!Regroup
<1>1. /\ root' \in PageElements
      /\ UNCHANGED <<input, db, loadIndexFut, timer>>
  BY Kinds DEF GroupBy, loadVars
<1>2. Displayed' = Promise!Page
  BY <1>1, Kinds DEF Displayed, Promise!Page
<1> QED
  BY <1>1, <1>2 DEF Promise!Regroup, IndexState

LEMMA NextSimulates ==
  IInv /\ [SearchNext]_docSearchVars => [Promise!SNext]_Promise!sVars
<1> SUFFICES ASSUME IInv, [SearchNext]_docSearchVars PROVE [Promise!SNext]_Promise!sVars
  OBVIOUS
<1>1. CASE UNCHANGED docSearchVars
  BY <1>1 DEF docSearchVars, searchVars, loadVars, Promise!sVars, Displayed, IndexState
<1>2. ASSUME NEW q \in Texts, Key(q) PROVE Promise!SNext
  BY <1>2, KeySimulates DEF Promise!SNext
<1>3. ASSUME NEW q \in Texts, EditWithoutKey(q) PROVE Promise!SNext
  BY <1>3, EditSimulates DEF Promise!SNext
<1>4. CASE TimerFires
  BY <1>4, TimerSimulates
<1>5. CASE ResponseArrives
  <2>1. /\ UNCHANGED <<input, root, db, timer>>
        /\ loadIndexFut = "fetching" /\ loadIndexFut' = "reading"
    BY <1>5 DEF ResponseArrives, searchVars
  <2>2. UNCHANGED <<Displayed, IndexState>>
    BY <2>1 DEF Displayed, IndexState
  <2>3. (timer' # NoTimer \/ loadIndexFut' \in {"fetching", "reading"}) = TRUE
        /\ (timer # NoTimer \/ loadIndexFut \in {"fetching", "reading"}) = TRUE
    BY <2>1
  <2> QED
    BY <2>1, <2>2, <2>3 DEF Promise!sVars
<1>6. CASE TextArrives
  BY <1>6, TextSimulates
<1>7. CASE LoadFails
  BY <1>7, FailureSimulates DEF Promise!SNext
<1>8. ASSUME NEW value \in {"section", "type"}, GroupBy(value) PROVE Promise!SNext
  BY <1>8, GroupBySimulates DEF Promise!SNext
<1> QED
  BY <1>1, <1>2, <1>3, <1>4, <1>5, <1>6, <1>7, <1>8 DEF SearchNext

(***************************************************************************)
(* search, wrapper, the load and groupBy keep SearchPage's promise for     *)
(* every index, every score and any interleaving of their turns.           *)
(***************************************************************************)
THEOREM Implements == SearchSpec => ImplementsSearchPage
BY InitSimulates, InvariantAlways, NextSimulates, PTL
   DEF SearchSpec, ImplementsSearchPage, Promise!SSpec

(***************************************************************************)
(*                             The whole page                              *)
(*                                                                         *)
(* The three parts share no variable: a turn of the page is one of each    *)
(* part or leaves it alone, so that each part keeps what it keeps alone.   *)
(***************************************************************************)

LEMMA TurnsArePartly ==
  [Next]_pageVars => /\ [ThemeNext]_themeVars
                     /\ [PageNext]_pageLoadVars
                     /\ [SearchNext]_docSearchVars
BY DEF Next, ThemeStep, LoadStep, SearchStep, pageVars

LEMMA StartsAreAll ==
  Init => ThemeInit /\ PageInit /\ SearchInit
BY DEF Init

\* A page runs the script of its theme, replaces its listings and searches,
\* each as if it did nothing else.
THEOREM PartsImplement ==
  Spec => ThemeSpec /\ PageSpec /\ SearchInit /\ [][SearchNext]_docSearchVars
BY TurnsArePartly, StartsAreAll, PTL DEF Spec, ThemeSpec, PageSpec

LEMMA SearchInvariant ==
  SearchInit /\ [][SearchNext]_docSearchVars => []IInv
BY InitHolds, NextHolds, PTL

\* Whatever the reader does on a page and the browser answers, no variable of
\* dochack.js's page leaves its type.
THEOREM TypeCorrect == Spec => []TypeOK
<1>1. IInv => SearchTypeOK
  BY DEF IInv
<1> QED
  BY PartsImplement, ThemeTypeCorrect, PageTypeCorrect, SearchInvariant, <1>1, PTL DEF TypeOK

\* On one page no theme chosen is lost, no handler and no copy is, and settled
\* results are those of the text in the box and agree with the grouping.
THEOREM PageIsSafe ==
  Spec => /\ []ChoiceIsKept /\ []SelectShowsTheme
          /\ []ListingsRespond /\ []SelectedWasCopied
          /\ []ResultsAreForInput /\ []PageMatchesGrouping
<1>1. IInv => ResultsAreForInput /\ PageMatchesGrouping
  BY DEF IInv
<1> QED
  BY PartsImplement, ChoiceIsKeptAlways, SelectShowsThemeAlways, ListingsRespondAlways,
     SelectedWasCopiedAlways, SearchInvariant, <1>1, PTL

\* The search of a page that also loads and changes its theme keeps SearchPage's promise.
THEOREM PageImplements == Spec => ImplementsSearchPage
BY PartsImplement, SearchInvariant, InitSimulates, NextSimulates, PTL
   DEF ImplementsSearchPage, Promise!SSpec
=============================================================================
