------------------------------- MODULE Theme --------------------------------
(***************************************************************************)
(* The theme of the documentation, which all open pages of it share in the *)
(* browser's localStorage.  A page reads it when its script runs, sets it  *)
(* (which writes it back) and puts it into the select when its document is *)
(* loaded.  Pages are processes of their own: between one's read and its   *)
(* write, and between its script and its document's end, others run.       *)
(***************************************************************************)
EXTENDS Integers, FiniteSets

CONSTANTS
  Tabs,      \* where pages may be open
  Themes,    \* what the select offers
  Default,   \* auto
  NoTheme    \* null

ASSUME ThemeAssumption == Default \in Themes /\ NoTheme \notin Themes

VARIABLES
  storage,     \* localStorage's item theme
  tabPhase,       \* tab |-> "closed", "read", "set" or "loaded"
  t,           \* tab |-> the theme its script read
  dataTheme,   \* tab |-> the attribute data-theme
  select,      \* tab |-> the value of theme-select
  \* Observations that the code does not make:
  lastChoice,  \* what the reader chose last, in any tab
  raced,       \* a choice was made while another tab was between read and write
  overtaken    \* tabs where it was made between the script and the end of loading

tabVars == <<tabPhase, t, dataTheme, select>>
history == <<lastChoice, raced, overtaken>>
themeVars == <<storage, tabVars, history>>

ThemeInit ==
  /\ storage = NoTheme
  /\ tabPhase = [tab \in Tabs |-> "closed"]
  /\ t = [tab \in Tabs |-> NoTheme]
  /\ dataTheme = [tab \in Tabs |-> NoTheme] /\ select = [tab \in Tabs |-> Default]
  /\ lastChoice = Default /\ raced = FALSE /\ overtaken = {}

\* Fault: what is stored is not asked for.
ReadDefault(tab) ==
  /\ tabPhase[tab] = "closed"
  /\ tabPhase' = [tabPhase EXCEPT ![tab] = "read"]
  /\ t' = [t EXCEPT ![tab] = Default]
  /\ select' = [select EXCEPT ![tab] = Default]
  /\ UNCHANGED <<storage, dataTheme, history>>

\* The script of a page that is opened or reloaded reads the theme.
Read(tab) ==
  /\ tabPhase[tab] = "closed"
  /\ tabPhase' = [tabPhase EXCEPT ![tab] = "read"]
  /\ t' = [t EXCEPT ![tab] = IF storage = NoTheme THEN Default ELSE storage]
  /\ select' = [select EXCEPT ![tab] = Default]
  /\ UNCHANGED <<storage, dataTheme, history>>

SetTheme(tab, theme) ==
  /\ dataTheme' = [dataTheme EXCEPT ![tab] = theme]
  /\ storage' = theme

RunScriptInTab(tab) ==
  /\ tabPhase[tab] = "read"
  /\ tabPhase' = [tabPhase EXCEPT ![tab] = "set"]
  /\ SetTheme(tab, t[tab])
  /\ overtaken' = overtaken \cup {u \in Tabs \ {tab} : tabPhase[u] = "set" /\ t[tab] # storage}
  /\ UNCHANGED <<t, select, lastChoice, raced>>

\* Fault: the select is left as the page has it.
OnDOMLoadedWithoutSelect(tab) ==
  /\ tabPhase[tab] = "set"
  /\ tabPhase' = [tabPhase EXCEPT ![tab] = "loaded"]
  /\ UNCHANGED <<storage, t, dataTheme, select, history>>

OnDOMLoadedInTab(tab) ==
  /\ tabPhase[tab] = "set"
  /\ tabPhase' = [tabPhase EXCEPT ![tab] = "loaded"]
  /\ select' = [select EXCEPT ![tab] = storage]
  /\ UNCHANGED <<storage, t, dataTheme, history>>

\* The reader chooses another theme in the select, which calls setTheme.
Choose(tab, theme) ==
  /\ tabPhase[tab] \in {"set", "loaded"} /\ theme # select[tab]
  /\ select' = [select EXCEPT ![tab] = theme]
  /\ SetTheme(tab, theme)
  /\ lastChoice' = theme
  /\ raced' = (raced \/ \E u \in Tabs : tabPhase[u] = "read")
  /\ overtaken' = overtaken \cup {u \in Tabs \ {tab} : tabPhase[u] = "set"}
  /\ UNCHANGED <<tabPhase, t>>

Close(tab) ==
  /\ tabPhase[tab] # "closed"
  /\ tabPhase' = [tabPhase EXCEPT ![tab] = "closed"]
  /\ overtaken' = overtaken \ {tab}
  /\ UNCHANGED <<storage, t, dataTheme, select, lastChoice, raced>>

ThemeNext ==
  \E tab \in Tabs :
    \/ Read(tab) \/ RunScriptInTab(tab) \/ OnDOMLoadedInTab(tab) \/ Close(tab)
    \/ \E theme \in Themes : Choose(tab, theme)

ThemeSpec == ThemeInit /\ [][ThemeNext]_themeVars

-----------------------------------------------------------------------------
\* Variables keep their types; a page whose script ran has a theme.
ThemeTypeOK ==
  /\ storage \in Themes \cup {NoTheme}
  /\ tabPhase \in [Tabs -> {"closed", "read", "set", "loaded"}]
  /\ \A tab \in Tabs : tabPhase[tab] = "read" => t[tab] \in Themes
  /\ \A tab \in Tabs : tabPhase[tab] \in {"set", "loaded"} => dataTheme[tab] \in Themes
  /\ select \in [Tabs -> Themes]
  /\ lastChoice \in Themes /\ raced \in BOOLEAN /\ overtaken \subseteq Tabs

(***************************************************************************)
(* What the reader chose last, in whichever tab, is what is stored: a page *)
(* that writes back what it has read loses a choice only if that was made  *)
(* in another tab in between.                                              *)
(***************************************************************************)
ChoiceIsKept ==
  (~raced /\ storage # NoTheme) => storage = lastChoice

(***************************************************************************)
(* The select of a loaded page names the theme the page has, unless the    *)
(* theme was changed in another tab while this page was loading.           *)
(***************************************************************************)
SelectShowsTheme ==
  \A tab \in Tabs :
    (tabPhase[tab] = "loaded" /\ tab \notin overtaken) => select[tab] = dataTheme[tab]
=============================================================================
