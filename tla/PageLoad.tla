------------------------------ MODULE PageLoad ------------------------------
(***************************************************************************)
(* What a documentation page does with its listings, the pre elements.     *)
(* Its script registers two listeners for the end of the document, which   *)
(* run in the order they were registered: updatePreTags replaces every     *)
(* listing by a copy of its HTML and a button that copies its text, and    *)
(* onDOMLoaded makes the dots of abbreviated pragmas, which stand inside   *)
(* listings, respond to a click.  A handler is lost with the element it    *)
(* was set on.  The reader may click and move the mouse at any time; the   *)
(* browser answers a request to copy later, and not always in order.       *)
(***************************************************************************)
EXTENDS Integers, Sequences, FiniteSets

CONSTANTS
  Listings,    \* the pre elements
  WithDots,    \* those that hold abbreviated pragmas
  Nothing,
  MaxCopies    \* bound: requests to copy that are not answered

ASSUME PageAssumption == WithDots \subseteq Listings /\ MaxCopies \in Nat

VARIABLES
  hasSelect,     \* the page has a theme-select
  hasClipboard,  \* navigator.clipboard is there (a secure context)
  phase,         \* "parsing", "script", "loaded" or "ready"
  present,       \* the listings that are parsed
  listeners,     \* those for DOMContentLoaded still to run
  wrapped,       \* the listings replaced by updatePreTags
  dotsRespond,   \* the listings whose dots have a handler
  dotsOpen,      \* the listings whose pragmas are unfolded
  selected,      \* the listings whose button shows that it was copied
  copies,        \* the listings whose copy was asked for, unanswered
  clipboard,
  copied,        \* listings whose copy has succeeded
  failedHovers   \* a mouseover has raised after the page was ready

browserVars == <<hasSelect, hasClipboard>>
stageVars == <<phase, present, listeners>>
copyVars == <<copies, clipboard, copied>>
pageLoadVars == <<browserVars, stageVars, wrapped, dotsRespond, dotsOpen, selected, copyVars, failedHovers>>

PageInit ==
  /\ hasSelect \in BOOLEAN /\ hasClipboard \in BOOLEAN
  /\ phase = "script" /\ present = {} /\ listeners = <<>>
  /\ wrapped = {} /\ dotsRespond = {} /\ dotsOpen = {}
  /\ selected = {} /\ copies = {} /\ clipboard = Nothing /\ copied = {}
  /\ failedHovers = FALSE

\* Fault: copyToClipboard is called last.
RunScriptInOtherOrder ==
  /\ phase = "script" /\ phase' = "parsing"
  /\ listeners' = <<"onDOMLoaded", "updatePreTags">>
  /\ UNCHANGED <<browserVars, present, wrapped, dotsRespond, dotsOpen, selected, copyVars, failedHovers>>

\* The script stands in the head: copyToClipboard() and then addEventListener.
RunScript ==
  /\ phase = "script" /\ phase' = "parsing"
  /\ listeners' = <<"updatePreTags", "onDOMLoaded">>
  /\ UNCHANGED <<browserVars, present, wrapped, dotsRespond, dotsOpen, selected, copyVars, failedHovers>>

Parse(p) ==
  /\ phase = "parsing" /\ p \notin present
  /\ present' = present \cup {p}
  /\ UNCHANGED <<browserVars, phase, listeners, wrapped, dotsRespond, dotsOpen, selected,
                 copyVars, failedHovers>>

DOMContentLoaded ==
  /\ phase = "parsing" /\ present = Listings
  /\ phase' = "loaded"
  /\ UNCHANGED <<browserVars, present, listeners, wrapped, dotsRespond, dotsOpen, selected,
                 copyVars, failedHovers>>

NextListener(name) ==
  /\ phase = "loaded" /\ listeners # <<>> /\ Head(listeners) = name
  /\ listeners' = Tail(listeners)
  /\ phase' = IF listeners' = <<>> THEN "ready" ELSE "loaded"
  /\ UNCHANGED <<browserVars, present, selected, copyVars, failedHovers>>

\* Fault: listings that had a handler for their dots are left alone.
UpdateSomePreTags ==
  /\ NextListener("updatePreTags")
  /\ wrapped' = present \ WithDots
  /\ UNCHANGED <<dotsRespond, dotsOpen>>

\* The copies are made from HTML: they have no handlers, and styles survive.
UpdatePreTags ==
  /\ NextListener("updatePreTags")
  /\ wrapped' = present
  /\ dotsRespond' = {}
  /\ UNCHANGED dotsOpen

\* Without a theme-select the first statement raises.
OnDOMLoaded ==
  /\ NextListener("onDOMLoaded")
  /\ dotsRespond' = IF hasSelect THEN present \cap WithDots ELSE dotsRespond
  /\ UNCHANGED <<wrapped, dotsOpen>>

\* Between events the reader may act, while both listeners run nobody can.
Idle == phase \in {"parsing", "ready"}

ClickDots(p) ==
  /\ Idle /\ p \in dotsRespond \ dotsOpen
  /\ dotsOpen' = dotsOpen \cup {p}
  /\ UNCHANGED <<browserVars, stageVars, wrapped, dotsRespond, selected, copyVars, failedHovers>>

\* copyTextToClipboard; without a clipboard it raises.
ClickCopy(p) ==
  /\ Idle /\ p \in wrapped
  /\ hasClipboard
  /\ p \notin copies /\ Cardinality(copies) < MaxCopies
  /\ copies' = copies \cup {p}
  /\ UNCHANGED <<browserVars, stageVars, wrapped, dotsRespond, dotsOpen, selected, clipboard, copied,
                 failedHovers>>

CopySucceeds(p) ==
  /\ Idle /\ p \in copies
  /\ copies' = copies \ {p}
  /\ clipboard' = p /\ copied' = copied \cup {p}
  /\ selected' = selected \cup {p}
  /\ UNCHANGED <<browserVars, stageVars, wrapped, dotsRespond, dotsOpen, failedHovers>>

\* Fault: the button is marked whatever the answer.
CopyFailsSilently(p) ==
  /\ Idle /\ p \in copies
  /\ copies' = copies \ {p}
  /\ selected' = selected \cup {p}
  /\ UNCHANGED <<browserVars, stageVars, wrapped, dotsRespond, dotsOpen, clipboard, copied, failedHovers>>

\* The permission is refused: the button stays as it was.
CopyFails(p) ==
  /\ Idle /\ p \in copies
  /\ copies' = copies \ {p}
  /\ UNCHANGED <<browserVars, stageVars, wrapped, dotsRespond, dotsOpen, selected, clipboard, copied,
                 failedHovers>>

(***************************************************************************)
(* The mouse enters a listing: the element after it, the button, is reset; *)
(* a listing that is not wrapped yet may have no element after it.         *)
(***************************************************************************)
MouseOver(p) ==
  /\ Idle /\ p \in present
  /\ selected' = IF p \in wrapped THEN selected \ {p} ELSE selected
  /\ failedHovers' = (failedHovers \/ (phase = "ready" /\ p \notin wrapped))
  /\ UNCHANGED <<browserVars, stageVars, wrapped, dotsRespond, dotsOpen, copyVars>>

PageNext ==
  \/ RunScript \/ DOMContentLoaded \/ UpdatePreTags \/ OnDOMLoaded
  \/ \E p \in Listings :
       \/ Parse(p) \/ ClickDots(p) \/ ClickCopy(p)
       \/ CopySucceeds(p) \/ CopyFails(p) \/ MouseOver(p)

PageSpec == PageInit /\ [][PageNext]_pageLoadVars

-----------------------------------------------------------------------------
\* Variables keep their types; only what is parsed is changed.
PageTypeOK ==
  /\ phase \in {"script", "parsing", "loaded", "ready"}
  /\ listeners \in {<<>>, <<"onDOMLoaded">>, <<"updatePreTags", "onDOMLoaded">>}
  /\ {hasSelect, hasClipboard, failedHovers} \subseteq BOOLEAN
  /\ present \subseteq Listings /\ wrapped \subseteq present
  /\ dotsRespond \subseteq WithDots /\ dotsOpen \subseteq WithDots
  /\ selected \subseteq wrapped /\ copies \subseteq wrapped /\ copied \subseteq wrapped
  /\ clipboard \in Listings \cup {Nothing}

(***************************************************************************)
(* When the page is ready the dots of every listing respond: replacing the *)
(* listings, which loses handlers, is over when the handlers are set.  A   *)
(* page without a theme-select has none.                                   *)
(***************************************************************************)
DotsRespondWhenReady ==
  phase = "ready" => dotsRespond = IF hasSelect THEN WithDots ELSE {}

\* A button shows that its listing was copied only after that succeeded.
SelectedWasCopied == selected \subseteq copied

(***************************************************************************)
(* No mouseover raises once the page is ready: every listing then has its  *)
(* button next to it.                                                      *)
(***************************************************************************)
HoversAreSafe == ~failedHovers

\* A page that is ready has every handler and what the handlers rely on.
ListingsRespond == DotsRespondWhenReady /\ HoversAreSafe
=============================================================================
