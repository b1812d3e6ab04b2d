----------------------------- MODULE NimRuntime -----------------------------
(***************************************************************************)
(* The checks that the JavaScript back end of the Nim compiler puts into   *)
(* dochack.js.  An int is 32 bits wide and every sum, difference and       *)
(* product is checked; an index is compared with the container's bounds;   *)
(* a check that fails raises a defect, and because the page's handlers     *)
(* never catch one (excHandler is 0 outside toJSStr's try) the defect ends *)
(* the handler it is raised in.  A caller therefore models a defect as an  *)
(* end of its own and drops the locals of the call.                        *)
(***************************************************************************)
EXTENDS Integers, Sequences

CONSTANT MaxInt   \* the largest int; 2147483647 in the code

ASSUME MaxIntAssumption == MaxInt \in Nat

\* checkOverflowInt: what addInt, subInt and mulInt ask of their result.
Overflows(n) == n > MaxInt \/ n < -MaxInt - 1

\* chckIndx(i, 0, high): i is a 0-based position of a container of len items.
InBounds(i, len) == 0 <= i /\ i <= len - 1

\* chckRange(i, a, b)
InRange(i, a, b) == a <= i /\ i <= b

\* The 0-based read behind an index check.
At(s, i) == s[i + 1]

NimMin(a, b) == IF a <= b THEN a ELSE b

NimMax(a, b) == IF b <= a THEN a ELSE b

(***************************************************************************)
(* unhandledException: the text of an error the reader's console shows,    *)
(* in pieces: the defect's message, when it has one, and its name.         *)
(***************************************************************************)
UnhandledException(name, message) ==
  (IF message = <<>> THEN <<"Error: unhandled exception">>
   ELSE <<"Error: unhandled exception: ">> \o message) \o <<" [", name, "]">>

(***************************************************************************)
(* raiseException: a handler further out (excHandler > 0) gets the defect  *)
(* as it is; with none the runtime throws a JavaScript Error.              *)
(***************************************************************************)
RaiseException(name, message, excHandler) ==
  IF excHandler = 0
  THEN [kind |-> "Error", text |-> UnhandledException(name, message)]
  ELSE [kind |-> "thrown", name |-> name, message |-> message]

\* raiseOverflow, raiseRangeError, and raiseIndexError for an empty container.
OverflowMessage   == <<"over- or underflow">>
RangeMessage      == <<"value out of range">>
NoElementsMessage == <<"index out of bounds, the container is empty">>
=============================================================================
