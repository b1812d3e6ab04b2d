----------------------------- MODULE NimDefects -----------------------------
(***************************************************************************)
(* The copy of a part of a string, s[a .. ^b], by which loadIndex takes    *)
(* the file's name off the index's address, and what the console says of   *)
(* a check that fails in it.  One behaviour is one call: the length is     *)
(* computed and checked, bytes are copied one by one, each behind an index *)
(* check, and the message of an index that is out of bounds is put         *)
(* together, number by number, before it is raised.                        *)
(***************************************************************************)
EXTENDS NimRuntime

CONSTANTS
  Slices,       \* [s, a, b]: strings and the ends of their parts
  None

ASSUME DefectsAssumption ==
  \A x \in Slices :
    /\ x.s \in Seq(0 .. 255) /\ x.a \in Int /\ x.b \in Int
    /\ Len(x.s) <= MaxInt /\ ~Overflows(x.a) /\ ~Overflows(x.b)

VARIABLES
  whole, start, back,      \* the call
  L,            \* the number of bytes to copy
  copied,            \* the bytes copied
  part,
  asked,        \* the failed index and its bounds, what is still to be written of them
  message,      \* what is written of them
  slicePc,           \* "measure", "copy", "message", "done" or "raised"
  sliceThrown

sliceCall == <<whole, start, back>>
sliceVars == <<sliceCall, L, copied, part, asked, message, slicePc, sliceThrown>>

SliceInit ==
  /\ \E x \in Slices : whole = x.s /\ start = x.a /\ back = x.b
  /\ L = 0 /\ copied = 0 /\ part = <<>> /\ asked = <<>> /\ message = <<>>
  /\ slicePc = "measure" /\ sliceThrown = None

RaiseInSlice(name, text) ==
  /\ slicePc' = "raised"
  /\ sliceThrown' = RaiseException(name, text, 0)
  /\ UNCHANGED <<sliceCall, L, copied, part, asked, message>>

\* mnewString
Zeros(n) == [k \in 1 .. n |-> 0]

Length == Len(whole) - back - start + 1

LengthOverflows ==
  Overflows(Len(whole) - back) \/ Overflows(Len(whole) - back - start) \/ Overflows(Length)

\* Fault: the last byte is forgotten.
MeasureOneLess ==
  /\ slicePc = "measure"
  /\ IF LengthOverflows THEN RaiseInSlice("OverflowDefect", OverflowMessage)
     ELSE IF ~InRange(Length - 1, 0, MaxInt) THEN RaiseInSlice("RangeDefect", RangeMessage)
     ELSE /\ L' = Length - 1 /\ part' = Zeros(Length - 1) /\ slicePc' = "copy"
          /\ UNCHANGED <<sliceCall, copied, asked, message, sliceThrown>>

\* Three checked sums, then the check of the length; the new string is of zeros.
Measure ==
  /\ slicePc = "measure"
  /\ IF LengthOverflows THEN RaiseInSlice("OverflowDefect", OverflowMessage)
     ELSE IF ~InRange(Length, 0, MaxInt) THEN RaiseInSlice("RangeDefect", RangeMessage)
     ELSE /\ L' = Length /\ part' = Zeros(Length) /\ slicePc' = "copy"
          /\ UNCHANGED <<sliceCall, copied, asked, message, sliceThrown>>

CopyByte ==
  /\ slicePc = "copy" /\ copied < L /\ InBounds(copied + start, Len(whole))
  /\ part' = [part EXCEPT ![copied + 1] = At(whole, copied + start)]
  /\ copied' = copied + 1
  /\ UNCHANGED <<sliceCall, L, asked, message, slicePc, sliceThrown>>

\* Fault: the position in the copy is reported, not the one in the string.
FailIndexOfCopy ==
  /\ slicePc = "copy" /\ copied < L /\ ~InBounds(copied + start, Len(whole))
  /\ IF Overflows(copied + start) THEN RaiseInSlice("OverflowDefect", OverflowMessage)
     ELSE IF whole = <<>> THEN RaiseInSlice("IndexDefect", NoElementsMessage)
     ELSE /\ asked' = <<copied, 0, Len(whole) - 1>> /\ slicePc' = "message"
          /\ UNCHANGED <<sliceCall, L, copied, part, message, sliceThrown>>

\* raiseIndexError: an empty container has a message of its own.
FailIndex ==
  /\ slicePc = "copy" /\ copied < L /\ ~InBounds(copied + start, Len(whole))
  /\ IF Overflows(copied + start) THEN RaiseInSlice("OverflowDefect", OverflowMessage)
     ELSE IF whole = <<>> THEN RaiseInSlice("IndexDefect", NoElementsMessage)
     ELSE /\ asked' = <<copied + start, 0, Len(whole) - 1>> /\ slicePc' = "message"
          /\ UNCHANGED <<sliceCall, L, copied, part, message, sliceThrown>>

Minus == 45
Digit(d) == 48 + d

\* $x: the characters of a number.
Decimal[n \in Nat] ==
  IF n < 10 THEN <<Digit(n)>> ELSE Append(Decimal[n \div 10], Digit(n % 10))

Dollar(x) == IF x < 0 THEN <<Minus>> \o Decimal[-x] ELSE Decimal[x]

WriteNumber ==
  /\ slicePc = "message" /\ asked # <<>>
  /\ message' = message \o <<<<"index ">>, <<" not in ">>, <<" .. ">>>>[4 - Len(asked)]
                        \o <<Dollar(Head(asked))>>
  /\ asked' = Tail(asked)
  /\ UNCHANGED <<sliceCall, L, copied, part, slicePc, sliceThrown>>

RaiseIndexError ==
  /\ slicePc = "message" /\ asked = <<>>
  /\ RaiseInSlice("IndexDefect", message)

ReturnSlice ==
  /\ slicePc = "copy" /\ copied >= L
  /\ slicePc' = "done"
  /\ UNCHANGED <<sliceCall, L, copied, part, asked, message, sliceThrown>>

SliceNext == Measure \/ CopyByte \/ FailIndex \/ WriteNumber \/ RaiseIndexError \/ ReturnSlice

SliceSpec == SliceInit /\ [][SliceNext]_sliceVars

-----------------------------------------------------------------------------
\* Variables keep their types: what is copied fits into the result.
SliceTypeOK ==
  /\ L \in 0 .. MaxInt /\ copied \in 0 .. L /\ Len(part) = L
  /\ Len(asked) <= 3 /\ Len(message) <= 6
  /\ slicePc \in {"measure", "copy", "message", "done", "raised"}
  /\ IF slicePc = "raised" THEN sliceThrown.kind = "Error" ELSE sliceThrown = None

(***************************************************************************)
(* The copy that is returned is the part that was asked for: from a on,    *)
(* without the last b - 1 bytes.                                           *)
(***************************************************************************)
SliceIsPart ==
  slicePc = "done" => /\ Len(part) = Length
                      /\ \A k \in DOMAIN part :
                           InBounds(start + k - 1, Len(whole)) /\ part[k] = At(whole, start + k - 1)

(***************************************************************************)
(* A call raises exactly when the part does not lie in the string: neither *)
(* does a check let a byte from outside through, nor does the sum for a    *)
(* part that is there overflow.                                            *)
(***************************************************************************)
IsPart == 0 <= start /\ 1 <= back /\ start <= Len(whole) - back + 1

OnlyBadPartsRaise ==
  /\ slicePc = "raised" => ~IsPart
  /\ slicePc = "done" => IsPart \/ L = 0

(***************************************************************************)
(* The message of an index defect is true: the number in it, read back, is *)
(* the first position the copy came to that the string does not have, and  *)
(* the bounds are those of the string.                                     *)
(***************************************************************************)
ReadDigits(text) ==
  LET value[k \in 0 .. Len(text)] ==
        IF k = 0 THEN 0
        ELSE IF text[k] = Minus THEN 0 ELSE value[k - 1] * 10 + text[k] - 48
  IN value

ReadNumber(text) ==
  IF text[1] = Minus THEN -ReadDigits(text)[Len(text)] ELSE ReadDigits(text)[Len(text)]

MessageIsTrue ==
  (slicePc = "raised" /\ message # <<>>)
  => LET text == sliceThrown.text
         index == ReadNumber(text[3])
     IN /\ index \notin ReadNumber(text[5]) .. ReadNumber(text[7])
        /\ ReadNumber(text[5]) = 0 /\ ReadNumber(text[7]) = Len(whole) - 1
        /\ index = IF start < 0 THEN start ELSE IF start > Len(whole) THEN start ELSE Len(whole)

\* A slice is the part that was asked for, or an error that says why not.
SlicesAreRight == SliceIsPart /\ OnlyBadPartsRaise /\ MessageIsTrue
=============================================================================
