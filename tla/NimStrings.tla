----------------------------- MODULE NimStrings -----------------------------
(***************************************************************************)
(* The strings of dochack.js.  A Nim string is an array of UTF-8 bytes, a  *)
(* JavaScript string a sequence of UTF-16 code units.  loadIndex joins the *)
(* root of the index's address and the address of an entry as bytes and    *)
(* toJSStr makes a JavaScript string of them; escapeCString pushes code    *)
(* units where toJSStr expects bytes.  toJSStr hands each run of bytes     *)
(* above 127 to decodeURIComponent inside a try, the only one of the page, *)
(* whose entry and exits count excHandler up and down.  One behaviour is a *)
(* sequence of calls; a step is one turn of toJSStr's loops.               *)
(***************************************************************************)
EXTENDS NimRuntime, SequencesExt

CONSTANTS
  IndexURLs,        \* addresses of theindex.html, as code units
  Hrefs,            \* addresses of its entries
  Tags,             \* texts of entries, as innerHTML has them
  IndexNameLength,  \* 13 in the code, the length of theindex.html
  NoError           \* nil

\* What a JavaScript string is made of.
CodeUnit == 0 .. 65535

ASSUME StringsAssumption ==
  /\ \A x \in IndexURLs \cup Hrefs \cup Tags : x \in Seq(CodeUnit)
  /\ IndexNameLength \in Nat

VARIABLES
  conversion,             \* what is converted: an address or a tag
  nimStr, strPos,             \* toJSStr's argument and position
  helper,           \* the percent text of a run
  res,              \* the pieces, joined
  excHandler, lastJSError, prevJSError,
  stringsPc, stringsThrown

loopVars == <<nimStr, strPos, helper, res>>
errorVars == <<excHandler, lastJSError, prevJSError>>
stringsVars == <<conversion, loopVars, errorVars, stringsPc, stringsThrown>>

-----------------------------------------------------------------------------
(***************************************************************************)
(* UTF-8: a code point as bytes.                                           *)
(***************************************************************************)
Utf8(c) ==
  IF c < 128 THEN <<c>>
  ELSE IF c < 2048 THEN <<192 + c \div 64, 128 + (c % 64)>>
  ELSE IF c < 65536 THEN <<224 + c \div 4096, 128 + ((c \div 64) % 64), 128 + (c % 64)>>
  ELSE <<240 + c \div 262144, 128 + ((c \div 4096) % 64), 128 + ((c \div 64) % 64), 128 + (c % 64)>>

Utf16(c) ==
  IF c < 65536 THEN <<c>>
  ELSE <<55296 + (c - 65536) \div 1024, 56320 + ((c - 65536) % 1024)>>

IsSurrogate(c) == c \in 55296 .. 57343

\* Fault: a code unit is taken for a code point.
CstrToNimstrByUnit(c) == FlattenSeq([k \in DOMAIN c |-> Utf8(c[k])])

(***************************************************************************)
(* cstrToNimstr: any surrogate starts a pair and swallows the code unit    *)
(* after it; a pair that the end of the string cuts is filled with zero.   *)
(***************************************************************************)
CstrToNimstr(c) ==
  LET from[k \in 1 .. Len(c) + 2] ==
        IF k > Len(c) THEN <<>>
        ELSE IF IsSurrogate(c[k])
        THEN LET low == IF k < Len(c) THEN c[k + 1] % 1024 ELSE 0 IN
             Utf8(65536 + (c[k] % 1024) * 1024 + low) \o from[k + 2]
        ELSE Utf8(c[k]) \o from[k + 1]
  IN from[1]

(***************************************************************************)
(* decodeURIComponent, which the browser provides: every %XX is a byte,    *)
(* the bytes above 127 must be well-formed UTF-8, all else is itself.      *)
(* Failure is the value <<-1>>.                                            *)
(***************************************************************************)
Percent == 37
HexDigit(d) == IF d < 10 THEN 48 + d ELSE 87 + d
HexValue(u) == IF u \in 48 .. 57 THEN u - 48 ELSE IF u \in 97 .. 102 THEN u - 87 ELSE -1

Failure == <<-1>>
AndThen(x, y) == IF x = Failure \/ y = Failure THEN Failure ELSE x \o y

ByteAt(text, k) ==
  IF k + 2 <= Len(text) /\ text[k] = Percent
     /\ HexValue(text[k + 1]) >= 0 /\ HexValue(text[k + 2]) >= 0
  THEN 16 * HexValue(text[k + 1]) + HexValue(text[k + 2])
  ELSE -1

IsTail(b) == b \in 128 .. 191

DecodeURIComponent(text) ==
  LET b(k) == ByteAt(text, k)
      from[k \in 1 .. Len(text) + 12] ==
        IF k > Len(text) THEN <<>>
        ELSE IF text[k] # Percent THEN AndThen(<<text[k]>>, from[k + 1])
        ELSE IF b(k) \in 0 .. 127 THEN AndThen(<<b(k)>>, from[k + 3])
        ELSE LET size == IF b(k) \in 194 .. 223 THEN 2 ELSE IF b(k) \in 224 .. 239 THEN 3
                         ELSE IF b(k) \in 240 .. 244 THEN 4 ELSE 0
                 code == CASE size = 2 -> (b(k) - 192) * 64 + b(k + 3) - 128
                           [] size = 3 -> (b(k) - 224) * 4096 + (b(k + 3) - 128) * 64
                                          + b(k + 6) - 128
                           [] size = 4 -> (b(k) - 240) * 262144 + (b(k + 3) - 128) * 4096
                                          + (b(k + 6) - 128) * 64 + b(k + 9) - 128
                           [] OTHER -> -1
             IN IF /\ size > 0 /\ \A t \in 1 .. size - 1 : IsTail(b(k + 3 * t))
                   /\ Len(Utf8(code)) = size /\ code < 1114112 /\ ~IsSurrogate(code)
                THEN AndThen(Utf16(code), from[k + 3 * size])
                ELSE Failure
  IN from[1]

-----------------------------------------------------------------------------
(***************************************************************************)
(* s[a .. ^b], 0-based: a copy of what is between, or a defect when there  *)
(* is less than nothing.                                                   *)
(***************************************************************************)
SliceLength(x, a, b) == Len(x) - b - a + 1
Slice(x, a, b) == [k \in 1 .. SliceLength(x, a, b) |-> At(x, a + k - 1)]

LessThan == 60
GreaterThan == 62
LessEntity == <<38, 108, 116, 59>>
GreaterEntity == <<38, 103, 116, 59>>

\* Fault: only one of the brackets is escaped.
EscapeLess(x) ==
  FlattenSeq([k \in DOMAIN x |-> IF x[k] = LessThan THEN LessEntity ELSE <<x[k]>>])

\* escapeCString's loop: what is handed to toJSStr is code units.
Escape(x) ==
  FlattenSeq([k \in DOMAIN x |-> IF x[k] = LessThan THEN LessEntity
                                 ELSE IF x[k] = GreaterThan THEN GreaterEntity
                                 ELSE <<x[k]>>])

StringsInit ==
  /\ conversion = [kind |-> "none"]
  /\ nimStr = <<>> /\ strPos = 0 /\ helper = <<>> /\ res = <<>>
  /\ excHandler = 0 /\ lastJSError = NoError /\ prevJSError = NoError
  /\ stringsPc = "idle" /\ stringsThrown = NoError

ToJSStr(bytes) ==
  /\ nimStr' = bytes /\ strPos' = 0 /\ helper' = <<>> /\ res' = <<>> /\ stringsPc' = "scan"
  /\ UNCHANGED <<errorVars, stringsThrown>>

\* loadIndex: the address of an entry, relative to the index's.
JoinHref(url, href) ==
  /\ stringsPc \in {"idle", "done"}
  /\ conversion' = [kind |-> "href", url |-> url, href |-> href]
  /\ LET bytes == CstrToNimstr(url)
         length == SliceLength(bytes, 0, IndexNameLength + 1)
     IN IF InRange(length, 0, MaxInt)
        THEN ToJSStr(Slice(bytes, 0, IndexNameLength + 1) \o CstrToNimstr(href))
        ELSE /\ stringsThrown' = RaiseException("RangeDefect", RangeMessage, excHandler)
             /\ stringsPc' = "raised"
             /\ UNCHANGED <<loopVars, errorVars>>

EscapeCString(tag) ==
  /\ stringsPc \in {"idle", "done"}
  /\ conversion' = [kind |-> "tag", tag |-> tag]
  /\ ToJSStr(Escape(tag))

More == strPos < Len(nimStr)

AsciiChar ==
  /\ stringsPc = "scan" /\ More /\ At(nimStr, strPos) < 128
  /\ res' = Append(res, At(nimStr, strPos))
  /\ strPos' = strPos + 1
  /\ UNCHANGED <<conversion, nimStr, helper, errorVars, stringsPc, stringsThrown>>

\* c.toString(16) has as many digits as c needs; a single one gets a zero.
Digits(c) ==
  LET all == <<c \div 4096, (c \div 256) % 16, (c \div 16) % 16, c % 16>>
      kept == IF c < 16 THEN 3 ELSE CHOOSE k \in 1 .. 3 : all[k] # 0 /\ \A l \in 1 .. k - 1 : all[l] = 0
  IN [k \in 1 .. 5 - kept |-> HexDigit(all[kept + k - 1])]

\* One turn of the inner loop; it goes on while bytes above 127 follow.
EscapeByte ==
  /\ \/ stringsPc = "scan" /\ More /\ At(nimStr, strPos) >= 128
     \/ stringsPc = "run"
  /\ helper' = (IF stringsPc = "scan" THEN <<>> ELSE helper) \o <<Percent>> \o Digits(At(nimStr, strPos))
  /\ strPos' = strPos + 1
  /\ IF strPos' < Len(nimStr) /\ At(nimStr, strPos') >= 128
     THEN stringsPc' = "run" /\ UNCHANGED excHandler
     ELSE stringsPc' = "try" /\ excHandler' = excHandler + 1
  /\ UNCHANGED <<conversion, nimStr, res, lastJSError, prevJSError, stringsThrown>>

DecodeRun ==
  /\ stringsPc = "try" /\ DecodeURIComponent(helper) # Failure
  /\ res' = res \o DecodeURIComponent(helper)
  /\ excHandler' = excHandler - 1
  /\ stringsPc' = "scan"
  /\ UNCHANGED <<conversion, nimStr, strPos, helper, lastJSError, prevJSError, stringsThrown>>

\* Fault: the handler's counter stays up when the decoding throws.
DecodeThrowsInside ==
  /\ stringsPc = "try" /\ DecodeURIComponent(helper) = Failure
  /\ prevJSError' = lastJSError /\ lastJSError' = "URIError"
  /\ stringsPc' = "catch"
  /\ UNCHANGED <<conversion, loopVars, excHandler, stringsThrown>>

DecodeThrows ==
  /\ stringsPc = "try" /\ DecodeURIComponent(helper) = Failure
  /\ prevJSError' = lastJSError /\ lastJSError' = "URIError"
  /\ excHandler' = excHandler - 1
  /\ stringsPc' = "catch"
  /\ UNCHANGED <<conversion, loopVars, stringsThrown>>

\* The run stays as percent text.
KeepPercentText ==
  /\ stringsPc = "catch"
  /\ res' = res \o helper
  /\ lastJSError' = prevJSError
  /\ stringsPc' = "scan"
  /\ UNCHANGED <<conversion, nimStr, strPos, helper, excHandler, prevJSError, stringsThrown>>

ReturnString ==
  /\ stringsPc = "scan" /\ ~More
  /\ stringsPc' = "done"
  /\ UNCHANGED <<conversion, loopVars, errorVars, stringsThrown>>

StringsNext ==
  \/ \E url \in IndexURLs, href \in Hrefs : JoinHref(url, href)
  \/ \E tag \in Tags : EscapeCString(tag)
  \/ AsciiChar \/ EscapeByte
  \/ DecodeRun \/ DecodeThrows \/ KeepPercentText
  \/ ReturnString

StringsSpec == StringsInit /\ [][StringsNext]_stringsVars

-----------------------------------------------------------------------------
\* A string is well formed when its surrogates come in pairs.
IsLead(c) == c \in 55296 .. 56319
IsTrail(c) == c \in 56320 .. 57343

WellFormed(x) ==
  \A k \in DOMAIN x : /\ IsLead(x[k]) => k < Len(x) /\ IsTrail(x[k + 1])
                      /\ IsTrail(x[k]) => 1 < k /\ IsLead(x[k - 1])

IsAscii(x) == \A k \in DOMAIN x : x[k] < 128

\* Variables keep their types; the position stays in the string.
StringsTypeOK ==
  /\ nimStr \in Seq(CodeUnit) /\ strPos \in 0 .. Len(nimStr)
  /\ helper \in Seq(0 .. 127) /\ res \in Seq(CodeUnit)
  /\ excHandler \in 0 .. 1
  /\ {lastJSError, prevJSError} \subseteq {NoError, "URIError"}
  /\ stringsPc \in {"idle", "scan", "run", "try", "catch", "done", "raised"}

(***************************************************************************)
(* The address that loadIndex gives an entry is the index's address        *)
(* without the file's name, followed by the entry's own: decoding the two  *)
(* as one string of bytes, runs across the joint included, loses nothing.  *)
(***************************************************************************)
HrefIsJoined ==
  (/\ stringsPc = "done" /\ conversion.kind = "href"
   /\ WellFormed(conversion.href) /\ WellFormed(conversion.url)
   /\ IsAscii(SubSeq(conversion.url, Len(conversion.url) - IndexNameLength + 1, Len(conversion.url))))
  => res = SubSeq(conversion.url, 1, Len(conversion.url) - IndexNameLength) \o conversion.href

(***************************************************************************)
(* However many decodings fail, the page's handlers run outside of any     *)
(* try: a defect reaches the reader as an error with its name and text,    *)
(* and the error of a decoding is forgotten once its text is kept.         *)
(***************************************************************************)
DefectsAreReported ==
  /\ stringsPc \notin {"try", "catch"} => excHandler = 0 /\ lastJSError = NoError
  /\ stringsPc = "raised" => /\ stringsThrown.kind = "Error"
                             /\ stringsThrown.text = UnhandledException("RangeDefect", RangeMessage)

(***************************************************************************)
(* A tag of ASCII characters is kept but for its angle brackets, none of   *)
(* which is left for the page to take for HTML.                            *)
(***************************************************************************)
AsciiTagsAreEscaped ==
  (stringsPc = "done" /\ conversion.kind = "tag" /\ IsAscii(conversion.tag))
  => /\ \A k \in DOMAIN res : res[k] \notin {LessThan, GreaterThan}
     /\ res = Escape(conversion.tag)

\* No conversion loses or joins characters: addresses by toJSStr, tags by
\* escapeCString and toJSStr.
TextIsKept == HrefIsJoined /\ AsciiTagsAreEscaped
=============================================================================
