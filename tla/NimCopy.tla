------------------------------ MODULE NimCopy -------------------------------
(***************************************************************************)
(* nimCopy, by which dochack.js assigns Nim values.  A Nim assignment      *)
(* copies; a JavaScript one shares, so nimCopy walks the value along its   *)
(* type and copies each part into the part of the destination that is      *)
(* there already, if it fits.  The memory is a sequence of JavaScript      *)
(* objects and an address is a position in it.  Two variables of one type  *)
(* are assigned to each other and written to, in any order; the compiler   *)
(* emits no copy of a variable to itself.                                  *)
(***************************************************************************)
EXTENDS Integers, Sequences, FiniteSets

CONSTANTS
  Cases,     \* [ti, heap, x, y]: a type and two variables of it
  Chars,     \* what is written
  MaxHeap(_), \* bound: objects in memory before the last assignment, for a type
  MaxLen,    \* bound: length a string grows to
  Null        \* null and undefined

VARIABLES ti, heap, x, y

memoryVars == <<ti, heap, x, y>>

-----------------------------------------------------------------------------
(***************************************************************************)
(* The types (NTI): a kind, a base and the fields (NNI); a field is a      *)
(* name and a type.                                                        *)
(***************************************************************************)
Scalar    == [kind |-> 31]     \* and any other kind without a case: bool, cstring
NimString == [kind |-> 28]
RefTo(base)            == [kind |-> 22, base |-> base]
SequenceOf(base)       == [kind |-> 24, base |-> base]
ArrayOf(base)          == [kind |-> 16, base |-> base]
SetType                == [kind |-> 19]
Tuple(fields)          == [kind |-> 18, base |-> Null, node |-> fields]
Object(base, fields)   == [kind |-> 17, base |-> base, node |-> fields]

HSlice      == Tuple(<<[name |-> "a", typ |-> Scalar], [name |-> "b", typ |-> Scalar]>>)
ScoreTuple  == Tuple(<<[name |-> "Field0", typ |-> Scalar], [name |-> "Field1", typ |-> Scalar]>>)
RootObj     == Object(Null, <<>>)
Exception   == Object(RootObj, <<[name |-> "parent",  typ |-> RefTo(RootObj)],
                                 [name |-> "name",    typ |-> Scalar],
                                 [name |-> "message", typ |-> NimString],
                                 [name |-> "trace",   typ |-> NimString],
                                 [name |-> "up",      typ |-> RefTo(RootObj)]>>)
\* OverflowDefect, RangeDefect, IndexDefect and AssertionDefect add nothing.
Defect      == Object(Exception, <<>>)

References == {21, 22, 23, 5}
Structures == {17, 18}
Sequences_ == {4, 16, 24, 27}

\* A reference to what is no object of its own is a pair: container and key.
IsFatPointer(t) == t.base.kind \notin {17, 16, 4, 18, 27, 19, 23, 22, 21}

-----------------------------------------------------------------------------
\* setConstr: a set is an object with a key for each member.
SetConstr(S) == [c \in S |-> TRUE]

Alloc(h, object) == [h |-> Append(h, object), v |-> Len(h) + 1]

Read(h, a, key) == IF key \in DOMAIN h[a] THEN h[a][key] ELSE Null

Store(h, a, key, v) ==
  [h EXCEPT ![a] = [k \in DOMAIN h[a] \cup {key} |-> IF k = key THEN v ELSE h[a][k]]]

RECURSIVE Copy(_, _, _, _), CopyFields(_, _, _, _, _), CopyItems(_, _, _, _, _)

\* nimCopyAux: the fields from the k-th on, of the object at src to the one at dest.
CopyFields(h, dest, src, fields, k) ==
  IF k > Len(fields) THEN h
  ELSE LET f == fields[k]
           c == Copy(h, Read(h, dest, f.name), Read(h, src, f.name), f.typ)
       IN CopyFields(Store(c.h, dest, f.name, c.v), dest, src, fields, k + 1)

CopyItems(h, dest, src, base, k) ==
  IF k > Len(h[src]) THEN h
  ELSE LET c == Copy(h, h[dest][k], h[src][k], base)
       IN CopyItems([c.h EXCEPT ![dest][k] = c.v], dest, src, base, k + 1)

\* Fault: a string is shared, as if it were a reference.
CopyReference(h, dest, src, t) == [h |-> h, v |-> src]

\* A string is copied whole, a null string stays null.
CopyString(h, dest, src, t) == IF src = Null THEN [h |-> h, v |-> Null] ELSE Alloc(h, h[src])

\* Fault: the items are copied into what the destination has, whatever its length.
CopySequenceInPlace(h, dest, src, t) ==
  IF src = Null THEN [h |-> h, v |-> Null]
  ELSE LET r == IF dest = Null
                THEN Alloc(h, [k \in 1 .. Len(h[src]) |-> Null])
                ELSE [h |-> [h EXCEPT ![dest] =
                               IF Len(@) >= Len(h[src]) THEN @
                               ELSE @ \o [k \in 1 .. Len(h[src]) - Len(@) |-> Null]],
                      v |-> dest]
       IN [h |-> CopyItems(r.h, r.v, src, t.base, 1), v |-> r.v]

\* A sequence or array goes into the destination's if that is as long.
CopySequence(h, dest, src, t) ==
  IF src = Null THEN [h |-> h, v |-> Null]
  ELSE LET fits == dest # Null /\ Len(h[dest]) = Len(h[src])
           r == IF fits THEN [h |-> h, v |-> dest]
                ELSE Alloc(h, [k \in 1 .. Len(h[src]) |-> Null])
       IN [h |-> CopyItems(r.h, r.v, src, t.base, 1), v |-> r.v]

Copy(h, dest, src, t) ==
  CASE t.kind \in References ->
         IF IsFatPointer(t) THEN Alloc(h, <<h[src][1], h[src][2]>>) ELSE [h |-> h, v |-> src]
    [] t.kind = 19 ->
         IF dest = Null THEN Alloc(h, h[src]) ELSE [h |-> [h EXCEPT ![dest] = h[src]], v |-> dest]
    [] t.kind \in Structures ->
         LET r == IF t.base # Null THEN Copy(h, dest, src, t.base)
                  ELSE IF dest = Null THEN Alloc(h, << >>) ELSE [h |-> h, v |-> dest]
         IN [h |-> CopyFields(r.h, r.v, src, t.node, 1), v |-> r.v]
    [] t.kind \in Sequences_ -> CopySequence(h, dest, src, t)
    [] t.kind = 28 -> CopyString(h, dest, src, t)
    [] OTHER -> [h |-> h, v |-> src]

-----------------------------------------------------------------------------
(***************************************************************************)
(* What a variable holds, and the objects that are its own, each with the  *)
(* kind of its type: what is reached without following a reference.        *)
(***************************************************************************)
RECURSIVE AllFields(_), HasType(_, _, _), Value(_, _, _), Own(_, _, _)

AllFields(t) == (IF t.base = Null THEN <<>> ELSE AllFields(t.base)) \o t.node
FieldSet(t) == {AllFields(t)[k] : k \in DOMAIN AllFields(t)}

HasType(h, v, t) ==
  CASE t.kind \in References -> v \in DOMAIN h \cup {Null}
    [] t.kind \in Structures ->
         v \in DOMAIN h /\ \A f \in FieldSet(t) : HasType(h, Read(h, v, f.name), f.typ)
    [] t.kind \in Sequences_ ->
         v = Null \/ (v \in DOMAIN h /\ \A k \in DOMAIN h[v] : HasType(h, h[v][k], t.base))
    [] t.kind = 19 -> v \in DOMAIN h /\ DOMAIN h[v] \subseteq Chars
    [] t.kind = 28 -> v = Null \/ (v \in DOMAIN h /\ h[v] \in Seq(Chars))
    [] OTHER -> v \in Chars

Value(h, v, t) ==
  IF v = Null THEN Null
  ELSE CASE t.kind \in References -> IF IsFatPointer(t) THEN h[v] ELSE v
         [] t.kind \in Structures ->
              [name \in {f.name : f \in FieldSet(t)} |->
                 LET f == CHOOSE f \in FieldSet(t) : f.name = name
                 IN Value(h, Read(h, v, name), f.typ)]
         [] t.kind \in Sequences_ -> [k \in DOMAIN h[v] |-> Value(h, h[v][k], t.base)]
         [] t.kind \in {19, 28} -> h[v]
         [] OTHER -> v

Own(h, v, t) ==
  IF v = Null THEN {}
  ELSE CASE t.kind \in References -> IF IsFatPointer(t) THEN {<<v, t.kind>>} ELSE {}
         [] t.kind \in Structures ->
              {<<v, t.kind>>} \cup UNION {Own(h, Read(h, v, f.name), f.typ) : f \in FieldSet(t)}
         [] t.kind \in Sequences_ ->
              {<<v, t.kind>>} \cup UNION {Own(h, h[v][k], t.base) : k \in DOMAIN h[v]}
         [] t.kind \in {19, 28} -> {<<v, t.kind>>}
         [] OTHER -> {}

CopyInit == \E c \in Cases : ti = c.ti /\ heap = c.heap /\ x = c.x /\ y = c.y

Assign ==
  /\ x # Null /\ Len(heap) <= MaxHeap(ti)
  /\ LET c == Copy(heap, y, x, ti) IN heap' = c.h /\ y' = c.v
  /\ UNCHANGED <<ti, x>>

AssignBack ==
  /\ y # Null /\ Len(heap) <= MaxHeap(ti)
  /\ LET c == Copy(heap, x, y, ti) IN heap' = c.h /\ x' = c.v
  /\ UNCHANGED <<ti, y>>

\* Writes to what is v's own: a field, item or character, a set, the end of a string.
Write(v) ==
  \E own \in Own(heap, v, ti) :
    LET a == own[1] kind == own[2] IN
    \/ /\ kind # 19
       /\ \E key \in DOMAIN heap[a], c \in Chars :
            heap[a][key] \in Chars /\ heap' = [heap EXCEPT ![a][key] = c]
    \/ /\ kind = 19
       /\ \E S \in SUBSET Chars : heap' = [heap EXCEPT ![a] = SetConstr(S)]
    \/ /\ kind = 28 /\ Len(heap[a]) < MaxLen
       /\ \E c \in Chars : heap' = [heap EXCEPT ![a] = Append(@, c)]

ChangeX == Write(x) /\ UNCHANGED <<ti, x, y>>
ChangeY == Write(y) /\ UNCHANGED <<ti, x, y>>

CopyNext == Assign \/ AssignBack \/ ChangeX \/ ChangeY

CopySpec == CopyInit /\ [][CopyNext]_memoryVars

-----------------------------------------------------------------------------
\* Each variable is nothing yet or a complete value of the type.
CopyTypeOK ==
  /\ x = Null \/ HasType(heap, x, ti)
  /\ y = Null \/ HasType(heap, y, ti)

(***************************************************************************)
(* An assignment makes the destination equal to the source and leaves the  *)
(* source alone, whatever the destination held.                            *)
(***************************************************************************)
CopyIsEqual ==
  [][/\ Assign => /\ Value(heap', y', ti) = Value(heap, x, ti)
                  /\ Value(heap', x, ti) = Value(heap, x, ti)
     /\ AssignBack => /\ Value(heap', x', ti) = Value(heap, y, ti)
                      /\ Value(heap', y, ti) = Value(heap, y, ti)]_memoryVars

(***************************************************************************)
(* What is written to one variable is never seen through the other, after  *)
(* any assignments in either direction.                                    *)
(***************************************************************************)
CopyIsIndependent ==
  [][/\ ChangeX => Value(heap', y, ti) = Value(heap, y, ti)
     /\ ChangeY => Value(heap', x, ti) = Value(heap, x, ti)]_memoryVars

\* nimCopy gives the meaning of Nim's assignment, then and ever after.
CopiesAreRight == CopyIsEqual /\ CopyIsIndependent
=============================================================================
