----------------------------- MODULE NimProofs ------------------------------
(***************************************************************************)
(* Proofs about NimStrings and NimDefects: a defect is reported as what it *)
(* is however many decodings have failed, a slice is the part that was     *)
(* asked for or an error whose text is true, and no text is lost on its    *)
(* way through bytes; the types of both are kept.                          *)
(***************************************************************************)
EXTENDS NimStrings, NimDefects, WellFoundedInduction, SequenceTheorems, TLAPS

-----------------------------------------------------------------------------
(***************************************************************************)
(* Numbers in a set have a smallest one, from which a set of numbers that  *)
(* have no counterexample below them has none at all: induction with a set *)
(* in the place of a formula.                                              *)
(***************************************************************************)
LEMMA Smallest ==
  ASSUME NEW T, T \subseteq Nat, T # {}
  PROVE  \E m \in T : \A n \in T : m <= n
<1> DEFINE R == OpToRel(<, Nat)
<1>1. IsWellFoundedOn(R, Nat)
  BY NatLessThanWellFounded
<1>2. \A i, j \in Nat : <<i, j>> \in R <=> i < j
  BY DEF OpToRel
<1> HIDE DEF R
<1>3. PICK m \in T : \A n \in T : ~ (<<n, m>> \in R)
  BY <1>1, WFMin
<1>4. ASSUME NEW n \in T PROVE m <= n
  <2>1. m \in Nat /\ n \in Nat
    OBVIOUS
  <2>2. ~(n < m)
    BY <1>2, <1>3, <2>1
  <2> QED
    BY <2>1, <2>2
<1> QED
  BY <1>4

LEMMA SetInduction ==
  ASSUME NEW G, \A n \in Nat : (\A m \in 0 .. n - 1 : m \in G) => n \in G
  PROVE  Nat \subseteq G
<1> DEFINE T == Nat \ G
<1>1. SUFFICES ASSUME T # {} PROVE FALSE
  OBVIOUS
<1>2. PICK m \in T : \A n \in T : m <= n
  <2>1. T \subseteq Nat
    OBVIOUS
  <2> HIDE DEF T
  <2> QED
    BY <1>1, <2>1, Smallest
<1>3. \A n \in 0 .. m - 1 : n \in G
  <2> TAKE n \in 0 .. m - 1
  <2>1. n \in Nat /\ n < m
    OBVIOUS
  <2> QED
    BY <1>2, <2>1
<1> QED
  BY <1>3

(***************************************************************************)
(* A function that gives each number a value made from those of smaller    *)
(* numbers exists, when F[n] looks at nothing but these.                   *)
(***************************************************************************)
LooksBack(F, V) ==
  \A n \in Nat : \A g, h \in [Nat -> V] :
    (\A i \in 0 .. n - 1 : g[i] = h[i]) => F[n][g] = F[n][h]

Agree(F, V) ==
  \A n \in Nat : \A g, h \in [Nat -> V] :
    (\A i \in 0 .. n : g[i] = F[i][g] /\ h[i] = F[i][h])
    => \A i \in 0 .. n : g[i] = h[i]

Solvable(F, V) == \E f \in [Nat -> V] : \A n \in Nat : f[n] = F[n][f]

LEMMA RecursionAgrees ==
  ASSUME NEW V, NEW F, LooksBack(F, V)
  PROVE  Agree(F, V)
<1> SUFFICES ASSUME NEW n \in Nat, NEW g \in [Nat -> V], NEW h \in [Nat -> V],
                    \A i \in 0 .. n : g[i] = F[i][g] /\ h[i] = F[i][h]
             PROVE  \A i \in 0 .. n : g[i] = h[i]
  BY DEF Agree
<1> DEFINE G == {i \in Nat : i <= n => g[i] = h[i]}
<1>1. ASSUME NEW i \in Nat, \A m \in 0 .. i - 1 : m \in G
      PROVE  i \in G
  <2>1. SUFFICES ASSUME i <= n PROVE g[i] = h[i]
    OBVIOUS
  <2>2. \A m \in 0 .. i - 1 : g[m] = h[m]
    BY <1>1, <2>1
  <2>3. F[i][g] = F[i][h]
    BY <2>2 DEF LooksBack
  <2> QED
    BY <2>1, <2>3
<1>2. Nat \subseteq G
  <2> HIDE DEF G
  <2> QED
    BY <1>1, SetInduction
<1> QED
  BY <1>2

LEMMA RecursionExists ==
  ASSUME NEW V, NEW F \in [Nat -> [[Nat -> V] -> V]], LooksBack(F, V), V # {}
  PROVE  Solvable(F, V)
<1>0. Agree(F, V)
  BY RecursionAgrees
<1> DEFINE UpTo(g, n) == \A i \in 0 .. n : g[i] = F[i][g]
           G == {n \in Nat : \E g \in [Nat -> V] : UpTo(g, n)}
<1>1. ASSUME NEW n \in Nat, \A m \in 0 .. n - 1 : m \in G
      PROVE  n \in G
  <2>1. PICK g \in [Nat -> V] : \A i \in 0 .. n - 1 : g[i] = F[i][g]
    <3>1. CASE n = 0
      <4>1. PICK v : v \in V
        OBVIOUS
      <4>2. [k \in Nat |-> v] \in [Nat -> V]
        BY <4>1
      <4>3. \A i \in 0 .. n - 1 : FALSE
        BY <3>1
      <4> QED
        BY <4>2, <4>3
    <3>2. CASE n # 0
      <4>1. n - 1 \in 0 .. n - 1
        BY <3>2
      <4>2. n - 1 \in G
        BY <1>1, <4>1
      <4> QED
        BY <4>2
    <3> QED
      BY <3>1, <3>2
  <2> DEFINE h == [g EXCEPT ![n] = F[n][g]]
  <2>2. h \in [Nat -> V] /\ h[n] = F[n][g] /\ \A i \in Nat : i # n => h[i] = g[i]
    OBVIOUS
  <2> HIDE DEF h
  <2>3. ASSUME NEW i \in 0 .. n PROVE h[i] = F[i][h]
    <3>1. i \in Nat /\ i <= n
      OBVIOUS
    <3>2. \A j \in 0 .. i - 1 : g[j] = h[j]
      BY <2>2, <3>1
    <3>3. F[i][g] = F[i][h]
      BY <2>2, <3>1, <3>2 DEF LooksBack
    <3>4. CASE i = n
      BY <2>2, <3>3, <3>4
    <3>5. CASE i # n
      <4>1. i \in 0 .. n - 1
        BY <3>1, <3>5
      <4> QED
        BY <2>1, <2>2, <3>1, <3>3, <3>5, <4>1
    <3> QED
      BY <3>4, <3>5
  <2> QED
    BY <2>2, <2>3
<1>2. Nat \subseteq G
  <2> HIDE DEF G
  <2> QED
    BY <1>1, SetInduction
<1> DEFINE Part(n) == CHOOSE g \in [Nat -> V] : UpTo(g, n)
           f == [n \in Nat |-> Part(n)[n]]
<1>3. ASSUME NEW n \in Nat PROVE Part(n) \in [Nat -> V] /\ UpTo(Part(n), n)
  <2>1. \E g \in [Nat -> V] : UpTo(g, n)
    BY <1>2
  <2> HIDE DEF UpTo
  <2> QED
    BY <2>1
<1> HIDE DEF Part
<1>4. f \in [Nat -> V]
  BY <1>3
<1>5. ASSUME NEW n \in Nat PROVE f[n] = F[n][f]
  <2>1. ASSUME NEW i \in 0 .. n PROVE f[i] = Part(n)[i]
    <3>1. i \in Nat /\ i <= n /\ f[i] = Part(i)[i] /\ i \in 0 .. i
      OBVIOUS
    <3>2. \A j \in 0 .. i : Part(i)[j] = F[j][Part(i)] /\ Part(n)[j] = F[j][Part(n)]
      BY <1>3, <3>1
    <3>3. Part(i) \in [Nat -> V] /\ Part(n) \in [Nat -> V]
      BY <1>3, <3>1
    <3>4. \A j \in 0 .. i : Part(i)[j] = Part(n)[j]
      BY <1>0, <3>1, <3>2, <3>3 DEF Agree
    <3> QED
      BY <3>1, <3>4
  <2> HIDE DEF f
  <2>2. Part(n) \in [Nat -> V] /\ Part(n)[n] = F[n][Part(n)]
    BY <1>3
  <2>3. F[n][f] = F[n][Part(n)]
    <3>1. \A i \in 0 .. n - 1 : f[i] = Part(n)[i]
      BY <2>1
    <3> QED
      BY <1>4, <2>2, <3>1 DEF LooksBack
  <2>4. n \in 0 .. n
    OBVIOUS
  <2>5. f[n] = Part(n)[n]
    BY <2>1, <2>4
  <2> QED
    BY <2>2, <2>3, <2>5
<1> QED
  BY <1>4, <1>5 DEF Solvable

-----------------------------------------------------------------------------
(***************************************************************************)
(* $x writes a number as ReadNumber reads it.                              *)
(***************************************************************************)
LEMMA EmptyIsSequence == <<>> \in Seq(Int)
OBVIOUS

LEMMA DecimalStep ==
  /\ Decimal \in [Nat -> Seq(Int)]
  /\ \A n \in Nat : Decimal[n] = IF n < 10 THEN <<Digit(n)>>
                                 ELSE Append(Decimal[n \div 10], Digit(n % 10))
<1> DEFINE V == Seq(Int)
           Step(g, n) == IF n < 10 THEN <<Digit(n)>> ELSE Append(g[n \div 10], Digit(n % 10))
           F == [n \in Nat |-> [g \in [Nat -> V] |-> Step(g, n)]]
<1>1. ASSUME NEW n \in Nat, NEW g \in [Nat -> V] PROVE Step(g, n) \in V
  <2>1. n \div 10 \in Nat /\ n % 10 \in Int
    OBVIOUS
  <2>2. Digit(n) \in Int /\ Digit(n % 10) \in Int
    BY <2>1 DEF Digit
  <2>3. g[n \div 10] \in Seq(Int)
    BY <2>1
  <2> QED
    BY <2>2, <2>3
<1>2. ASSUME NEW n \in Nat, NEW g \in [Nat -> V], NEW h \in [Nat -> V],
             \A i \in 0 .. n - 1 : g[i] = h[i]
      PROVE  Step(g, n) = Step(h, n)
  <2>1. n >= 10 => n \div 10 \in 0 .. n - 1
    OBVIOUS
  <2> QED
    BY <1>2, <2>1
<1>3. V # {}
  BY EmptyIsSequence
<1> HIDE DEF V, Step
<1>4. F \in [Nat -> [[Nat -> V] -> V]]
  BY <1>1
<1>5. \A n \in Nat : \A g \in [Nat -> V] : F[n][g] = Step(g, n)
  OBVIOUS
<1> HIDE DEF F
<1>6. LooksBack(F, V)
  BY <1>2, <1>5 DEF LooksBack
<1>7. PICK f \in [Nat -> V] : \A n \in Nat : f[n] = F[n][f]
  <2>1. Solvable(F, V)
    BY <1>3, <1>4, <1>6, RecursionExists
  <2> QED
    BY <2>1 DEF Solvable
<1>8. f = [n \in Nat |-> Step(f, n)]
  BY <1>5, <1>7
<1>9. Decimal = [n \in Nat |-> Step(Decimal, n)]
  <2>1. Decimal = CHOOSE g : g = [n \in Nat |-> Step(g, n)]
    BY DEF Decimal, Step
  <2> QED
    BY <1>8, <2>1
<1>10. \A n \in Nat : Decimal[n] = Step(Decimal, n)
  BY <1>9
<1> DEFINE G == {n \in Nat : Decimal[n] \in V}
<1>11. ASSUME NEW n \in Nat, \A m \in 0 .. n - 1 : m \in G PROVE n \in G
  <2> DEFINE g == [m \in Nat |-> IF m < n THEN Decimal[m] ELSE f[m]]
  <2>1. g \in [Nat -> V]
    BY <1>11
  <2>2. Step(Decimal, n) = Step(g, n)
    <3>1. n >= 10 => n \div 10 \in Nat /\ n \div 10 < n
      OBVIOUS
    <3> QED
      BY <3>1 DEF Step
  <2> HIDE DEF g
  <2> QED
    BY <1>1, <1>10, <2>1, <2>2
<1>12. Nat \subseteq G
  <2> HIDE DEF G
  <2> QED
    BY <1>11, SetInduction
<1>13. Decimal \in [Nat -> V]
  BY <1>9, <1>12
<1> QED
  BY <1>10, <1>13 DEF Step, V

LEMMA ReadStep ==
  ASSUME NEW text \in Seq(Int)
  PROVE  \A k \in 0 .. Len(text) :
           /\ ReadDigits(text)[k] \in Int
           /\ ReadDigits(text)[k] = IF k = 0 THEN 0
                                    ELSE IF text[k] = Minus THEN 0
                                    ELSE ReadDigits(text)[k - 1] * 10 + text[k] - 48
<1> DEFINE Turn(g, k) == IF k = 0 THEN 0
                         ELSE IF text[k] = Minus THEN 0 ELSE g[k - 1] * 10 + text[k] - 48
           Step(g, k) == IF k <= Len(text) THEN Turn(g, k) ELSE 0
           F == [k \in Nat |-> [g \in [Nat -> Int] |-> Step(g, k)]]
<1>1. Len(text) \in Nat /\ \A k \in Nat : k # 0 /\ k <= Len(text) => text[k] \in Int
  OBVIOUS
<1>2. ASSUME NEW k \in Nat, NEW g \in [Nat -> Int] PROVE Step(g, k) \in Int
  <2>1. k # 0 => k - 1 \in Nat
    OBVIOUS
  <2>2. k # 0 => g[k - 1] \in Int
    BY <2>1
  <2> QED
    BY <1>1, <2>2, SMTT(30)
<1>3. ASSUME NEW k \in Nat, NEW g \in [Nat -> Int], NEW h \in [Nat -> Int],
             \A i \in 0 .. k - 1 : g[i] = h[i]
      PROVE  Step(g, k) = Step(h, k)
  <2>1. k # 0 => k - 1 \in 0 .. k - 1
    OBVIOUS
  <2> QED
    BY <1>3, <2>1
<1> HIDE DEF Step
<1>4. F \in [Nat -> [[Nat -> Int] -> Int]]
  BY <1>2
<1>5. \A k \in Nat : \A g \in [Nat -> Int] : F[k][g] = Step(g, k)
  OBVIOUS
<1> HIDE DEF F
<1>6. PICK f \in [Nat -> Int] : \A k \in Nat : f[k] = F[k][f]
  <2>1. LooksBack(F, Int)
    <3> SUFFICES ASSUME NEW k \in Nat, NEW g \in [Nat -> Int], NEW h \in [Nat -> Int],
                        \A i \in 0 .. k - 1 : g[i] = h[i]
                 PROVE  F[k][g] = F[k][h]
      BY DEF LooksBack
    <3>1. Step(g, k) = Step(h, k)
      BY <1>3
    <3> QED
      BY <1>5, <3>1
  <2>2. Int # {}
    OBVIOUS
  <2>3. Solvable(F, Int)
    BY <1>4, <2>1, <2>2, RecursionExists
  <2> QED
    BY <2>3 DEF Solvable
<1> DEFINE D == 0 .. Len(text)
           v == [k \in D |-> f[k]]
<1>7. v = [k \in D |-> Turn(v, k)]
  <2>1. ASSUME NEW k \in D PROVE v[k] = Turn(v, k)
    <3>1. k \in Nat /\ k <= Len(text) /\ (k # 0 => k - 1 \in D)
      BY <1>1
    <3>2. v[k] = f[k] /\ (k # 0 => v[k - 1] = f[k - 1])
      BY <3>1
    <3>3. f[k] = Turn(f, k)
      BY <1>5, <1>6, <3>1 DEF Step
    <3> QED
      BY <3>2, <3>3
  <2> HIDE DEF Turn
  <2> QED
    BY <2>1
<1>8. ReadDigits(text) = [k \in D |-> Turn(ReadDigits(text), k)]
  <2>1. ReadDigits(text) = CHOOSE g : g = [k \in D |-> Turn(g, k)]
    BY DEF ReadDigits
  <2> HIDE DEF v, Turn
  <2> QED
    BY <1>7, <2>1
<1>9. \A k \in D : ReadDigits(text)[k] = Turn(ReadDigits(text), k)
  <2> HIDE DEF Turn
  <2> QED
    BY <1>8
<1> DEFINE G == {k \in Nat : k <= Len(text) => ReadDigits(text)[k] \in Int}
<1>10. ASSUME NEW k \in Nat, \A m \in 0 .. k - 1 : m \in G PROVE k \in G
  <2> SUFFICES ASSUME k <= Len(text) PROVE ReadDigits(text)[k] \in Int
    OBVIOUS
  <2>1. k \in D
    BY <1>1
  <2>2. k # 0 => ReadDigits(text)[k - 1] \in Int
    <3>1. k # 0 => k - 1 \in 0 .. k - 1 /\ k - 1 <= Len(text)
      BY <1>1
    <3> QED
      BY <1>10, <3>1
  <2> HIDE DEF D
  <2>3. k # 0 => text[k] \in Int
    BY <1>1
  <2>4. Turn(ReadDigits(text), k) \in Int
    <3>1. CASE k = 0 \/ text[k] = Minus
      <4>1. Turn(ReadDigits(text), k) = 0
        BY <3>1
      <4> HIDE DEF Turn
      <4> QED
        BY <4>1
    <3>2. CASE k # 0 /\ text[k] # Minus
      <4>1. Turn(ReadDigits(text), k) = ReadDigits(text)[k - 1] * 10 + text[k] - 48
        BY <3>2
      <4> HIDE DEF Turn
      <4>2. \A u, w \in Int : u * 10 + w - 48 \in Int
        OBVIOUS
      <4>3. ReadDigits(text)[k - 1] \in Int /\ text[k] \in Int
        BY <2>2, <2>3, <3>2
      <4> QED
        BY <4>1, <4>2, <4>3
    <3> QED
      BY <3>1, <3>2
  <2> HIDE DEF Turn
  <2> QED
    BY <1>9, <2>1, <2>4
<1>11. Nat \subseteq G
  <2> HIDE DEF G
  <2> QED
    BY <1>10, SetInduction
<1>12. \A k \in D : k \in Nat /\ k <= Len(text)
  BY <1>1
<1> QED
  BY <1>9, <1>11, <1>12

(***************************************************************************)
(* Reading a text reads its beginning first; a sign counts for nothing.    *)
(***************************************************************************)
LEMMA ReadAppended ==
  ASSUME NEW s \in Seq(Int), NEW d \in Int
  PROVE  \A k \in 0 .. Len(s) : ReadDigits(Append(s, d))[k] = ReadDigits(s)[k]
<1> DEFINE t == Append(s, d)
           G == {k \in Nat : k <= Len(s) => ReadDigits(t)[k] = ReadDigits(s)[k]}
<1>1. t \in Seq(Int) /\ Len(t) = Len(s) + 1 /\ Len(s) \in Nat
  OBVIOUS
<1>2. \A k \in Nat : k # 0 /\ k <= Len(s) => t[k] = s[k]
  OBVIOUS
<1> HIDE DEF t
<1>3. ASSUME NEW k \in Nat, \A m \in 0 .. k - 1 : m \in G PROVE k \in G
  <2> SUFFICES ASSUME k <= Len(s) PROVE ReadDigits(t)[k] = ReadDigits(s)[k]
    OBVIOUS
  <2>1. k \in 0 .. Len(s) /\ k \in 0 .. Len(t)
    BY <1>1
  <2>2. k # 0 => ReadDigits(t)[k - 1] = ReadDigits(s)[k - 1]
    <3>1. k # 0 => k - 1 \in 0 .. k - 1 /\ k - 1 <= Len(s)
      BY <1>1
    <3> QED
      BY <1>3, <3>1
  <2>3. ReadDigits(t)[k] = IF k = 0 THEN 0 ELSE IF t[k] = Minus THEN 0
                           ELSE ReadDigits(t)[k - 1] * 10 + t[k] - 48
    BY <1>1, <2>1, ReadStep
  <2>4. ReadDigits(s)[k] = IF k = 0 THEN 0 ELSE IF s[k] = Minus THEN 0
                           ELSE ReadDigits(s)[k - 1] * 10 + s[k] - 48
    BY <2>1, ReadStep
  <2> QED
    BY <1>2, <2>2, <2>3, <2>4
<1>4. Nat \subseteq G
  <2> HIDE DEF G
  <2> QED
    BY <1>3, SetInduction
<1>5. \A k \in 0 .. Len(s) : k \in Nat /\ k <= Len(s)
  BY <1>1
<1> QED
  BY <1>4, <1>5 DEF t

LEMMA ReadSigned ==
  ASSUME NEW s \in Seq(Int)
  PROVE  \A k \in 0 .. Len(s) : ReadDigits(<<Minus>> \o s)[k + 1] = ReadDigits(s)[k]
<1> DEFINE t == <<Minus>> \o s
           G == {k \in Nat : k <= Len(s) => ReadDigits(t)[k + 1] = ReadDigits(s)[k]}
<1>0. Minus \in Int
  BY DEF Minus
<1>1. t \in Seq(Int) /\ Len(t) = Len(s) + 1 /\ Len(s) \in Nat
  BY <1>0
<1>2. t[1] = Minus /\ \A k \in Nat : k # 0 /\ k <= Len(s) => t[k + 1] = s[k]
  BY <1>0
<1> HIDE DEF t
<1>3. ASSUME NEW k \in Nat, \A m \in 0 .. k - 1 : m \in G PROVE k \in G
  <2> SUFFICES ASSUME k <= Len(s) PROVE ReadDigits(t)[k + 1] = ReadDigits(s)[k]
    OBVIOUS
  <2>1. k \in 0 .. Len(s) /\ k + 1 \in 0 .. Len(t) /\ k + 1 # 0 /\ (k + 1) - 1 = k
    BY <1>1
  <2>2. k # 0 => ReadDigits(t)[k] = ReadDigits(s)[k - 1]
    <3>1. k # 0 => k - 1 \in 0 .. k - 1 /\ k - 1 <= Len(s) /\ (k - 1) + 1 = k
      BY <1>1
    <3> QED
      BY <1>3, <3>1
  <2>3. ReadDigits(t)[k + 1] = IF k + 1 = 0 THEN 0 ELSE IF t[k + 1] = Minus THEN 0
                               ELSE ReadDigits(t)[(k + 1) - 1] * 10 + t[k + 1] - 48
    BY <1>1, <2>1, ReadStep
  <2>4. ReadDigits(s)[k] = IF k = 0 THEN 0 ELSE IF s[k] = Minus THEN 0
                           ELSE ReadDigits(s)[k - 1] * 10 + s[k] - 48
    BY <2>1, ReadStep
  <2>5. ReadDigits(t)[k + 1] = IF t[k + 1] = Minus THEN 0
                               ELSE ReadDigits(t)[k] * 10 + t[k + 1] - 48
    BY <2>1, <2>3
  <2> QED
    BY <1>2, <2>2, <2>4, <2>5
<1>4. Nat \subseteq G
  <2> HIDE DEF G
  <2> QED
    BY <1>3, SetInduction
<1>5. \A k \in 0 .. Len(s) : k \in Nat /\ k <= Len(s)
  BY <1>1
<1> QED
  BY <1>4, <1>5 DEF t

LEMMA DecimalReads ==
  \A n \in Nat : /\ Len(Decimal[n]) \in Nat \ {0} /\ Decimal[n][1] # Minus
                 /\ ReadDigits(Decimal[n])[Len(Decimal[n])] = n
<1> DEFINE Right(n) == /\ Len(Decimal[n]) \in Nat \ {0} /\ Decimal[n][1] # Minus
                       /\ ReadDigits(Decimal[n])[Len(Decimal[n])] = n
           G == {n \in Nat : Right(n)}
<1>1. ASSUME NEW n \in Nat, \A m \in 0 .. n - 1 : m \in G PROVE Right(n)
  <2>1. CASE n < 10
    <3> DEFINE s == <<Digit(n)>>
    <3>1. Decimal[n] = s
      BY <2>1, DecimalStep
    <3>2. s \in Seq(Int) /\ Len(s) = 1 /\ s[1] = 48 + n
      BY DEF Digit
    <3> HIDE DEF s
    <3>3. ReadDigits(s)[0] = 0
      BY <3>2, ReadStep
    <3>4. s[1] # Minus
      BY <3>2 DEF Minus
    <3>5. ReadDigits(s)[1] = IF 1 = 0 THEN 0 ELSE IF s[1] = Minus THEN 0
                             ELSE ReadDigits(s)[1 - 1] * 10 + s[1] - 48
      <4>1. 1 \in 0 .. Len(s)
        BY <3>2
      <4> QED
        BY <3>2, <4>1, ReadStep
    <3>6. ReadDigits(s)[1] = n
      BY <3>2, <3>3, <3>4, <3>5
    <3> QED
      BY <3>1, <3>2, <3>4, <3>6
  <2>2. CASE n >= 10
    <3> DEFINE m == n \div 10
               d == Digit(n % 10)
               s == Decimal[m]
               t == Append(s, d)
    <3>1. m \in Nat /\ m \in 0 .. n - 1 /\ n = m * 10 + (n % 10) /\ (n % 10) \in 0 .. 9
      BY <2>2
    <3>2. Right(m)
      BY <1>1, <3>1
    <3>3. Decimal[n] = t
      <4>1. ~(n < 10)
        BY <2>2
      <4> QED
        BY <4>1, DecimalStep
    <3>4. d \in Int /\ d = 48 + (n % 10) /\ d # Minus
      BY <3>1 DEF Digit, Minus
    <3>5. s \in Seq(Int)
      BY <3>1, DecimalStep
    <3>6. Len(s) \in Nat \ {0} /\ s[1] # Minus /\ ReadDigits(s)[Len(s)] = m
      BY <3>2
    <3> HIDE DEF m, d, s
    <3>7. t \in Seq(Int) /\ Len(t) = Len(s) + 1 /\ t[Len(s) + 1] = d /\ t[1] = s[1]
      BY <3>4, <3>5, <3>6
    <3>8. ReadDigits(t)[Len(s)] = m
      <4>1. Len(s) \in 0 .. Len(s)
        BY <3>6
      <4> QED
        BY <3>4, <3>5, <3>6, <4>1, ReadAppended
    <3> HIDE DEF t
    <3>9. ReadDigits(t)[Len(s) + 1] = ReadDigits(t)[Len(s)] * 10 + d - 48
      <4>1. Len(s) + 1 \in 0 .. Len(t) /\ Len(s) + 1 # 0 /\ (Len(s) + 1) - 1 = Len(s)
        BY <3>6, <3>7
      <4>2. ReadDigits(t)[Len(s) + 1] = ReadDigits(t)[(Len(s) + 1) - 1] * 10 + t[Len(s) + 1] - 48
        BY <3>4, <3>7, <4>1, ReadStep
      <4> QED
        BY <3>7, <4>1, <4>2
    <3>10. ReadDigits(t)[Len(t)] = n
      BY <3>1, <3>4, <3>7, <3>8, <3>9
    <3> QED
      BY <3>3, <3>6, <3>7, <3>10
  <2> QED
    BY <2>1, <2>2
<1>2. Nat \subseteq G
  <2>1. \A n \in Nat : (\A m \in 0 .. n - 1 : m \in G) => n \in G
    BY <1>1
  <2> HIDE DEF G
  <2> QED
    BY <2>1, SetInduction
<1> QED
  BY <1>2

LEMMA DollarReads ==
  ASSUME NEW n \in Int
  PROVE  Dollar(n) \in Seq(Int) /\ ReadNumber(Dollar(n)) = n
<1>1. CASE n >= 0
  <2>1. Dollar(n) = Decimal[n] /\ n \in Nat
    BY <1>1 DEF Dollar
  <2>2. Decimal[n] \in Seq(Int)
    BY <2>1, DecimalStep
  <2>3. Decimal[n][1] # Minus /\ ReadDigits(Decimal[n])[Len(Decimal[n])] = n
    BY <2>1, DecimalReads
  <2>4. ReadNumber(Decimal[n]) = n
    BY <2>3 DEF ReadNumber
  <2> QED
    BY <2>1, <2>2, <2>4
<1>2. CASE n < 0
  <2> DEFINE s == Decimal[-n]
             t == <<Minus>> \o s
  <2>1. -n \in Nat /\ -(-n) = n /\ Minus \in Int
    BY <1>2 DEF Minus
  <2>2. s \in Seq(Int) /\ Len(s) \in Nat /\ ReadDigits(s)[Len(s)] = -n
    BY <2>1, DecimalStep, DecimalReads
  <2>3. Dollar(n) = t
    BY <1>2 DEF Dollar
  <2> HIDE DEF s
  <2>4. t \in Seq(Int) /\ Len(t) = Len(s) + 1 /\ t[1] = Minus
    BY <2>1, <2>2
  <2>5. ReadDigits(t)[Len(s) + 1] = -n
    <3>1. Len(s) \in 0 .. Len(s)
      BY <2>2
    <3> QED
      BY <2>2, <3>1, ReadSigned
  <2> HIDE DEF t
  <2> QED
    BY <2>1, <2>3, <2>4, <2>5 DEF ReadNumber
<1> QED
  BY <1>1, <1>2

-----------------------------------------------------------------------------
(***************************************************************************)
(* The message is put together by twos, from the head of what is asked.    *)
(***************************************************************************)
LEMMA TwoMore ==
  ASSUME NEW W, NEW s \in Seq(W), NEW a \in W, NEW b \in W
  PROVE  /\ s \o <<a>> \o <<b>> \in Seq(W) /\ Len(s \o <<a>> \o <<b>>) = Len(s) + 2
         /\ \A i \in 1 .. Len(s) : (s \o <<a>> \o <<b>>)[i] = s[i]
         /\ (s \o <<a>> \o <<b>>)[Len(s) + 1] = a
         /\ (s \o <<a>> \o <<b>>)[Len(s) + 2] = b
<1> DEFINE u == s \o <<a>>
<1>1. Len(s) \in Nat /\ <<a>> \in Seq(W) /\ <<b>> \in Seq(W) /\ Len(<<a>>) = 1 /\ Len(<<b>>) = 1
  BY LenProperties
<1>2. /\ u \in Seq(W) /\ Len(u) = Len(s) + 1
      /\ \A i \in 1 .. Len(s) + 1 : u[i] = IF i <= Len(s) THEN s[i] ELSE <<a>>[i - Len(s)]
  BY <1>1, ConcatProperties
<1> HIDE DEF u
<1>3. /\ u \o <<b>> \in Seq(W) /\ Len(u \o <<b>>) = Len(u) + 1
      /\ \A i \in 1 .. Len(u) + 1 : (u \o <<b>>)[i] = IF i <= Len(u) THEN u[i] ELSE <<b>>[i - Len(u)]
  BY <1>1, <1>2, ConcatProperties
<1>4. \A i \in 1 .. Len(s) : (u \o <<b>>)[i] = s[i]
  BY <1>1, <1>2, <1>3
<1>5. u[Len(s) + 1] = a /\ (u \o <<b>>)[Len(s) + 1] = u[Len(s) + 1]
  <2>1. Len(s) + 1 \in 1 .. Len(s) + 1 /\ ~(Len(s) + 1 <= Len(s)) /\ (Len(s) + 1) - Len(s) = 1
    BY <1>1
  <2>2. u[Len(s) + 1] = <<a>>[(Len(s) + 1) - Len(s)]
    BY <1>2, <2>1
  <2>3. Len(s) + 1 \in 1 .. Len(u) + 1 /\ Len(s) + 1 <= Len(u)
    BY <1>1, <1>2
  <2> QED
    BY <1>1, <1>3, <2>1, <2>2, <2>3
<1>6. (u \o <<b>>)[Len(s) + 2] = b
  <2>1. Len(s) + 2 \in 1 .. Len(u) + 1 /\ ~(Len(s) + 2 <= Len(u)) /\ (Len(s) + 2) - Len(u) = 1
    BY <1>1, <1>2
  <2> QED
    BY <1>1, <1>3, <2>1
<1> QED
  BY <1>1, <1>2, <1>3, <1>4, <1>5, <1>6 DEF u

LEMMA Joined2 ==
  \A a, b : <<>> \o <<a>> \o <<b>> = <<a, b>>
<1> TAKE a, b
<1> DEFINE W == {a, b}
<1>0. a \in W /\ b \in W
  OBVIOUS
<1> HIDE DEF W
<1> DEFINE t == <<>> \o <<a>> \o <<b>>
<1>1. t \in Seq(W) /\ Len(t) = 2 /\ t[1] = a /\ t[2] = b
  BY <1>0, EmptySeq, TwoMore
<1> HIDE DEF t
<1>2. t = <<a, b>>
  BY <1>1
<1> QED
  BY <1>2 DEF t

LEMMA Joined4 ==
  \A a, b, c, d : <<a, b>> \o <<c>> \o <<d>> = <<a, b, c, d>>
<1> TAKE a, b, c, d
<1> DEFINE W == {a, b, c, d}
<1>0. a \in W /\ b \in W /\ c \in W /\ d \in W
  OBVIOUS
<1> HIDE DEF W
<1> DEFINE s == <<a, b>>
           t == s \o <<c>> \o <<d>>
<1>1. s \in Seq(W) /\ Len(s) = 2 /\ s[1] = a /\ s[2] = b
  BY <1>0
<1> HIDE DEF s
<1>2. /\ t \in Seq(W) /\ Len(t) = Len(s) + 2 /\ \A i \in 1 .. Len(s) : t[i] = s[i]
      /\ t[Len(s) + 1] = c /\ t[Len(s) + 2] = d
  <2>1. s \in Seq(W)
    BY <1>1
  <2> QED
    BY <1>0, <2>1, TwoMore
<1> HIDE DEF t
<1>3. t \in Seq(W) /\ Len(t) = 4 /\ t[1] = a /\ t[2] = b /\ t[3] = c /\ t[4] = d
  BY <1>1, <1>2
<1>4. t = <<a, b, c, d>>
  BY <1>3
<1> QED
  BY <1>4 DEF t, s

LEMMA Joined6 ==
  \A a, b, c, d, e, f : <<a, b, c, d>> \o <<e>> \o <<f>> = <<a, b, c, d, e, f>>
<1> TAKE a, b, c, d, e, f
<1> DEFINE W == {a, b, c, d, e, f}
<1>0. a \in W /\ b \in W /\ c \in W /\ d \in W /\ e \in W /\ f \in W
  OBVIOUS
<1> HIDE DEF W
<1> DEFINE s == <<a, b, c, d>>
           t == s \o <<e>> \o <<f>>
<1>1. s \in Seq(W) /\ Len(s) = 4 /\ s[1] = a /\ s[2] = b /\ s[3] = c /\ s[4] = d
  BY <1>0
<1> HIDE DEF s
<1>2. /\ t \in Seq(W) /\ Len(t) = Len(s) + 2 /\ \A i \in 1 .. Len(s) : t[i] = s[i]
      /\ t[Len(s) + 1] = e /\ t[Len(s) + 2] = f
  <2>1. s \in Seq(W)
    BY <1>1
  <2> QED
    BY <1>0, <2>1, TwoMore
<1> HIDE DEF t
<1>3. /\ t \in Seq(W) /\ Len(t) = 6 /\ t[1] = a /\ t[2] = b /\ t[3] = c /\ t[4] = d
      /\ t[5] = e /\ t[6] = f
  BY <1>1, <1>2
<1>4. t = <<a, b, c, d, e, f>>
  BY <1>3
<1> QED
  BY <1>4 DEF t, s

LEMMA Tails ==
  ASSUME NEW a \in Int, NEW b \in Int, NEW c \in Int
  PROVE  /\ Tail(<<a, b, c>>) = <<b, c>> /\ Head(<<a, b, c>>) = a /\ Len(<<a, b, c>>) = 3
         /\ Tail(<<b, c>>) = <<c>> /\ Head(<<b, c>>) = b /\ Len(<<b, c>>) = 2
         /\ Tail(<<c>>) = <<>> /\ Head(<<c>>) = c /\ Len(<<c>>) = 1
OBVIOUS

Words == <<<<"index ">>, <<" not in ">>, <<" .. ">>>>
Written(a, m) == m \o Words[4 - Len(a)] \o <<Dollar(Head(a))>>

LEMMA WordsInOrder ==
  Words[4 - 3] = <<"index ">> /\ Words[4 - 2] = <<" not in ">> /\ Words[4 - 1] = <<" .. ">>
<1>1. 4 - 3 = 1 /\ 4 - 2 = 2 /\ 4 - 1 = 3
  OBVIOUS
<1>2. Words[1] = <<"index ">> /\ Words[2] = <<" not in ">> /\ Words[3] = <<" .. ">>
  BY DEF Words
<1> QED
  BY <1>1, <1>2, Zenon

Said(i, h) == <<"index ", Dollar(i), " not in ", Dollar(0), " .. ", Dollar(h)>>

Half(i, h, a, m) ==
  \/ a = <<i, 0, h>> /\ m = <<>>
  \/ a = <<0, h>> /\ m = <<"index ", Dollar(i)>>
  \/ a = <<h>> /\ m = <<"index ", Dollar(i), " not in ", Dollar(0)>>
  \/ a = <<>> /\ m = Said(i, h)

LEMMA Writing ==
  ASSUME NEW i \in Int, NEW h \in Int, NEW a, NEW m, Half(i, h, a, m), a # <<>>
  PROVE  Half(i, h, Tail(a), Written(a, m))
<1>2. /\ <<>> \o <<"index ">> \o <<Dollar(i)>> = <<"index ", Dollar(i)>>
      /\ <<"index ", Dollar(i)>> \o <<" not in ">> \o <<Dollar(0)>>
         = <<"index ", Dollar(i), " not in ", Dollar(0)>>
      /\ <<"index ", Dollar(i), " not in ", Dollar(0)>> \o <<" .. ">> \o <<Dollar(h)>>
         = <<"index ", Dollar(i), " not in ", Dollar(0), " .. ", Dollar(h)>>
  <2>1. <<>> \o <<"index ">> \o <<Dollar(i)>> = <<"index ", Dollar(i)>>
    BY Joined2, Zenon
  <2>2. <<"index ", Dollar(i)>> \o <<" not in ">> \o <<Dollar(0)>>
        = <<"index ", Dollar(i), " not in ", Dollar(0)>>
    BY Joined4, Zenon
  <2>3. <<"index ", Dollar(i), " not in ", Dollar(0)>> \o <<" .. ">> \o <<Dollar(h)>>
        = <<"index ", Dollar(i), " not in ", Dollar(0), " .. ", Dollar(h)>>
    <3> DEFINE u == Dollar(i)
               v == Dollar(0)
               w == Dollar(h)
               x == "index "
               y == " not in "
               z == " .. "
    <3> HIDE DEF u, v, w, x, y, z
    <3>1. <<x, u, y, v>> \o <<z>> \o <<w>> = <<x, u, y, v, z, w>>
      <4>1. \A c, d, e, f : <<x, u, c, d>> \o <<e>> \o <<f>> = <<x, u, c, d, e, f>>
        BY Joined6, Zenon
      <4>2. \A e, f : <<x, u, y, v>> \o <<e>> \o <<f>> = <<x, u, y, v, e, f>>
        BY <4>1, Zenon
      <4> QED
        BY <4>2, Zenon
    <3> QED
      BY <3>1, Zenon DEF u, v, w, x, y, z
  <2> QED
    BY <2>1, <2>2, <2>3, Zenon
<1>3. 0 \in Int
  OBVIOUS
<1>4. ASSUME a = <<i, 0, h>>, m = <<>>
      PROVE  Tail(a) = <<0, h>> /\ Written(a, m) = <<"index ", Dollar(i)>>
  <2>1. Tail(a) = <<0, h>> /\ Head(a) = i /\ Len(a) = 3
    BY <1>3, <1>4, Tails
  <2>2. Written(a, m) = <<>> \o <<"index ">> \o <<Dollar(i)>>
    BY <1>4, <2>1, WordsInOrder, Zenon DEF Written
  <2> QED
    BY <1>2, <2>1, <2>2, Zenon
<1>5. ASSUME a = <<0, h>>, m = <<"index ", Dollar(i)>>
      PROVE  Tail(a) = <<h>> /\ Written(a, m) = <<"index ", Dollar(i), " not in ", Dollar(0)>>
  <2>1. Tail(a) = <<h>> /\ Head(a) = 0 /\ Len(a) = 2
    BY <1>3, <1>5, Tails
  <2>2. Written(a, m) = <<"index ", Dollar(i)>> \o <<" not in ">> \o <<Dollar(0)>>
    BY <1>5, <2>1, WordsInOrder, Zenon DEF Written
  <2> QED
    BY <1>2, <2>1, <2>2, Zenon
<1>6. ASSUME a = <<h>>, m = <<"index ", Dollar(i), " not in ", Dollar(0)>>
      PROVE  /\ Tail(a) = <<>>
             /\ Written(a, m) = <<"index ", Dollar(i), " not in ", Dollar(0), " .. ", Dollar(h)>>
  <2>1. Tail(a) = <<>> /\ Head(a) = h /\ Len(a) = 1
    BY <1>3, <1>6, Tails
  <2>2. Written(a, m) = <<"index ", Dollar(i), " not in ", Dollar(0)>> \o <<" .. ">> \o <<Dollar(h)>>
    BY <1>6, <2>1, WordsInOrder, Zenon DEF Written
  <2> QED
    BY <1>2, <2>1, <2>2, Zenon
<1>7. \/ a = <<i, 0, h>> /\ m = <<>>
      \/ a = <<0, h>> /\ m = <<"index ", Dollar(i)>>
      \/ a = <<h>> /\ m = <<"index ", Dollar(i), " not in ", Dollar(0)>>
  BY Zenon DEF Half
<1> QED
  BY <1>4, <1>5, <1>6, <1>7, Zenon DEF Half, Said

-----------------------------------------------------------------------------
(***************************************************************************)
(* Slices.  What is copied lies in the string and is what the string has   *)
(* there; the message is written for the first position that it has not.   *)
(***************************************************************************)
CallOK ==
  /\ whole \in Seq(0 .. 255) /\ Len(whole) \in Nat /\ Len(whole) <= MaxInt
  /\ start \in Int /\ back \in Int
  /\ ~Overflows(start) /\ ~Overflows(back)

CopiedRight ==
  /\ L \in Nat /\ copied \in Nat /\ copied <= L
  /\ part \in Seq(Int) /\ Len(part) = L
  /\ \A k \in 1 .. copied : /\ InBounds(start + k - 1, Len(whole))
                            /\ part[k] = At(whole, start + k - 1)

\* The copy has come to a position that the string does not have.
Stuck == L = Length /\ copied < L /\ ~InBounds(copied + start, Len(whole))

High == Len(whole) - 1

HalfWritten == Half(copied + start, High, asked, message)

SliceInv ==
  /\ CallOK /\ CopiedRight
  /\ slicePc \in {"measure", "copy", "message", "done", "raised"}
  /\ slicePc = "measure" => copied = 0
  /\ slicePc \in {"measure", "copy", "done"} => message = <<>>
  /\ slicePc \in {"copy", "done"} => L = Length
  /\ slicePc = "done" => copied = L
  /\ slicePc = "message" => Stuck /\ HalfWritten
  /\ slicePc = "raised" =>
       /\ ~IsPart
       /\ message # <<>> => /\ Stuck /\ message = Said(copied + start, High)
                            /\ sliceThrown = RaiseException("IndexDefect", message, 0)

LEMMA SliceInit_ == SliceInit => SliceInv
<1> SUFFICES ASSUME SliceInit PROVE SliceInv
  OBVIOUS
<1>1. CallOK
  BY DefectsAssumption, MaxIntAssumption DEF SliceInit, CallOK
<1>2. part \in Seq(Int) /\ Len(part) = 0
  BY EmptyIsSequence DEF SliceInit
<1>3. CopiedRight
  BY <1>2 DEF SliceInit, CopiedRight
<1> QED
  BY <1>1, <1>3 DEF SliceInit, SliceInv

(***************************************************************************)
(* A part that lies in the string is not refused.                          *)
(***************************************************************************)
LEMMA PartsPass ==
  ASSUME CallOK, IsPart
  PROVE  ~LengthOverflows /\ InRange(Length, 0, MaxInt)
BY MaxIntAssumption DEF CallOK, IsPart, LengthOverflows, Length, Overflows, InRange

LEMMA StuckIsNoPart ==
  ASSUME CallOK, CopiedRight, Stuck
  PROVE  ~IsPart
BY DEF CallOK, CopiedRight, Stuck, IsPart, Length, InBounds

(***************************************************************************)
(* The first position missing from the string: the start, unless the copy  *)
(* runs over the string's end.                                             *)
(***************************************************************************)
LEMMA FirstMissing ==
  ASSUME CallOK, CopiedRight, Stuck
  PROVE  /\ copied + start \in Int /\ copied + start \notin 0 .. High
         /\ copied + start = IF start < 0 THEN start
                             ELSE IF start > Len(whole) THEN start ELSE Len(whole)
<1>1. /\ copied \in Nat /\ start \in Int /\ Len(whole) \in Nat
      /\ ~(0 <= copied + start /\ copied + start <= Len(whole) - 1)
  BY DEF CallOK, CopiedRight, Stuck, InBounds
<1>2. CASE copied = 0
  BY <1>1, <1>2 DEF High
<1>3. CASE copied # 0
  <2>1. copied \in 1 .. copied
    BY <1>1, <1>3
  <2>2. 0 <= start + copied - 1 /\ start + copied - 1 <= Len(whole) - 1
    BY <2>1 DEF CopiedRight, InBounds
  <2>3. 1 \in 1 .. copied
    BY <1>1, <1>3
  <2>4. 0 <= start + 1 - 1 /\ start + 1 - 1 <= Len(whole) - 1
    BY <2>3 DEF CopiedRight, InBounds
  <2> QED
    BY <1>1, <2>2, <2>4 DEF High
<1> QED
  BY <1>2, <1>3

LEMMA SliceNext_ == SliceInv /\ [SliceNext]_sliceVars => SliceInv'
<1> SUFFICES ASSUME SliceInv, [SliceNext]_sliceVars PROVE SliceInv'
  OBVIOUS
<1>1. CallOK /\ CopiedRight
  BY DEF SliceInv
<1>2. UNCHANGED sliceCall
  BY DEF SliceNext, sliceVars, Measure, CopyByte, FailIndex, WriteNumber, RaiseIndexError,
         ReturnSlice, RaiseInSlice
<1>3. CallOK' /\ Length' = Length /\ High' = High /\ IsPart' = IsPart
  BY <1>1, <1>2 DEF CallOK, Length, High, IsPart, sliceCall, Overflows
<1>4. CASE UNCHANGED sliceVars
  BY <1>4 DEF sliceVars, sliceCall, SliceInv, CallOK, CopiedRight, Stuck, HalfWritten, High,
              IsPart, Length, Overflows
<1>5. ASSUME UNCHANGED <<L, copied, part>>
      PROVE  CopiedRight' /\ Stuck' = Stuck /\ (copied + start)' = copied + start
  BY <1>1, <1>2, <1>5 DEF CopiedRight, Stuck, High, sliceCall, Length
<1>6. CASE Measure
  <2>1. CASE slicePc' = "raised"
    <3>1. UNCHANGED <<L, copied, part, message>> /\ message = <<>> /\ ~IsPart
      BY <1>1, <1>6, <2>1, PartsPass DEF Measure, RaiseInSlice, SliceInv
    <3> QED
      BY <1>1, <1>3, <1>5, <2>1, <3>1 DEF SliceInv
  <2>2. CASE slicePc' # "raised"
    <3>1. /\ slicePc = "measure" /\ slicePc' = "copy"
          /\ L' = Length /\ part' = Zeros(Length) /\ InRange(Length, 0, MaxInt)
          /\ UNCHANGED <<copied, message>>
      BY <1>6, <2>2 DEF Measure, RaiseInSlice
    <3>2. Length \in Nat
      BY <1>1, <3>1 DEF InRange, CallOK, Length
    <3>3. Zeros(Length) \in Seq(Int) /\ Len(Zeros(Length)) = Length
      BY <3>2 DEF Zeros
    <3>4. copied = 0 /\ message = <<>>
      BY <3>1 DEF SliceInv
    <3>5. CopiedRight'
      BY <3>1, <3>2, <3>3, <3>4 DEF CopiedRight
    <3> QED
      BY <1>3, <3>1, <3>4, <3>5 DEF SliceInv
  <2> QED
    BY <2>1, <2>2
<1>7. CASE CopyByte
  <2>1. /\ slicePc = "copy" /\ slicePc' = "copy" /\ copied < L
        /\ InBounds(copied + start, Len(whole))
        /\ part' = [part EXCEPT ![copied + 1] = At(whole, copied + start)]
        /\ copied' = copied + 1 /\ UNCHANGED <<L, message>>
    BY <1>7 DEF CopyByte
  <2>2. /\ L \in Nat /\ copied \in Nat /\ part \in Seq(Int) /\ Len(part) = L
        /\ start \in Int /\ Len(whole) \in Nat
    BY <1>1 DEF CopiedRight, CallOK
  <2>3. At(whole, copied + start) \in Int
    <3>1. copied + start + 1 \in 1 .. Len(whole)
      BY <2>1, <2>2 DEF InBounds
    <3>2. whole \in Seq(0 .. 255)
      BY <1>1 DEF CallOK
    <3>3. whole[copied + start + 1] \in 0 .. 255
      BY <3>1, <3>2, ElementOfSeq
    <3> QED
      BY <3>3 DEF At
  <2>4. copied + 1 \in 1 .. Len(part)
    BY <2>1, <2>2
  <2>5. /\ part' \in Seq(Int) /\ Len(part') = L
        /\ part'[copied + 1] = At(whole, copied + start)
        /\ \A k \in 1 .. copied : part'[k] = part[k]
    BY <2>1, <2>2, <2>3, <2>4
  <2>6. ASSUME NEW k \in 1 .. copied + 1
        PROVE  InBounds(start + k - 1, Len(whole)) /\ part'[k] = At(whole, start + k - 1)
    <3>1. CASE k = copied + 1
      <4>1. start + k - 1 = copied + start
        BY <2>2, <3>1
      <4> QED
        BY <2>1, <2>5, <3>1, <4>1
    <3>2. CASE k # copied + 1
      <4>1. k \in 1 .. copied
        BY <2>2, <3>2
      <4> QED
        BY <1>1, <2>5, <4>1 DEF CopiedRight
    <3> QED
      BY <3>1, <3>2
  <2>7. copied' \in Nat /\ copied' <= L' /\ L' \in Nat
    BY <2>1, <2>2
  <2>8. CopiedRight'
    BY <1>2, <2>1, <2>5, <2>6, <2>7 DEF CopiedRight, sliceCall, InBounds, At
  <2> QED
    BY <1>3, <2>1, <2>8 DEF SliceInv
<1>8. CASE FailIndex
  <2>1. slicePc = "copy" /\ Stuck /\ message = <<>> /\ UNCHANGED <<L, copied, part, message>>
    BY <1>8 DEF FailIndex, RaiseInSlice, SliceInv, Stuck
  <2>2. ~IsPart
    BY <1>1, <2>1, StuckIsNoPart
  <2>3. \/ slicePc' = "raised"
        \/ slicePc' = "message" /\ asked' = <<copied + start, 0, High>>
    BY <1>8 DEF FailIndex, RaiseInSlice, High
  <2>4. slicePc' = "message" => HalfWritten'
    BY <1>2, <1>3, <2>1, <2>3, Zenon DEF HalfWritten, Half, sliceCall
  <2> QED
    BY <1>3, <1>5, <2>1, <2>2, <2>3, <2>4 DEF SliceInv
<1>9. CASE WriteNumber
  <2>1. /\ slicePc = "message" /\ slicePc' = "message" /\ Stuck /\ HalfWritten
        /\ asked # <<>> /\ asked' = Tail(asked) /\ message' = Written(asked, message)
        /\ UNCHANGED <<L, copied, part>>
    BY <1>9 DEF WriteNumber, SliceInv, Written, Words
  <2>2. copied + start \in Int /\ High \in Int
    BY <1>1 DEF CallOK, CopiedRight, High
  <2>3. Half(copied + start, High, asked', message')
    BY <2>1, <2>2, Writing DEF HalfWritten
  <2>4. HalfWritten'
    BY <1>2, <1>3, <2>1, <2>3 DEF HalfWritten, sliceCall
  <2> QED
    BY <1>3, <1>5, <2>1, <2>4 DEF SliceInv
<1>10. CASE RaiseIndexError
  <2>1. /\ slicePc = "message" /\ slicePc' = "raised" /\ Stuck /\ message = Said(copied + start, High)
        /\ sliceThrown' = RaiseException("IndexDefect", message, 0)
        /\ UNCHANGED <<L, copied, part, message>>
    BY <1>10 DEF RaiseIndexError, RaiseInSlice, SliceInv, HalfWritten, Half
  <2>2. ~IsPart
    BY <1>1, <2>1, StuckIsNoPart
  <2> QED
    BY <1>3, <1>5, <2>1, <2>2 DEF SliceInv
<1>11. CASE ReturnSlice
  <2>1. /\ slicePc = "copy" /\ slicePc' = "done" /\ copied >= L
        /\ UNCHANGED <<L, copied, part, message>>
    BY <1>11 DEF ReturnSlice
  <2>2. copied = L
    BY <1>1, <2>1 DEF CopiedRight
  <2> QED
    BY <1>3, <1>5, <2>1, <2>2 DEF SliceInv
<1> QED
  BY <1>4, <1>6, <1>7, <1>8, <1>9, <1>10, <1>11 DEF SliceNext

Framed(f, m, e) == \A k \in 1 .. Len(m) : (f \o m \o e)[k + 1] = m[k]

LEMMA BehindFirst ==
  ASSUME NEW W, NEW f \in Seq(W), NEW m \in Seq(W), NEW e \in Seq(W), Len(f) = 1
  PROVE  Framed(f, m, e)
<1> DEFINE u == f \o m
<1>1. /\ u \in Seq(W) /\ Len(u) = Len(f) + Len(m)
      /\ \A k \in 1 .. Len(f) + Len(m) : u[k] = IF k <= Len(f) THEN f[k] ELSE m[k - Len(f)]
  BY ConcatProperties
<1> HIDE DEF u
<1>2. \A k \in 1 .. Len(u) + Len(e) : (u \o e)[k] = IF k <= Len(u) THEN u[k] ELSE e[k - Len(u)]
  BY <1>1, ConcatProperties
<1>3. Len(m) \in Nat /\ Len(e) \in Nat
  BY LenProperties
<1>4. ASSUME NEW k \in 1 .. Len(m) PROVE (u \o e)[k + 1] = m[k]
  <2>1. /\ k + 1 \in 1 .. Len(u) + Len(e) /\ k + 1 <= Len(u)
        /\ k + 1 \in 1 .. Len(f) + Len(m) /\ ~(k + 1 <= Len(f)) /\ (k + 1) - Len(f) = k
    BY <1>1, <1>3
  <2>2. (u \o e)[k + 1] = u[k + 1]
    BY <1>2, <2>1
  <2>3. u[k + 1] = m[(k + 1) - Len(f)]
    BY <1>1, <2>1
  <2> QED
    BY <2>1, <2>2, <2>3
<1> QED
  BY <1>4 DEF u, Framed

(***************************************************************************)
(* Where the pieces of the message stand in the text of the error.         *)
(***************************************************************************)
LEMMA SaidInError ==
  ASSUME NEW i \in Int, NEW h \in Int
  PROVE  LET text == RaiseException("IndexDefect", Said(i, h), 0).text
         IN text[3] = Dollar(i) /\ text[5] = Dollar(0) /\ text[7] = Dollar(h)
<1> DEFINE W == {"Error: unhandled exception: ", "index ", " not in ", " .. ", " [", "]",
                 "IndexDefect", Dollar(i), Dollar(0), Dollar(h)}
           front == <<"Error: unhandled exception: ">>
           m == Said(i, h)
           end == <<" [", "IndexDefect", "]">>
           text == front \o m \o end
<1>1. RaiseException("IndexDefect", m, 0).text = text
  BY DEF RaiseException, UnhandledException, Said
<1>2. front \in Seq(W) /\ Len(front) = 1 /\ end \in Seq(W) /\ Len(end) = 3
  OBVIOUS
<1>3. /\ m \in Seq(W) /\ Len(m) = 6
      /\ m[2] = Dollar(i) /\ m[4] = Dollar(0) /\ m[6] = Dollar(h)
  BY DEF Said
<1> HIDE DEF W, front, m, end
<1>4. \A k \in 1 .. Len(m) : text[k + 1] = m[k]
  <2>1. front \in Seq(W) /\ m \in Seq(W) /\ end \in Seq(W) /\ Len(front) = 1
    BY <1>2, <1>3
  <2>2. Framed(front, m, end)
    BY <2>1, BehindFirst
  <2> QED
    BY <2>2 DEF Framed
<1> HIDE DEF text
<1>5. text[2 + 1] = m[2] /\ text[4 + 1] = m[4] /\ text[6 + 1] = m[6]
  BY <1>3, <1>4
<1>6. text[3] = m[2] /\ text[5] = m[4] /\ text[7] = m[6]
  BY <1>5
<1> QED
  BY <1>1, <1>3, <1>6 DEF m

LEMMA SliceHolds == SliceInv => SlicesAreRight
<1> SUFFICES ASSUME SliceInv PROVE SlicesAreRight
  OBVIOUS
<1>1. CallOK /\ CopiedRight
  BY DEF SliceInv
<1>2. SliceIsPart
  <2> SUFFICES ASSUME slicePc = "done" PROVE SliceIsPart
    BY DEF SliceIsPart
  <2>1. L = Length /\ copied = L
    BY DEF SliceInv
  <2>2. DOMAIN part = 1 .. copied
    <3>1. part \in Seq(Int) /\ Len(part) = copied
      BY <1>1, <2>1 DEF CopiedRight
    <3> QED
      BY <3>1, LenProperties
  <2> QED
    BY <1>1, <2>1, <2>2 DEF SliceIsPart, CopiedRight
<1>3. OnlyBadPartsRaise
  <2>1. slicePc = "raised" => ~IsPart
    BY DEF SliceInv
  <2>2. ASSUME slicePc = "done", L # 0 PROVE IsPart
    <3>1. L = Length /\ copied = L /\ L \in Nat /\ 1 \in 1 .. copied /\ L \in 1 .. copied
      BY <1>1, <2>2 DEF SliceInv, CopiedRight
    <3>2. InBounds(start + 1 - 1, Len(whole)) /\ InBounds(start + L - 1, Len(whole))
      BY <1>1, <3>1 DEF CopiedRight
    <3> QED
      BY <1>1, <3>1, <3>2 DEF CallOK, Length, InBounds, IsPart
  <2> QED
    BY <2>1, <2>2 DEF OnlyBadPartsRaise
<1>4. MessageIsTrue
  <2> SUFFICES ASSUME slicePc = "raised", message # <<>> PROVE MessageIsTrue
    BY DEF MessageIsTrue
  <2> DEFINE i == copied + start
             text == sliceThrown.text
  <2>1. Stuck /\ sliceThrown = RaiseException("IndexDefect", Said(i, High), 0)
    BY DEF SliceInv
  <2>2. /\ i \in Int /\ High \in Int /\ i \notin 0 .. High
        /\ i = IF start < 0 THEN start ELSE IF start > Len(whole) THEN start ELSE Len(whole)
    BY <1>1, <2>1, FirstMissing DEF CallOK, High
  <2> HIDE DEF i
  <2>3. text[3] = Dollar(i) /\ text[5] = Dollar(0) /\ text[7] = Dollar(High)
    BY <2>1, <2>2, SaidInError
  <2>4. /\ ReadNumber(text[3]) = i /\ ReadNumber(text[5]) = 0
        /\ ReadNumber(text[7]) = High
    <3>1. \A n \in Int : ReadNumber(Dollar(n)) = n
      BY DollarReads
    <3>2. 0 \in Int
      OBVIOUS
    <3> QED
      BY <2>2, <2>3, <3>1, <3>2
  <2> QED
    BY <2>2, <2>4 DEF MessageIsTrue, High
<1> QED
  BY <1>2, <1>3, <1>4 DEF SlicesAreRight

(***************************************************************************)
(* A slice is the part that was asked for, byte by byte, or an error, and  *)
(* then the part does not lie in the string; an index in the error's text, *)
(* read back digit by digit, is the first one that the string lacks.       *)
(***************************************************************************)
THEOREM SlicesAreRightAlways == SliceSpec => []SlicesAreRight
<1>1. SliceInit => SliceInv
  BY SliceInit_
<1>2. SliceInv /\ [SliceNext]_sliceVars => SliceInv'
  BY SliceNext_
<1>3. SliceInv => SlicesAreRight
  BY SliceHolds
<1> QED
  BY <1>1, <1>2, <1>3, PTL DEF SliceSpec

-----------------------------------------------------------------------------
(***************************************************************************)
(* Defects.  The handler's counter is up exactly while a run of bytes is   *)
(* being decoded, and an error of the decoding is the last one only until  *)
(* its text is kept.                                                       *)
(***************************************************************************)
StringsInv ==
  /\ excHandler = IF stringsPc = "try" THEN 1 ELSE 0
  /\ stringsPc # "catch" => lastJSError = NoError
  /\ prevJSError = NoError
  /\ stringsPc = "raised" =>
       stringsThrown = RaiseException("RangeDefect", RangeMessage, 0)

LEMMA StringsNext_ == StringsInv /\ [StringsNext]_stringsVars => StringsInv'
<1> SUFFICES ASSUME StringsInv, [StringsNext]_stringsVars PROVE StringsInv'
  OBVIOUS
<1> USE DEF StringsInv, errorVars, loopVars
<1>1. CASE UNCHANGED stringsVars
  BY <1>1 DEF stringsVars
<1>2. ASSUME NEW url \in IndexURLs, NEW href \in Hrefs, JoinHref(url, href) PROVE StringsInv'
  <2>1. /\ stringsPc \in {"idle", "done"} /\ UNCHANGED errorVars
        /\ \/ stringsPc' = "scan"
           \/ /\ stringsPc' = "raised"
              /\ stringsThrown' = RaiseException("RangeDefect", RangeMessage, excHandler)
    BY <1>2 DEF JoinHref, ToJSStr
  <2> QED
    BY <2>1
<1>3. ASSUME NEW tag \in Tags, EscapeCString(tag) PROVE StringsInv'
  BY <1>3 DEF EscapeCString, ToJSStr
<1>4. CASE AsciiChar
  BY <1>4 DEF AsciiChar
<1>5. CASE EscapeByte
  <2>1. /\ stringsPc \in {"scan", "run"} /\ UNCHANGED <<lastJSError, prevJSError>>
        /\ \/ stringsPc' = "run" /\ excHandler' = excHandler
           \/ stringsPc' = "try" /\ excHandler' = excHandler + 1
    BY <1>5 DEF EscapeByte
  <2> QED
    BY <2>1
<1>6. CASE DecodeRun
  BY <1>6 DEF DecodeRun
<1>7. CASE DecodeThrows
  BY <1>7 DEF DecodeThrows
<1>8. CASE KeepPercentText
  BY <1>8 DEF KeepPercentText
<1>9. CASE ReturnString
  BY <1>9 DEF ReturnString
<1> QED
  BY <1>1, <1>2, <1>3, <1>4, <1>5, <1>6, <1>7, <1>8, <1>9 DEF StringsNext

(***************************************************************************)
(* A defect of the page's handlers reaches the reader as an error with its *)
(* name and text, after any conversions and failed decodings before it.    *)
(***************************************************************************)
THEOREM DefectsAreReportedAlways == StringsSpec => []DefectsAreReported
<1>1. StringsInit => StringsInv
  BY DEF StringsInit, StringsInv
<1>2. StringsInv /\ [StringsNext]_stringsVars => StringsInv'
  BY StringsNext_
<1>3. StringsInv => DefectsAreReported
  BY DEF StringsInv, DefectsAreReported, RaiseException
<1> QED
  BY <1>1, <1>2, <1>3, PTL DEF StringsSpec

-----------------------------------------------------------------------------
(***************************************************************************)
(* Code points and their units.                                            *)
(***************************************************************************)
Byte == 0 .. 255
LastScalar == 1114111
TenBits == 0 .. 1023
Scalar == {c \in Nat : c <= LastScalar /\ ~IsSurrogate(c)}

LEMMA UnitIs == \A c : c \in CodeUnit <=> c \in Nat /\ c <= 65535
<1> DEFINE n == 65535
<1>1. n \in Nat /\ CodeUnit = 0 .. n
  BY SMT DEF CodeUnit
<1> HIDE DEF n
<1>2. \A c : c \in CodeUnit <=> c \in Nat /\ c <= n
  BY <1>1
<1> QED
  BY SMT, <1>2 DEF n

LEMMA SurrogateIs == \A c \in Nat : IsSurrogate(c) <=> 55296 <= c /\ c <= 57343
BY SMT DEF IsSurrogate

LEMMA ByteIsNumber == \A x \in Byte : x \in Nat
BY DEF Byte

LEMMA LastScalarIs == LastScalar \in Nat /\ LastScalar = 16 * 65536 + 65535
BY SMT DEF LastScalar

LEMMA DownInduction ==
  ASSUME NEW N \in Int, NEW G, \A k \in 1 .. N : (\A m \in k + 1 .. N : m \in G) => k \in G
  PROVE  1 .. N \subseteq G
<1> DEFINE H == {n \in Nat : N - n >= 1 => N - n \in G}
<1>1. ASSUME NEW n \in Nat, \A m \in 0 .. n - 1 : m \in H PROVE n \in H
  <2> SUFFICES ASSUME N - n >= 1 PROVE N - n \in G
    OBVIOUS
  <2>1. N - n \in 1 .. N
    OBVIOUS
  <2>2. ASSUME NEW m \in N - n + 1 .. N PROVE m \in G
    <3>1. N - m \in 0 .. n - 1 /\ N - (N - m) = m /\ m >= 1
      OBVIOUS
    <3>2. N - m \in H
      BY <1>1, <3>1
    <3> QED
      BY <3>1, <3>2
  <2> QED
    BY <2>1, <2>2
<1>2. Nat \subseteq H
  <2> HIDE DEF H
  <2> QED
    BY <1>1, SetInduction
<1>3. ASSUME NEW k \in 1 .. N PROVE k \in G
  <2>1. N - k \in Nat /\ N - (N - k) = k /\ k >= 1
    OBVIOUS
  <2>2. N - k \in H
    BY <1>2, <2>1
  <2> QED
    BY <2>1, <2>2
<1> QED
  BY <1>3

\* The last digits of a number below a bound.
LEMMA Halves ==
  ASSUME NEW c \in Scalar, 65536 <= c
  PROVE  \E a, b \in TenBits :
           /\ a = (c - 65536) \div 1024 /\ b = (c - 65536) % 1024
           /\ 65536 + a * 1024 + b = c
           /\ (55296 + a) % 1024 = a /\ (56320 + b) % 1024 = b
<1>1. c \in Nat /\ c <= 16 * 65536 + 65535
  BY LastScalarIs DEF Scalar
<1> DEFINE d == c - 65536
           a == d \div 1024
           b == d % 1024
<1>2. d \in Nat /\ d <= 1024 * 1023 + 1023 /\ c = 65536 + d
  BY SMT, <1>1
<1> HIDE DEF d
<1>3. a \in Nat /\ b \in 0 .. 1023 /\ a * 1024 + b = d
  BY SMT, <1>2
<1> HIDE DEF a, b
<1>4. a <= 1023
  BY SMT, <1>2, <1>3
<1>5. (55296 + a) % 1024 = a /\ (56320 + b) % 1024 = b
  BY SMT, <1>3, <1>4
<1>6. 65536 + a * 1024 + b = c /\ a \in 0 .. 1023
  BY SMT, <1>2, <1>3, <1>4
<1>7. a \in TenBits /\ b \in TenBits
  BY <1>3, <1>6 DEF TenBits
<1>8. a = (c - 65536) \div 1024 /\ b = (c - 65536) % 1024
  BY DEF a, b, d
<1> QED
  BY SMT, <1>5, <1>6, <1>7, <1>8

\* A code point is one unit, or a pair of surrogates.
Single(c) == Utf16(c) = <<c>> /\ c \in CodeUnit /\ ~IsSurrogate(c)
Paired(c, a, b) ==
  /\ Utf16(c) = <<55296 + a, 56320 + b>> /\ 65536 + a * 1024 + b = c
  /\ (55296 + a) % 1024 = a /\ (56320 + b) % 1024 = b

LEMMA UnitsOf ==
  ASSUME NEW c \in Scalar
  PROVE  \/ c < 65536 /\ Single(c)
         \/ c >= 65536 /\ \E a, b \in TenBits : Paired(c, a, b)
<1>1. c \in Nat /\ ~IsSurrogate(c)
  BY DEF Scalar
<1>2. CASE c < 65536
  <2>1. c <= 65535
    BY SMT, <1>1, <1>2
  <2> QED
    BY SMT, <1>1, <1>2, <2>1, UnitIs DEF Utf16, Single
<1>3. CASE c >= 65536
  <2>1. Utf16(c) = <<55296 + (c - 65536) \div 1024, 56320 + ((c - 65536) % 1024)>>
    BY SMT, <1>1, <1>3 DEF Utf16
  <2>2. PICK a, b \in TenBits :
           /\ a = (c - 65536) \div 1024 /\ b = (c - 65536) % 1024
           /\ 65536 + a * 1024 + b = c
           /\ (55296 + a) % 1024 = a /\ (56320 + b) % 1024 = b
    BY SMT, <1>3, <1>1, Halves
  <2>3. Paired(c, a, b)
    BY SMT, <2>1, <2>2 DEF Paired
  <2> QED
    BY <1>3, <2>3
<1> QED
  BY SMT, <1>1, <1>2, <1>3

\* A code point is one byte below 128, or two to four bytes from 128 on.
IsLow(c) == c < 128 /\ Utf8(c) = <<c>>
IsTwo(c, x, y) ==
  /\ Utf8(c) = <<x, y>> /\ x \in 194 .. 223 /\ IsTail(y)
  /\ (x - 192) * 64 + y - 128 = c
IsThree(c, x, y, z) ==
  /\ Utf8(c) = <<x, y, z>> /\ x \in 224 .. 239 /\ IsTail(y) /\ IsTail(z)
  /\ (x - 224) * 4096 + (y - 128) * 64 + z - 128 = c
IsFour(c, x, y, z, w) ==
  /\ Utf8(c) = <<x, y, z, w>> /\ x \in 240 .. 244 /\ IsTail(y) /\ IsTail(z) /\ IsTail(w)
  /\ (x - 240) * 262144 + (y - 128) * 4096 + (z - 128) * 64 + w - 128 = c
IsHigh(c) ==
  /\ c >= 128
  /\ \/ \E x, y \in Byte : IsTwo(c, x, y)
     \/ \E x, y, z \in Byte : IsThree(c, x, y, z)
     \/ \E x, y, z, w \in Byte : IsFour(c, x, y, z, w)

LEMMA SixBits ==
  ASSUME NEW d \in Nat
  PROVE  /\ d \div 64 \in Nat /\ (d \div 64) * 64 + (d % 64) = d
         /\ 0 <= (d % 64) /\ (d % 64) <= 63 /\ (d % 64) \in Nat
BY SMT

LEMMA BytesOf == ASSUME NEW c \in Scalar PROVE IsLow(c) \/ IsHigh(c)
<1>1. c \in Nat /\ c <= 16 * 65536 + 65535
  BY LastScalarIs DEF Scalar
<1>2. CASE c < 128
  BY <1>1, <1>2 DEF Utf8, IsLow
<1>3. CASE 128 <= c /\ c < 2048
  <2> DEFINE x == 192 + c \div 64
             y == 128 + (c % 64)
  <2>1. Utf8(c) = <<x, y>>
    BY SMT, <1>1, <1>3 DEF Utf8
  <2>2. x \in 194 .. 223 /\ y \in 128 .. 191 /\ (x - 192) * 64 + y - 128 = c
    BY SMT, <1>1, <1>3
  <2> HIDE DEF x, y
  <2>3. x \in Byte /\ y \in Byte
    BY <2>2 DEF Byte
  <2>4. IsTwo(c, x, y)
    BY <2>1, <2>2 DEF IsTwo, IsTail
  <2> QED
    BY <1>3, <2>3, <2>4 DEF IsHigh
<1>4. CASE 2048 <= c /\ c < 65536
  <2> DEFINE d == c \div 64
             x == 224 + c \div 4096
             y == 128 + (d % 64)
             z == 128 + (c % 64)
  <2>1. Utf8(c) = <<x, y, z>>
    BY SMT, <1>1, <1>4 DEF Utf8
  <2>2. c \div 4096 = d \div 64
    BY SMT, <1>1
  <2>3. d \in Nat /\ d * 64 + (z - 128) = c /\ z \in 128 .. 191
    BY SMT, <1>1
  <2> HIDE DEF d, z
  <2>4. (x - 224) * 64 + (y - 128) = d /\ y \in 128 .. 191 /\ x \in Nat /\ 224 <= x
    <3>1. x = 224 + d \div 64
      BY <2>2
    <3> HIDE DEF x
    <3> QED
      BY SMT, <2>3, <3>1, SixBits
  <2> HIDE DEF x, y
  <2>5. x <= 239 /\ (x - 224) * 4096 + (y - 128) * 64 + z - 128 = c
    BY SMT, <1>1, <1>4, <2>3, <2>4
  <2>6. x \in Byte /\ y \in Byte /\ z \in Byte
    BY <2>3, <2>4, <2>5 DEF Byte
  <2>7. IsThree(c, x, y, z)
    BY <2>1, <2>3, <2>4, <2>5 DEF IsThree, IsTail
  <2> QED
    BY <1>1, <1>4, <2>6, <2>7 DEF IsHigh
<1>5. CASE 65536 <= c
  <2> DEFINE d == c \div 64
             e == c \div 4096
             x == 240 + c \div 262144
             y == 128 + (e % 64)
             z == 128 + (d % 64)
             w == 128 + (c % 64)
  <2>1. Utf8(c) = <<x, y, z, w>>
    BY SMT, <1>1, <1>5 DEF Utf8
  <2>2. c \div 262144 = e \div 64 /\ e = d \div 64
    BY SMT, <1>1
  <2>3. d \in Nat /\ d * 64 + (w - 128) = c /\ w \in 128 .. 191
    BY SMT, <1>1
  <2> HIDE DEF d, w
  <2>4. e * 64 + (z - 128) = d /\ z \in 128 .. 191 /\ e \in Nat
    BY SMT, <2>2, <2>3
  <2> HIDE DEF e, z
  <2>5. (x - 240) * 64 + (y - 128) = e /\ y \in 128 .. 191 /\ x \in Nat /\ 240 <= x
    <3>1. x = 240 + e \div 64
      BY SMT, <2>2
    <3> HIDE DEF x
    <3> QED
      BY SMT, <2>4, <3>1, SixBits
  <2> HIDE DEF x, y
  <2>6. /\ x <= 244
        /\ (x - 240) * 262144 + (y - 128) * 4096 + (z - 128) * 64 + w - 128 = c
    BY SMT, <1>1, <1>5, <2>3, <2>4, <2>5
  <2>7. x \in Byte /\ y \in Byte /\ z \in Byte /\ w \in Byte
    BY <2>3, <2>4, <2>5, <2>6 DEF Byte
  <2>8. IsFour(c, x, y, z, w)
    BY SMT, <2>1, <2>3, <2>4, <2>5, <2>6 DEF IsFour, IsTail
  <2>9. c >= 128
    BY SMT, <1>1, <1>5
  <2> QED
    BY <2>7, <2>8, <2>9 DEF IsHigh
<1> QED
  BY SMT, <1>1, <1>2, <1>3, <1>4, <1>5

\* The bytes of a code point, whatever their number.
LEMMA BytesAre ==
  ASSUME NEW c \in Scalar
  PROVE  /\ Utf8(c) \in Seq(Byte) /\ Len(Utf8(c)) \in 1 .. 4
         /\ c < 128 => Utf8(c) = <<c>>
         /\ c >= 128 => IsHigh(c) /\ \A k \in 1 .. Len(Utf8(c)) : Utf8(c)[k] >= 128
<1>1. c \in Nat
  BY DEF Scalar
<1>2. CASE IsLow(c)
  <2>1. c \in Byte /\ c < 128 /\ Utf8(c) = <<c>>
    BY <1>1, <1>2 DEF IsLow, Byte
  <2> QED
    BY <1>1, <2>1
<1>3. CASE IsHigh(c)
  <2>1. CASE \E x, y \in Byte : IsTwo(c, x, y)
    <3>1. PICK x, y \in Byte : IsTwo(c, x, y)
      BY <2>1
    <3>2. Utf8(c) = <<x, y>> /\ x >= 128 /\ y >= 128
      BY <3>1 DEF IsTwo, IsTail
    <3> QED
      BY <1>1, <1>3, <3>2 DEF IsHigh
  <2>2. CASE \E x, y, z \in Byte : IsThree(c, x, y, z)
    <3>1. PICK x, y, z \in Byte : IsThree(c, x, y, z)
      BY <2>2
    <3>2. Utf8(c) = <<x, y, z>> /\ x >= 128 /\ y >= 128 /\ z >= 128
      BY <3>1 DEF IsThree, IsTail
    <3> QED
      BY <1>1, <1>3, <3>2 DEF IsHigh
  <2>3. CASE \E x, y, z, w \in Byte : IsFour(c, x, y, z, w)
    <3>1. PICK x, y, z, w \in Byte : IsFour(c, x, y, z, w)
      BY <2>3
    <3>2. Utf8(c) = <<x, y, z, w>> /\ x >= 128 /\ y >= 128 /\ z >= 128 /\ w >= 128
      BY SMT, <3>1 DEF IsFour, IsTail
    <3> QED
      BY <1>1, <1>3, <3>2 DEF IsHigh
  <2> QED
    BY <1>3, <2>1, <2>2, <2>3 DEF IsHigh
<1> QED
  BY <1>2, <1>3, BytesOf
-----------------------------------------------------------------------------
(***************************************************************************)
(* The recursive function of cstrToNimstr, which looks ahead: it exists,   *)
(* and what it gives at a position depends on the rest of the string only. *)
(***************************************************************************)
LowHalf(x, k) == IF k < Len(x) THEN x[k + 1] % 1024 ELSE 0
PairAt(x, k) == 65536 + (x[k] % 1024) * 1024 + LowHalf(x, k)

EncodedStep(x, g, k) ==
  IF k > Len(x) THEN <<>>
  ELSE IF IsSurrogate(x[k]) THEN Utf8(PairAt(x, k)) \o g[k + 2]
  ELSE Utf8(x[k]) \o g[k + 1]

EncodedFrom(x) == CHOOSE g : g = [k \in 1 .. Len(x) + 2 |-> EncodedStep(x, g, k)]

LEMMA EncodedIs == \A x : CstrToNimstr(x) = EncodedFrom(x)[1]
BY SMT DEF CstrToNimstr, EncodedFrom, EncodedStep, PairAt, LowHalf

LEMMA EncodedAhead ==
  ASSUME NEW x, Len(x) \in Nat, NEW g, NEW h, NEW k \in 1 .. Len(x) + 2,
         \A m \in k + 1 .. Len(x) + 2 : g[m] = h[m]
  PROVE  EncodedStep(x, g, k) = EncodedStep(x, h, k)
<1>1. k <= Len(x) => g[k + 1] = h[k + 1] /\ g[k + 2] = h[k + 2]
  OBVIOUS
<1> QED
  BY SMT, <1>1 DEF EncodedStep

LEMMA EncodedSolved ==
  ASSUME NEW x, Len(x) \in Nat
  PROVE  \A k \in 1 .. Len(x) + 2 : EncodedFrom(x)[k] = EncodedStep(x, EncodedFrom(x), k)
<1> DEFINE N == Len(x) + 2
           Solves(f, k) == \A m \in k .. N : f[m] = EncodedStep(x, f, m)
           G == {k \in 1 .. N : \E f : Solves(f, k)}
<1>0. N \in Nat /\ 1 <= N
  OBVIOUS
<1>1. ASSUME NEW k \in 1 .. N, \A m \in k + 1 .. N : m \in G PROVE k \in G
  <2>1. \E f : Solves(f, k + 1)
    <3>1. CASE k = N
      <4>1. \A m \in k + 1 .. N : FALSE
        BY <1>0, <3>1
      <4> QED
        BY <4>1
    <3>2. CASE k # N
      <4>1. k + 1 \in k + 1 .. N
        BY <1>0, <3>2
      <4> QED
        BY <1>1, <4>1
    <3> QED
      BY <3>1, <3>2
  <2>2. PICK f : Solves(f, k + 1)
    BY <2>1
  <2> DEFINE h == [m \in 1 .. N |-> IF m = k THEN EncodedStep(x, f, k) ELSE f[m]]
  <2>3. \A m \in k + 1 .. N : h[m] = f[m]
    BY <1>0
  <2>4. h[k] = EncodedStep(x, f, k)
    OBVIOUS
  <2> HIDE DEF h
  <2>5. ASSUME NEW m \in k .. N PROVE h[m] = EncodedStep(x, h, m)
    <3>1. m \in 1 .. N /\ \A n \in m + 1 .. N : n \in k + 1 .. N
      BY <1>0
    <3>2. EncodedStep(x, h, m) = EncodedStep(x, f, m)
      BY <2>3, <3>1, EncodedAhead
    <3>3. CASE m = k
      BY <2>4, <3>2, <3>3
    <3>4. CASE m # k
      <4>1. m \in k + 1 .. N
        BY <3>4
      <4> QED
        BY <2>2, <2>3, <3>2, <4>1
    <3> QED
      BY <3>3, <3>4
  <2> QED
    BY <2>5
<1>2. PICK f : Solves(f, 1)
  <2>1. 1 .. N \subseteq G
    <3> HIDE DEF G, N
    <3>1. N \in Int
      BY <1>0
    <3>2. \A k \in 1 .. N : (\A m \in k + 1 .. N : m \in G) => k \in G
      BY <1>1
    <3> QED
      BY <3>1, <3>2, DownInduction
  <2>2. 1 \in 1 .. N
    BY <1>0
  <2> QED
    BY <2>1, <2>2
<1> DEFINE v == [k \in 1 .. N |-> f[k]]
<1>3. ASSUME NEW k \in 1 .. N PROVE v[k] = EncodedStep(x, v, k)
  <2>1. v[k] = f[k] /\ \A m \in k + 1 .. N : m \in 1 .. N /\ f[m] = v[m]
    BY <1>0
  <2> HIDE DEF v
  <2>2. EncodedStep(x, f, k) = EncodedStep(x, v, k)
    BY <2>1, EncodedAhead
  <2> QED
    BY <1>2, <2>1, <2>2
<1>4. v = [k \in 1 .. N |-> EncodedStep(x, v, k)]
  BY <1>3
<1>5. EncodedFrom(x) = CHOOSE g : g = [k \in 1 .. N |-> EncodedStep(x, g, k)]
  BY DEF EncodedFrom
<1>6. EncodedFrom(x) = [k \in 1 .. N |-> EncodedStep(x, EncodedFrom(x), k)]
  <2> HIDE DEF v
  <2> QED
    BY <1>4, <1>5
<1> QED
  BY <1>6

LEMMA ConcatIs ==
  ASSUME NEW S, NEW p \in Seq(S), NEW r \in Seq(S)
  PROVE  /\ p \o r \in Seq(S) /\ Len(p \o r) = Len(p) + Len(r)
         /\ Len(p) \in Nat /\ Len(r) \in Nat
         /\ \A k \in 1 .. Len(p) : (p \o r)[k] = p[k]
         /\ \A k \in 1 .. Len(r) : (p \o r)[k + Len(p)] = r[k]
<1>1. Len(p) \in Nat /\ Len(r) \in Nat
  BY LenProperties
<1>2. /\ p \o r \in Seq(S) /\ Len(p \o r) = Len(p) + Len(r)
      /\ \A i \in 1 .. Len(p) + Len(r) : (p \o r)[i] = IF i <= Len(p) THEN p[i] ELSE r[i - Len(p)]
  BY ConcatProperties
<1> DEFINE u == p \o r
<1> HIDE DEF u
<1>3. ASSUME NEW k \in 1 .. Len(p) PROVE u[k] = p[k]
  <2>1. k \in 1 .. Len(p) + Len(r) /\ k <= Len(p)
    BY <1>1
  <2> QED
    BY <1>2, <2>1 DEF u
<1>4. ASSUME NEW k \in 1 .. Len(r) PROVE u[k + Len(p)] = r[k]
  <2>1. /\ k + Len(p) \in 1 .. Len(p) + Len(r) /\ ~(k + Len(p) <= Len(p))
        /\ (k + Len(p)) - Len(p) = k
    BY <1>1
  <2> QED
    BY <1>2, <2>1 DEF u
<1> QED
  BY <1>1, <1>2, <1>3, <1>4 DEF u

LEMMA EncodedRest ==
  ASSUME NEW p \in Seq(CodeUnit), NEW r \in Seq(CodeUnit)
  PROVE  \A k \in 1 .. Len(r) + 2 : EncodedFrom(p \o r)[k + Len(p)] = EncodedFrom(r)[k]
<1> DEFINE u == p \o r
           N == Len(r) + 2
           G == {k \in 1 .. N : EncodedFrom(u)[k + Len(p)] = EncodedFrom(r)[k]}
<1>1. /\ Len(u) = Len(p) + Len(r) /\ Len(p) \in Nat /\ Len(r) \in Nat
      /\ \A k \in 1 .. Len(r) : u[k + Len(p)] = r[k]
  BY ConcatIs
<1> HIDE DEF u
<1>2. ASSUME NEW k \in 1 .. N, \A m \in k + 1 .. N : m \in G PROVE k \in G
  <2>1. /\ k \in Nat /\ k + Len(p) \in 1 .. Len(u) + 2
        /\ k + Len(p) > Len(u) <=> k > Len(r)
        /\ k + Len(p) < Len(u) <=> k < Len(r)
        /\ (k + Len(p)) + 1 = (k + 1) + Len(p) /\ (k + Len(p)) + 2 = (k + 2) + Len(p)
    BY <1>1
  <2>2. /\ EncodedFrom(u)[k + Len(p)] = EncodedStep(u, EncodedFrom(u), k + Len(p))
        /\ EncodedFrom(r)[k] = EncodedStep(r, EncodedFrom(r), k)
    BY <1>1, <2>1, EncodedSolved
  <2>3. CASE k > Len(r)
    <3>1. EncodedStep(u, EncodedFrom(u), k + Len(p)) = <<>> /\ EncodedStep(r, EncodedFrom(r), k) = <<>>
      BY <2>1, <2>3 DEF EncodedStep
    <3> QED
      BY <2>2, <3>1
  <2>4. CASE ~(k > Len(r))
    <3>1. /\ k \in 1 .. Len(r) /\ k + 1 \in k + 1 .. N /\ k + 2 \in k + 1 .. N
          /\ k < Len(r) => k + 1 \in 1 .. Len(r)
      BY <1>1, <2>4
    <3>2. u[k + Len(p)] = r[k] /\ (k < Len(r) => u[(k + Len(p)) + 1] = r[k + 1])
      BY <1>1, <2>1, <3>1
    <3>3. /\ EncodedFrom(u)[(k + Len(p)) + 1] = EncodedFrom(r)[k + 1]
          /\ EncodedFrom(u)[(k + Len(p)) + 2] = EncodedFrom(r)[k + 2]
      BY <1>2, <2>1, <3>1
    <3>4. EncodedStep(u, EncodedFrom(u), k + Len(p)) = EncodedStep(r, EncodedFrom(r), k)
      BY SMT, <2>1, <2>4, <3>2, <3>3 DEF EncodedStep, PairAt, LowHalf
    <3> QED
      BY <2>2, <3>4
  <2> QED
    BY <2>3, <2>4
<1>3. 1 .. N \subseteq G
  <2> HIDE DEF G, N
  <2>1. N \in Int
    BY <1>1 DEF N
  <2>2. \A k \in 1 .. N : (\A m \in k + 1 .. N : m \in G) => k \in G
    BY <1>2
  <2> QED
    BY <2>1, <2>2, DownInduction
<1> QED
  BY <1>3 DEF u

LEMMA EncodedEmpty == CstrToNimstr(<<>>) = <<>>
<1> DEFINE e == <<>>
<1>1. Len(e) = 0
  OBVIOUS
<1> HIDE DEF e
<1>2. EncodedFrom(e)[1] = EncodedStep(e, EncodedFrom(e), 1)
  <2>1. Len(e) \in Nat /\ 1 \in 1 .. Len(e) + 2
    BY <1>1
  <2> QED
    BY <2>1, EncodedSolved
<1>3. EncodedStep(e, EncodedFrom(e), 1) = <<>>
  BY <1>1 DEF EncodedStep
<1> QED
  BY <1>2, <1>3, EncodedIs DEF e

\* The units of a pair.
LEMMA PairIs ==
  ASSUME NEW a \in TenBits, NEW b \in TenBits
  PROVE  /\ 55296 + a \in CodeUnit /\ IsLead(55296 + a) /\ ~IsTrail(55296 + a) /\ IsSurrogate(55296 + a)
         /\ 56320 + b \in CodeUnit /\ IsTrail(56320 + b) /\ ~IsLead(56320 + b) /\ IsSurrogate(56320 + b)
<1>1. a \in Nat /\ a <= 1023 /\ b \in Nat /\ b <= 1023
  BY DEF TenBits
<1>2. 55296 + a \in CodeUnit /\ 56320 + b \in CodeUnit
  BY SMT, <1>1, UnitIs
<1>3. IsLead(55296 + a) /\ ~IsTrail(55296 + a)
  BY SMT, <1>1 DEF IsLead, IsTrail
<1>4. IsTrail(56320 + b) /\ ~IsLead(56320 + b)
  BY SMT, <1>1 DEF IsLead, IsTrail
<1>5. IsSurrogate(55296 + a) /\ IsSurrogate(56320 + b)
  BY SMT, <1>1, SurrogateIs
<1> QED
  BY <1>2, <1>3, <1>4, <1>5

\* What a code point has for units.
LEMMA UnitsAre ==
  ASSUME NEW c \in Scalar
  PROVE  Utf16(c) \in Seq(CodeUnit) /\ Len(Utf16(c)) \in 1 .. 2
<1>1. CASE Single(c)
  <2>1. Utf16(c) = <<c>> /\ c \in CodeUnit
    BY <1>1 DEF Single
  <2> QED
    BY <2>1
<1>2. ASSUME NEW a \in TenBits, NEW b \in TenBits, Paired(c, a, b)
      PROVE  Utf16(c) \in Seq(CodeUnit) /\ Len(Utf16(c)) \in 1 .. 2
  <2> DEFINE s == 55296 + a
             t == 56320 + b
  <2>1. Utf16(c) = <<s, t>> /\ s \in CodeUnit /\ t \in CodeUnit
    BY SMT, <1>2, PairIs DEF Paired
  <2> HIDE DEF s, t
  <2> QED
    BY <2>1
<1> QED
  BY <1>1, <1>2, UnitsOf

LEMMA EncodedMore ==
  ASSUME NEW c \in Scalar, NEW r \in Seq(CodeUnit)
  PROVE  CstrToNimstr(Utf16(c) \o r) = Utf8(c) \o CstrToNimstr(r)
<1> DEFINE p == Utf16(c)
           u == p \o r
<1>1. p \in Seq(CodeUnit) /\ Len(p) \in 1 .. 2
  BY UnitsAre
<1>2. /\ Len(u) = Len(p) + Len(r) /\ Len(r) \in Nat
      /\ \A k \in 1 .. Len(p) : u[k] = p[k]
      /\ EncodedFrom(u)[1 + Len(p)] = EncodedFrom(r)[1]
  <2> HIDE DEF p
  <2>1. /\ Len(u) = Len(p) + Len(r) /\ Len(r) \in Nat
        /\ \A k \in 1 .. Len(p) : u[k] = p[k]
    BY <1>1, ConcatIs
  <2>2. 1 \in 1 .. Len(r) + 2
    BY <2>1
  <2> QED
    BY <1>1, <2>1, <2>2, EncodedRest
<1> HIDE DEF u
<1>3. EncodedFrom(u)[1] = EncodedStep(u, EncodedFrom(u), 1)
  <2>1. Len(u) \in Nat /\ 1 \in 1 .. Len(u) + 2
    BY <1>1, <1>2
  <2> QED
    BY <2>1, EncodedSolved
<1>4. CASE Single(c)
  <2>1. p = <<c>> /\ ~IsSurrogate(c)
    BY <1>4 DEF Single
  <2> HIDE DEF p
  <2>2. Len(p) = 1 /\ u[1] = c /\ ~(1 > Len(u)) /\ 1 + Len(p) = 1 + 1
    BY <1>1, <1>2, <2>1
  <2>3. EncodedStep(u, EncodedFrom(u), 1) = Utf8(c) \o EncodedFrom(u)[1 + 1]
    BY SMT, <2>1, <2>2 DEF EncodedStep
  <2> QED
    BY <1>2, <1>3, <2>2, <2>3, EncodedIs DEF u, p
<1>5. ASSUME NEW a \in TenBits, NEW b \in TenBits, Paired(c, a, b)
      PROVE  EncodedFrom(u)[1] = Utf8(c) \o EncodedFrom(u)[1 + Len(p)]
  <2> DEFINE s == 55296 + a
             t == 56320 + b
  <2>1. /\ p = <<s, t>> /\ IsSurrogate(s)
        /\ 65536 + a * 1024 + b = c /\ s % 1024 = a /\ t % 1024 = b
    BY SMT, <1>5, PairIs DEF Paired
  <2> HIDE DEF p, s, t
  <2>2. Len(p) = 2 /\ u[1] = s /\ u[1 + 1] = t /\ ~(1 > Len(u)) /\ 1 < Len(u) /\ 1 + Len(p) = 1 + 2
    BY <1>1, <1>2, <2>1
  <2>3. EncodedStep(u, EncodedFrom(u), 1) = Utf8(c) \o EncodedFrom(u)[1 + Len(p)]
    <3>1. IsSurrogate(u[1])
      BY <2>1, <2>2
    <3>2. EncodedStep(u, EncodedFrom(u), 1) = Utf8(PairAt(u, 1)) \o EncodedFrom(u)[1 + 2]
      BY <2>2, <3>1 DEF EncodedStep
    <3>3. PairAt(u, 1) = c
      BY SMT, <2>1, <2>2 DEF PairAt, LowHalf
    <3> QED
      BY <2>2, <3>2, <3>3
  <2> QED
    BY SMT, <1>3, <2>3
<1>6. EncodedFrom(u)[1] = Utf8(c) \o EncodedFrom(u)[1 + Len(p)]
  BY <1>2, <1>3, <1>4, <1>5, UnitsOf, EncodedIs, SMTT(30) DEF u
<1> QED
  BY <1>2, <1>6, EncodedIs DEF u, p
-----------------------------------------------------------------------------
(***************************************************************************)
(* Well-formed strings: those that code points make, one after the other.  *)
(***************************************************************************)
Formed == {u \in Seq(CodeUnit) : WellFormed(u)}

Take(u, n) == [k \in 1 .. n |-> u[k]]
Drop(u, n) == [k \in 1 .. Len(u) - n |-> u[k + n]]

LEMMA CutIs ==
  ASSUME NEW S, NEW u \in Seq(S), NEW n \in 0 .. Len(u)
  PROVE  /\ Take(u, n) \in Seq(S) /\ Len(Take(u, n)) = n
         /\ Drop(u, n) \in Seq(S) /\ Len(Drop(u, n)) = Len(u) - n
         /\ u = Take(u, n) \o Drop(u, n)
<1> DEFINE p == Take(u, n)
           r == Drop(u, n)
<1>0. Len(u) \in Nat /\ \A k \in 1 .. Len(u) : u[k] \in S
  BY LenProperties, ElementOfSeq
<1>1. p \in Seq(S) /\ Len(p) = n /\ \A k \in 1 .. n : p[k] = u[k]
  BY <1>0 DEF Take
<1>2. /\ r \in Seq(S) /\ Len(r) = Len(u) - n
      /\ \A k \in 1 .. Len(u) - n : r[k] = u[k + n]
  <2> DEFINE m == Len(u) - n
  <2>1. m \in Nat /\ \A k \in 1 .. m : u[k + n] \in S
    BY <1>0
  <2>2. r = [k \in 1 .. m |-> u[k + n]]
    BY DEF Drop
  <2> HIDE DEF m, r
  <2>3. r \in Seq(S) /\ Len(r) = m /\ \A k \in 1 .. m : r[k] = u[k + n]
    BY <2>1, <2>2
  <2> QED
    BY <2>3 DEF m
<1> HIDE DEF p, r
<1>3. /\ p \o r \in Seq(S) /\ Len(p \o r) = Len(u)
      /\ \A k \in 1 .. Len(p) : (p \o r)[k] = p[k]
      /\ \A k \in 1 .. Len(r) : (p \o r)[k + Len(p)] = r[k]
  BY <1>0, <1>1, <1>2, ConcatIs
<1> DEFINE v == p \o r
<1> HIDE DEF v
<1>4. ASSUME NEW k \in 1 .. Len(u) PROVE v[k] = u[k]
  <2>1. CASE k <= n
    BY <1>1, <1>3, <2>1 DEF v
  <2>2. CASE ~(k <= n)
    <3>1. k - n \in 1 .. Len(u) - n /\ (k - n) + n = k
      BY <1>0, <2>2
    <3> DEFINE l == k - n
    <3> HIDE DEF l
    <3>2. l \in 1 .. Len(r) /\ v[l + n] = r[l] /\ r[l] = u[l + n]
      BY <1>1, <1>2, <1>3, <3>1 DEF v, l
    <3> QED
      BY <3>1, <3>2 DEF l
  <2> QED
    BY <2>1, <2>2
<1>5. v \in Seq(S) /\ Len(v) = Len(u)
  BY <1>3 DEF v
<1>6. v = u
  BY <1>4, <1>5, SeqEqual
<1> QED
  BY <1>1, <1>2, <1>6 DEF p, r, v

\* Nothing leads into or trails from a seam.
LEMMA FormedParts ==
  ASSUME NEW p \in Seq(CodeUnit), NEW r \in Seq(CodeUnit), p \o r \in Formed,
         Len(p) > 0 => ~IsLead(p[Len(p)])
  PROVE  p \in Formed /\ r \in Formed
<1> DEFINE u == p \o r
<1>1. /\ Len(u) = Len(p) + Len(r) /\ Len(p) \in Nat /\ Len(r) \in Nat
      /\ \A k \in 1 .. Len(p) : u[k] = p[k]
      /\ \A k \in 1 .. Len(r) : u[k + Len(p)] = r[k]
  BY ConcatIs
<1>2. \A k \in 1 .. Len(u) : /\ IsLead(u[k]) => k < Len(u) /\ IsTrail(u[k + 1])
                             /\ IsTrail(u[k]) => 1 < k /\ IsLead(u[k - 1])
  <2>1. u \in Seq(CodeUnit) /\ WellFormed(u)
    BY DEF Formed
  <2>2. DOMAIN u = 1 .. Len(u)
    BY <2>1, LenProperties
  <2> QED
    BY <2>1, <2>2 DEF WellFormed
<1> HIDE DEF u
<1>3. ASSUME NEW k \in 1 .. Len(p)
      PROVE  /\ IsLead(p[k]) => k < Len(p) /\ IsTrail(p[k + 1])
             /\ IsTrail(p[k]) => 1 < k /\ IsLead(p[k - 1])
  <2>1. k \in 1 .. Len(u) /\ u[k] = p[k]
    BY <1>1
  <2>2. IsLead(p[k]) => k < Len(p)
    <3>1. IsLead(p[k]) => k # Len(p)
      BY <1>1
    <3> QED
      BY <1>1, <3>1
  <2>3. k < Len(p) => u[k + 1] = p[k + 1]
    BY <1>1, SMTT(30)
  <2>4. 1 < k => u[k - 1] = p[k - 1]
    BY <1>1
  <2> QED
    BY <1>2, <2>1, <2>2, <2>3, <2>4
<1>4. ASSUME NEW k \in 1 .. Len(r)
      PROVE  /\ IsLead(r[k]) => k < Len(r) /\ IsTrail(r[k + 1])
             /\ IsTrail(r[k]) => 1 < k /\ IsLead(r[k - 1])
  <2>1. k + Len(p) \in 1 .. Len(u) /\ u[k + Len(p)] = r[k]
    BY <1>1
  <2>2. /\ k + Len(p) < Len(u) <=> k < Len(r)
        /\ k < Len(r) => u[(k + Len(p)) + 1] = r[k + 1]
    <3>1. k < Len(r) => k + 1 \in 1 .. Len(r) /\ (k + 1) + Len(p) = (k + Len(p)) + 1
      BY <1>1
    <3> QED
      BY <1>1, <3>1
  <2>3. ASSUME IsTrail(r[k]) PROVE 1 < k /\ IsLead(r[k - 1])
    <3>1. 1 < k + Len(p) /\ IsLead(u[(k + Len(p)) - 1])
      BY <1>2, <2>1, <2>3
    <3>2. CASE k = 1
      <4>1. Len(p) \in 1 .. Len(p) /\ (k + Len(p)) - 1 = Len(p) /\ Len(p) > 0
        BY <1>1, <3>1, <3>2
      <4>2. u[Len(p)] = p[Len(p)]
        BY <1>1, <4>1
      <4> QED
        BY <3>1, <4>1, <4>2
    <3>3. CASE k # 1
      <4>1. k - 1 \in 1 .. Len(r) /\ (k - 1) + Len(p) = (k + Len(p)) - 1 /\ 1 < k
        BY <1>1, <3>3
      <4>2. u[(k - 1) + Len(p)] = r[k - 1]
        BY <1>1, <4>1
      <4> QED
        BY <3>1, <4>1, <4>2
    <3> QED
      BY <3>2, <3>3
  <2> QED
    BY <1>2, <2>1, <2>2, <2>3
<1>5. DOMAIN p = 1 .. Len(p) /\ DOMAIN r = 1 .. Len(r)
  BY LenProperties
<1> QED
  BY <1>3, <1>4, <1>5 DEF Formed, WellFormed

LEMMA FormedJoin ==
  ASSUME NEW p \in Formed, NEW r \in Formed
  PROVE  p \o r \in Formed
<1> DEFINE u == p \o r
<1>0. p \in Seq(CodeUnit) /\ r \in Seq(CodeUnit)
  BY DEF Formed
<1>1. /\ u \in Seq(CodeUnit)
      /\ Len(u) = Len(p) + Len(r) /\ Len(p) \in Nat /\ Len(r) \in Nat
      /\ \A k \in 1 .. Len(p) : u[k] = p[k]
      /\ \A k \in 1 .. Len(r) : u[k + Len(p)] = r[k]
  BY <1>0, ConcatIs
<1>2. DOMAIN p = 1 .. Len(p) /\ DOMAIN r = 1 .. Len(r)
  BY <1>0, LenProperties
<1>3. /\ \A k \in 1 .. Len(p) : /\ IsLead(p[k]) => k < Len(p) /\ IsTrail(p[k + 1])
                                /\ IsTrail(p[k]) => 1 < k /\ IsLead(p[k - 1])
      /\ \A k \in 1 .. Len(r) : /\ IsLead(r[k]) => k < Len(r) /\ IsTrail(r[k + 1])
                                /\ IsTrail(r[k]) => 1 < k /\ IsLead(r[k - 1])
  BY <1>2 DEF Formed, WellFormed
<1> HIDE DEF u
<1>4. ASSUME NEW k \in 1 .. Len(u)
      PROVE  /\ IsLead(u[k]) => k < Len(u) /\ IsTrail(u[k + 1])
             /\ IsTrail(u[k]) => 1 < k /\ IsLead(u[k - 1])
  <2>1. CASE k <= Len(p)
    <3>1. k \in 1 .. Len(p) /\ u[k] = p[k]
      BY <1>1, <2>1
    <3>2. k < Len(p) => k < Len(u) /\ u[k + 1] = p[k + 1]
      BY <1>1
    <3>3. 1 < k => u[k - 1] = p[k - 1]
      BY <1>1, <2>1
    <3> QED
      BY <1>3, <3>1, <3>2, <3>3
  <2>2. CASE ~(k <= Len(p))
    <3> DEFINE l == k - Len(p)
    <3>1. /\ l \in 1 .. Len(r) /\ k = l + Len(p)
          /\ k < Len(u) <=> l < Len(r)
          /\ l < Len(r) => l + 1 \in 1 .. Len(r) /\ k + 1 = (l + 1) + Len(p)
          /\ 1 < l => l - 1 \in 1 .. Len(r) /\ k - 1 = (l - 1) + Len(p) /\ 1 < k
      BY <1>1, <2>2
    <3> HIDE DEF l
    <3>2. /\ u[k] = r[l]
          /\ l < Len(r) => u[k + 1] = r[l + 1]
          /\ 1 < l => u[k - 1] = r[l - 1]
      BY <1>1, <3>1
    <3> QED
      BY <1>3, <3>1, <3>2
  <2> QED
    BY <2>1, <2>2
<1>5. DOMAIN u = 1 .. Len(u)
  BY <1>1, LenProperties
<1> QED
  BY <1>1, <1>4, <1>5 DEF Formed, WellFormed, u

LEMMA EmptyIsFormed == <<>> \in Formed
<1> DEFINE e == <<>>
<1>1. e \in Seq(CodeUnit) /\ \A k \in DOMAIN e : FALSE
  OBVIOUS
<1> HIDE DEF e
<1>2. e \in Formed
  BY <1>1 DEF Formed, WellFormed
<1> QED
  BY <1>2 DEF e

LEMMA UnitsAreFormed == ASSUME NEW c \in Scalar PROVE Utf16(c) \in Formed
<1>1. CASE Single(c)
  <2> DEFINE u == <<c>>
  <2>1. u \in Seq(CodeUnit) /\ Len(u) = 1 /\ u[1] = c /\ DOMAIN u = {1}
    BY <1>1 DEF Single
  <2> HIDE DEF u
  <2>2. c \in Nat /\ ~IsSurrogate(c)
    BY DEF Scalar
  <2>3. ~IsLead(c) /\ ~IsTrail(c)
    BY SMT, <2>2 DEF IsLead, IsTrail, IsSurrogate
  <2>4. u \in Formed
    BY <2>1, <2>3 DEF Formed, WellFormed
  <2>5. Utf16(c) = u
    BY <1>1 DEF Single, u
  <2> QED
    BY <2>4, <2>5
<1>2. ASSUME NEW a \in TenBits, NEW b \in TenBits, Paired(c, a, b)
      PROVE  Utf16(c) \in Formed
  <2> DEFINE s == 55296 + a
             t == 56320 + b
             u == <<s, t>>
  <2>1. Utf16(c) = u
    BY <1>2 DEF Paired
  <2>2. /\ s \in CodeUnit /\ IsLead(s) /\ ~IsTrail(s)
        /\ t \in CodeUnit /\ IsTrail(t) /\ ~IsLead(t)
    BY PairIs
  <2> HIDE DEF s, t
  <2>3. u \in Seq(CodeUnit) /\ Len(u) = 2 /\ u[1] = s /\ u[2] = t /\ DOMAIN u = 1 .. 2
    BY <2>2
  <2> HIDE DEF u
  <2>4. ASSUME NEW k \in 1 .. 2
        PROVE  /\ IsLead(u[k]) => k < Len(u) /\ IsTrail(u[k + 1])
               /\ IsTrail(u[k]) => 1 < k /\ IsLead(u[k - 1])
    <3>1. k = 1 \/ k = 2
      OBVIOUS
    <3>2. 1 + 1 = 2 /\ 2 - 1 = 1
      OBVIOUS
    <3>3. CASE k = 1
      BY <2>2, <2>3, <3>2, <3>3
    <3>4. CASE k = 2
      BY <2>2, <2>3, <3>2, <3>4
    <3> QED
      BY <3>1, <3>3, <3>4
  <2> QED
    BY <2>1, <2>3, <2>4 DEF Formed, WellFormed
<1> QED
  BY <1>1, <1>2, UnitsOf

\* Two surrogates are a code point.
LEMMA PairedUnits ==
  ASSUME NEW s \in CodeUnit, NEW t \in CodeUnit, IsLead(s), IsTrail(t)
  PROVE  \E c \in Scalar : Utf16(c) = <<s, t>>
<1>1. s \in Nat /\ t \in Nat
  BY UnitIs
<1>2. 55296 <= s /\ s <= 56319 /\ 56320 <= t /\ t <= 57343
  BY SMT DEF IsLead, IsTrail
<1> DEFINE a == s - 55296
           b == t - 56320
           d == a * 1024 + b
           c == 65536 + d
<1>3. a \in Nat /\ a <= 1023 /\ b \in Nat /\ b <= 1023 /\ s = 55296 + a /\ t = 56320 + b
  BY SMT, <1>1, <1>2
<1> HIDE DEF a, b
<1>4. d \in Nat /\ d \div 1024 = a /\ d % 1024 = b /\ d <= 1024 * 1023 + 1023
  BY SMT, <1>3
<1> HIDE DEF d
<1>5. c \in Nat /\ c - 65536 = d /\ ~(c < 65536) /\ c <= 16 * 65536 + 65535 /\ c > 57343
  BY SMT, <1>4
<1> HIDE DEF c
<1>6. Utf16(c) = <<55296 + a, 56320 + b>>
  BY SMT, <1>4, <1>5 DEF Utf16
<1>7. c \in Scalar
  BY SMT, <1>5, LastScalarIs, SurrogateIs DEF Scalar
<1> QED
  BY <1>3, <1>6, <1>7

LEMMA Peel ==
  ASSUME NEW u \in Formed, Len(u) > 0
  PROVE  \E c \in Scalar, r \in Formed : u = Utf16(c) \o r /\ Len(r) < Len(u)
<1>1. u \in Seq(CodeUnit) /\ Len(u) \in Nat /\ DOMAIN u = 1 .. Len(u) /\ \A k \in 1 .. Len(u) : u[k] \in CodeUnit
  <2>1. u \in Seq(CodeUnit)
    BY DEF Formed
  <2> QED
    BY <2>1, LenProperties, ElementOfSeq
<1>2. 1 \in 1 .. Len(u)
  BY <1>1
<1>3. /\ IsLead(u[1]) => 1 < Len(u) /\ IsTrail(u[1 + 1])
      /\ IsTrail(u[1]) => 1 < 1
  BY <1>1, <1>2 DEF Formed, WellFormed
<1>4. ~IsTrail(u[1])
  BY <1>3
<1>5. CASE ~IsLead(u[1])
  <2> DEFINE p == Take(u, 1)
             r == Drop(u, 1)
  <2>1. /\ p \in Seq(CodeUnit) /\ Len(p) = 1 /\ r \in Seq(CodeUnit) /\ Len(r) = Len(u) - 1
        /\ u = p \o r /\ p[1] = u[1]
    <3>1. 1 \in 0 .. Len(u)
      BY <1>1
    <3>2. p[1] = u[1]
      BY DEF Take
    <3> QED
      BY <1>1, <3>1, <3>2, CutIs
  <2> HIDE DEF p, r
  <2>2. p \in Formed /\ r \in Formed
    BY <1>5, <2>1, FormedParts
  <2> DEFINE c == u[1]
  <2>3. c \in CodeUnit /\ ~IsLead(c) /\ ~IsTrail(c)
    BY <1>1, <1>2, <1>4, <1>5
  <2>4. p = <<c>>
    BY <2>1
  <2> HIDE DEF c
  <2>5. c \in Nat /\ c <= 65535
    BY <2>3, UnitIs
  <2>6. c \in Scalar
    <3>1. ~IsSurrogate(c)
      BY SMT, <2>3, <2>5 DEF IsLead, IsTrail, IsSurrogate
    <3> QED
      BY SMT, <2>5, <3>1, LastScalarIs DEF Scalar
  <2>7. Utf16(c) = <<c>>
    BY SMT, <2>5 DEF Utf16
  <2>8. Len(r) < Len(u)
    BY <1>1, <2>1
  <2> QED
    BY <2>1, <2>2, <2>4, <2>6, <2>7, <2>8
<1>6. CASE IsLead(u[1])
  <2> DEFINE p == Take(u, 2)
             r == Drop(u, 2)
  <2>0. 2 \in 1 .. Len(u) /\ 1 + 1 = 2
    BY <1>1, <1>3, <1>6
  <2>1. /\ p \in Seq(CodeUnit) /\ Len(p) = 2 /\ r \in Seq(CodeUnit) /\ Len(r) = Len(u) - 2
        /\ u = p \o r /\ p[1] = u[1] /\ p[2] = u[2]
    <3>1. 2 \in 0 .. Len(u)
      BY <2>0
    <3>2. p[1] = u[1] /\ p[2] = u[2]
      BY DEF Take
    <3> QED
      BY <1>1, <3>1, <3>2, CutIs
  <2> HIDE DEF p, r
  <2> DEFINE s == u[1]
             t == u[2]
  <2>2. s \in CodeUnit /\ t \in CodeUnit /\ IsLead(s) /\ IsTrail(t)
    BY <1>1, <1>2, <1>3, <1>6, <2>0
  <2>3. p = <<s, t>>
    BY <2>1
  <2> HIDE DEF s, t
  <2>4. p[2] = t /\ ~IsLead(t)
    <3>1. p[2] = t
      BY <2>3
    <3>2. t \in Nat
      BY <2>2, UnitIs
    <3>3. ~IsLead(t)
      BY SMTT(30), <2>2, <3>2 DEF IsLead, IsTrail
    <3> QED
      BY <3>1, <3>3
  <2>5. r \in Formed
    BY <2>1, <2>4, FormedParts
  <2>6. PICK c \in Scalar : Utf16(c) = <<s, t>>
    BY <2>2, PairedUnits
  <2>7. Len(r) < Len(u)
    BY <1>1, <2>1
  <2> QED
    BY <2>1, <2>3, <2>5, <2>6, <2>7
<1> QED
  BY <1>5, <1>6

LEMMA StringInduction ==
  ASSUME NEW G, <<>> \in G,
         \A c \in Scalar, r \in Formed : r \in G => Utf16(c) \o r \in G
  PROVE  Formed \subseteq G
<1> DEFINE H == {n \in Nat : \A u \in Formed : Len(u) = n => u \in G}
<1>1. ASSUME NEW n \in Nat, \A m \in 0 .. n - 1 : m \in H PROVE n \in H
  <2> SUFFICES ASSUME NEW u \in Formed, Len(u) = n PROVE u \in G
    OBVIOUS
  <2>1. u \in Seq(CodeUnit)
    BY DEF Formed
  <2>2. CASE n = 0
    <3>1. u = <<>>
      BY <2>1, <2>2, EmptySeq
    <3> QED
      BY <3>1
  <2>3. CASE n # 0
    <3>1. PICK c \in Scalar, r \in Formed : u = Utf16(c) \o r /\ Len(r) < Len(u)
      BY <2>3, Peel, SMTT(30)
    <3>2. Len(r) \in 0 .. n - 1
      <4>1. Len(r) \in Nat
        BY LenProperties DEF Formed
      <4> QED
        BY <3>1, <4>1
    <3>3. Len(r) \in H
      BY <1>1, <3>2
    <3>4. r \in G
      BY <3>3
    <3> QED
      BY <3>1, <3>4
  <2> QED
    BY <2>2, <2>3
<1>2. Nat \subseteq H
  <2> HIDE DEF H
  <2> QED
    BY <1>1, SetInduction
<1>3. ASSUME NEW u \in Formed PROVE u \in G
  <2>1. Len(u) \in Nat
    BY LenProperties DEF Formed
  <2> QED
    BY <1>2, <2>1
<1> QED
  BY <1>3
-----------------------------------------------------------------------------
(***************************************************************************)
(* The bytes of a well-formed string: one code point's after the other's.  *)
(***************************************************************************)
LEMMA EncodedBytes == ASSUME NEW u \in Formed PROVE CstrToNimstr(u) \in Seq(Byte)
<1> DEFINE G == {v \in Formed : CstrToNimstr(v) \in Seq(Byte)}
<1>1. <<>> \in G
  <2>1. <<>> \in Seq(Byte)
    OBVIOUS
  <2> QED
    BY <2>1, EncodedEmpty, EmptyIsFormed
<1>2. ASSUME NEW c \in Scalar, NEW r \in Formed, r \in G PROVE Utf16(c) \o r \in G
  <2>1. CstrToNimstr(Utf16(c) \o r) = Utf8(c) \o CstrToNimstr(r)
    BY EncodedMore DEF Formed
  <2>2. Utf8(c) \in Seq(Byte) /\ CstrToNimstr(r) \in Seq(Byte)
    BY <1>2, BytesAre
  <2>3. Utf8(c) \o CstrToNimstr(r) \in Seq(Byte)
    BY <2>2, ConcatProperties
  <2>4. Utf16(c) \o r \in Formed
    BY UnitsAreFormed, FormedJoin
  <2> QED
    BY <2>1, <2>3, <2>4
<1>3. Formed \subseteq G
  <2> HIDE DEF G
  <2> QED
    BY <1>1, <1>2, StringInduction
<1> QED
  BY <1>3

LEMMA EncodedJoin ==
  ASSUME NEW p \in Formed, NEW r \in Formed
  PROVE  CstrToNimstr(p \o r) = CstrToNimstr(p) \o CstrToNimstr(r)
<1> DEFINE G == {v \in Formed : CstrToNimstr(v \o r) = CstrToNimstr(v) \o CstrToNimstr(r)}
<1>0. r \in Seq(CodeUnit) /\ CstrToNimstr(r) \in Seq(Byte)
  BY EncodedBytes DEF Formed
<1>1. <<>> \in G
  <2>1. <<>> \o r = r /\ <<>> \o CstrToNimstr(r) = CstrToNimstr(r)
    BY <1>0, ConcatEmptySeq
  <2> QED
    BY <2>1, EncodedEmpty, EmptyIsFormed
<1>2. ASSUME NEW c \in Scalar, NEW v \in Formed, v \in G PROVE Utf16(c) \o v \in G
  <2>1. v \in Seq(CodeUnit) /\ Utf16(c) \in Seq(CodeUnit) /\ Utf8(c) \in Seq(Byte) /\ CstrToNimstr(v) \in Seq(Byte)
    BY UnitsAre, BytesAre, EncodedBytes DEF Formed
  <2>2. CstrToNimstr(Utf16(c) \o v) = Utf8(c) \o CstrToNimstr(v)
    BY <2>1, EncodedMore
  <2>3. (Utf16(c) \o v) \o r = Utf16(c) \o (v \o r)
    BY <1>0, <2>1, ConcatAssociative, SMTT(30)
  <2>4. v \o r \in Seq(CodeUnit)
    BY FormedJoin DEF Formed
  <2>5. CstrToNimstr(Utf16(c) \o (v \o r)) = Utf8(c) \o CstrToNimstr(v \o r)
    BY <2>4, EncodedMore
  <2>6. CstrToNimstr(v \o r) = CstrToNimstr(v) \o CstrToNimstr(r)
    BY <1>2
  <2>7. (Utf8(c) \o CstrToNimstr(v)) \o CstrToNimstr(r) = Utf8(c) \o (CstrToNimstr(v) \o CstrToNimstr(r))
    BY <1>0, <2>1, ConcatAssociative, SMTT(30)
  <2>8. Utf16(c) \o v \in Formed
    BY UnitsAreFormed, FormedJoin
  <2> QED
    BY <2>2, <2>3, <2>5, <2>6, <2>7, <2>8
<1>3. Formed \subseteq G
  <2> HIDE DEF G
  <2> QED
    BY <1>1, <1>2, StringInduction
<1> QED
  BY <1>3

\* A run of characters above 127 in a string, and what may follow it.
AllHigh(u) == \A k \in 1 .. Len(u) : u[k] >= 128
StartsLow(u) == Len(u) > 0 => u[1] < 128

LEMMA UnitsAreHigh ==
  ASSUME NEW c \in Scalar
  PROVE  /\ c < 128 => Utf16(c) = <<c>> /\ Utf8(c) = <<c>>
         /\ c >= 128 => AllHigh(Utf16(c)) /\ AllHigh(Utf8(c))
<1>0. c \in Nat
  BY DEF Scalar
<1>1. CASE c < 128
  <2>1. Utf16(c) = <<c>> /\ Utf8(c) = <<c>> /\ ~(c >= 128)
    BY SMT, <1>0, <1>1 DEF Utf16, Utf8
  <2> QED
    BY <2>1
<1>2. CASE c >= 128
  <2>1. AllHigh(Utf8(c))
    BY <1>2, BytesAre DEF AllHigh
  <2>2. AllHigh(Utf16(c))
    <3>1. CASE Single(c)
      <4>1. Utf16(c) = <<c>>
        BY <3>1 DEF Single
      <4>2. Len(<<c>>) = 1 /\ <<c>>[1] = c
        OBVIOUS
      <4>3. \A k \in 1 .. 1 : k = 1
        OBVIOUS
      <4> QED
        BY <1>2, <4>1, <4>2, <4>3 DEF AllHigh
    <3>2. ASSUME NEW a \in TenBits, NEW b \in TenBits, Paired(c, a, b)
          PROVE  AllHigh(Utf16(c))
      <4> DEFINE s == 55296 + a
                 t == 56320 + b
      <4>1. Utf16(c) = <<s, t>>
        BY <3>2 DEF Paired
      <4>2. s >= 128 /\ t >= 128
        <5>1. a \in Nat /\ b \in Nat
          BY DEF TenBits
        <5> QED
          BY SMT, <5>1
      <4> HIDE DEF s, t
      <4>3. Len(<<s, t>>) = 2 /\ <<s, t>>[1] = s /\ <<s, t>>[2] = t
        OBVIOUS
      <4>4. \A k \in 1 .. 2 : k = 1 \/ k = 2
        OBVIOUS
      <4> QED
        BY <4>1, <4>2, <4>3, <4>4 DEF AllHigh
    <3> QED
      BY <3>1, <3>2, UnitsOf
  <2>3. ~(c < 128)
    BY <1>0, <1>2
  <2> QED
    BY <2>1, <2>2, <2>3
<1> QED
  BY <1>0, <1>1, <1>2

LEMMA HighJoin ==
  ASSUME NEW S, NEW p \in Seq(S), NEW r \in Seq(S)
  PROVE  AllHigh(p \o r) <=> AllHigh(p) /\ AllHigh(r)
<1> DEFINE u == p \o r
<1>1. /\ Len(u) = Len(p) + Len(r) /\ Len(p) \in Nat /\ Len(r) \in Nat
      /\ \A k \in 1 .. Len(p) : u[k] = p[k]
      /\ \A k \in 1 .. Len(r) : u[k + Len(p)] = r[k]
  BY ConcatIs
<1> HIDE DEF u
<1>2. ASSUME AllHigh(u) PROVE AllHigh(p) /\ AllHigh(r)
  <2>1. \A k \in 1 .. Len(u) : u[k] >= 128
    BY <1>2 DEF AllHigh
  <2>2. ASSUME NEW k \in 1 .. Len(p) PROVE p[k] >= 128
    <3>1. k \in 1 .. Len(u)
      BY <1>1
    <3> QED
      BY <1>1, <2>1, <3>1
  <2>3. ASSUME NEW k \in 1 .. Len(r) PROVE r[k] >= 128
    <3>1. k + Len(p) \in 1 .. Len(u)
      BY <1>1
    <3> QED
      BY <1>1, <2>1, <3>1
  <2> QED
    BY <2>2, <2>3 DEF AllHigh
<1>3. ASSUME AllHigh(p), AllHigh(r) PROVE AllHigh(u)
  <2>1. ASSUME NEW k \in 1 .. Len(u) PROVE u[k] >= 128
    <3>1. CASE k <= Len(p)
      <4>1. k \in 1 .. Len(p)
        BY <1>1, <3>1
      <4> QED
        BY <1>1, <1>3, <4>1 DEF AllHigh
    <3>2. CASE ~(k <= Len(p))
      <4> DEFINE l == k - Len(p)
      <4>1. l \in 1 .. Len(r) /\ k = l + Len(p)
        BY <1>1, <3>2
      <4> HIDE DEF l
      <4> QED
        BY <1>1, <1>3, <4>1 DEF AllHigh
    <3> QED
      BY <3>1, <3>2
  <2> QED
    BY <2>1 DEF AllHigh
<1> QED
  BY <1>2, <1>3 DEF u

LEMMA EncodedHigh ==
  ASSUME NEW u \in Formed, AllHigh(u)
  PROVE  AllHigh(CstrToNimstr(u))
<1> DEFINE G == {v \in Formed : AllHigh(v) => AllHigh(CstrToNimstr(v))}
<1>1. <<>> \in G
  <2> DEFINE e == <<>>
  <2>1. \A k \in 1 .. Len(e) : FALSE
    OBVIOUS
  <2>2. e \in Formed /\ CstrToNimstr(e) = e
    BY EmptyIsFormed, EncodedEmpty
  <2> HIDE DEF e
  <2>3. e \in G
    BY <2>1, <2>2 DEF AllHigh
  <2> QED
    BY <2>3 DEF e
<1>2. ASSUME NEW c \in Scalar, NEW v \in Formed, v \in G PROVE Utf16(c) \o v \in G
  <2> SUFFICES ASSUME AllHigh(Utf16(c) \o v) PROVE AllHigh(CstrToNimstr(Utf16(c) \o v))
    BY UnitsAreFormed, FormedJoin
  <2>1. v \in Seq(CodeUnit) /\ Utf16(c) \in Seq(CodeUnit) /\ Utf8(c) \in Seq(Byte) /\ CstrToNimstr(v) \in Seq(Byte)
    BY UnitsAre, BytesAre, EncodedBytes DEF Formed
  <2>2. AllHigh(Utf16(c)) /\ AllHigh(v)
    BY <2>1, HighJoin
  <2>3. c >= 128
    <3>1. c \in Nat
      BY DEF Scalar
    <3>2. CASE c < 128
      <4>1. Utf16(c) = <<c>>
        BY <3>2, UnitsAreHigh
      <4>2. Len(<<c>>) = 1 /\ <<c>>[1] = c /\ 1 \in 1 .. 1
        OBVIOUS
      <4> QED
        BY <2>2, <4>1, <4>2 DEF AllHigh
    <3> QED
      BY <3>1, <3>2
  <2>4. AllHigh(Utf8(c))
    BY <2>3, UnitsAreHigh
  <2>5. CstrToNimstr(Utf16(c) \o v) = Utf8(c) \o CstrToNimstr(v)
    BY <2>1, EncodedMore
  <2> QED
    BY <1>2, <2>1, <2>2, <2>4, <2>5, HighJoin
<1>3. Formed \subseteq G
  <2> HIDE DEF G
  <2> QED
    BY <1>1, <1>2, StringInduction
<1> QED
  BY <1>3

LEMMA EncodedStart ==
  ASSUME NEW u \in Formed
  PROVE  /\ Len(u) = 0 => CstrToNimstr(u) = <<>>
         /\ Len(u) > 0 => Len(CstrToNimstr(u)) > 0
         /\ StartsLow(u) => StartsLow(CstrToNimstr(u))
         /\ Len(u) > 0 /\ CstrToNimstr(u)[1] < 128
            => \E c \in Scalar, r \in Formed :
                 c < 128 /\ u = <<c>> \o r /\ CstrToNimstr(u) = <<c>> \o CstrToNimstr(r)
<1>0. u \in Seq(CodeUnit) /\ Len(u) \in Nat
  BY LenProperties DEF Formed
<1>1. CASE Len(u) = 0
  <2>1. u = <<>>
    BY <1>0, <1>1, EmptySeq
  <2>2. CstrToNimstr(u) = u /\ Len(u) = 0
    BY <1>1, <2>1, EncodedEmpty
  <2> QED
    BY <1>0, <2>1, <2>2 DEF StartsLow
<1>2. CASE Len(u) # 0
  <2>1. Len(u) > 0
    BY <1>0, <1>2
  <2>2. PICK c \in Scalar, r \in Formed : u = Utf16(c) \o r
    BY <2>1, Peel
  <2> DEFINE e == CstrToNimstr(u)
             f == CstrToNimstr(r)
  <2>3. /\ r \in Seq(CodeUnit) /\ Utf16(c) \in Seq(CodeUnit) /\ Utf8(c) \in Seq(Byte) /\ f \in Seq(Byte)
        /\ Len(Utf16(c)) \in 1 .. 2 /\ Len(Utf8(c)) \in 1 .. 4
    BY UnitsAre, BytesAre, EncodedBytes DEF Formed
  <2>4. e = Utf8(c) \o f
    BY <2>2, <2>3, EncodedMore
  <2> HIDE DEF e, f
  <2>5. /\ Len(e) = Len(Utf8(c)) + Len(f) /\ Len(f) \in Nat /\ 1 \in 1 .. Len(Utf8(c))
        /\ e[1] = Utf8(c)[1]
    <3>1. Len(e) = Len(Utf8(c)) + Len(f) /\ Len(f) \in Nat
      BY <2>3, <2>4, ConcatIs
    <3>2. 1 \in 1 .. Len(Utf8(c))
      <4> DEFINE n == Len(Utf8(c))
      <4> HIDE DEF n
      <4>1. n \in 1 .. 4
        BY <2>3 DEF n
      <4>2. 1 \in 1 .. n
        BY <4>1
      <4> QED
        BY <4>2 DEF n
    <3>3. e[1] = Utf8(c)[1]
      BY <2>3, <2>4, <3>2, ConcatIs
    <3> QED
      BY <3>1, <3>2, <3>3
  <2>6. u[1] = Utf16(c)[1]
    BY <2>2, <2>3, ConcatIs
  <2>7. c \in Nat
    BY DEF Scalar
  <2>8. CASE c < 128
    <3>1. Utf16(c) = <<c>> /\ Utf8(c) = <<c>>
      BY <2>8, UnitsAreHigh
    <3>2. e[1] = c
      BY <2>5, <3>1
    <3>3. StartsLow(e)
      BY <2>8, <3>2 DEF StartsLow
    <3>4. Len(e) > 0
      BY <2>3, <2>5
    <3> QED
      BY <1>2, <2>2, <2>4, <2>8, <3>1, <3>3, <3>4 DEF e, f
  <2>9. CASE c >= 128
    <3>1. Utf16(c)[1] >= 128 /\ Utf8(c)[1] >= 128
      BY <2>3, <2>9, UnitsAreHigh DEF AllHigh
    <3>2. u[1] \in Nat /\ e[1] \in Nat
      <4>1. u[1] \in CodeUnit
        BY <1>0, <2>1, ElementOfSeq
      <4>2. Utf8(c)[1] \in Byte
        BY <2>3, ElementOfSeq
      <4>3. u[1] \in Nat
        BY <4>1, UnitIs
      <4>4. Utf8(c)[1] \in Nat
        BY <4>2 DEF Byte
      <4>5. e[1] \in Nat
        BY <2>5, <4>4
      <4> QED
        BY <4>3, <4>5
    <3>3. ~StartsLow(u) /\ ~(e[1] < 128)
      BY <2>1, <2>5, <2>6, <3>1, <3>2 DEF StartsLow
    <3>4. Len(e) > 0
      BY <2>3, <2>5
    <3> QED
      BY <1>2, <3>3, <3>4 DEF e
  <2>10. c < 128 \/ c >= 128
    BY <2>7
  <2> QED
    BY <2>8, <2>9, <2>10
<1> QED
  BY <1>1, <1>2

\* Before the first ASCII character a string is well formed, and so is the rest.
LEMMA RunOf ==
  ASSUME NEW u \in Formed
  PROVE  \E h, r \in Formed : u = h \o r /\ AllHigh(h) /\ StartsLow(r)
<1> DEFINE G == {v \in Formed : \E h, r \in Formed : v = h \o r /\ AllHigh(h) /\ StartsLow(r)}
<1>0. AllHigh(<<>>) /\ StartsLow(<<>>)
  <2> DEFINE e == <<>>
  <2>1. Len(e) = 0 /\ ~(Len(e) > 0) /\ \A k \in 1 .. Len(e) : FALSE
    OBVIOUS
  <2> HIDE DEF e
  <2>2. AllHigh(e) /\ StartsLow(e)
    BY <2>1 DEF AllHigh, StartsLow
  <2> QED
    BY <2>2 DEF e
<1>1. <<>> \in G
  <2>1. <<>> \o <<>> = <<>>
    OBVIOUS
  <2> QED
    BY <1>0, <2>1, EmptyIsFormed
<1>2. ASSUME NEW c \in Scalar, NEW v \in Formed, v \in G PROVE Utf16(c) \o v \in G
  <2>0. Utf16(c) \o v \in Formed /\ Utf16(c) \in Formed /\ Utf16(c) \in Seq(CodeUnit) /\ v \in Seq(CodeUnit)
    BY UnitsAreFormed, FormedJoin DEF Formed
  <2>1. c \in Nat
    BY DEF Scalar
  <2>2. CASE c < 128
    <3> DEFINE w == Utf16(c) \o v
    <3>1. Utf16(c) = <<c>>
      BY <2>2, UnitsAreHigh
    <3>2. w[1] = Utf16(c)[1]
      <4>0. Len(Utf16(c)) \in 1 .. 2
        BY UnitsAre
      <4>1. 1 \in 1 .. Len(Utf16(c))
        BY <4>0
      <4> QED
        BY <2>0, <4>1, ConcatIs
    <3>3. <<>> \o w = w
      BY <2>0, ConcatEmptySeq DEF Formed
    <3> HIDE DEF w
    <3>4. StartsLow(w)
      BY <2>2, <3>1, <3>2 DEF StartsLow
    <3> QED
      BY <1>0, <2>0, <3>3, <3>4, EmptyIsFormed DEF w
  <2>3. CASE c >= 128
    <3>1. PICK h, r \in Formed : v = h \o r /\ AllHigh(h) /\ StartsLow(r)
      BY <1>2
    <3>2. Utf16(c) \o v = (Utf16(c) \o h) \o r
      <4>1. h \in Seq(CodeUnit) /\ r \in Seq(CodeUnit)
        BY DEF Formed
      <4> QED
        BY <2>0, <3>1, <4>1, ConcatAssociative, SMTT(30)
    <3>3. Utf16(c) \o h \in Formed
      BY <2>0, FormedJoin
    <3>4. AllHigh(Utf16(c) \o h)
      <4>1. h \in Seq(CodeUnit)
        BY DEF Formed
      <4> QED
        BY <2>0, <2>3, <3>1, <4>1, UnitsAreHigh, HighJoin
    <3> QED
      BY <2>0, <3>1, <3>2, <3>3, <3>4
  <2>4. c < 128 \/ c >= 128
    BY <2>1
  <2> HIDE DEF G
  <2> QED
    BY <2>2, <2>3, <2>4
<1>3. Formed \subseteq G
  <2> HIDE DEF G
  <2> QED
    BY <1>1, <1>2, StringInduction
<1> QED
  BY <1>3

LEMMA AsciiIsFormed ==
  ASSUME NEW u \in Seq(CodeUnit), IsAscii(u)
  PROVE  u \in Formed
<1>1. ASSUME NEW k \in DOMAIN u PROVE ~IsLead(u[k]) /\ ~IsTrail(u[k])
  <2>1. u[k] \in CodeUnit
    BY LenProperties, ElementOfSeq
  <2>2. u[k] \in Nat /\ u[k] < 128
    BY <2>1, UnitIs DEF IsAscii
  <2>3. \A n \in Nat : n < 128 => ~IsLead(n) /\ ~IsTrail(n)
    BY SMTT(30) DEF IsLead, IsTrail
  <2> QED
    BY <2>2, <2>3
<1> QED
  BY <1>1 DEF Formed, WellFormed

LEMMA AsciiIsItself ==
  ASSUME NEW u \in Seq(CodeUnit), IsAscii(u)
  PROVE  CstrToNimstr(u) = u
<1> DEFINE Low(v) == \A k \in 1 .. Len(v) : v[k] < 128
           G == {v \in Formed : Low(v) => CstrToNimstr(v) = v}
<1>1. <<>> \in G
  BY EncodedEmpty, EmptyIsFormed
<1>2. ASSUME NEW c \in Scalar, NEW v \in Formed, v \in G PROVE Utf16(c) \o v \in G
  <2> DEFINE w == Utf16(c) \o v
  <2>0. w \in Formed
    BY UnitsAreFormed, FormedJoin
  <2>1. /\ v \in Seq(CodeUnit) /\ Utf16(c) \in Seq(CodeUnit) /\ Len(Utf16(c)) \in 1 .. 2
        /\ CstrToNimstr(w) = Utf8(c) \o CstrToNimstr(v)
    BY UnitsAre, EncodedMore DEF Formed
  <2>2. /\ Len(w) = Len(Utf16(c)) + Len(v) /\ Len(v) \in Nat
        /\ \A k \in 1 .. Len(Utf16(c)) : w[k] = Utf16(c)[k]
        /\ \A k \in 1 .. Len(v) : w[k + Len(Utf16(c))] = v[k]
    BY <2>1, ConcatIs
  <2> HIDE DEF w
  <2>3. ASSUME Low(w) PROVE CstrToNimstr(w) = w
    <3>1. Low(v)
      <4>1. ASSUME NEW k \in 1 .. Len(v) PROVE v[k] < 128
        <5>1. k + Len(Utf16(c)) \in 1 .. Len(w)
          <6>1. Len(Utf16(c)) \in Nat /\ Len(v) \in Nat
            BY <2>1, <2>2
          <6> DEFINE m == Len(Utf16(c))
          <6> HIDE DEF m, Low
          <6>2. k \in 1 .. Len(v) /\ m \in Nat /\ Len(v) \in Nat /\ Len(w) = m + Len(v)
            BY <2>2, <6>1 DEF m
          <6>3. k + m \in 1 .. Len(w)
            BY <6>2
          <6> QED
            BY <6>3 DEF m
        <5> QED
          BY <2>2, <2>3, <5>1
      <4> QED
        BY <4>1
    <3>2. c < 128
      <4>1. c \in Nat
        BY DEF Scalar
      <4>2. 1 \in 1 .. Len(Utf16(c)) /\ 1 \in 1 .. Len(w)
        <5> DEFINE m == Len(Utf16(c))
        <5> HIDE DEF m, Low
        <5>1. m \in 1 .. 2 /\ Len(v) \in Nat /\ Len(w) = m + Len(v)
          BY <2>1, <2>2 DEF m
        <5>2. 1 \in 1 .. m /\ 1 \in 1 .. Len(w)
          BY <5>1
        <5> QED
          BY <5>2 DEF m
      <4>3. w[1] = Utf16(c)[1] /\ w[1] < 128
        BY <2>2, <2>3, <4>2
      <4>4. Utf16(c)[1] \in CodeUnit
        BY <2>1, <4>2, ElementOfSeq
      <4>5. CASE c >= 128
        <5>1. Utf16(c)[1] >= 128
          BY <4>2, <4>5, UnitsAreHigh DEF AllHigh
        <5> QED
          BY <4>3, <4>4, <5>1, UnitIs
      <4> QED
        BY <4>1, <4>5
    <3>3. Utf16(c) = <<c>> /\ Utf8(c) = <<c>>
      BY <3>2, UnitsAreHigh
    <3>4. CstrToNimstr(v) = v
      BY <1>2, <3>1
    <3> QED
      BY <2>1, <3>3, <3>4 DEF w
  <2> QED
    BY <2>0, <2>3 DEF w
<1>3. Formed \subseteq G
  <2> HIDE DEF G
  <2> QED
    BY <1>1, <1>2, StringInduction
<1>4. Low(u)
  BY LenProperties DEF IsAscii
<1>5. u \in Formed
  BY AsciiIsFormed
<1> QED
  BY <1>3, <1>4, <1>5
-----------------------------------------------------------------------------
(***************************************************************************)
(* The recursive function of decodeURIComponent, which looks ahead too.    *)
(***************************************************************************)
RunSize(x) ==
  IF x \in 194 .. 223 THEN 2 ELSE IF x \in 224 .. 239 THEN 3 ELSE IF x \in 240 .. 244 THEN 4 ELSE 0

CodeAt(t, k) ==
  CASE RunSize(ByteAt(t, k)) = 2 -> (ByteAt(t, k) - 192) * 64 + ByteAt(t, k + 3) - 128
    [] RunSize(ByteAt(t, k)) = 3 -> (ByteAt(t, k) - 224) * 4096 + (ByteAt(t, k + 3) - 128) * 64
                                    + ByteAt(t, k + 6) - 128
    [] RunSize(ByteAt(t, k)) = 4 -> (ByteAt(t, k) - 240) * 262144 + (ByteAt(t, k + 3) - 128) * 4096
                                    + (ByteAt(t, k + 6) - 128) * 64 + ByteAt(t, k + 9) - 128
    [] OTHER -> -1

IsRun(t, k) ==
  /\ RunSize(ByteAt(t, k)) > 0
  /\ \A j \in 1 .. RunSize(ByteAt(t, k)) - 1 : IsTail(ByteAt(t, k + 3 * j))
  /\ Len(Utf8(CodeAt(t, k))) = RunSize(ByteAt(t, k))
  /\ CodeAt(t, k) < 1114112 /\ ~IsSurrogate(CodeAt(t, k))

DecodedStep(t, g, k) ==
  IF k > Len(t) THEN <<>>
  ELSE IF t[k] # Percent THEN AndThen(<<t[k]>>, g[k + 1])
  ELSE IF ByteAt(t, k) \in 0 .. 127 THEN AndThen(<<ByteAt(t, k)>>, g[k + 3])
  ELSE IF IsRun(t, k) THEN AndThen(Utf16(CodeAt(t, k)), g[k + 3 * RunSize(ByteAt(t, k))])
  ELSE Failure

DecodedFrom(t) == CHOOSE g : g = [k \in 1 .. Len(t) + 12 |-> DecodedStep(t, g, k)]

LEMMA DecodedIs == \A t : DecodeURIComponent(t) = DecodedFrom(t)[1]
BY SMT DEF DecodeURIComponent, DecodedFrom, DecodedStep, IsRun, CodeAt, RunSize

LEMMA DecodedAhead ==
  ASSUME NEW x, Len(x) \in Nat, NEW g, NEW h, NEW k \in 1 .. Len(x) + 12,
         \A m \in k + 1 .. Len(x) + 12 : g[m] = h[m]
  PROVE  DecodedStep(x, g, k) = DecodedStep(x, h, k)
<1>1. k <= Len(x) => g[k + 1] = h[k + 1] /\ g[k + 3] = h[k + 3]
  OBVIOUS
<1>2. k <= Len(x) /\ IsRun(x, k)
      => g[k + 3 * RunSize(ByteAt(x, k))] = h[k + 3 * RunSize(ByteAt(x, k))]
  <2> DEFINE n == RunSize(ByteAt(x, k))
  <2>1. n \in {0, 2, 3, 4}
    BY DEF RunSize
  <2>2. IsRun(x, k) => n > 0
    BY DEF IsRun
  <2> HIDE DEF n
  <2>3. k <= Len(x) /\ IsRun(x, k) => k + 3 * n \in k + 1 .. Len(x) + 12
    BY <2>1, <2>2
  <2> QED
    BY <2>3 DEF n
<1>3. CASE k > Len(x) \/ x[k] # Percent
  BY <1>1, <1>3 DEF DecodedStep
<1>4. CASE /\ ~(k > Len(x)) /\ x[k] = Percent
           /\ ByteAt(x, k) \in 0 .. 127 \/ ~IsRun(x, k)
  BY <1>1, <1>4 DEF DecodedStep
<1>5. CASE /\ ~(k > Len(x)) /\ x[k] = Percent
           /\ ~(ByteAt(x, k) \in 0 .. 127) /\ IsRun(x, k)
  <2>1. DecodedStep(x, g, k) = AndThen(Utf16(CodeAt(x, k)), g[k + 3 * RunSize(ByteAt(x, k))])
    BY <1>5 DEF DecodedStep
  <2>2. DecodedStep(x, h, k) = AndThen(Utf16(CodeAt(x, k)), h[k + 3 * RunSize(ByteAt(x, k))])
    BY <1>5 DEF DecodedStep
  <2>3. k <= Len(x)
    <3>1. ~(k > Len(x))
      BY <1>5
    <3> QED
      BY <3>1
  <2> QED
    BY <1>2, <1>5, <2>1, <2>2, <2>3
<1> QED
  BY <1>3, <1>4, <1>5

LEMMA DecodedSolved ==
  ASSUME NEW x, Len(x) \in Nat
  PROVE  \A k \in 1 .. Len(x) + 12 : DecodedFrom(x)[k] = DecodedStep(x, DecodedFrom(x), k)
<1> DEFINE N == Len(x) + 12
           Solves(f, k) == \A m \in k .. N : f[m] = DecodedStep(x, f, m)
           G == {k \in 1 .. N : \E f : Solves(f, k)}
<1>0. N \in Nat /\ 1 <= N
  OBVIOUS
<1>1. ASSUME NEW k \in 1 .. N, \A m \in k + 1 .. N : m \in G PROVE k \in G
  <2>1. \E f : Solves(f, k + 1)
    <3>1. CASE k = N
      <4>1. \A m \in k + 1 .. N : FALSE
        BY <1>0, <3>1
      <4> QED
        BY <4>1
    <3>2. CASE k # N
      <4>1. k + 1 \in k + 1 .. N
        BY <1>0, <3>2
      <4> QED
        BY <1>1, <4>1
    <3> QED
      BY <3>1, <3>2
  <2>2. PICK f : Solves(f, k + 1)
    BY <2>1
  <2> DEFINE h == [m \in 1 .. N |-> IF m = k THEN DecodedStep(x, f, k) ELSE f[m]]
  <2>3. \A m \in k + 1 .. N : h[m] = f[m]
    BY <1>0
  <2>4. h[k] = DecodedStep(x, f, k)
    OBVIOUS
  <2> HIDE DEF h
  <2>5. ASSUME NEW m \in k .. N PROVE h[m] = DecodedStep(x, h, m)
    <3>1. m \in 1 .. N /\ \A n \in m + 1 .. N : n \in k + 1 .. N
      BY <1>0
    <3>2. DecodedStep(x, h, m) = DecodedStep(x, f, m)
      BY <2>3, <3>1, DecodedAhead
    <3>3. CASE m = k
      BY <2>4, <3>2, <3>3
    <3>4. CASE m # k
      <4>1. m \in k + 1 .. N
        BY <3>4
      <4> QED
        BY <2>2, <2>3, <3>2, <4>1
    <3> QED
      BY <3>3, <3>4
  <2> QED
    BY <2>5
<1>2. PICK f : Solves(f, 1)
  <2>1. 1 .. N \subseteq G
    <3> HIDE DEF G, N
    <3>1. N \in Int
      BY <1>0
    <3>2. \A k \in 1 .. N : (\A m \in k + 1 .. N : m \in G) => k \in G
      BY <1>1
    <3> QED
      BY <3>1, <3>2, DownInduction
  <2>2. 1 \in 1 .. N
    BY <1>0
  <2> QED
    BY <2>1, <2>2
<1> DEFINE v == [k \in 1 .. N |-> f[k]]
<1>3. ASSUME NEW k \in 1 .. N PROVE v[k] = DecodedStep(x, v, k)
  <2>1. v[k] = f[k] /\ \A m \in k + 1 .. N : m \in 1 .. N /\ f[m] = v[m]
    BY <1>0
  <2> HIDE DEF v
  <2>2. DecodedStep(x, f, k) = DecodedStep(x, v, k)
    BY <2>1, DecodedAhead
  <2> QED
    BY <1>2, <2>1, <2>2
<1>4. v = [k \in 1 .. N |-> DecodedStep(x, v, k)]
  BY <1>3
<1>5. DecodedFrom(x) = CHOOSE g : g = [k \in 1 .. N |-> DecodedStep(x, g, k)]
  BY DEF DecodedFrom
<1>6. DecodedFrom(x) = [k \in 1 .. N |-> DecodedStep(x, DecodedFrom(x), k)]
  <2> HIDE DEF v
  <2> QED
    BY <1>4, <1>5
<1> QED
  BY <1>6
-----------------------------------------------------------------------------
(***************************************************************************)
(* Bytes as percent text, and the code points that are read from it.       *)
(***************************************************************************)
HexText(t, b) ==
  /\ Len(t) = 3 * Len(b)
  /\ \A k \in 1 .. Len(b) : /\ t[3 * k - 2] = Percent
                            /\ t[3 * k - 1] = HexDigit(b[k] \div 16)
                            /\ t[3 * k] = HexDigit(b[k] % 16)

LEMMA HexIs == \A d \in 0 .. 15 : HexValue(HexDigit(d)) = d /\ HexDigit(d) \in 0 .. 127
BY DEF HexValue, HexDigit

LEMMA ByteIs ==
  ASSUME NEW x \in Byte
  PROVE  x \div 16 \in 0 .. 15 /\ x % 16 \in 0 .. 15 /\ 16 * (x \div 16) + (x % 16) = x
BY SMT DEF Byte

LEMMA HexByte ==
  ASSUME NEW b \in Seq(Byte), NEW t, HexText(t, b), NEW k \in 1 .. Len(b)
  PROVE  ByteAt(t, 3 * k - 2) = b[k] /\ t[3 * k - 2] = Percent /\ 3 * k - 2 \in 1 .. Len(t)
<1>1. Len(b) \in Nat /\ b[k] \in Byte
  BY LenProperties, ElementOfSeq
<1> DEFINE x == b[k]
           p == x \div 16
           q == x % 16
           l == 3 * k - 2
<1>2. /\ Len(t) = 3 * Len(b) /\ t[3 * k - 2] = Percent
      /\ t[3 * k - 1] = HexDigit(p) /\ t[3 * k] = HexDigit(q)
  BY DEF HexText
<1>3. x \in Byte /\ p \in 0 .. 15 /\ q \in 0 .. 15 /\ 16 * p + q = x
  BY <1>1, ByteIs
<1> HIDE DEF x, p, q
<1>4. l \in Nat /\ l + 1 = 3 * k - 1 /\ l + 2 = 3 * k /\ l + 2 <= Len(t) /\ l \in 1 .. Len(t)
  BY <1>1, <1>2
<1>5. t[l] = Percent /\ t[l + 1] = HexDigit(p) /\ t[l + 2] = HexDigit(q)
  BY <1>2, <1>4
<1> HIDE DEF l
<1>6. HexValue(t[l + 1]) = p /\ HexValue(t[l + 2]) = q
  BY <1>3, <1>5, HexIs
<1>7. ByteAt(t, l) = 16 * p + q
  BY <1>3, <1>4, <1>5, <1>6 DEF ByteAt
<1> QED
  BY <1>3, <1>4, <1>5, <1>7 DEF l, x

LEMMA RunIs ==
  ASSUME NEW c \in Scalar, c >= 128, NEW t, NEW k \in Nat,
         \A j \in 0 .. Len(Utf8(c)) - 1 : ByteAt(t, k + 3 * j) = Utf8(c)[j + 1]
  PROVE  /\ ByteAt(t, k) \notin 0 .. 127 /\ IsRun(t, k)
         /\ CodeAt(t, k) = c /\ RunSize(ByteAt(t, k)) = Len(Utf8(c))
<1>0. c \in Nat /\ c < 1114112 /\ ~IsSurrogate(c)
  BY SMT DEF Scalar, LastScalar
<1> DEFINE B(j) == ByteAt(t, k + 3 * j)
           Runs == /\ B(0) \notin 0 .. 127 /\ RunSize(B(0)) = Len(Utf8(c))
                   /\ CodeAt(t, k) = c
                   /\ \A j \in 1 .. Len(Utf8(c)) - 1 : IsTail(B(j))
<1>1. k + 3 * 0 = k /\ k + 3 * 1 = k + 3 /\ k + 3 * 2 = k + 6 /\ k + 3 * 3 = k + 9
  OBVIOUS
<1>2. \A j \in 0 .. Len(Utf8(c)) - 1 : B(j) = Utf8(c)[j + 1]
  OBVIOUS
<1>3. IsHigh(c)
  BY BytesAre
<1>4. ASSUME NEW x \in Byte, NEW y \in Byte, IsTwo(c, x, y) PROVE Runs
  <2>1. /\ Utf8(c) = <<x, y>> /\ x \in 194 .. 223 /\ IsTail(y)
        /\ (x - 192) * 64 + y - 128 = c
    BY <1>4 DEF IsTwo
  <2>2. Len(Utf8(c)) = 2 /\ B(0) = x /\ B(1) = y
    BY <1>2, <2>1
  <2>3. ByteAt(t, k) = x /\ ByteAt(t, k + 3) = y
    BY <1>1, <2>2
  <2>4. RunSize(x) = 2 /\ x \notin 0 .. 127
    BY <2>1 DEF RunSize
  <2>5. CodeAt(t, k) = (x - 192) * 64 + y - 128
    BY <2>3, <2>4 DEF CodeAt
  <2> HIDE DEF B
  <2>6. \A j \in 1 .. 2 - 1 : j = 1
    OBVIOUS
  <2> QED
    BY <2>1, <2>2, <2>4, <2>5, <2>6
<1>5. ASSUME NEW x \in Byte, NEW y \in Byte, NEW z \in Byte, IsThree(c, x, y, z) PROVE Runs
  <2>1. /\ Utf8(c) = <<x, y, z>> /\ x \in 224 .. 239 /\ IsTail(y) /\ IsTail(z)
        /\ (x - 224) * 4096 + (y - 128) * 64 + z - 128 = c
    BY <1>5 DEF IsThree
  <2>2. Len(Utf8(c)) = 3 /\ B(0) = x /\ B(1) = y /\ B(2) = z
    BY <1>2, <2>1
  <2>3. ByteAt(t, k) = x /\ ByteAt(t, k + 3) = y /\ ByteAt(t, k + 6) = z
    BY <1>1, <2>2
  <2>4. RunSize(x) = 3 /\ x \notin 0 .. 127
    BY <2>1 DEF RunSize
  <2>5. CodeAt(t, k) = (x - 224) * 4096 + (y - 128) * 64 + z - 128
    BY <2>3, <2>4 DEF CodeAt
  <2> HIDE DEF B
  <2>6. \A j \in 1 .. 3 - 1 : j = 1 \/ j = 2
    OBVIOUS
  <2> QED
    BY <2>1, <2>2, <2>4, <2>5, <2>6
<1>6. ASSUME NEW x \in Byte, NEW y \in Byte, NEW z \in Byte, NEW w \in Byte, IsFour(c, x, y, z, w)
      PROVE  Runs
  <2>1. /\ Utf8(c) = <<x, y, z, w>> /\ x \in 240 .. 244 /\ IsTail(y) /\ IsTail(z) /\ IsTail(w)
        /\ (x - 240) * 262144 + (y - 128) * 4096 + (z - 128) * 64 + w - 128 = c
    BY SMT, <1>6 DEF IsFour
  <2>2. Len(Utf8(c)) = 4 /\ B(0) = x /\ B(1) = y /\ B(2) = z /\ B(3) = w
    BY SMT, <1>2, <2>1
  <2>3. ByteAt(t, k) = x /\ ByteAt(t, k + 3) = y /\ ByteAt(t, k + 6) = z /\ ByteAt(t, k + 9) = w
    BY SMT, <1>1, <2>2
  <2>4. RunSize(x) = 4 /\ x \notin 0 .. 127
    BY SMT, <2>1 DEF RunSize
  <2>5. CodeAt(t, k) = (x - 240) * 262144 + (y - 128) * 4096 + (z - 128) * 64 + w - 128
    BY SMT, <2>3, <2>4 DEF CodeAt
  <2> HIDE DEF B
  <2>6. \A j \in 1 .. 4 - 1 : j = 1 \/ j = 2 \/ j = 3
    OBVIOUS
  <2> QED
    BY SMT, <2>1, <2>2, <2>4, <2>5, <2>6
<1>7. Runs
  <2> HIDE DEF Runs
  <2> QED
    BY <1>3, <1>4, <1>5, <1>6 DEF IsHigh
<1>8. Len(Utf8(c)) \in 1 .. 4
  BY BytesAre
<1> DEFINE n == Len(Utf8(c))
<1>9. B(0) = ByteAt(t, k) /\ \A j \in 1 .. n - 1 : B(j) = ByteAt(t, k + 3 * j)
  BY <1>1
<1>10. ByteAt(t, k) \notin 0 .. 127 /\ CodeAt(t, k) = c /\ RunSize(ByteAt(t, k)) = n
  <2> HIDE DEF B
  <2> QED
    BY <1>7, <1>9
<1>11. \A j \in 1 .. n - 1 : IsTail(ByteAt(t, k + 3 * j))
  <2> HIDE DEF B, n
  <2> QED
    BY <1>7, <1>9 DEF n
<1>12. n > 0
  <2> HIDE DEF n
  <2>1. n \in 1 .. 4
    BY <1>8 DEF n
  <2> QED
    BY <2>1
<1>13. IsRun(t, k)
  <2> HIDE DEF n, B
  <2> QED
    BY SMT, <1>0, <1>10, <1>11, <1>12 DEF IsRun, n
<1> QED
  BY <1>10, <1>13

\* No string of units is the value that stands for a failure.
LEMMA NoFailure == \A u \in Seq(CodeUnit) : u # Failure
<1> SUFFICES ASSUME NEW u \in Seq(CodeUnit), u = Failure PROVE FALSE
  OBVIOUS
<1>1. Len(u) = 1 /\ u[1] = -1
  BY DEF Failure
<1>2. u[1] \in CodeUnit
  BY <1>1, ElementOfSeq
<1>3. u[1] \in Nat
  BY <1>2, UnitIs
<1> QED
  BY <1>1, <1>3

Follows(h) ==
  AllHigh(h) => \A b \in Seq(Byte) : \A t : HexText(t, b \o CstrToNimstr(h))
                                            => DecodedFrom(t)[3 * Len(b) + 1] = h

LEMMA DecodedRest == \A h \in Formed : Follows(h)
<1> DEFINE G == {v \in Formed : Follows(v)}
<1>1. <<>> \in G
  <2> DEFINE e == <<>>
  <2>1. e \in Formed /\ CstrToNimstr(e) = e
    BY EmptyIsFormed, EncodedEmpty
  <2>2. \A b \in Seq(Byte) : b \o e = b
    BY ConcatEmptySeq
  <2>3. e = <<>>
    OBVIOUS
  <2> HIDE DEF e
  <2>4. ASSUME NEW b \in Seq(Byte), NEW t, HexText(t, b) PROVE DecodedFrom(t)[3 * Len(b) + 1] = e
    <3>1. Len(b) \in Nat /\ Len(t) = 3 * Len(b)
      BY <2>4, LenProperties DEF HexText
    <3>2. Len(t) \in Nat /\ 3 * Len(b) + 1 \in 1 .. Len(t) + 12 /\ 3 * Len(b) + 1 > Len(t)
      BY <3>1
    <3>3. DecodedStep(t, DecodedFrom(t), 3 * Len(b) + 1) = e
      BY <2>3, <3>2 DEF DecodedStep
    <3> QED
      BY <3>2, <3>3, DecodedSolved
  <2>5. Follows(e)
    BY <2>1, <2>2, <2>4 DEF Follows
  <2> QED
    BY <2>1, <2>5 DEF e
<1>2. ASSUME NEW c \in Scalar, NEW r \in Formed, r \in G PROVE Utf16(c) \o r \in G
  <2> DEFINE u == Utf16(c) \o r
             e == Utf8(c)
             f == CstrToNimstr(r)
  <2>0. u \in Formed
    BY UnitsAreFormed, FormedJoin
  <2>1. /\ r \in Seq(CodeUnit) /\ Utf16(c) \in Seq(CodeUnit) /\ e \in Seq(Byte) /\ f \in Seq(Byte)
        /\ Len(e) \in 1 .. 4 /\ CstrToNimstr(u) = e \o f
    BY UnitsAre, BytesAre, EncodedBytes, EncodedMore DEF Formed
  <2> SUFFICES ASSUME AllHigh(u), NEW b \in Seq(Byte), NEW t, HexText(t, b \o (e \o f))
               PROVE  DecodedFrom(t)[3 * Len(b) + 1] = u
    BY <2>0, <2>1 DEF Follows
  <2>2. AllHigh(Utf16(c)) /\ AllHigh(r)
    BY <2>1, HighJoin
  <2>3. c >= 128
    <3>1. c \in Nat
      BY DEF Scalar
    <3>2. CASE c < 128
      <4>1. Utf16(c) = <<c>>
        BY <3>2, UnitsAreHigh
      <4>2. Len(<<c>>) = 1 /\ <<c>>[1] = c /\ 1 \in 1 .. 1
        OBVIOUS
      <4> QED
        BY <2>2, <4>1, <4>2 DEF AllHigh
    <3> QED
      BY <3>1, <3>2
  <2> DEFINE all == b \o (e \o f)
             n == Len(b)
             k == 3 * n + 1
             m == Len(e)
  <2> HIDE DEF u
  <2>4. /\ all \in Seq(Byte) /\ Len(all) = n + m + Len(f) /\ n \in Nat /\ Len(f) \in Nat
        /\ \A j \in 1 .. m : all[j + n] = e[j]
        /\ all = (b \o e) \o f /\ b \o e \in Seq(Byte) /\ Len(b \o e) = n + m
    <3>1. /\ e \o f \in Seq(Byte) /\ Len(e \o f) = m + Len(f) /\ Len(f) \in Nat
          /\ \A j \in 1 .. m : (e \o f)[j] = e[j]
      BY <2>1, ConcatIs
    <3> DEFINE ef == e \o f
    <3> HIDE DEF e, f, ef
    <3>2. /\ all \in Seq(Byte) /\ Len(all) = n + Len(ef) /\ n \in Nat
          /\ \A j \in 1 .. Len(ef) : all[j + n] = ef[j]
      BY <3>1, ConcatIs DEF ef
    <3>3. all = (b \o e) \o f
      <4>1. (b \o e) \o f = b \o (e \o f)
        BY <2>1, ConcatAssociative, SMTT(30)
      <4> QED
        BY <4>1 DEF ef
    <3>4. b \o e \in Seq(Byte) /\ Len(b \o e) = n + m
      BY <2>1, ConcatIs
    <3>5. \A j \in 1 .. m : j \in 1 .. Len(ef)
      BY <2>1, <3>1 DEF ef
    <3> HIDE DEF all, n, m
    <3>6. Len(ef) = m + Len(f) /\ m \in 1 .. 4
      BY <2>1, <3>1 DEF ef, m
    <3>7. Len(all) = n + m + Len(f)
      BY <3>1, <3>2, <3>6
    <3>8. \A j \in 1 .. m : all[j + n] = e[j]
      BY <3>1, <3>2, <3>5 DEF ef
    <3> QED
      BY <3>1, <3>2, <3>3, <3>4, <3>7, <3>8
  <2>5. HexText(t, all)
    OBVIOUS
  <2>6. Len(t) = 3 * Len(all)
    BY <2>5 DEF HexText
  <2> HIDE DEF e, f, all
  <2>7. ASSUME NEW j \in 0 .. m - 1
        PROVE  ByteAt(t, k + 3 * j) = e[j + 1] /\ t[k + 3 * j] = Percent /\ k + 3 * j \in 1 .. Len(t)
    <3> HIDE DEF m, n
    <3>1. m \in 1 .. 4
      BY <2>1 DEF m
    <3> DEFINE i == (j + 1) + n
    <3>2. i \in 1 .. Len(all) /\ 3 * i - 2 = k + 3 * j /\ j + 1 \in 1 .. m
      <4>1. n \in Nat /\ Len(f) \in Nat /\ Len(all) = n + m + Len(f)
        BY <2>4
      <4>2. j \in Nat /\ j + 1 <= m
        BY <3>1
      <4> QED
        BY <3>1, <4>1, <4>2
    <3>3. all[i] = e[j + 1]
      BY <2>4, <3>2
    <3> HIDE DEF i, k
    <3>4. ByteAt(t, 3 * i - 2) = all[i] /\ t[3 * i - 2] = Percent /\ 3 * i - 2 \in 1 .. Len(t)
      <4>1. all \in Seq(Byte)
        BY <2>4
      <4>2. i \in 1 .. Len(all)
        BY <3>2
      <4> QED
        BY <2>5, <4>1, <4>2, HexByte
    <3> QED
      BY <3>2, <3>3, <3>4
  <2>8. 0 \in 0 .. m - 1 /\ k \in Nat /\ k + 3 * 0 = k
    <3>1. m \in 1 .. 4 /\ n \in Nat
      BY <2>1, <2>4
    <3> HIDE DEF m, n
    <3> QED
      BY <3>1
  <2>9. t[k] = Percent /\ k \in 1 .. Len(t)
    <3> HIDE DEF k, m
    <3> QED
      BY <2>7, <2>8
  <2>10. /\ ByteAt(t, k) \notin 0 .. 127 /\ IsRun(t, k)
         /\ CodeAt(t, k) = c /\ RunSize(ByteAt(t, k)) = m
    <3>1. \A j \in 0 .. Len(Utf8(c)) - 1 : ByteAt(t, k + 3 * j) = Utf8(c)[j + 1]
      BY <2>7 DEF e
    <3>2. k \in Nat
      BY <2>8
    <3> HIDE DEF k
    <3> QED
      BY <2>3, <3>1, <3>2, RunIs DEF e
  <2>11. DecodedFrom(t)[k + 3 * m] = r
    <3>1. Follows(r)
      BY <1>2
    <3>2. DecodedFrom(t)[3 * Len(b \o e) + 1] = r
      BY <2>2, <2>4, <2>5, <3>1 DEF Follows, all, f
    <3>3. 3 * Len(b \o e) + 1 = k + 3 * m
      BY <2>1, <2>4
    <3> QED
      BY <3>2, <3>3
  <2>12. DecodedStep(t, DecodedFrom(t), k) = AndThen(Utf16(c), r)
    <3>1. Len(t) \in Nat /\ ~(k > Len(t))
      BY <2>1, <2>4, <2>6, <2>9
    <3> HIDE DEF k, m
    <3> QED
      BY <2>9, <2>10, <2>11, <3>1 DEF DecodedStep
  <2>13. AndThen(Utf16(c), r) = u
    BY <2>1, NoFailure DEF AndThen, u
  <2>14. DecodedFrom(t)[k] = DecodedStep(t, DecodedFrom(t), k)
    <3>1. Len(t) \in Nat /\ k \in 1 .. Len(t) + 12
      BY <2>1, <2>4, <2>6, <2>9
    <3> HIDE DEF k
    <3> QED
      BY <3>1, DecodedSolved
  <2> QED
    BY <2>12, <2>13, <2>14
<1>3. Formed \subseteq G
  <2> HIDE DEF G
  <2> QED
    BY <1>1, <1>2, StringInduction
<1> QED
  BY <1>3

\* The text of a run decodes to the run.
LEMMA RunDecodes ==
  ASSUME NEW h \in Formed, AllHigh(h), NEW t, HexText(t, CstrToNimstr(h))
  PROVE  DecodeURIComponent(t) = h
<1> DEFINE b == <<>>
<1>1. b \in Seq(Byte) /\ Len(b) = 0 /\ b \o CstrToNimstr(h) = CstrToNimstr(h)
  BY EncodedBytes, ConcatEmptySeq
<1> HIDE DEF b
<1>2. DecodedFrom(t)[3 * Len(b) + 1] = h
  BY <1>1, DecodedRest DEF Follows
<1>3. 3 * Len(b) + 1 = 1
  BY <1>1
<1> QED
  BY <1>2, <1>3, DecodedIs
-----------------------------------------------------------------------------
(***************************************************************************)
(* One turn of the inner loop of toJSStr: a byte above 127 has two digits. *)
(***************************************************************************)
LEMMA DigitsOf ==
  ASSUME NEW x \in Byte, x >= 128
  PROVE  Digits(x) = <<HexDigit(x \div 16), HexDigit(x % 16)>>
<1> DEFINE all == <<x \div 4096, (x \div 256) % 16, (x \div 16) % 16, x % 16>>
           Kept(k) == all[k] # 0 /\ \A l \in 1 .. k - 1 : all[l] = 0
           kept == CHOOSE k \in 1 .. 3 : Kept(k)
<1>1. /\ x \in Nat /\ ~(x < 16) /\ x \div 4096 = 0 /\ (x \div 256) % 16 = 0
      /\ (x \div 16) % 16 = x \div 16 /\ x \div 16 # 0
  BY SMT DEF Byte
<1> DEFINE p == x \div 16
           q == x % 16
<1>2. /\ all[1] = 0 /\ all[2] = 0 /\ all[3] = p /\ all[4] = q /\ p # 0
  BY <1>1
<1> HIDE DEF all, p, q
<1>3. \A k \in 1 .. 3 : k = 1 \/ k = 2 \/ k = 3
  OBVIOUS
<1>4. \A l \in 1 .. 3 - 1 : l = 1 \/ l = 2
  OBVIOUS
<1>5. Kept(3)
  BY <1>2, <1>4
<1>6. \A k \in 1 .. 3 : Kept(k) => k = 3
  BY <1>2, <1>3
<1>7. 3 \in 1 .. 3
  OBVIOUS
<1> HIDE DEF Kept
<1>8. kept = 3
  BY <1>5, <1>6, <1>7
<1>9. Digits(x) = [k \in 1 .. 5 - kept |-> HexDigit(all[kept + k - 1])]
  BY <1>1 DEF Digits, all, Kept
<1> HIDE DEF kept
<1>10. Digits(x) = [k \in 1 .. 2 |-> HexDigit(all[3 + k - 1])]
  BY <1>8, <1>9
<1>11. 3 + 1 - 1 = 3 /\ 3 + 2 - 1 = 4
  OBVIOUS
<1>12. \A k \in 1 .. 2 : k = 1 \/ k = 2
  OBVIOUS
<1> DEFINE d == <<HexDigit(p), HexDigit(q)>>
<1>13. /\ d = [k \in 1 .. 2 |-> d[k]]
       /\ d[1] = HexDigit(p) /\ d[2] = HexDigit(q)
  OBVIOUS
<1> HIDE DEF d
<1>14. \A k \in 1 .. 2 : HexDigit(all[3 + k - 1]) = d[k]
  BY <1>2, <1>11, <1>12, <1>13
<1>15. Digits(x) = d
  BY <1>10, <1>13, <1>14
<1> QED
  BY <1>15 DEF d, p, q

\* The text of the first m bytes of a run.
HexTextOf(t, e, m) ==
  /\ t \in Seq(Int) /\ Len(t) = 3 * m
  /\ \A k \in 1 .. m : /\ t[3 * k - 2] = Percent
                       /\ t[3 * k - 1] = HexDigit(e[k] \div 16)
                       /\ t[3 * k] = HexDigit(e[k] % 16)

LEMMA HexTextWhole == \A t, e : HexTextOf(t, e, Len(e)) => HexText(t, e)
BY DEF HexTextOf, HexText

LEMMA HexTextNone == \A e : HexTextOf(<<>>, e, 0)
<1> DEFINE t == <<>>
<1>1. t \in Seq(Int) /\ Len(t) = 0 /\ \A k \in 1 .. 0 : FALSE
  OBVIOUS
<1> HIDE DEF t
<1>2. \A e : HexTextOf(t, e, 0)
  BY <1>1 DEF HexTextOf
<1> QED
  BY <1>2 DEF t

LEMMA HexTextMore ==
  ASSUME NEW e \in Seq(Byte), NEW m \in Nat, m < Len(e), e[m + 1] >= 128,
         NEW t, HexTextOf(t, e, m)
  PROVE  HexTextOf(t \o <<Percent>> \o Digits(e[m + 1]), e, m + 1)
<1>0. Len(e) \in Nat
  BY LenProperties
<1> DEFINE x == e[m + 1]
           p == HexDigit(x \div 16)
           q == HexDigit(x % 16)
           c == <<Percent>>
           d == <<p, q>>
           w == (t \o c) \o d
<1>1. x \in Byte
  <2>1. m + 1 \in 1 .. Len(e)
    BY <1>0
  <2> QED
    BY <2>1, ElementOfSeq
<1>2. Digits(x) = d
  BY <1>1, DigitsOf
<1>3. p \in Int /\ q \in Int
  <2>1. x \div 16 \in 0 .. 15 /\ x % 16 \in 0 .. 15
    BY <1>1, ByteIs
  <2> DEFINE a == x \div 16
             b == x % 16
  <2> HIDE DEF a, b
  <2>2. a \in 0 .. 15 /\ b \in 0 .. 15
    BY <2>1 DEF a, b
  <2>3. HexDigit(a) \in 0 .. 127 /\ HexDigit(b) \in 0 .. 127
    BY <2>2, HexIs
  <2>4. p = HexDigit(a) /\ q = HexDigit(b)
    BY DEF a, b
  <2> HIDE DEF p, q
  <2>5. p \in 0 .. 127 /\ q \in 0 .. 127
    BY Zenon, <2>3, <2>4
  <2> QED
    BY <2>5
<1> HIDE DEF p, q
<1>4. /\ c \in Seq(Int) /\ Len(c) = 1 /\ c[1] = Percent
      /\ d \in Seq(Int) /\ Len(d) = 2 /\ d[1] = p /\ d[2] = q
  BY <1>3 DEF Percent
<1> HIDE DEF c, d
<1>5. /\ t \in Seq(Int) /\ Len(t) = 3 * m
      /\ \A k \in 1 .. m : /\ t[3 * k - 2] = Percent
                           /\ t[3 * k - 1] = HexDigit(e[k] \div 16)
                           /\ t[3 * k] = HexDigit(e[k] % 16)
  BY DEF HexTextOf
<1> DEFINE v == t \o c
<1>6. /\ v \in Seq(Int) /\ Len(v) = Len(t) + 1
      /\ \A k \in 1 .. Len(t) : v[k] = t[k]
      /\ v[1 + Len(t)] = Percent
  <2>1. /\ v \in Seq(Int) /\ Len(v) = Len(t) + Len(c)
        /\ \A k \in 1 .. Len(t) : v[k] = t[k]
        /\ \A k \in 1 .. Len(c) : v[k + Len(t)] = c[k]
    <3>1. t \in Seq(Int) /\ c \in Seq(Int) /\ v = t \o c
      BY <1>4, <1>5
    <3> HIDE DEF v
    <3> QED
      BY <3>1, ConcatIs
  <2> HIDE DEF v
  <2>2. 1 \in 1 .. Len(c)
    BY <1>4
  <2> QED
    BY <1>4, <2>1, <2>2
<1> HIDE DEF v
<1>7. /\ w \in Seq(Int) /\ Len(w) = Len(v) + 2
      /\ \A k \in 1 .. Len(v) : w[k] = v[k]
      /\ w[1 + Len(v)] = p /\ w[2 + Len(v)] = q
  <2>1. /\ w \in Seq(Int) /\ Len(w) = Len(v) + Len(d)
        /\ \A k \in 1 .. Len(v) : w[k] = v[k]
        /\ \A k \in 1 .. Len(d) : w[k + Len(v)] = d[k]
    <3>1. v \in Seq(Int) /\ d \in Seq(Int) /\ w = v \o d
      BY <1>4, <1>6 DEF v
    <3> HIDE DEF w
    <3> QED
      BY <3>1, ConcatIs
  <2> HIDE DEF w
  <2>2. 1 \in 1 .. Len(d) /\ 2 \in 1 .. Len(d)
    BY <1>4
  <2> QED
    BY <1>4, <2>1, <2>2
<1> HIDE DEF w
<1>8. Len(w) = 3 * (m + 1) /\ Len(v) = 3 * m + 1
  BY <1>5, <1>6, <1>7
<1>9. ASSUME NEW k \in 1 .. m + 1
      PROVE  /\ w[3 * k - 2] = Percent
             /\ w[3 * k - 1] = HexDigit(e[k] \div 16)
             /\ w[3 * k] = HexDigit(e[k] % 16)
  <2>1. CASE k = m + 1
    <3>1. /\ 3 * k - 2 = 1 + Len(t) /\ 3 * k - 1 = 1 + Len(v) /\ 3 * k = 2 + Len(v)
          /\ 1 + Len(t) \in 1 .. Len(v)
      BY <1>5, <1>8, <2>1
    <3>2. w[3 * k - 2] = Percent
      BY <1>6, <1>7, <3>1
    <3>3. w[3 * k - 1] = p /\ w[3 * k] = q
      BY <1>7, <3>1
    <3> QED
      BY <2>1, <3>2, <3>3 DEF p, q
  <2>2. CASE k # m + 1
    <3>1. /\ k \in 1 .. m /\ 3 * k - 2 \in 1 .. Len(t) /\ 3 * k - 1 \in 1 .. Len(t) /\ 3 * k \in 1 .. Len(t)
      BY <1>5, <2>2
    <3>2. \A i \in 1 .. Len(t) : w[i] = t[i]
      <4>1. \A i \in 1 .. Len(t) : i \in 1 .. Len(v)
        BY <1>5, <1>8
      <4> QED
        BY <1>6, <1>7, <4>1
    <3>3. w[3 * k - 2] = t[3 * k - 2] /\ w[3 * k - 1] = t[3 * k - 1] /\ w[3 * k] = t[3 * k]
      BY <3>1, <3>2
    <3> QED
      BY <1>5, <3>1, <3>3
  <2> QED
    BY <2>1, <2>2
<1>10. HexTextOf(w, e, m + 1)
  BY <1>7, <1>8, <1>9 DEF HexTextOf
<1> QED
  BY <1>2, <1>10 DEF w, v, c
-----------------------------------------------------------------------------
(***************************************************************************)
(* What is handed to toJSStr: the bytes of the text it is to return.       *)
(***************************************************************************)
FlattenStep(ss, g, i) == IF i = 1 THEN ss[i] ELSE g[i - 1] \o ss[i]
Flattened(ss) == CHOOSE g : g = [i \in 1 .. Len(ss) |-> FlattenStep(ss, g, i)]

LEMMA FlattenIs ==
  \A ss : FlattenSeq(ss) = IF Len(ss) = 0 THEN ss ELSE Flattened(ss)[Len(ss)]
BY DEF FlattenSeq, Flattened, FlattenStep

LEMMA FlattenSolved ==
  ASSUME NEW ss, Len(ss) \in Nat
  PROVE  \A i \in 1 .. Len(ss) : Flattened(ss)[i] = FlattenStep(ss, Flattened(ss), i)
<1> DEFINE n == Len(ss)
           G == {m \in Nat : \E f : \A i \in 1 .. m : f[i] = FlattenStep(ss, f, i)}
<1>1. ASSUME NEW m \in Nat, \A l \in 0 .. m - 1 : l \in G PROVE m \in G
  <2>1. \E f : \A i \in 1 .. m - 1 : f[i] = FlattenStep(ss, f, i)
    <3>1. CASE m = 0
      <4>1. \A i \in 1 .. m - 1 : FALSE
        BY <3>1
      <4> QED
        BY <4>1
    <3>2. CASE m # 0
      <4>1. m - 1 \in 0 .. m - 1
        BY <3>2
      <4> QED
        BY <1>1, <4>1
    <3> QED
      BY <3>1, <3>2
  <2>2. PICK f : \A i \in 1 .. m - 1 : f[i] = FlattenStep(ss, f, i)
    BY <2>1
  <2> DEFINE h == [i \in 1 .. m |-> IF i = m THEN FlattenStep(ss, f, m) ELSE f[i]]
  <2>3. \A i \in 1 .. m : h[i] = IF i = m THEN FlattenStep(ss, f, m) ELSE f[i]
    OBVIOUS
  <2> HIDE DEF h
  <2>4. ASSUME NEW i \in 1 .. m PROVE h[i] = FlattenStep(ss, h, i)
    <3>1. i # 1 => i - 1 \in 1 .. m /\ i - 1 # m
      OBVIOUS
    <3>2. FlattenStep(ss, f, i) = FlattenStep(ss, h, i)
      BY <2>3, <3>1 DEF FlattenStep
    <3>3. i # m => i \in 1 .. m - 1
      OBVIOUS
    <3> QED
      BY <2>2, <2>3, <3>2, <3>3
  <2> QED
    BY <2>4
<1>2. Nat \subseteq G
  <2> HIDE DEF G
  <2> QED
    BY <1>1, SetInduction
<1>3. PICK f : \A i \in 1 .. n : f[i] = FlattenStep(ss, f, i)
  BY <1>2
<1> DEFINE v == [i \in 1 .. n |-> f[i]]
<1>4. ASSUME NEW i \in 1 .. n PROVE v[i] = FlattenStep(ss, v, i)
  <2>1. \A k \in 1 .. n : v[k] = f[k]
    OBVIOUS
  <2> HIDE DEF v
  <2>2. i # 1 => i - 1 \in 1 .. n
    OBVIOUS
  <2>3. FlattenStep(ss, f, i) = FlattenStep(ss, v, i)
    BY <2>1, <2>2 DEF FlattenStep
  <2> QED
    BY <1>3, <2>1, <2>3
<1>5. v = [i \in 1 .. n |-> FlattenStep(ss, v, i)]
  BY <1>4
<1>6. Flattened(ss) = CHOOSE g : g = [i \in 1 .. n |-> FlattenStep(ss, g, i)]
  BY DEF Flattened
<1>7. Flattened(ss) = [i \in 1 .. n |-> FlattenStep(ss, Flattened(ss), i)]
  <2> HIDE DEF v
  <2> QED
    BY <1>5, <1>6
<1> QED
  BY <1>7

LEMMA FlattenIn ==
  ASSUME NEW S, NEW ss \in Seq(Seq(S))
  PROVE  FlattenSeq(ss) \in Seq(S)
<1> DEFINE n == Len(ss)
           G == {m \in Nat : m \in 1 .. n => Flattened(ss)[m] \in Seq(S)}
<1>0. n \in Nat /\ \A i \in 1 .. n : ss[i] \in Seq(S)
  BY LenProperties, ElementOfSeq
<1>1. ASSUME NEW m \in Nat, \A l \in 0 .. m - 1 : l \in G PROVE m \in G
  <2> SUFFICES ASSUME m \in 1 .. n PROVE Flattened(ss)[m] \in Seq(S)
    OBVIOUS
  <2>1. Flattened(ss)[m] = FlattenStep(ss, Flattened(ss), m)
    BY <1>0, FlattenSolved
  <2>2. CASE m = 1
    BY <1>0, <2>1, <2>2 DEF FlattenStep
  <2>3. CASE m # 1
    <3>1. m - 1 \in 0 .. m - 1 /\ m - 1 \in 1 .. n
      BY <1>0, <2>3
    <3>2. Flattened(ss)[m - 1] \in Seq(S) /\ ss[m] \in Seq(S)
      BY <1>0, <1>1, <3>1
    <3>3. Flattened(ss)[m - 1] \o ss[m] \in Seq(S)
      BY <3>2, ConcatProperties
    <3> QED
      BY <2>1, <2>3, <3>3 DEF FlattenStep
  <2> QED
    BY <2>2, <2>3
<1>2. Nat \subseteq G
  <2> HIDE DEF G
  <2> QED
    BY <1>1, SetInduction
<1>3. CASE n = 0
  <2>1. ss = <<>>
    BY <1>3, EmptySeq
  <2>2. FlattenSeq(ss) = ss
    BY <1>3, FlattenIs
  <2>3. <<>> \in Seq(S)
    OBVIOUS
  <2> QED
    BY <2>1, <2>2, <2>3
<1>4. CASE n # 0
  <2>1. n \in 1 .. n
    BY <1>0, <1>4
  <2>2. Flattened(ss)[n] \in Seq(S)
    BY <1>0, <1>2, <2>1
  <2> QED
    BY <1>4, <2>2, FlattenIs
<1> QED
  BY <1>3, <1>4

\* An escaped tag has neither bracket.
Plain == {c \in CodeUnit : c < 128 /\ c # LessThan /\ c # GreaterThan}

LEMMA EscapedIs ==
  ASSUME NEW x \in Seq(CodeUnit), IsAscii(x)
  PROVE  Escape(x) \in Seq(Plain)
<1> DEFINE piece(k) == IF x[k] = LessThan THEN LessEntity
                       ELSE IF x[k] = GreaterThan THEN GreaterEntity
                       ELSE <<x[k]>>
           n == Len(x)
           ss == [k \in 1 .. n |-> piece(k)]
<1>0. n \in Nat /\ DOMAIN x = 1 .. n
  BY LenProperties
<1>1. \A i \in {38, 103, 108, 116, 59} : i \in Plain
  <2>1. \A i \in {38, 103, 108, 116, 59} : i \in Nat /\ i <= 65535
    BY SMT
  <2>2. \A i \in {38, 103, 108, 116, 59} : i < 128 /\ i # LessThan /\ i # GreaterThan
    BY DEF LessThan, GreaterThan
  <2> DEFINE I == {38, 103, 108, 116, 59}
  <2> HIDE DEF I
  <2>3. \A i \in I : i \in CodeUnit
    BY <2>1, UnitIs DEF I
  <2>4. \A i \in I : i \in Plain
    BY <2>2, <2>3 DEF I, Plain
  <2> QED
    BY <2>4 DEF I
<1>2. LessEntity \in Seq(Plain) /\ GreaterEntity \in Seq(Plain)
  <2>1. 38 \in Plain /\ 103 \in Plain /\ 108 \in Plain /\ 116 \in Plain /\ 59 \in Plain
    BY <1>1
  <2> QED
    BY <2>1 DEF LessEntity, GreaterEntity
<1>3. ASSUME NEW k \in 1 .. n PROVE piece(k) \in Seq(Plain)
  <2>1. CASE x[k] # LessThan /\ x[k] # GreaterThan
    <3>1. x[k] \in CodeUnit /\ x[k] < 128
      BY <1>0, ElementOfSeq DEF IsAscii
    <3>2. x[k] \in Plain
      BY <2>1, <3>1 DEF Plain
    <3>3. <<x[k]>> \in Seq(Plain)
      BY <3>2
    <3> QED
      BY <2>1, <3>3
  <2> QED
    BY <1>2, <2>1
<1>4. ss \in Seq(Seq(Plain))
  <2> HIDE DEF piece
  <2>1. ss \in [1 .. n -> Seq(Plain)]
    BY <1>3
  <2> HIDE DEF ss
  <2> QED
    BY <1>0, <2>1
<1>5. Escape(x) = FlattenSeq(ss)
  BY <1>0 DEF Escape
<1> QED
  BY <1>4, <1>5, FlattenIn

\* The name of the index's file, at the end of its address.
NameOf(url) == SubSeq(url, Len(url) - IndexNameLength + 1, Len(url))
BaseOf(url) == SubSeq(url, 1, Len(url) - IndexNameLength)

LEMMA NameIs ==
  ASSUME NEW url \in Seq(CodeUnit), IsAscii(NameOf(url))
  PROVE  \A k \in 1 .. Len(url) : k > Len(url) - IndexNameLength => url[k] < 128
<1> DEFINE l == Len(url)
           m == l - IndexNameLength + 1
           S == {url[i] : i \in m .. l}
           a == NameOf(url)
<1>0. l \in Nat /\ IndexNameLength \in Nat /\ m \in Int
  <2>1. l \in Nat
    BY LenProperties
  <2>2. IndexNameLength \in Nat
    BY StringsAssumption
  <2> QED
    BY <2>1, <2>2
<1>1. \A i \in m .. l : url[i] \in S
  OBVIOUS
<1> HIDE DEF S
<1>2. /\ a \in Seq(S) /\ Len(a) = IF m <= l THEN l - m + 1 ELSE 0
      /\ \A i \in 1 .. l - m + 1 : a[i] = url[m + i - 1]
  <2> HIDE DEF m
  <2>1. l \in Int /\ m \in Int
    BY <1>0
  <2>2. /\ SubSeq(url, m, l) \in Seq(S) /\ Len(SubSeq(url, m, l)) = IF m <= l THEN l - m + 1 ELSE 0
        /\ \A i \in 1 .. l - m + 1 : SubSeq(url, m, l)[i] = url[m + i - 1]
    <3> HIDE DEF l
    <3> QED
      BY <1>1, <2>1, SubSeqProperties
  <2> QED
    BY <2>2 DEF m, NameOf
<1>3. DOMAIN a = 1 .. Len(a)
  BY <1>2, LenProperties
<1>4. \A i \in 1 .. Len(a) : a[i] < 128
  BY <1>3 DEF IsAscii
<1> HIDE DEF a
<1>5. ASSUME NEW k \in 1 .. l, k > l - IndexNameLength PROVE url[k] < 128
  <2> DEFINE i == k - m + 1
  <2>1. i \in 1 .. l - m + 1 /\ m + i - 1 = k /\ m <= l
    BY <1>0, <1>5
  <2> HIDE DEF i, m
  <2>2. a[i] = url[k] /\ i \in 1 .. Len(a)
    BY <1>2, <2>1
  <2> QED
    BY <1>4, <2>2
<1> QED
  BY <1>5

\* Slicing the name off leaves the bytes of what is before it.
LEMMA BaseIs ==
  ASSUME NEW url \in Formed, IsAscii(NameOf(url)),
         SliceLength(CstrToNimstr(url), 0, IndexNameLength + 1) >= 0
  PROVE  /\ BaseOf(url) \in Formed
         /\ Slice(CstrToNimstr(url), 0, IndexNameLength + 1) = CstrToNimstr(BaseOf(url))
<1> DEFINE N == IndexNameLength
           l == Len(url)
           e == CstrToNimstr(url)
<1>0. url \in Seq(CodeUnit) /\ l \in Nat /\ N \in Nat /\ e \in Seq(Byte) /\ Len(e) \in Nat
  BY LenProperties, StringsAssumption, EncodedBytes DEF Formed
<1>1. \A k \in 1 .. l : k > l - N => url[k] < 128
  BY <1>0, NameIs
<1>2. SliceLength(e, 0, N + 1) = Len(e) - N
  BY <1>0 DEF SliceLength
<1>3. Len(e) >= N
  BY <1>0, <1>2
<1>4. l >= N
  <2> SUFFICES ASSUME ~(l >= N) PROVE FALSE
    OBVIOUS
  <2>1. \A k \in 1 .. l : url[k] < 128
    <3>1. \A k \in 1 .. l : k > l - N
      BY <1>0
    <3> QED
      BY <1>1, <3>1
  <2>2. IsAscii(url)
    BY <1>0, <2>1, LenProperties DEF IsAscii
  <2>3. e = url
    BY <1>0, <2>2, AsciiIsItself
  <2> QED
    BY <1>0, <1>3, <2>3
<1> DEFINE n == l - N
           p == Take(url, n)
           a == Drop(url, n)
<1>5. n \in 0 .. l /\ n \in Nat /\ l - n = N
  BY <1>0, <1>4
<1>6. /\ p \in Seq(CodeUnit) /\ Len(p) = n /\ a \in Seq(CodeUnit) /\ Len(a) = N
      /\ url = p \o a /\ \A k \in 1 .. n : p[k] = url[k]
  <2>1. \A k \in 1 .. n : p[k] = url[k]
    BY DEF Take
  <2> HIDE DEF n, p, a
  <2>2. /\ Take(url, n) \in Seq(CodeUnit) /\ Len(Take(url, n)) = n
        /\ Drop(url, n) \in Seq(CodeUnit) /\ Len(Drop(url, n)) = l - n
        /\ url = Take(url, n) \o Drop(url, n)
    BY <1>0, <1>5, CutIs
  <2> QED
    BY <1>5, <2>1, <2>2 DEF p, a
<1>7. IsAscii(a)
  <2>1. \A k \in 1 .. N : a[k] = url[k + n]
    BY <1>5 DEF Drop
  <2>2. DOMAIN a = 1 .. N
    BY <1>6, LenProperties
  <2> HIDE DEF a
  <2>3. \A k \in 1 .. N : k + n \in 1 .. l /\ k + n > l - N
    BY <1>0, <1>5
  <2>4. \A k \in 1 .. N : a[k] < 128
    <3> HIDE DEF n, N, l
    <3> QED
      BY <1>1, <2>1, <2>3
  <2> QED
    BY <2>2, <2>4 DEF IsAscii
<1>8. Len(p) > 0 => ~IsLead(p[Len(p)])
  <2> SUFFICES ASSUME n > 0, IsLead(url[n]) PROVE FALSE
    <3>1. Len(p) > 0 => n \in 1 .. n /\ p[n] = url[n]
      BY <1>5, <1>6
    <3> HIDE DEF n, p
    <3> QED
      BY <1>6, <3>1
  <2>1. n \in DOMAIN url
    BY <1>0, <1>5, LenProperties
  <2>2. n < l /\ IsTrail(url[n + 1])
    BY <2>1 DEF Formed, WellFormed
  <2>3. n + 1 \in 1 .. l /\ n + 1 > l - N
    BY <1>0, <1>5, <2>2
  <2>4. url[n + 1] < 128 /\ url[n + 1] \in CodeUnit
    BY <1>0, <1>1, <2>3, ElementOfSeq
  <2> DEFINE x == url[n + 1]
  <2> HIDE DEF x
  <2>5. x \in Nat /\ x < 128 /\ IsTrail(x)
    BY <2>2, <2>4, UnitIs DEF x
  <2> QED
    BY SMT, <2>5 DEF IsTrail
<1> HIDE DEF p, a, n
<1>9. p \in Formed /\ a \in Formed
  BY <1>6, <1>8, FormedParts
<1>10. e = CstrToNimstr(p) \o a /\ CstrToNimstr(p) \in Seq(Byte)
  <2>1. CstrToNimstr(a) = a
    BY <1>6, <1>7, AsciiIsItself
  <2>2. e = CstrToNimstr(p) \o CstrToNimstr(a)
    BY <1>6, <1>9, EncodedJoin
  <2> QED
    BY <1>9, <2>1, <2>2, EncodedBytes
<1>11. a \in Seq(Byte)
  <2>1. CstrToNimstr(a) = a
    BY <1>6, <1>7, AsciiIsItself
  <2> QED
    BY <1>9, <2>1, EncodedBytes
<1> DEFINE f == CstrToNimstr(p)
           g == Slice(e, 0, N + 1)
<1>12. /\ Len(e) = Len(f) + N /\ Len(f) \in Nat
       /\ \A k \in 1 .. Len(f) : e[k] = f[k]
  <2> HIDE DEF e, f
  <2>1. f \in Seq(Byte) /\ a \in Seq(Byte) /\ e = f \o a
    BY <1>10, <1>11 DEF f
  <2>2. /\ Len(e) = Len(f) + Len(a) /\ Len(f) \in Nat
        /\ \A k \in 1 .. Len(f) : e[k] = f[k]
    BY <2>1, ConcatIs
  <2> QED
    BY <1>6, <2>2
<1> HIDE DEF e
<1>13. g = f
  <2> HIDE DEF f, N
  <2>1. g = [k \in 1 .. Len(e) - N |-> e[(0 + k - 1) + 1]]
    BY <1>2 DEF Slice, At
  <2>2. Len(e) - N = Len(f)
    BY <1>0, <1>12
  <2>3. \A k \in 1 .. Len(f) : e[(0 + k - 1) + 1] = f[k]
    <3>1. \A k \in 1 .. Len(f) : (0 + k - 1) + 1 = k
      BY <1>12
    <3> QED
      BY <1>12, <3>1
  <2>4. f = [k \in 1 .. Len(f) |-> f[k]]
    <3>1. f \in Seq(Byte)
      BY <1>10 DEF f
    <3> QED
      BY <3>1
  <2> QED
    BY <2>1, <2>2, <2>3, <2>4
<1>14. BaseOf(url) = p
  <2> DEFINE s == SubSeq(url, 1, n)
  <2>1. \A i \in 1 .. n : url[i] \in CodeUnit
    BY <1>0, <1>5, ElementOfSeq
  <2>2. /\ s \in Seq(CodeUnit) /\ Len(s) = IF 1 <= n THEN n - 1 + 1 ELSE 0
        /\ \A i \in 1 .. n - 1 + 1 : s[i] = url[1 + i - 1]
    <3>1. 1 \in Int /\ n \in Int
      BY <1>5
    <3> QED
      BY <2>1, <3>1, SubSeqProperties
  <2>3. BaseOf(url) = s
    BY DEF BaseOf, n
  <2> HIDE DEF s
  <2>4. Len(s) = n
    BY <1>5, <2>2
  <2>5. \A i \in 1 .. n : s[i] = url[i]
    <3>1. \A i \in 1 .. n : i \in 1 .. n - 1 + 1 /\ 1 + i - 1 = i
      BY <1>5
    <3> QED
      BY <2>2, <3>1
  <2>6. s = p
    BY <1>6, <2>2, <2>4, <2>5, SeqEqual
  <2> QED
    BY <2>3, <2>6
<1> QED
  BY <1>9, <1>13, <1>14 DEF e
-----------------------------------------------------------------------------
(***************************************************************************)
(* toJSStr is given the bytes of a text.  Between two runs it has returned *)
(* a part of the text whose rest the bytes ahead encode; inside a run, the *)
(* text of the bytes it has passed is their digits, and the run itself is  *)
(* well formed, for what follows it starts with an ASCII character.        *)
(***************************************************************************)
Proper(c) ==
  \/ /\ c.kind = "href" /\ c.url \in Formed /\ c.href \in Formed
     /\ IsAscii(NameOf(c.url))
  \/ c.kind = "tag" /\ c.tag \in Seq(CodeUnit) /\ IsAscii(c.tag)

TextOf(c) == IF c.kind = "href" THEN BaseOf(c.url) \o c.href ELSE Escape(c.tag)

Between(s, p, x, text) ==
  \E b \in Seq(Byte), r \in Formed :
    s = b \o CstrToNimstr(r) /\ p = Len(b) /\ x \in Seq(CodeUnit) /\ x \o r = text

Inside(s, p, t, x, text, pc) ==
  \E b \in Seq(Byte), h \in Formed, r \in Formed, m \in Nat :
    /\ s = b \o (CstrToNimstr(h) \o CstrToNimstr(r)) /\ p = Len(b) + m
    /\ AllHigh(h) /\ StartsLow(r) /\ HexTextOf(t, CstrToNimstr(h), m)
    /\ x \in Seq(CodeUnit) /\ x \o (h \o r) = text
    /\ IF pc = "try" THEN m = Len(CstrToNimstr(h)) ELSE m < Len(CstrToNimstr(h))

Conversion ==
  [kind : {"none"}] \cup [kind : {"href"}, url : IndexURLs, href : Hrefs] \cup [kind : {"tag"}, tag : Tags]

TextInv ==
  /\ conversion \in Conversion
  /\ Proper(conversion) =>
       /\ stringsPc # "catch"
       /\ stringsPc = "scan" => Between(nimStr, strPos, res, TextOf(conversion))
       /\ stringsPc = "run" => Inside(nimStr, strPos, helper, res, TextOf(conversion), "run")
       /\ stringsPc = "try" => Inside(nimStr, strPos, helper, res, TextOf(conversion), "try")
       /\ stringsPc = "done" => res = TextOf(conversion)

LEMMA FormedIsBetween ==
  ASSUME NEW u \in Formed
  PROVE  Between(CstrToNimstr(u), 0, <<>>, u)
<1> DEFINE e == <<>>
<1>1. /\ e \in Seq(Byte) /\ e \in Seq(CodeUnit) /\ Len(e) = 0
      /\ e \o CstrToNimstr(u) = CstrToNimstr(u) /\ e \o u = u
  BY EncodedBytes, ConcatEmptySeq DEF Formed
<1> HIDE DEF e
<1>2. Between(CstrToNimstr(u), 0, e, u)
  BY <1>1 DEF Between
<1> QED
  BY <1>2 DEF e

\* An ASCII character is passed.
LEMMA AsciiPassed ==
  ASSUME NEW s, NEW p \in Nat, NEW x, NEW text, Between(s, p, x, text),
         p < Len(s), At(s, p) < 128
  PROVE  Between(s, p + 1, Append(x, At(s, p)), text)
<1>0. PICK b \in Seq(Byte), r \in Formed :
      s = b \o CstrToNimstr(r) /\ p = Len(b) /\ x \in Seq(CodeUnit) /\ x \o r = text
  BY DEF Between
<1>a. p = Len(b) /\ x \in Seq(CodeUnit) /\ b \in Seq(Byte)
  BY <1>0
<1> DEFINE e == CstrToNimstr(r)
<1>1. /\ e \in Seq(Byte) /\ Len(s) = Len(b) + Len(e) /\ Len(e) \in Nat /\ Len(b) \in Nat
      /\ \A k \in 1 .. Len(e) : s[k + Len(b)] = e[k]
  <2>1. e \in Seq(Byte)
    BY EncodedBytes
  <2> HIDE DEF e
  <2>2. s = b \o e
    BY <1>0 DEF e
  <2> QED
    BY <2>1, <2>2, ConcatIs
<1>2. Len(e) > 0 /\ 1 \in 1 .. Len(e) /\ 1 + Len(b) = p + 1
  <2> HIDE DEF e
  <2> QED
    BY <1>1, <1>a
<1>3. At(s, p) = e[1]
  <2> HIDE DEF e
  <2> QED
    BY <1>1, <1>2 DEF At
<1>4. Len(r) > 0
  <2>1. Len(r) = 0 => Len(e) = 0
    BY EncodedStart
  <2>2. Len(r) \in Nat
    BY LenProperties DEF Formed
  <2> HIDE DEF e
  <2> QED
    BY <1>2, <2>1, <2>2
<1>5. e[1] < 128
  BY <1>3
<1>6. PICK c \in Scalar, q \in Formed :
         c < 128 /\ r = <<c>> \o q /\ e = <<c>> \o CstrToNimstr(q)
  BY <1>4, <1>5, EncodedStart
<1>7. c \in Byte /\ c \in CodeUnit
  <2>1. c \in Nat /\ c < 128
    BY <1>6 DEF Scalar
  <2>2. c \in Byte
    BY <2>1 DEF Byte
  <2>3. c \in CodeUnit
    <3>1. c \in Nat /\ c <= 65535
      BY SMT, <2>1
    <3> QED
      BY <3>1, UnitIs
  <2> QED
    BY <2>2, <2>3
<1> DEFINE f == CstrToNimstr(q)
           a == <<c>>
<1>8. a \in Seq(Byte) /\ a \in Seq(CodeUnit) /\ Len(a) = 1 /\ a[1] = c
  BY <1>7
<1>9. f \in Seq(Byte) /\ q \in Seq(CodeUnit)
  BY EncodedBytes DEF Formed
<1>10. e[1] = c
  <2> HIDE DEF a, f, e
  <2>1. e = a \o f
    BY <1>6 DEF a, f, e
  <2>2. 1 \in 1 .. Len(a)
    BY <1>8
  <2> QED
    BY <1>8, <1>9, <2>1, <2>2, ConcatIs
<1>11. s = (b \o a) \o f
  <2> HIDE DEF a, f, e
  <2>1. (b \o a) \o f = b \o (a \o f)
    <3>1. b \in Seq(Byte) /\ a \in Seq(Byte) /\ f \in Seq(Byte)
      BY <1>8, <1>9
    <3>2. \A i, j, k \in Seq(Byte) : (i \o j) \o k = i \o (j \o k)
      BY ConcatAssociative, SMTT(30)
    <3> QED
      BY <3>1, <3>2
  <2>2. e = a \o f /\ s = b \o e
    BY <1>0, <1>6 DEF a, f, e
  <2> QED
    BY <2>1, <2>2
<1>12. b \o a \in Seq(Byte) /\ Len(b \o a) = p + 1
  <2> HIDE DEF a
  <2>1. a \in Seq(Byte)
    BY <1>8
  <2>2. b \o a \in Seq(Byte) /\ Len(b \o a) = Len(b) + Len(a)
    BY <2>1, ConcatIs
  <2> QED
    BY <1>8, <1>a, <2>2
<1>13. Append(x, c) = x \o a /\ x \o a \in Seq(CodeUnit)
  <2>1. Append(x, c) = x \o a
    BY <1>7, <1>a, AppendIsConcat
  <2> HIDE DEF a
  <2>2. x \o a \in Seq(CodeUnit)
    <3>1. x \in Seq(CodeUnit) /\ a \in Seq(CodeUnit)
      BY <1>8, <1>a
    <3> QED
      BY <3>1, ConcatProperties
  <2> QED
    BY <2>1, <2>2
<1>14. (x \o a) \o q = text
  <2> HIDE DEF a
  <2>1. (x \o a) \o q = x \o (a \o q)
    <3>1. x \in Seq(CodeUnit) /\ a \in Seq(CodeUnit) /\ q \in Seq(CodeUnit)
      BY <1>8, <1>9, <1>a
    <3> QED
      BY <3>1, ConcatAssociative, SMTT(30)
  <2>2. r = a \o q /\ x \o r = text
    BY <1>0, <1>6 DEF a
  <2> QED
    BY <2>1, <2>2
<1>15. Between(s, p + 1, x \o a, text)
  <2> HIDE DEF a
  <2> QED
    BY <1>11, <1>12, <1>13, <1>14 DEF Between, f
<1> QED
  BY <1>3, <1>10, <1>13, <1>15

\* A byte above 127 begins a run, none of which is passed yet.
LEMMA RunBegins ==
  ASSUME NEW s, NEW p \in Nat, NEW x, NEW text, Between(s, p, x, text),
         p < Len(s), At(s, p) >= 128
  PROVE  Inside(s, p, <<>>, x, text, "run")
<1>0. PICK b \in Seq(Byte), u \in Formed :
      s = b \o CstrToNimstr(u) /\ p = Len(b) /\ x \in Seq(CodeUnit) /\ x \o u = text
  BY DEF Between
<1>1. PICK h \in Formed, r \in Formed : u = h \o r /\ AllHigh(h) /\ StartsLow(r)
  BY RunOf
<1> DEFINE e == CstrToNimstr(h)
           f == CstrToNimstr(r)
           w == e \o f
<1>2. /\ e \in Seq(Byte) /\ f \in Seq(Byte) /\ CstrToNimstr(u) = w
      /\ h \in Seq(CodeUnit) /\ r \in Seq(CodeUnit) /\ StartsLow(f)
  BY <1>1, EncodedBytes, EncodedJoin, EncodedStart DEF Formed
<1>3. /\ w \in Seq(Byte) /\ Len(w) = Len(e) + Len(f) /\ Len(e) \in Nat /\ Len(f) \in Nat
      /\ \A k \in 1 .. Len(f) : w[k + Len(e)] = f[k]
  <2> HIDE DEF e, f
  <2> QED
    BY <1>2, ConcatIs
<1>4. /\ Len(s) = Len(b) + Len(w) /\ Len(b) \in Nat
      /\ \A k \in 1 .. Len(w) : s[k + Len(b)] = w[k]
  <2>1. s = b \o w /\ w \in Seq(Byte)
    BY <1>0, <1>2, <1>3
  <2> HIDE DEF w
  <2> QED
    BY <2>1, ConcatIs
<1>5. Len(w) > 0 /\ At(s, p) = w[1]
  <2> HIDE DEF w
  <2>0. p = Len(b)
    BY <1>0
  <2>1. Len(w) > 0 /\ 1 \in 1 .. Len(w) /\ 1 + Len(b) = p + 1
    BY <1>3, <1>4, <2>0
  <2> QED
    BY <1>4, <2>1 DEF At
<1>6. Len(e) > 0
  <2> HIDE DEF w, e, f
  <2> SUFFICES ASSUME Len(e) = 0 PROVE FALSE
    BY <1>3
  <2>1. Len(f) > 0 /\ 1 \in 1 .. Len(f) /\ 1 + Len(e) = 1
    BY <1>3, <1>5
  <2>2. w[1] = f[1]
    BY <1>3, <2>1
  <2>3. f[1] < 128
    BY <1>2, <2>1 DEF StartsLow
  <2>4. f[1] \in Nat
    <3>1. f[1] \in Byte
      BY <1>2, <2>1, ElementOfSeq
    <3> QED
      BY <3>1, ByteIsNumber
  <2> QED
    BY <1>5, <2>2, <2>3, <2>4
<1>7. p = Len(b) + 0 /\ 0 < Len(e) /\ 0 \in Nat
  <2> HIDE DEF e
  <2>1. p = Len(b)
    BY <1>0
  <2> QED
    BY <1>4, <1>6, <2>1
<1>8. s = b \o (CstrToNimstr(h) \o CstrToNimstr(r))
  BY <1>0, <1>2
<1>9. HexTextOf(<<>>, CstrToNimstr(h), 0)
  BY HexTextNone
<1> DEFINE t == <<>>
<1> HIDE DEF t
<1>10. Inside(s, p, t, x, text, "run")
  BY <1>0, <1>1, <1>7, <1>8, <1>9 DEF Inside, e, t
<1> QED
  BY <1>10 DEF t

\* A byte of a run is passed; the run goes on as long as bytes above 127 do.
LEMMA ByteIsPassed ==
  ASSUME NEW s, NEW p \in Nat, NEW t, NEW x, NEW text, Inside(s, p, t, x, text, "run")
  PROVE  LET n == t \o <<Percent>> \o Digits(At(s, p)) IN
         IF p + 1 < Len(s) /\ At(s, p + 1) >= 128
         THEN Inside(s, p + 1, n, x, text, "run")
         ELSE Inside(s, p + 1, n, x, text, "try")
<1>0. PICK b \in Seq(Byte), h \in Formed, r \in Formed, m \in Nat :
      /\ s = b \o (CstrToNimstr(h) \o CstrToNimstr(r)) /\ p = Len(b) + m
      /\ AllHigh(h) /\ StartsLow(r) /\ HexTextOf(t, CstrToNimstr(h), m)
      /\ x \in Seq(CodeUnit) /\ x \o (h \o r) = text
      /\ m < Len(CstrToNimstr(h))
  BY DEF Inside
<1> DEFINE e == CstrToNimstr(h)
           f == CstrToNimstr(r)
           w == e \o f
           n == t \o <<Percent>> \o Digits(At(s, p))
<1>1. e \in Seq(Byte) /\ f \in Seq(Byte) /\ AllHigh(e) /\ StartsLow(f)
  BY <1>0, EncodedBytes, EncodedHigh, EncodedStart
<1>2. /\ w \in Seq(Byte) /\ Len(w) = Len(e) + Len(f) /\ Len(e) \in Nat /\ Len(f) \in Nat
      /\ \A k \in 1 .. Len(e) : w[k] = e[k]
      /\ \A k \in 1 .. Len(f) : w[k + Len(e)] = f[k]
  <2> HIDE DEF e, f
  <2> QED
    BY <1>1, ConcatIs
<1>3. /\ Len(s) = Len(b) + Len(w) /\ Len(b) \in Nat
      /\ \A k \in 1 .. Len(w) : s[k + Len(b)] = w[k]
  <2>1. s = b \o w /\ w \in Seq(Byte)
    BY <1>0, <1>2
  <2> HIDE DEF w
  <2> QED
    BY <2>1, ConcatIs
<1>4. m < Len(e) /\ p = Len(b) + m /\ HexTextOf(t, e, m)
  BY <1>0
<1> HIDE DEF e, f, w
<1>5. /\ m + 1 \in 1 .. Len(e) /\ m + 1 \in 1 .. Len(w) /\ (m + 1) + Len(b) = p + 1
      /\ p + 1 = Len(b) + (m + 1) /\ m + 1 \in Nat
  BY <1>2, <1>3, <1>4
<1>6. At(s, p) = e[m + 1] /\ e[m + 1] >= 128
  BY <1>1, <1>2, <1>3, <1>5 DEF At, AllHigh
<1>7. HexTextOf(n, e, m + 1)
  BY <1>1, <1>4, <1>6, HexTextMore
<1> HIDE DEF n
<1>8. CASE m + 1 < Len(e)
  <2>1. p + 1 < Len(s) /\ m + 2 \in 1 .. Len(e) /\ m + 2 \in 1 .. Len(w) /\ (m + 2) + Len(b) = (p + 1) + 1
    BY <1>2, <1>3, <1>4, <1>8
  <2>2. At(s, p + 1) = e[m + 2] /\ e[m + 2] >= 128
    BY <1>1, <1>2, <1>3, <2>1 DEF At, AllHigh
  <2>3. Inside(s, p + 1, n, x, text, "run")
    BY <1>0, <1>5, <1>7, <1>8 DEF Inside, e
  <2> QED
    BY <2>1, <2>2, <2>3 DEF n
<1>9. CASE m + 1 = Len(e)
  <2>1. ASSUME p + 1 < Len(s) PROVE ~(At(s, p + 1) >= 128)
    <3>1. /\ Len(f) > 0 /\ 1 \in 1 .. Len(f) /\ 1 + Len(e) \in 1 .. Len(w)
          /\ (1 + Len(e)) + Len(b) = (p + 1) + 1
      BY <1>2, <1>3, <1>4, <1>9, <2>1
    <3>2. At(s, p + 1) = f[1]
      BY <1>2, <1>3, <3>1 DEF At
    <3>3. f[1] < 128 /\ f[1] \in Nat
      <4>1. f[1] \in Byte
        BY <1>1, <3>1, ElementOfSeq
      <4>2. f[1] < 128
        BY <1>1, <3>1 DEF StartsLow
      <4>3. f[1] \in Nat
        BY <4>1, ByteIsNumber
      <4> QED
        BY <4>2, <4>3
    <3> QED
      BY <3>2, <3>3
  <2>2. Inside(s, p + 1, n, x, text, "try")
    BY <1>0, <1>5, <1>7, <1>9 DEF Inside, e
  <2> QED
    BY <2>1, <2>2 DEF n
<1> QED
  <2>1. m + 1 < Len(e) \/ m + 1 = Len(e)
    BY <1>2, <1>4
  <2> QED
    BY <1>8, <1>9, <2>1
\* A run that is passed decodes to its text.
LEMMA RunIsRead ==
  ASSUME NEW s, NEW p, NEW t, NEW x, NEW text, Inside(s, p, t, x, text, "try")
  PROVE  /\ DecodeURIComponent(t) # Failure
         /\ Between(s, p, x \o DecodeURIComponent(t), text)
<1>0. PICK b \in Seq(Byte), h \in Formed, r \in Formed, m \in Nat :
        /\ s = b \o (CstrToNimstr(h) \o CstrToNimstr(r)) /\ p = Len(b) + m
        /\ AllHigh(h) /\ HexTextOf(t, CstrToNimstr(h), m)
        /\ x \in Seq(CodeUnit) /\ x \o (h \o r) = text
        /\ m = Len(CstrToNimstr(h))
  BY DEF Inside
<1> DEFINE e == CstrToNimstr(h)
           f == CstrToNimstr(r)
<1>1. e \in Seq(Byte) /\ f \in Seq(Byte) /\ h \in Seq(CodeUnit) /\ r \in Seq(CodeUnit)
  BY EncodedBytes DEF Formed
<1>2. DecodeURIComponent(t) = h
  <2>1. HexText(t, CstrToNimstr(h))
    BY <1>0, HexTextWhole
  <2> QED
    BY <1>0, <2>1, RunDecodes
<1>3. h # Failure
  BY <1>1, NoFailure
<1>4. s = (b \o e) \o f /\ p = Len(b \o e) /\ b \o e \in Seq(Byte)
  <2>1. s = b \o (e \o f) /\ p = Len(b) + Len(e)
    BY <1>0
  <2> HIDE DEF e, f
  <2>2. (b \o e) \o f = b \o (e \o f)
    BY <1>1, ConcatAssociative, SMTT(30)
  <2>3. b \o e \in Seq(Byte) /\ Len(b \o e) = Len(b) + Len(e)
    BY <1>1, ConcatProperties
  <2> QED
    BY <2>1, <2>2, <2>3
<1>5. (x \o h) \o r = text /\ x \o h \in Seq(CodeUnit)
  <2>1. x \in Seq(CodeUnit) /\ x \o (h \o r) = text
    BY <1>0
  <2>2. (x \o h) \o r = x \o (h \o r)
    <3>1. \A i, j, k \in Seq(CodeUnit) : (i \o j) \o k = i \o (j \o k)
      BY ConcatAssociative
    <3> QED
      BY <1>1, <2>1, <3>1
  <2>3. x \o h \in Seq(CodeUnit)
    BY <1>1, <2>1, ConcatProperties
  <2> QED
    BY <2>1, <2>2, <2>3
<1>6. Between(s, p, x \o h, text)
  <2>1. b \o e \in Seq(Byte) /\ s = (b \o e) \o CstrToNimstr(r) /\ p = Len(b \o e)
    BY <1>4
  <2> HIDE DEF e
  <2> QED
    BY <1>5, <2>1 DEF Between
<1> QED
  BY <1>2, <1>3, <1>6

LEMMA AllIsRead ==
  ASSUME NEW s, NEW p, NEW x, NEW text, Between(s, p, x, text), ~(p < Len(s))
  PROVE  x = text
<1>0. PICK b \in Seq(Byte), r \in Formed :
        s = b \o CstrToNimstr(r) /\ p = Len(b) /\ x \in Seq(CodeUnit) /\ x \o r = text
  BY DEF Between
<1> DEFINE e == CstrToNimstr(r)
<1>1. e \in Seq(Byte) /\ r \in Seq(CodeUnit)
  BY EncodedBytes DEF Formed
<1>2. Len(s) = Len(b) + Len(e) /\ Len(b) \in Nat /\ Len(e) \in Nat
  <2>1. s = b \o e
    BY <1>0
  <2> HIDE DEF e
  <2> QED
    BY <1>1, <2>1, ConcatIs
<1>3. ~(Len(e) > 0)
  <2>1. p = Len(b)
    BY <1>0
  <2> HIDE DEF e
  <2> QED
    BY <1>2, <2>1
<1>4. Len(r) = 0
  <2>1. Len(r) \in Nat
    BY <1>1, LenProperties
  <2>2. Len(r) > 0 => Len(e) > 0
    BY EncodedStart
  <2> HIDE DEF e
  <2> QED
    BY <1>3, <2>1, <2>2
<1>5. r = <<>>
  BY <1>1, <1>4, EmptySeq
<1>6. x \o <<>> = x
  BY <1>0, ConcatEmptySeq
<1> QED
  BY <1>0, <1>5, <1>6

LEMMA PositionIs ==
  ASSUME NEW s, NEW p, NEW t, NEW x, NEW text, NEW pc,
         Between(s, p, x, text) \/ Inside(s, p, t, x, text, pc)
  PROVE  p \in Nat
<1>1. CASE Between(s, p, x, text)
  BY <1>1, LenProperties DEF Between
<1>2. CASE Inside(s, p, t, x, text, pc)
  <2>1. PICK b \in Seq(Byte), m \in Nat : p = Len(b) + m
    BY <1>2 DEF Inside
  <2>2. Len(b) \in Nat
    BY LenProperties
  <2> QED
    BY <2>1, <2>2
<1> QED
  BY <1>1, <1>2

\* The calls start on the bytes of their text.
LEMMA HrefStarts ==
  ASSUME NEW url \in Seq(CodeUnit), NEW href \in Seq(CodeUnit), NEW c,
         c = [kind |-> "href", url |-> url, href |-> href], Proper(c),
         SliceLength(CstrToNimstr(url), 0, IndexNameLength + 1) >= 0
  PROVE  Between(Slice(CstrToNimstr(url), 0, IndexNameLength + 1) \o CstrToNimstr(href), 0, <<>>, TextOf(c))
<1>1. url \in Formed /\ href \in Formed /\ IsAscii(NameOf(url)) /\ TextOf(c) = BaseOf(url) \o href
  BY DEF Proper, TextOf
<1>2. /\ BaseOf(url) \in Formed
      /\ Slice(CstrToNimstr(url), 0, IndexNameLength + 1) = CstrToNimstr(BaseOf(url))
  BY <1>1, BaseIs
<1>3. /\ CstrToNimstr(BaseOf(url)) \o CstrToNimstr(href) = CstrToNimstr(BaseOf(url) \o href)
      /\ BaseOf(url) \o href \in Formed
  BY <1>1, <1>2, EncodedJoin, FormedJoin
<1>4. Between(CstrToNimstr(BaseOf(url) \o href), 0, <<>>, BaseOf(url) \o href)
  BY <1>3, FormedIsBetween
<1> QED
  BY <1>1, <1>2, <1>3, <1>4

LEMMA PlainIs ==
  ASSUME NEW u \in Seq(Plain)
  PROVE  u \in Seq(CodeUnit) /\ IsAscii(u) /\ \A k \in DOMAIN u : u[k] \notin {LessThan, GreaterThan}
<1>1. Len(u) \in Nat /\ DOMAIN u = 1 .. Len(u) /\ \A k \in 1 .. Len(u) : u[k] \in Plain
  BY LenProperties, ElementOfSeq
<1>2. \A k \in 1 .. Len(u) : u[k] \in CodeUnit /\ u[k] < 128 /\ u[k] \notin {LessThan, GreaterThan}
  BY <1>1 DEF Plain
<1>3. u \in [1 .. Len(u) -> CodeUnit]
  <2>1. u = [k \in 1 .. Len(u) |-> u[k]]
    BY <1>1
  <2> QED
    BY <1>2, <2>1
<1>4. u \in Seq(CodeUnit)
  BY <1>1, <1>3
<1> QED
  BY <1>1, <1>2, <1>4 DEF IsAscii

LEMMA TagStarts ==
  ASSUME NEW tag \in Seq(CodeUnit), NEW c, c = [kind |-> "tag", tag |-> tag], Proper(c)
  PROVE  Between(Escape(tag), 0, <<>>, TextOf(c))
<1>1. IsAscii(tag) /\ TextOf(c) = Escape(tag)
  BY DEF Proper, TextOf
<1>2. Escape(tag) \in Seq(Plain)
  BY <1>1, EscapedIs
<1> DEFINE u == Escape(tag)
<1> HIDE DEF u
<1>3. u \in Seq(CodeUnit) /\ IsAscii(u)
  BY <1>2, PlainIs DEF u
<1>4. u \in Formed /\ CstrToNimstr(u) = u
  BY <1>3, AsciiIsFormed, AsciiIsItself
<1>5. Between(u, 0, <<>>, u)
  <2>1. Between(CstrToNimstr(u), 0, <<>>, u)
    BY <1>4, FormedIsBetween
  <2> QED
    BY <1>4, <2>1
<1> QED
  BY <1>1, <1>5 DEF u

LEMMA InputsAre == \A x \in IndexURLs \cup Hrefs \cup Tags : x \in Seq(CodeUnit)
BY StringsAssumption

\* Every step keeps what is passed and what is ahead in one text.
LEMMA TextNext == TextInv /\ [StringsNext]_stringsVars => TextInv'
<1> SUFFICES ASSUME TextInv, [StringsNext]_stringsVars PROVE TextInv'
  OBVIOUS
<1> DEFINE text == TextOf(conversion)
<1>1. CASE UNCHANGED stringsVars
  BY <1>1 DEF stringsVars, loopVars, TextInv
<1>2. ASSUME NEW url \in IndexURLs, NEW href \in Hrefs, JoinHref(url, href) PROVE TextInv'
  <2> DEFINE c == [kind |-> "href", url |-> url, href |-> href]
             bytes == CstrToNimstr(url)
  <2>1. url \in Seq(CodeUnit) /\ href \in Seq(CodeUnit)
    BY InputsAre
  <2>2. conversion' = c /\ c \in Conversion
    BY <1>2 DEF JoinHref, Conversion
  <2>3. CASE stringsPc' = "raised"
    BY <2>2, <2>3 DEF TextInv
  <2>4. CASE stringsPc' # "raised"
    <3>1. /\ InRange(SliceLength(bytes, 0, IndexNameLength + 1), 0, MaxInt)
          /\ ToJSStr(Slice(bytes, 0, IndexNameLength + 1) \o CstrToNimstr(href))
      BY <1>2, <2>4 DEF JoinHref
    <3>2. /\ nimStr' = Slice(bytes, 0, IndexNameLength + 1) \o CstrToNimstr(href)
          /\ strPos' = 0 /\ res' = <<>> /\ stringsPc' = "scan"
      BY <3>1 DEF ToJSStr
    <3>3. SliceLength(bytes, 0, IndexNameLength + 1) >= 0
      <4>1. \A i : InRange(i, 0, MaxInt) => 0 <= i
        BY DEF InRange
      <4>2. SliceLength(bytes, 0, IndexNameLength + 1) = Len(bytes) - (IndexNameLength + 1) - 0 + 1
        BY DEF SliceLength
      <4> DEFINE z == SliceLength(bytes, 0, IndexNameLength + 1)
      <4>3. 0 <= z
        BY <3>1, <4>1
      <4> HIDE DEF z
      <4>4. z >= 0
        BY <4>3
      <4> QED
        BY <4>4 DEF z
    <3> HIDE DEF c
    <3>4. ASSUME Proper(c) PROVE Between(nimStr', strPos', res', TextOf(c))
      BY <2>1, <3>2, <3>3, <3>4, HrefStarts DEF c
    <3> QED
      BY <2>2, <3>2, <3>4 DEF TextInv
  <2> QED
    BY <2>3, <2>4
<1>3. ASSUME NEW tag \in Tags, EscapeCString(tag) PROVE TextInv'
  <2> DEFINE c == [kind |-> "tag", tag |-> tag]
  <2>1. tag \in Seq(CodeUnit)
    BY InputsAre
  <2>2. /\ conversion' = c /\ c \in Conversion /\ nimStr' = Escape(tag) /\ strPos' = 0
        /\ res' = <<>> /\ stringsPc' = "scan"
    BY <1>3 DEF EscapeCString, ToJSStr, Conversion
  <2> HIDE DEF c
  <2>3. ASSUME Proper(c) PROVE Between(nimStr', strPos', res', TextOf(c))
    BY <2>1, <2>2, <2>3, TagStarts DEF c
  <2> QED
    BY <2>2, <2>3 DEF TextInv
<1>4. CASE AsciiChar
  <2>1. /\ stringsPc = "scan" /\ strPos < Len(nimStr) /\ At(nimStr, strPos) < 128
        /\ res' = Append(res, At(nimStr, strPos)) /\ strPos' = strPos + 1
        /\ conversion' = conversion /\ nimStr' = nimStr /\ stringsPc' = stringsPc
    BY <1>4 DEF AsciiChar, More
  <2>2. ASSUME Proper(conversion) PROVE Between(nimStr, strPos + 1, Append(res, At(nimStr, strPos)), text)
    <3>1. Between(nimStr, strPos, res, text)
      BY <2>1, <2>2 DEF TextInv
    <3>2. strPos \in Nat
      BY <3>1, PositionIs
    <3> QED
      BY <2>1, <3>1, <3>2, AsciiPassed
  <2> QED
    BY <2>1, <2>2 DEF TextInv
<1>5. CASE EscapeByte
  <2> DEFINE t == IF stringsPc = "scan" THEN <<>> ELSE helper
             n == t \o <<Percent>> \o Digits(At(nimStr, strPos))
             goes == strPos + 1 < Len(nimStr) /\ At(nimStr, strPos + 1) >= 128
  <2>1. /\ \/ stringsPc = "scan" /\ strPos < Len(nimStr) /\ At(nimStr, strPos) >= 128
           \/ stringsPc = "run"
        /\ helper' = n /\ strPos' = strPos + 1 /\ UNCHANGED <<conversion, nimStr, res>>
        /\ IF goes THEN stringsPc' = "run" ELSE stringsPc' = "try"
    BY <1>5 DEF EscapeByte, More
  <2>2. ASSUME Proper(conversion) PROVE Inside(nimStr, strPos, t, res, text, "run")
    <3>1. CASE stringsPc = "scan"
      <4>1. Between(nimStr, strPos, res, text)
        BY <2>2, <3>1 DEF TextInv
      <4>2. strPos \in Nat
        BY <4>1, PositionIs
      <4>3. Inside(nimStr, strPos, <<>>, res, text, "run")
        BY <2>1, <3>1, <4>1, <4>2, RunBegins
      <4> QED
        BY <3>1, <4>3
    <3>2. CASE stringsPc = "run"
      <4>1. Inside(nimStr, strPos, helper, res, text, "run")
        BY <2>2, <3>2 DEF TextInv
      <4> QED
        BY <3>2, <4>1
    <3> QED
      BY <2>1, <3>1, <3>2
  <2>3. ASSUME Proper(conversion)
        PROVE  IF goes THEN Inside(nimStr, strPos + 1, n, res, text, "run")
               ELSE Inside(nimStr, strPos + 1, n, res, text, "try")
    <3> HIDE DEF t
    <3>1. Inside(nimStr, strPos, t, res, text, "run")
      BY <2>2, <2>3
    <3>2. strPos \in Nat
      BY <3>1, PositionIs
    <3> QED
      BY <3>1, <3>2, ByteIsPassed
  <2> HIDE DEF goes, n, t
  <2>4. CASE goes
    <3>1. /\ helper' = n /\ strPos' = strPos + 1 /\ UNCHANGED <<conversion, nimStr, res>>
          /\ stringsPc' = "run"
      BY <2>1, <2>4
    <3>2. Proper(conversion) => Inside(nimStr, strPos + 1, n, res, text, "run")
      BY <2>3, <2>4
    <3> QED
      BY <3>1, <3>2 DEF TextInv
  <2>5. CASE ~goes
    <3>1. /\ helper' = n /\ strPos' = strPos + 1 /\ UNCHANGED <<conversion, nimStr, res>>
          /\ stringsPc' = "try"
      BY <2>1, <2>5
    <3>2. Proper(conversion) => Inside(nimStr, strPos + 1, n, res, text, "try")
      BY <2>3, <2>5
    <3> QED
      BY <3>1, <3>2 DEF TextInv
  <2> QED
    BY <2>4, <2>5
<1>6. CASE DecodeRun
  <2>1. /\ stringsPc = "try" /\ res' = res \o DecodeURIComponent(helper) /\ stringsPc' = "scan"
        /\ UNCHANGED <<conversion, nimStr, strPos, helper>>
    BY <1>6 DEF DecodeRun
  <2>2. ASSUME Proper(conversion) PROVE Between(nimStr, strPos, res \o DecodeURIComponent(helper), text)
    <3>1. Inside(nimStr, strPos, helper, res, text, "try")
      BY <2>1, <2>2 DEF TextInv
    <3> QED
      BY <3>1, RunIsRead
  <2> QED
    BY <2>1, <2>2 DEF TextInv
<1>7. CASE DecodeThrows
  <2>1. stringsPc = "try" /\ DecodeURIComponent(helper) = Failure /\ UNCHANGED conversion
    BY <1>7 DEF DecodeThrows
  <2>2. ~Proper(conversion)
    <3> SUFFICES ASSUME Proper(conversion) PROVE FALSE
      OBVIOUS
    <3>1. Inside(nimStr, strPos, helper, res, text, "try")
      BY <2>1 DEF TextInv
    <3> QED
      BY <2>1, <3>1, RunIsRead
  <2> QED
    BY <2>1, <2>2 DEF TextInv
<1>8. CASE KeepPercentText
  <2>1. stringsPc = "catch" /\ UNCHANGED conversion
    BY <1>8 DEF KeepPercentText
  <2> QED
    BY <2>1 DEF TextInv
<1>9. CASE ReturnString
  <2>1. /\ stringsPc = "scan" /\ ~(strPos < Len(nimStr)) /\ stringsPc' = "done"
        /\ UNCHANGED <<conversion, res>>
    BY <1>9 DEF ReturnString, More, loopVars
  <2>2. ASSUME Proper(conversion) PROVE res = text
    <3>1. Between(nimStr, strPos, res, text)
      BY <2>1, <2>2 DEF TextInv
    <3> QED
      BY <2>1, <3>1, AllIsRead
  <2> QED
    BY <2>1, <2>2 DEF TextInv
<1> QED
  BY <1>1, <1>2, <1>3, <1>4, <1>5, <1>6, <1>7, <1>8, <1>9 DEF StringsNext

\* What is returned is what was asked for.
LEMMA TextHolds == TextInv => TextIsKept
<1> SUFFICES ASSUME TextInv PROVE TextIsKept
  OBVIOUS
<1>1. conversion \in Conversion
  BY DEF TextInv
<1>2. HrefIsJoined
  <2> SUFFICES ASSUME stringsPc = "done", conversion.kind = "href",
                      WellFormed(conversion.href), WellFormed(conversion.url),
                      IsAscii(NameOf(conversion.url))
               PROVE  res = BaseOf(conversion.url) \o conversion.href
    BY DEF HrefIsJoined, NameOf, BaseOf
  <2>1. conversion.url \in IndexURLs /\ conversion.href \in Hrefs
    BY <1>1 DEF Conversion
  <2>2. conversion.url \in Seq(CodeUnit) /\ conversion.href \in Seq(CodeUnit)
    BY <2>1, InputsAre
  <2>3. Proper(conversion)
    BY <2>2 DEF Proper, Formed
  <2> QED
    BY <2>3 DEF TextInv, TextOf
<1>3. AsciiTagsAreEscaped
  <2> SUFFICES ASSUME stringsPc = "done", conversion.kind = "tag", IsAscii(conversion.tag)
               PROVE  /\ \A k \in DOMAIN res : res[k] \notin {LessThan, GreaterThan}
                      /\ res = Escape(conversion.tag)
    BY DEF AsciiTagsAreEscaped
  <2>1. conversion.tag \in Tags
    BY <1>1 DEF Conversion
  <2>2. conversion.tag \in Seq(CodeUnit)
    BY <2>1, InputsAre
  <2>3. Proper(conversion) /\ TextOf(conversion) = Escape(conversion.tag)
    BY <2>2 DEF Proper, TextOf
  <2>4. res = Escape(conversion.tag)
    BY <2>3 DEF TextInv
  <2>5. Escape(conversion.tag) \in Seq(Plain)
    BY <2>2, EscapedIs
  <2> QED
    BY <2>4, <2>5, PlainIs
<1> QED
  BY <1>2, <1>3 DEF TextIsKept

(***************************************************************************)
(* No conversion loses or joins characters: the address of an entry is the *)
(* index's without the file's name and the entry's own, whatever runs of   *)
(* bytes reach across the joint, and an ASCII tag keeps all but its        *)
(* brackets.                                                               *)
(***************************************************************************)
THEOREM TextIsKeptAlways == StringsSpec => []TextIsKept
<1>1. StringsInit => TextInv
  <2> SUFFICES ASSUME StringsInit PROVE TextInv
    OBVIOUS
  <2>1. conversion = [kind |-> "none"] /\ stringsPc = "idle"
    BY DEF StringsInit
  <2>2. conversion \in Conversion
    BY <2>1 DEF Conversion
  <2> QED
    BY <2>1, <2>2 DEF TextInv
<1>2. TextInv /\ [StringsNext]_stringsVars => TextInv'
  BY TextNext
<1>3. TextInv => TextIsKept
  BY TextHolds
<1> QED
  BY <1>1, <1>2, <1>3, PTL DEF StringsSpec

-----------------------------------------------------------------------------
(***************************************************************************)
(* Types of a slice.  Nothing is asked while no message is being written,  *)
(* and the message ends with the upper bound.                              *)
(***************************************************************************)
SliceTypes ==
  /\ L \in 0 .. MaxInt
  /\ slicePc # "message" => asked = <<>>
  /\ IF slicePc = "raised" THEN sliceThrown.kind = "Error" ELSE sliceThrown = None

LEMMA HalfLengths ==
  ASSUME NEW i, NEW h, NEW a, NEW m, Half(i, h, a, m)
  PROVE  Len(a) <= 3 /\ Len(m) <= 6
<1>1. /\ Len(<<i, 0, h>>) = 3 /\ Len(<<0, h>>) = 2 /\ Len(<<h>>) = 1
  OBVIOUS
<1>2. Len(<<>>) = 0
  OBVIOUS
<1> DEFINE u == Dollar(i)
           v == Dollar(0)
           w == Dollar(h)
<1>3. /\ Len(<<"index ", u>>) = 2 /\ Len(<<"index ", u, " not in ", v>>) = 4
      /\ Len(<<"index ", u, " not in ", v, " .. ", w>>) = 6
  <2> HIDE DEF u, v, w
  <2> QED
    OBVIOUS
<1>4. Said(i, h) = <<"index ", u, " not in ", v, " .. ", w>>
  BY DEF Said
<1> HIDE DEF u, v, w
<1>5. Len(Said(i, h)) = 6
  BY <1>3, <1>4
<1>6. CASE a = <<i, 0, h>> /\ m = <<>>
  <2>1. Len(a) = 3 /\ Len(m) = 0
    BY <1>1, <1>2, <1>6, Zenon
  <2> QED
    BY <2>1
<1>7. CASE a = <<0, h>> /\ m = <<"index ", u>>
  <2>1. Len(a) = 2 /\ Len(m) = 2
    BY <1>1, <1>3, <1>7, Zenon
  <2> QED
    BY <2>1
<1>8. CASE a = <<h>> /\ m = <<"index ", u, " not in ", v>>
  <2>1. Len(a) = 1 /\ Len(m) = 4
    BY <1>1, <1>3, <1>8, Zenon
  <2> QED
    BY <2>1
<1>9. CASE a = <<>> /\ m = Said(i, h)
  <2>1. Len(a) = 0 /\ Len(m) = 6
    BY <1>2, <1>5, <1>9, Zenon
  <2> QED
    BY <2>1
<1> QED
  BY <1>6, <1>7, <1>8, <1>9, Zenon DEF Half, u, v

LEMMA RaisedKind ==
  \A name, text : RaiseException(name, text, 0).kind = "Error"
BY DEF RaiseException

LEMMA SliceTypesNext == SliceInv /\ SliceTypes /\ [SliceNext]_sliceVars => SliceTypes'
<1> SUFFICES ASSUME SliceInv, SliceTypes, [SliceNext]_sliceVars PROVE SliceTypes'
  OBVIOUS
<1>1. ASSUME NEW name, NEW text, RaiseInSlice(name, text), asked = <<>> PROVE SliceTypes'
  BY <1>1, RaisedKind DEF RaiseInSlice, SliceTypes
<1>2. CASE UNCHANGED sliceVars
  BY <1>2 DEF sliceVars, sliceCall, SliceTypes
<1>3. CASE Measure
  <2>1. asked = <<>>
    BY <1>3 DEF Measure, SliceTypes
  <2>2. \/ RaiseInSlice("OverflowDefect", OverflowMessage)
        \/ RaiseInSlice("RangeDefect", RangeMessage)
        \/ /\ InRange(Length, 0, MaxInt) /\ L' = Length /\ slicePc' = "copy" /\ slicePc = "measure"
           /\ UNCHANGED <<asked, sliceThrown>>
    BY <1>3 DEF Measure
  <2>3. Length \in Int
    BY DEF SliceInv, CallOK, Length
  <2>4. CASE InRange(Length, 0, MaxInt) /\ L' = Length /\ slicePc' = "copy" /\ slicePc = "measure"
             /\ UNCHANGED <<asked, sliceThrown>>
    BY <2>3, <2>4, MaxIntAssumption DEF InRange, SliceTypes
  <2> QED
    BY <1>1, <2>1, <2>2, <2>4
<1>4. CASE CopyByte \/ ReturnSlice
  BY <1>4 DEF CopyByte, ReturnSlice, SliceTypes
<1>5. CASE FailIndex
  <2>1. asked = <<>>
    BY <1>5 DEF FailIndex, SliceTypes
  <2>2. \/ RaiseInSlice("OverflowDefect", OverflowMessage)
        \/ RaiseInSlice("IndexDefect", NoElementsMessage)
        \/ slicePc = "copy" /\ slicePc' = "message" /\ UNCHANGED <<L, sliceThrown>>
    BY <1>5 DEF FailIndex
  <2>3. CASE slicePc = "copy" /\ slicePc' = "message" /\ UNCHANGED <<L, sliceThrown>>
    BY <2>3 DEF SliceTypes
  <2> QED
    BY <1>1, <2>1, <2>2, <2>3
<1>6. CASE WriteNumber
  BY <1>6 DEF WriteNumber, SliceTypes
<1>7. CASE RaiseIndexError
  BY <1>1, <1>7 DEF RaiseIndexError
<1> QED
  BY <1>2, <1>3, <1>4, <1>5, <1>6, <1>7 DEF SliceNext

(***************************************************************************)
(* A copy of a part of a string stays within its result, and a message has *)
(* three numbers at most, whatever part is asked for.                      *)
(***************************************************************************)
THEOREM SliceTypeCorrect == SliceSpec => []SliceTypeOK
<1>1. SliceInit => SliceInv /\ SliceTypes
  <2>1. SliceInit => SliceTypes
    BY MaxIntAssumption DEF SliceInit, SliceTypes
  <2> QED
    BY <2>1, SliceInit_
<1>2. SliceInv /\ SliceTypes /\ [SliceNext]_sliceVars => (SliceInv /\ SliceTypes)'
  BY SliceNext_, SliceTypesNext
<1>3. SliceInv /\ SliceTypes => SliceTypeOK
  <2> SUFFICES ASSUME SliceInv, SliceTypes PROVE SliceTypeOK
    OBVIOUS
  <2>1. copied \in 0 .. L /\ Len(part) = L
    BY DEF SliceInv, CopiedRight
  <2>2. Len(asked) <= 3 /\ Len(message) <= 6
    <3>0. Len(<<>>) <= 3 /\ Len(<<>>) <= 6
      OBVIOUS
    <3>1. CASE slicePc = "message"
      <4>1. Half(copied + start, High, asked, message)
        BY <3>1 DEF SliceInv, HalfWritten
      <4> QED
        BY <4>1, HalfLengths
    <3>2. CASE slicePc = "raised"
      <4>1. asked = <<>>
        BY <3>2 DEF SliceTypes
      <4>2. CASE message = <<>>
        BY <3>0, <4>1, <4>2
      <4>3. CASE message # <<>>
        <5>1. message = Said(copied + start, High)
          BY <3>2, <4>3 DEF SliceInv
        <5>2. Half(copied + start, High, asked, message)
          BY <4>1, <5>1 DEF Half
        <5> QED
          BY <5>2, HalfLengths
      <4> QED
        BY <4>2, <4>3
    <3>3. CASE slicePc \in {"measure", "copy", "done"}
      <4>1. asked = <<>> /\ message = <<>>
        BY <3>3 DEF SliceInv, SliceTypes
      <4> QED
        BY <3>0, <4>1
    <3>4. slicePc \in {"measure", "copy", "message", "done", "raised"}
      BY DEF SliceInv
    <3> QED
      BY <3>1, <3>2, <3>3, <3>4
  <2> QED
    BY <2>1, <2>2 DEF SliceInv, SliceTypes, SliceTypeOK
<1> QED
  BY <1>1, <1>2, <1>3, PTL DEF SliceSpec

-----------------------------------------------------------------------------
(***************************************************************************)
(* Types of strings.  Bytes and characters of percent text are code units, *)
(* and every conversion, of whatever units, gives units again.             *)
(***************************************************************************)
PercentText == Seq(0 .. 127)

LEMMA AreUnits ==
  /\ \A x \in 0 .. 255 : x \in CodeUnit
  /\ \A x \in 0 .. 127 : x \in CodeUnit
<1>1. \A x \in 0 .. 255 : x \in Nat /\ x <= 65535
  BY SMT
<1>2. \A x \in 0 .. 127 : x \in Nat /\ x <= 65535
  BY SMT
<1> QED
  BY <1>1, <1>2, UnitIs

LEMMA WiderSeq ==
  ASSUME NEW S, NEW T, \A x \in S : x \in T, NEW s \in Seq(S)
  PROVE  s \in Seq(T)
<1>1. Len(s) \in Nat /\ DOMAIN s = 1 .. Len(s) /\ \A k \in 1 .. Len(s) : s[k] \in S
  BY LenProperties, ElementOfSeq
<1>2. s \in [1 .. Len(s) -> T]
  <2>1. s = [k \in 1 .. Len(s) |-> s[k]]
    BY <1>1
  <2> QED
    BY <1>1, <2>1
<1> QED
  BY <1>1, <1>2

LEMMA TextIsUnits ==
  /\ \A s \in Seq(Byte) : s \in Seq(CodeUnit)
  /\ \A s \in PercentText : s \in Seq(CodeUnit)
<1>1. \A x \in Byte : x \in CodeUnit
  BY AreUnits DEF Byte
<1>2. ASSUME NEW s \in Seq(Byte) PROVE s \in Seq(CodeUnit)
  BY <1>1, WiderSeq
<1>3. ASSUME NEW s \in PercentText PROVE s \in Seq(CodeUnit)
  <2>1. \A x \in 0 .. 127 : x \in CodeUnit
    BY AreUnits
  <2>2. s \in Seq(0 .. 127)
    BY DEF PercentText
  <2> QED
    BY <2>1, <2>2, WiderSeq
<1> QED
  BY <1>2, <1>3

LEMMA EscapedUnits ==
  ASSUME NEW x \in Seq(CodeUnit)
  PROVE  Escape(x) \in Seq(CodeUnit)
<1> DEFINE piece(k) == IF x[k] = LessThan THEN LessEntity
                       ELSE IF x[k] = GreaterThan THEN GreaterEntity
                       ELSE <<x[k]>>
           n == Len(x)
           ss == [k \in 1 .. n |-> piece(k)]
<1>0. n \in Nat /\ DOMAIN x = 1 .. n /\ \A k \in 1 .. n : x[k] \in CodeUnit
  BY LenProperties, ElementOfSeq
<1>1. LessEntity \in Seq(CodeUnit) /\ GreaterEntity \in Seq(CodeUnit)
  <2>1. LessEntity \in Seq(0 .. 127) /\ GreaterEntity \in Seq(0 .. 127)
    BY DEF LessEntity, GreaterEntity
  <2> QED
    BY <2>1, TextIsUnits DEF PercentText
<1>2. ASSUME NEW k \in 1 .. n PROVE piece(k) \in Seq(CodeUnit)
  <2>1. x[k] \in CodeUnit
    BY <1>0
  <2>2. <<x[k]>> \in Seq(CodeUnit)
    BY <2>1
  <2> QED
    BY <1>1, <2>2
<1>3. ss \in Seq(Seq(CodeUnit))
  <2> HIDE DEF piece
  <2>1. ss \in [1 .. n -> Seq(CodeUnit)]
    BY <1>2
  <2> HIDE DEF ss
  <2> QED
    BY <1>0, <2>1
<1>4. Escape(x) = FlattenSeq(ss)
  BY <1>0 DEF Escape
<1> QED
  BY <1>3, <1>4, FlattenIn

\* Code points of units: of one that is no surrogate, and of two as a pair.
LEMMA PointsOf ==
  /\ \A c \in CodeUnit : ~IsSurrogate(c) => c \in Scalar
  /\ \A a, b \in TenBits : 65536 + a * 1024 + b \in Scalar
<1>1. ASSUME NEW c \in CodeUnit, ~IsSurrogate(c) PROVE c \in Scalar
  <2>1. c \in Nat /\ c <= 65535
    BY UnitIs
  <2>2. c <= LastScalar
    BY SMT, <2>1, LastScalarIs
  <2> QED
    BY <1>1, <2>1, <2>2 DEF Scalar
<1>2. ASSUME NEW a \in TenBits, NEW b \in TenBits PROVE 65536 + a * 1024 + b \in Scalar
  <2> DEFINE c == 65536 + a * 1024 + b
  <2>1. c \in Nat /\ 65536 <= c /\ c <= 16 * 65536 + 65535
    BY SMT DEF TenBits
  <2> HIDE DEF c
  <2>2. c \in Nat /\ c <= LastScalar /\ ~(c <= 57343)
    BY SMT, <2>1, LastScalarIs
  <2>3. ~IsSurrogate(c)
    BY <2>2, SurrogateIs
  <2>4. c \in Scalar
    BY <2>2, <2>3 DEF Scalar
  <2> QED
    BY <2>4 DEF c
<1> QED
  BY <1>1, <1>2

\* The bytes of any string, well formed or not.
LEMMA EncodedUnits ==
  ASSUME NEW x \in Seq(CodeUnit)
  PROVE  CstrToNimstr(x) \in Seq(Byte)
<1> DEFINE N == Len(x) + 2
           g == EncodedFrom(x)
           G == {k \in 1 .. N : g[k] \in Seq(Byte)}
<1>0. Len(x) \in Nat /\ N \in Int /\ 1 \in 1 .. N /\ \A k \in 1 .. Len(x) : x[k] \in CodeUnit
  BY LenProperties, ElementOfSeq
<1>1. \A k \in 1 .. N : g[k] = EncodedStep(x, g, k)
  BY <1>0, EncodedSolved
<1>2. <<>> \in Seq(Byte)
  OBVIOUS
<1>3. \A c \in CodeUnit : c % 1024 \in TenBits
  <2> SUFFICES ASSUME NEW c \in CodeUnit PROVE c % 1024 \in TenBits
    OBVIOUS
  <2>1. c \in Nat
    BY UnitIs
  <2> QED
    BY SMT, <2>1 DEF TenBits
<1> HIDE DEF g
<1>4. ASSUME NEW k \in 1 .. N, \A m \in k + 1 .. N : m \in G PROVE k \in G
  <2>1. CASE k > Len(x)
    BY <1>1, <1>2, <2>1 DEF EncodedStep
  <2>2. CASE ~(k > Len(x))
    <3>1. k \in 1 .. Len(x) /\ k + 1 \in k + 1 .. N /\ k + 2 \in k + 1 .. N
      BY <1>0, <2>2
    <3>2. x[k] \in CodeUnit /\ g[k + 1] \in Seq(Byte) /\ g[k + 2] \in Seq(Byte)
      BY <1>0, <1>4, <3>1
    <3>3. CASE IsSurrogate(x[k])
      <4>1. LowHalf(x, k) \in TenBits
        <5>1. CASE k < Len(x)
          <6>1. x[k + 1] \in CodeUnit
            BY <1>0, <3>1, <5>1
          <6> QED
            BY <1>3, <5>1, <6>1 DEF LowHalf
        <5>2. CASE ~(k < Len(x))
          BY <5>2 DEF LowHalf, TenBits
        <5> QED
          BY <5>1, <5>2
      <4>2. x[k] % 1024 \in TenBits
        BY <1>3, <3>2
      <4>3. PairAt(x, k) \in Scalar
        BY <4>1, <4>2, PointsOf DEF PairAt
      <4>4. Utf8(PairAt(x, k)) \o g[k + 2] \in Seq(Byte)
        BY <3>2, <4>3, BytesAre, ConcatProperties
      <4>5. g[k] = Utf8(PairAt(x, k)) \o g[k + 2]
        BY <1>1, <2>2, <3>3 DEF EncodedStep
      <4> QED
        BY <4>4, <4>5
    <3>4. CASE ~IsSurrogate(x[k])
      <4>1. x[k] \in Scalar
        BY <3>2, <3>4, PointsOf
      <4>2. Utf8(x[k]) \o g[k + 1] \in Seq(Byte)
        BY <3>2, <4>1, BytesAre, ConcatProperties
      <4>3. g[k] = Utf8(x[k]) \o g[k + 1]
        BY <1>1, <2>2, <3>4 DEF EncodedStep
      <4> QED
        BY <4>2, <4>3
    <3> QED
      BY <3>3, <3>4
  <2> QED
    BY <2>1, <2>2
<1>5. 1 .. N \subseteq G
  <2> HIDE DEF G, N
  <2>1. \A k \in 1 .. N : (\A m \in k + 1 .. N : m \in G) => k \in G
    BY <1>4
  <2> QED
    BY <1>0, <2>1, DownInduction
<1>6. g[1] \in Seq(Byte)
  BY <1>0, <1>5
<1> QED
  BY <1>6, EncodedIs DEF g

LEMMA SliceIn ==
  ASSUME NEW S, NEW x \in Seq(S), NEW n \in Nat, SliceLength(x, 0, n + 1) >= 0
  PROVE  Slice(x, 0, n + 1) \in Seq(S)
<1> DEFINE l == SliceLength(x, 0, n + 1)
           y == Slice(x, 0, n + 1)
<1>1. Len(x) \in Nat /\ \A k \in 1 .. Len(x) : x[k] \in S
  BY LenProperties, ElementOfSeq
<1>2. l \in Nat /\ l <= Len(x)
  BY <1>1 DEF SliceLength
<1>3. y = [k \in 1 .. l |-> At(x, 0 + k - 1)]
  BY DEF Slice
<1> HIDE DEF l, y
<1>4. ASSUME NEW k \in 1 .. l PROVE At(x, 0 + k - 1) \in S
  <2>1. 0 + k - 1 + 1 = k /\ k \in 1 .. Len(x)
    BY <1>1, <1>2
  <2> QED
    BY <1>1, <2>1 DEF At
<1>5. y \in [1 .. l -> S]
  BY <1>3, <1>4
<1>6. y \in Seq(S)
  BY <1>2, <1>5
<1> QED
  BY <1>6 DEF y

LEMMA DigitsText ==
  ASSUME NEW c \in CodeUnit
  PROVE  Digits(c) \in PercentText
<1> DEFINE all == <<c \div 4096, (c \div 256) % 16, (c \div 16) % 16, c % 16>>
           Kept(k) == all[k] # 0 /\ \A l \in 1 .. k - 1 : all[l] = 0
           kept == IF c < 16 THEN 3 ELSE CHOOSE k \in 1 .. 3 : Kept(k)
<1>1. c \in Nat /\ c <= 65535
  BY UnitIs
<1> DEFINE d1 == c \div 4096
           d2 == (c \div 256) % 16
           d3 == (c \div 16) % 16
           d4 == c % 16
<1>2. d1 \in 0 .. 15 /\ d2 \in 0 .. 15 /\ d3 \in 0 .. 15 /\ d4 \in 0 .. 15
  BY SMT, <1>1
<1>3. ~(c < 16) => d1 # 0 \/ d2 # 0 \/ d3 # 0
  BY SMT, <1>1
<1>4. all[1] = d1 /\ all[2] = d2 /\ all[3] = d3 /\ all[4] = d4
  OBVIOUS
<1> HIDE DEF all, d1, d2, d3, d4
<1>5. \A k \in 1 .. 4 : k = 1 \/ k = 2 \/ k = 3 \/ k = 4
  OBVIOUS
<1>6. \A k \in 1 .. 4 : all[k] \in 0 .. 15
  BY <1>2, <1>4, <1>5
<1>7. ~(c < 16) => \E k \in 1 .. 3 : Kept(k)
  <2> SUFFICES ASSUME ~(c < 16) PROVE \E k \in 1 .. 3 : Kept(k)
    OBVIOUS
  <2>1. 1 \in 1 .. 3 /\ 2 \in 1 .. 3 /\ 3 \in 1 .. 3
    OBVIOUS
  <2>2. /\ \A l \in 1 .. 1 - 1 : FALSE
        /\ \A l \in 1 .. 2 - 1 : l = 1
        /\ \A l \in 1 .. 3 - 1 : l = 1 \/ l = 2
    OBVIOUS
  <2>3. CASE d1 # 0
    <3>1. Kept(1)
      BY <1>4, <2>2, <2>3
    <3> QED
      BY <2>1, <3>1
  <2>4. CASE d1 = 0 /\ d2 # 0
    <3>1. Kept(2)
      BY <1>4, <2>2, <2>4
    <3> QED
      BY <2>1, <3>1
  <2>5. CASE d1 = 0 /\ d2 = 0 /\ d3 # 0
    <3>1. Kept(3)
      BY <1>4, <2>2, <2>5
    <3> QED
      BY <2>1, <3>1
  <2> QED
    BY <1>3, <2>3, <2>4, <2>5
<1>8. Digits(c) = [k \in 1 .. 5 - kept |-> HexDigit(all[kept + k - 1])]
  BY DEF Digits, all
<1> HIDE DEF Kept
<1>9. kept \in 1 .. 3
  <2>1. CASE c < 16
    BY <2>1
  <2>2. CASE ~(c < 16)
    BY <1>7, <2>2
  <2> QED
    BY <2>1, <2>2
<1> HIDE DEF kept
<1>10. ASSUME NEW k \in 1 .. 5 - kept PROVE HexDigit(all[kept + k - 1]) \in 0 .. 127
  <2>1. kept + k - 1 \in 1 .. 4
    BY <1>9
  <2>2. all[kept + k - 1] \in 0 .. 15
    BY <1>6, <2>1
  <2> QED
    BY <2>2, HexIs
<1>11. 5 - kept \in Nat
  BY <1>9
<1> DEFINE n == 5 - kept
           y == Digits(c)
<1>12. y \in [1 .. n -> 0 .. 127]
  BY <1>8, <1>10
<1> HIDE DEF n, y
<1>13. n \in Nat
  BY <1>11 DEF n
<1>14. y \in Seq(0 .. 127)
  BY <1>12, <1>13
<1> QED
  BY <1>14 DEF y, PercentText

LEMMA UnitsOfPoint == \A c \in Scalar : Utf16(c) \in Seq(CodeUnit)
BY UnitsAreFormed DEF Formed

\* What a run of bytes stands for is a code point.
LEMMA RunIsPoint ==
  ASSUME NEW t, NEW k \in Nat, IsRun(t, k)
  PROVE  CodeAt(t, k) \in Scalar /\ RunSize(ByteAt(t, k)) \in 2 .. 4
<1> DEFINE b == ByteAt(t, k)
           n == RunSize(b)
           u(j) == ByteAt(t, k + 3 * j)
           c == CodeAt(t, k)
<1>1. /\ n > 0 /\ \A j \in 1 .. n - 1 : IsTail(u(j))
      /\ c < 1114112 /\ ~IsSurrogate(c)
  BY SMT DEF IsRun
<1>2. \/ n = 2 /\ b \in 194 .. 223
      \/ n = 3 /\ b \in 224 .. 239
      \/ n = 4 /\ b \in 240 .. 244
  BY SMT, <1>1 DEF RunSize
<1>3. u(1) = ByteAt(t, k + 3) /\ u(2) = ByteAt(t, k + 6) /\ u(3) = ByteAt(t, k + 9)
  <2>1. k + 3 * 1 = k + 3 /\ k + 3 * 2 = k + 6 /\ k + 3 * 3 = k + 9
    OBVIOUS
  <2> QED
    BY <2>1
<1>4. /\ n = 2 => c = (b - 192) * 64 + u(1) - 128
      /\ n = 3 => c = (b - 224) * 4096 + (u(1) - 128) * 64 + u(2) - 128
      /\ n = 4 => c = (b - 240) * 262144 + (u(1) - 128) * 4096 + (u(2) - 128) * 64 + u(3) - 128
  BY SMT, <1>3 DEF CodeAt
<1> HIDE DEF b, n, u, c
<1>5. \A x : IsTail(x) => x \in Nat /\ 128 <= x
  BY DEF IsTail
<1>6. c \in Nat /\ n \in 2 .. 4
  <2>1. CASE n = 2 /\ b \in 194 .. 223
    <3>1. b \in Nat /\ 192 <= b /\ u(1) \in Nat /\ 128 <= u(1)
      <4>1. 1 \in 1 .. n - 1
        BY <2>1
      <4> QED
        BY SMT, <1>1, <1>5, <2>1, <4>1
    <3>2. (b - 192) * 64 + u(1) - 128 \in Nat
      BY SMT, <3>1
    <3> QED
      BY SMT, <1>4, <2>1, <3>2
  <2>2. CASE n = 3 /\ b \in 224 .. 239
    <3>1. b \in Nat /\ 224 <= b /\ u(1) \in Nat /\ 128 <= u(1) /\ u(2) \in Nat /\ 128 <= u(2)
      <4>1. 1 \in 1 .. n - 1 /\ 2 \in 1 .. n - 1
        BY <2>2
      <4> QED
        BY SMT, <1>1, <1>5, <2>2, <4>1
    <3>2. (b - 224) * 4096 + (u(1) - 128) * 64 + u(2) - 128 \in Nat
      BY SMT, <3>1
    <3> QED
      BY SMT, <1>4, <2>2, <3>2
  <2>3. CASE n = 4 /\ b \in 240 .. 244
    <3>1. /\ b \in Nat /\ 240 <= b /\ u(1) \in Nat /\ 128 <= u(1) /\ u(2) \in Nat /\ 128 <= u(2)
          /\ u(3) \in Nat /\ 128 <= u(3)
      <4>1. 1 \in 1 .. n - 1 /\ 2 \in 1 .. n - 1 /\ 3 \in 1 .. n - 1
        BY <2>3
      <4> QED
        BY SMT, <1>1, <1>5, <2>3, <4>1
    <3>2. (b - 240) * 262144 + (u(1) - 128) * 4096 + (u(2) - 128) * 64 + u(3) - 128 \in Nat
      BY SMT, <3>1
    <3> QED
      BY SMT, <1>4, <2>3, <3>2
  <2> QED
    BY SMT, <1>2, <2>1, <2>2, <2>3
<1>7. c <= LastScalar
  BY SMT, <1>1, <1>6 DEF LastScalar
<1>8. c \in Scalar
  BY SMT, <1>1, <1>6, <1>7 DEF Scalar
<1> QED
  BY SMT, <1>6, <1>8 DEF b, n, c

LEMMA JoinOrFail ==
  ASSUME NEW u \in Seq(CodeUnit), NEW v \in Seq(CodeUnit) \cup {Failure}
  PROVE  AndThen(u, v) \in Seq(CodeUnit) \cup {Failure}
<1>1. CASE v = Failure
  BY <1>1 DEF AndThen
<1>2. CASE v \in Seq(CodeUnit)
  <2>1. u # Failure /\ v # Failure
    BY <1>2, NoFailure
  <2>2. u \o v \in Seq(CodeUnit)
    BY <1>2, ConcatProperties
  <2> QED
    BY <2>1, <2>2 DEF AndThen
<1> QED
  BY <1>1, <1>2

\* Whatever percent text it is given, the decoding gives units or fails.
LEMMA DecodedUnits ==
  ASSUME NEW t \in PercentText
  PROVE  DecodeURIComponent(t) \in Seq(CodeUnit) \cup {Failure}
<1> DEFINE N == Len(t) + 12
           g == DecodedFrom(t)
           W == Seq(CodeUnit) \cup {Failure}
           G == {k \in 1 .. N : g[k] \in W}
<1>0. /\ Len(t) \in Nat /\ N \in Int /\ 1 \in 1 .. N
      /\ \A k \in 1 .. Len(t) : t[k] \in 0 .. 127
  BY LenProperties, ElementOfSeq DEF PercentText
<1>1. \A k \in 1 .. N : g[k] = DecodedStep(t, g, k)
  BY <1>0, DecodedSolved
<1>2. <<>> \in W /\ Failure \in W
  <2>1. <<>> \in Seq(CodeUnit)
    OBVIOUS
  <2> QED
    BY <2>1
<1>3. \A x \in 0 .. 127 : <<x>> \in Seq(CodeUnit)
  BY AreUnits
<1>4. \A u \in Seq(CodeUnit) : \A v \in W : AndThen(u, v) \in W
  BY JoinOrFail
<1> HIDE DEF g, W
<1>5. ASSUME NEW k \in 1 .. N, \A m \in k + 1 .. N : m \in G PROVE k \in G
  <2>1. CASE k > Len(t)
    BY <1>1, <1>2, <2>1 DEF DecodedStep
  <2>2. CASE ~(k > Len(t))
    <3>1. k \in 1 .. Len(t) /\ k \in Nat /\ \A j \in 1 .. 12 : k + j \in k + 1 .. N
      BY <1>0, <2>2
    <3>2. t[k] \in 0 .. 127 /\ \A j \in 1 .. 12 : g[k + j] \in W
      BY <1>0, <1>5, <3>1
    <3>3. g[k] = DecodedStep(t, g, k)
      BY <1>1
    <3>4. g[k + 1] \in W /\ g[k + 3] \in W
      <4>1. 1 \in 1 .. 12 /\ 3 \in 1 .. 12
        OBVIOUS
      <4> QED
        BY <3>2, <4>1
    <3>5. CASE t[k] # Percent
      <4>1. g[k] = AndThen(<<t[k]>>, g[k + 1])
        BY <2>2, <3>3, <3>5 DEF DecodedStep
      <4> QED
        BY <1>3, <1>4, <3>2, <3>4, <4>1
    <3>6. CASE t[k] = Percent /\ ByteAt(t, k) \in 0 .. 127
      <4>1. g[k] = AndThen(<<ByteAt(t, k)>>, g[k + 3])
        BY <2>2, <3>3, <3>6 DEF DecodedStep
      <4> QED
        BY <1>3, <1>4, <3>4, <3>6, <4>1
    <3>7. CASE t[k] = Percent /\ ByteAt(t, k) \notin 0 .. 127 /\ IsRun(t, k)
      <4> DEFINE n == RunSize(ByteAt(t, k))
                 u == Utf16(CodeAt(t, k))
      <4>1. g[k] = AndThen(u, g[k + 3 * n])
        BY <2>2, <3>3, <3>7 DEF DecodedStep
      <4>2. u \in Seq(CodeUnit) /\ n \in 2 .. 4
        BY <3>1, <3>7, RunIsPoint, UnitsOfPoint
      <4> HIDE DEF n, u
      <4>3. 3 * n \in 1 .. 12
        BY <4>2
      <4>4. g[k + 3 * n] \in W
        BY <3>2, <4>3
      <4> QED
        BY <1>4, <4>1, <4>2, <4>4
    <3>8. CASE t[k] = Percent /\ ByteAt(t, k) \notin 0 .. 127 /\ ~IsRun(t, k)
      <4>1. g[k] = Failure
        BY <2>2, <3>3, <3>8 DEF DecodedStep
      <4> QED
        BY <1>2, <4>1
    <3> QED
      BY <3>5, <3>6, <3>7, <3>8
  <2> QED
    BY <2>1, <2>2
<1>6. 1 .. N \subseteq G
  <2> HIDE DEF G, N
  <2>1. \A k \in 1 .. N : (\A m \in k + 1 .. N : m \in G) => k \in G
    BY <1>5
  <2> QED
    BY <1>0, <2>1, DownInduction
<1>7. g[1] \in W
  BY <1>0, <1>6
<1> QED
  BY <1>7, DecodedIs DEF g, W

(***************************************************************************)
(* The position stays within the string: a run goes on only where another  *)
(* byte follows.                                                           *)
(***************************************************************************)
StringsTypes ==
  /\ nimStr \in Seq(CodeUnit) /\ strPos \in 0 .. Len(nimStr)
  /\ helper \in PercentText /\ res \in Seq(CodeUnit)
  /\ {lastJSError, prevJSError} \subseteq {NoError, "URIError"}
  /\ stringsPc \in {"idle", "scan", "run", "try", "catch", "done", "raised"}
  /\ stringsPc = "run" => strPos < Len(nimStr)

LEMMA NothingYet == <<>> \in Seq(CodeUnit) /\ <<>> \in PercentText
BY DEF PercentText

LEMMA ToJSStrTypes ==
  ASSUME NEW bytes \in Seq(CodeUnit), ToJSStr(bytes), StringsTypes
  PROVE  StringsTypes'
<1>1. Len(bytes) \in Nat
  BY LenProperties
<1>2. /\ nimStr' = bytes /\ strPos' = 0 /\ helper' = <<>> /\ res' = <<>> /\ stringsPc' = "scan"
      /\ UNCHANGED <<lastJSError, prevJSError>>
  BY DEF ToJSStr, errorVars
<1>3. strPos' \in 0 .. Len(nimStr')
  BY <1>1, <1>2
<1> QED
  BY <1>2, <1>3, NothingYet DEF StringsTypes

LEMMA StringsTypesNext == StringsTypes /\ [StringsNext]_stringsVars => StringsTypes'
<1> SUFFICES ASSUME StringsTypes, [StringsNext]_stringsVars PROVE StringsTypes'
  OBVIOUS
<1>1. /\ Len(nimStr) \in Nat /\ strPos \in Nat /\ strPos <= Len(nimStr)
      /\ \A k \in 1 .. Len(nimStr) : nimStr[k] \in CodeUnit
  BY LenProperties, ElementOfSeq DEF StringsTypes
<1>2. strPos < Len(nimStr) => At(nimStr, strPos) \in CodeUnit /\ strPos + 1 \in 0 .. Len(nimStr)
  BY <1>1 DEF At
<1>3. CASE UNCHANGED stringsVars
  BY <1>3 DEF stringsVars, loopVars, errorVars, StringsTypes
<1>4. ASSUME NEW url \in IndexURLs, NEW href \in Hrefs, JoinHref(url, href) PROVE StringsTypes'
  <2> DEFINE bytes == CstrToNimstr(url)
             l == SliceLength(bytes, 0, IndexNameLength + 1)
             w == Slice(bytes, 0, IndexNameLength + 1) \o CstrToNimstr(href)
  <2>1. \/ InRange(l, 0, MaxInt) /\ ToJSStr(w)
        \/ stringsPc' = "raised" /\ UNCHANGED <<loopVars, errorVars>>
    BY <1>4 DEF JoinHref
  <2>2. CASE InRange(l, 0, MaxInt) /\ ToJSStr(w)
    <3>1. bytes \in Seq(Byte) /\ CstrToNimstr(href) \in Seq(Byte) /\ IndexNameLength \in Nat
      <4>1. url \in Seq(CodeUnit) /\ href \in Seq(CodeUnit)
        BY InputsAre
      <4> QED
        BY <4>1, EncodedUnits, StringsAssumption
    <3>2. l >= 0
      <4>1. l \in Int
        <5>1. Len(bytes) \in Nat
          BY <3>1, LenProperties
        <5> HIDE DEF bytes
        <5> QED
          BY <3>1, <5>1 DEF SliceLength
      <4> HIDE DEF l
      <4> QED
        BY <2>2, <4>1 DEF InRange
    <3> HIDE DEF bytes
    <3>3. Slice(bytes, 0, IndexNameLength + 1) \in Seq(Byte)
      BY <3>1, <3>2, SliceIn
    <3>4. w \in Seq(Byte)
      BY <3>1, <3>3, ConcatProperties
    <3>5. w \in Seq(CodeUnit)
      BY <3>4, TextIsUnits
    <3> QED
      BY <2>2, <3>5, ToJSStrTypes
  <2>3. CASE stringsPc' = "raised" /\ UNCHANGED <<loopVars, errorVars>>
    BY <2>3 DEF loopVars, errorVars, StringsTypes
  <2> QED
    BY <2>1, <2>2, <2>3
<1>5. ASSUME NEW tag \in Tags, EscapeCString(tag) PROVE StringsTypes'
  <2>1. tag \in Seq(CodeUnit) /\ ToJSStr(Escape(tag))
    BY <1>5, InputsAre DEF EscapeCString
  <2> QED
    BY <2>1, EscapedUnits, ToJSStrTypes
<1>6. CASE AsciiChar
  <2>1. /\ strPos < Len(nimStr) /\ strPos' = strPos + 1 /\ res' = Append(res, At(nimStr, strPos))
        /\ stringsPc = "scan" /\ UNCHANGED <<nimStr, helper, errorVars, stringsPc>>
    BY <1>6 DEF AsciiChar, More
  <2>2. res' \in Seq(CodeUnit)
    <3> DEFINE c == At(nimStr, strPos)
    <3>1. c \in CodeUnit /\ res \in Seq(CodeUnit) /\ res' = Append(res, c)
      BY <1>2, <2>1 DEF StringsTypes
    <3> HIDE DEF c
    <3> QED
      BY <3>1, AppendProperties
  <2> QED
    BY <1>2, <2>1, <2>2 DEF errorVars, StringsTypes
<1>7. CASE EscapeByte
  <2>1. /\ strPos < Len(nimStr)
    BY <1>7 DEF EscapeByte, More, StringsTypes
  <2>2. /\ helper' = (IF stringsPc = "scan" THEN <<>> ELSE helper) \o <<Percent>> \o Digits(At(nimStr, strPos))
        /\ strPos' = strPos + 1 /\ UNCHANGED <<nimStr, res, lastJSError, prevJSError>>
        /\ \/ stringsPc' = "run" /\ strPos' < Len(nimStr)
           \/ stringsPc' = "try"
    BY <1>7 DEF EscapeByte
  <2>3. helper' \in PercentText
    <3> DEFINE c == At(nimStr, strPos)
               h == IF stringsPc = "scan" THEN <<>> ELSE helper
    <3>1. c \in CodeUnit /\ h \in PercentText /\ helper' = (h \o <<Percent>>) \o Digits(c)
      BY <1>2, <2>1, <2>2, NothingYet DEF StringsTypes
    <3> HIDE DEF c, h
    <3>2. <<Percent>> \in PercentText /\ Digits(c) \in PercentText
      BY <3>1, DigitsText DEF Percent, PercentText
    <3>3. h \o <<Percent>> \in PercentText
      BY <3>1, <3>2, ConcatProperties DEF PercentText
    <3> QED
      BY <3>1, <3>2, <3>3, ConcatProperties DEF PercentText
  <2> QED
    BY <1>2, <2>1, <2>2, <2>3 DEF StringsTypes
<1>8. CASE DecodeRun
  <2>1. /\ DecodeURIComponent(helper) # Failure /\ res' = res \o DecodeURIComponent(helper)
        /\ stringsPc' = "scan" /\ UNCHANGED <<nimStr, strPos, helper, lastJSError, prevJSError>>
    BY <1>8 DEF DecodeRun
  <2>2. res' \in Seq(CodeUnit)
    <3>1. DecodeURIComponent(helper) \in Seq(CodeUnit) /\ res \in Seq(CodeUnit)
      BY <2>1, DecodedUnits DEF StringsTypes
    <3> QED
      BY <2>1, <3>1, ConcatProperties
  <2> QED
    BY <2>1, <2>2 DEF StringsTypes
<1>9. CASE DecodeThrows
  BY <1>9 DEF DecodeThrows, loopVars, StringsTypes
<1>10. CASE KeepPercentText
  <2>1. /\ res' = res \o helper /\ lastJSError' = prevJSError
        /\ stringsPc' = "scan" /\ UNCHANGED <<nimStr, strPos, helper, prevJSError>>
    BY <1>10 DEF KeepPercentText
  <2>2. res' \in Seq(CodeUnit)
    <3>1. helper \in Seq(CodeUnit) /\ res \in Seq(CodeUnit)
      BY TextIsUnits DEF StringsTypes
    <3> QED
      BY <2>1, <3>1, ConcatProperties
  <2> QED
    BY <2>1, <2>2 DEF StringsTypes
<1>11. CASE ReturnString
  BY <1>11 DEF ReturnString, loopVars, errorVars, StringsTypes
<1> QED
  BY <1>3, <1>4, <1>5, <1>6, <1>7, <1>8, <1>9, <1>10, <1>11 DEF StringsNext

(***************************************************************************)
(* What toJSStr returns is a JavaScript string, of whatever units the      *)
(* address or the tag is, and its position never passes the end of the     *)
(* string; the percent text that decodeURIComponent gets is ASCII.         *)
(***************************************************************************)
THEOREM StringsTypeCorrect == StringsSpec => []StringsTypeOK
<1>1. StringsInit => StringsInv /\ StringsTypes
  <2> SUFFICES ASSUME StringsInit PROVE StringsInv /\ StringsTypes
    OBVIOUS
  <2>1. Len(<<>>) = 0 /\ 0 \in 0 .. 0
    OBVIOUS
  <2>2. StringsTypes
    BY <2>1, NothingYet DEF StringsInit, StringsTypes
  <2> QED
    BY <2>2 DEF StringsInit, StringsInv
<1>2. StringsInv /\ StringsTypes /\ [StringsNext]_stringsVars => (StringsInv /\ StringsTypes)'
  BY StringsNext_, StringsTypesNext
<1>3. StringsInv /\ StringsTypes => StringsTypeOK
  BY DEF StringsInv, StringsTypes, StringsTypeOK, PercentText
<1> QED
  BY <1>1, <1>2, <1>3, PTL DEF StringsSpec
=============================================================================
