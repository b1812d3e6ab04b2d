------------------------------ MODULE TocProofs -----------------------------
(***************************************************************************)
(* Grouping the contents by type, on every page: no entry is lost or       *)
(* listed twice, every type has the routines attached to it, sorted, and a *)
(* call raises only where an entry has no heading.  What a recursive       *)
(* operator returns for an entry is proved by induction on the length of   *)
(* what lies below it, since the nodes of a page are numbered in document  *)
(* order; what the loops have done is the invariant TocInv.                *)
(***************************************************************************)
EXTENDS Toc, NimProofs

-----------------------------------------------------------------------------
(***************************************************************************)
(* FlattenSeq(ss): its i-th element is the pos[i]-th of the block[i]-th    *)
(* sequence, in this order, and every element of every sequence is there.  *)
(***************************************************************************)
Parts(ss, n, f, block, pos) ==
  /\ \A i \in 1 .. Len(f) :
       /\ block[i] \in 1 .. n /\ pos[i] \in 1 .. Len(ss[block[i]])
       /\ f[i] = ss[block[i]][pos[i]]
  /\ \A i, j \in 1 .. Len(f) :
       i < j => block[i] < block[j] \/ (block[i] = block[j] /\ pos[i] < pos[j])
  /\ \A k \in 1 .. n : \A l \in 1 .. Len(ss[k]) :
       \E i \in 1 .. Len(f) : block[i] = k /\ pos[i] = l

LEMMA PartsMore ==
  ASSUME NEW S, NEW ss, NEW n \in Nat, NEW f \in Seq(S), NEW block, NEW pos,
         Parts(ss, n, f, block, pos), ss[n + 1] \in Seq(S)
  PROVE  \E part2, pos2 : Parts(ss, n + 1, f \o ss[n + 1], part2, pos2)
<1> DEFINE r == ss[n + 1]
           h == f \o r
           part2 == [i \in 1 .. Len(h) |-> IF i <= Len(f) THEN block[i] ELSE n + 1]
           pos2  == [i \in 1 .. Len(h) |-> IF i <= Len(f) THEN pos[i] ELSE i - Len(f)]
<1>1. /\ Len(h) = Len(f) + Len(r) /\ Len(f) \in Nat /\ Len(r) \in Nat
      /\ \A k \in 1 .. Len(f) : h[k] = f[k]
      /\ \A k \in 1 .. Len(r) : h[k + Len(f)] = r[k]
  BY ConcatIs
<1>2. /\ \A i \in 1 .. Len(f) : i \in 1 .. Len(h) /\ part2[i] = block[i] /\ pos2[i] = pos[i]
      /\ \A i \in 1 .. Len(h) : i \in 1 .. Len(f) \/
           (i - Len(f) \in 1 .. Len(r) /\ i > Len(f) /\ part2[i] = n + 1 /\ pos2[i] = i - Len(f))
  BY <1>1
<1>r. ss[n + 1] = r /\ f \o ss[n + 1] = h
  OBVIOUS
<1> HIDE DEF h, r, part2, pos2
<1>3. \A i \in 1 .. Len(f) :
       /\ block[i] \in 1 .. n /\ pos[i] \in 1 .. Len(ss[block[i]])
       /\ f[i] = ss[block[i]][pos[i]]
  BY DEF Parts
<1>4. ASSUME NEW i \in 1 .. Len(h)
      PROVE  /\ part2[i] \in 1 .. n + 1 /\ pos2[i] \in 1 .. Len(ss[part2[i]])
             /\ h[i] = ss[part2[i]][pos2[i]]
  <2>1. CASE i \in 1 .. Len(f)
    <3>1. part2[i] = block[i] /\ pos2[i] = pos[i] /\ h[i] = f[i]
      BY <1>1, <1>2, <2>1
    <3>2. /\ block[i] \in 1 .. n /\ pos[i] \in 1 .. Len(ss[block[i]])
          /\ f[i] = ss[block[i]][pos[i]]
      BY <1>3, <2>1
    <3>3. block[i] \in 1 .. n + 1
      BY <3>2
    <3> QED
      BY <3>1, <3>2, <3>3
  <2>2. CASE i - Len(f) \in 1 .. Len(r) /\ i > Len(f) /\ part2[i] = n + 1 /\ pos2[i] = i - Len(f)
    <3>1. h[(i - Len(f)) + Len(f)] = r[i - Len(f)] /\ (i - Len(f)) + Len(f) = i
      BY <1>1, <2>2
    <3> QED
      BY <1>r, <2>2, <3>1
  <2> QED
    BY <1>2, <2>1, <2>2
<1>5. ASSUME NEW i \in 1 .. Len(h), NEW j \in 1 .. Len(h), i < j
      PROVE  part2[i] < part2[j] \/ (part2[i] = part2[j] /\ pos2[i] < pos2[j])
  <2>1. CASE j \in 1 .. Len(f)
    <3>1. i \in 1 .. Len(f)
      BY <1>1, <1>5, <2>1
    <3>2. block[i] < block[j] \/ (block[i] = block[j] /\ pos[i] < pos[j])
      BY <1>5, <2>1, <3>1 DEF Parts
    <3> QED
      BY <1>2, <2>1, <3>1, <3>2
  <2>2. CASE j \notin 1 .. Len(f) /\ i \in 1 .. Len(f)
    <3>1. part2[j] = n + 1 /\ part2[i] = block[i] /\ block[i] \in 1 .. n
      BY <1>2, <1>3, <2>2
    <3> QED
      BY <3>1
  <2>3. CASE j \notin 1 .. Len(f) /\ i \notin 1 .. Len(f)
    BY <1>1, <1>2, <1>5, <2>3
  <2> QED
    BY <2>1, <2>2, <2>3
<1>6. ASSUME NEW k \in 1 .. n + 1, NEW l \in 1 .. Len(ss[k])
      PROVE  \E i \in 1 .. Len(h) : part2[i] = k /\ pos2[i] = l
  <2>1. CASE k \in 1 .. n
    <3>1. PICK i \in 1 .. Len(f) : block[i] = k /\ pos[i] = l
      BY <1>6, <2>1 DEF Parts
    <3> QED
      BY <1>2, <3>1
  <2>2. CASE k = n + 1
    <3>1. l \in 1 .. Len(r)
      BY <1>r, <2>2
    <3>2. l + Len(f) \in 1 .. Len(h) /\ l + Len(f) \notin 1 .. Len(f) /\ (l + Len(f)) - Len(f) = l
      BY <1>1, <3>1
    <3> QED
      BY <1>2, <2>2, <3>2
  <2>3. k \in 1 .. n \/ k = n + 1
    OBVIOUS
  <2> QED
    BY <2>1, <2>2, <2>3
<1>7. Parts(ss, n + 1, h, part2, pos2)
  BY <1>4, <1>5, <1>6 DEF Parts
<1> QED
  BY <1>7, <1>r

LEMMA FlattenParts ==
  ASSUME NEW S, NEW ss \in Seq(Seq(S))
  PROVE  /\ FlattenSeq(ss) \in Seq(S)
         /\ \E block, pos : Parts(ss, Len(ss), FlattenSeq(ss), block, pos)
<1> DEFINE n == Len(ss)
           G == {m \in Nat : m \in 1 .. n =>
                   /\ Flattened(ss)[m] \in Seq(S)
                   /\ \E block, pos : Parts(ss, m, Flattened(ss)[m], block, pos)}
<1>0. n \in Nat /\ \A i \in 1 .. n : ss[i] \in Seq(S)
  BY LenProperties, ElementOfSeq
<1>1. ASSUME NEW m \in Nat, \A l \in 0 .. m - 1 : l \in G PROVE m \in G
  <2> SUFFICES ASSUME m \in 1 .. n
               PROVE  /\ Flattened(ss)[m] \in Seq(S)
                      /\ \E block, pos : Parts(ss, m, Flattened(ss)[m], block, pos)
    OBVIOUS
  <2>1. Flattened(ss)[m] = FlattenStep(ss, Flattened(ss), m)
    BY <1>0, FlattenSolved
  <2>2. CASE m = 1
    <3>1. Flattened(ss)[m] = ss[1] /\ ss[1] \in Seq(S)
      BY <1>0, <2>1, <2>2 DEF FlattenStep
    <3> DEFINE r == ss[1]
               block == [i \in 1 .. Len(r) |-> 1]
               pos == [i \in 1 .. Len(r) |-> i]
    <3>2. Len(r) \in Nat
      BY <3>1, LenProperties
    <3>3. Parts(ss, 1, r, block, pos)
      <4>1. \A i \in 1 .. Len(r) : block[i] = 1 /\ pos[i] = i
        OBVIOUS
      <4>2. \A k \in 1 .. 1 : k = 1
        OBVIOUS
      <4> HIDE DEF block, pos
      <4> QED
        BY <3>2, <4>1, <4>2 DEF Parts
    <3> QED
      BY <2>2, <3>1, <3>3
  <2>3. CASE m # 1
    <3>1. m - 1 \in 0 .. m - 1 /\ m - 1 \in 1 .. n /\ m - 1 \in Nat /\ (m - 1) + 1 = m
      BY <1>0, <2>3
    <3>2. /\ Flattened(ss)[m - 1] \in Seq(S) /\ ss[m] \in Seq(S)
          /\ \E block, pos : Parts(ss, m - 1, Flattened(ss)[m - 1], block, pos)
      BY <1>0, <1>1, <3>1
    <3>3. Flattened(ss)[m] = Flattened(ss)[m - 1] \o ss[m]
      BY <2>1, <2>3 DEF FlattenStep
    <3>4. Flattened(ss)[m - 1] \o ss[m] \in Seq(S)
      BY <3>2, ConcatProperties
    <3> DEFINE f == Flattened(ss)[m - 1]
               l == m - 1
    <3>5. PICK block, pos : Parts(ss, l, f, block, pos)
      BY <3>2
    <3>6. l \in Nat /\ f \in Seq(S) /\ ss[l + 1] \in Seq(S)
      BY <3>1, <3>2
    <3> HIDE DEF f, l
    <3>7. \E part2, pos2 : Parts(ss, l + 1, f \o ss[l + 1], part2, pos2)
      BY <3>5, <3>6, PartsMore
    <3> QED
      BY <3>1, <3>3, <3>4, <3>7 DEF f, l
  <2> QED
    BY <2>2, <2>3
<1>2. Nat \subseteq G
  <2> HIDE DEF G
  <2> QED
    BY <1>1, SetInduction
<1>3. CASE n = 0
  <2>1. ss = <<>>
    BY <1>3, EmptySeq
  <2>2. FlattenSeq(ss) = ss
    BY <1>3, FlattenIs
  <2>3. <<>> \in Seq(S) /\ Len(<<>>) = 0
    OBVIOUS
  <2>4. Parts(ss, 0, <<>>, <<>>, <<>>)
    BY <2>3 DEF Parts
  <2> QED
    BY <1>3, <2>1, <2>2, <2>3, <2>4
<1>4. CASE n # 0
  <2>1. n \in 1 .. n
    BY <1>0, <1>4
  <2>2. /\ Flattened(ss)[n] \in Seq(S)
        /\ \E block, pos : Parts(ss, n, Flattened(ss)[n], block, pos)
    BY <1>0, <1>2, <2>1
  <2> QED
    BY <1>4, <2>2, FlattenIs
<1> QED
  BY <1>3, <1>4

-----------------------------------------------------------------------------
(***************************************************************************)
(* Pages.  What toToc adds for a node lies between the node and the last   *)
(* below it, in document order.                                            *)
(***************************************************************************)
IsPage(pg) == pg \in Seq(Node) /\ pg # <<>> /\ pg[1].tag = "UL" /\ InOrder(pg)

LEMMA PageIs ==
  ASSUME NEW pg, IsPage(pg)
  PROVE  /\ Len(pg) \in Nat /\ 1 \in 1 .. Len(pg) /\ DOMAIN pg = 1 .. Len(pg)
         /\ \A n \in 1 .. Len(pg) : pg[n] \in Node /\ pg[n].last \in n .. Len(pg)
<1>1. Len(pg) \in Nat /\ DOMAIN pg = 1 .. Len(pg) /\ Len(pg) # 0
  BY LenProperties, EmptySeq DEF IsPage
<1>2. ASSUME NEW n \in 1 .. Len(pg) PROVE pg[n] \in Node /\ pg[n].last \in n .. Len(pg)
  <2>1. pg[n] \in Node
    BY <1>2, ElementOfSeq DEF IsPage
  <2>2. pg[n].last \in n .. Len(pg)
    BY <1>1 DEF IsPage, InOrder
  <2> QED
    BY <2>1, <2>2
<1> QED
  BY <1>1, <1>2

LEMMA KidsAre ==
  ASSUME NEW pg, IsPage(pg), NEW n \in 1 .. Len(pg), NEW kids, kids = pg[n].kids
  PROVE  /\ Len(kids) \in Nat /\ DOMAIN kids = 1 .. Len(kids)
         /\ \A k \in 1 .. Len(kids) :
              /\ kids[k] \in Nat /\ n < kids[k] /\ kids[k] <= pg[n].last
              /\ kids[k] \in 1 .. Len(pg) /\ kids[k] \in n + 1 .. Len(pg)
              /\ pg[kids[k]].last \in Nat /\ kids[k] <= pg[kids[k]].last
              /\ pg[kids[k]].last <= pg[n].last
         /\ \A k, l \in 1 .. Len(kids) : k < l => pg[kids[k]].last < kids[l]
<1>1. Len(pg) \in Nat /\ DOMAIN pg = 1 .. Len(pg)
      /\ \A m \in 1 .. Len(pg) : pg[m] \in Node /\ pg[m].last \in m .. Len(pg)
  BY PageIs
<1>2. kids \in Seq(Nat)
  BY <1>1 DEF Node
<1>3. Len(kids) \in Nat /\ DOMAIN kids = 1 .. Len(kids)
  BY <1>2, LenProperties
<1>4. /\ \A k \in DOMAIN kids : kids[k] \in n + 1 .. pg[n].last /\ pg[kids[k]].last <= pg[n].last
      /\ \A k, l \in DOMAIN kids : k < l => pg[kids[k]].last < kids[l]
  BY <1>1 DEF IsPage, InOrder
<1>5. ASSUME NEW k \in 1 .. Len(kids)
      PROVE  /\ kids[k] \in Nat /\ n < kids[k] /\ kids[k] <= pg[n].last
             /\ kids[k] \in 1 .. Len(pg) /\ kids[k] \in n + 1 .. Len(pg)
             /\ pg[kids[k]].last \in Nat /\ kids[k] <= pg[kids[k]].last
             /\ pg[kids[k]].last <= pg[n].last
  <2>1. kids[k] \in n + 1 .. pg[n].last /\ pg[kids[k]].last <= pg[n].last
    BY <1>3, <1>4
  <2>2. pg[n].last \in n .. Len(pg)
    BY <1>1
  <2>3. kids[k] \in 1 .. Len(pg)
    BY <1>1, <2>1, <2>2
  <2>4. pg[kids[k]].last \in kids[k] .. Len(pg)
    BY <1>1, <2>3
  <2> QED
    BY <1>1, <2>1, <2>2, <2>3, <2>4
<1> QED
  BY <1>3, <1>4, <1>5

\* The two nodes of a section are children, the heading before the list.
LEMMA SectionIs ==
  ASSUME NEW pg, IsPage(pg), NEW n \in 1 .. Len(pg), NEW e \in Section(pg, n)
  PROVE  /\ e = Entry(e.heading, e.list)
         /\ e.heading \in n + 1 .. pg[n].last /\ e.list \in n + 1 .. pg[n].last
         /\ e.heading < e.list /\ pg[e.list].last <= pg[n].last
<1> DEFINE kids == pg[n].kids
           solid == {kids[k] : k \in {k \in DOMAIN kids : ~IsWhitespace(pg, kids[k])}}
<1>1. e \in [heading : solid, list : solid] /\ e.heading < e.list
  BY DEF Section
<1>2. \A m \in solid : m \in n + 1 .. pg[n].last /\ pg[m].last <= pg[n].last
  <2>1. /\ DOMAIN kids = 1 .. Len(kids)
        /\ \A k \in 1 .. Len(kids) :
             kids[k] \in Nat /\ n < kids[k] /\ kids[k] <= pg[n].last /\ pg[kids[k]].last <= pg[n].last
    BY KidsAre
  <2>2. pg[n].last \in Nat
    BY PageIs
  <2> QED
    BY <2>1, <2>2
<1> HIDE DEF solid
<1> QED
  BY <1>1, <1>2 DEF Entry

ToTocStep(pg, g, n) ==
  IF pg[n].tag = "UL" THEN <<Entry(Nil, n)>>
  ELSE IF IsWhitespace(pg, n) THEN <<>>
  ELSE IF pg[n].tag # "LI" THEN <<Entry(n, Nil)>>
  ELSE IF Section(pg, n) # {} THEN <<CHOOSE e \in Section(pg, n) : TRUE>>
  ELSE FlattenSeq([k \in DOMAIN pg[n].kids |-> g[pg[n].kids[k]]])

LEMMA ToTocAhead ==
  ASSUME NEW pg, IsPage(pg), NEW g, NEW h, NEW n \in 1 .. Len(pg),
         \A m \in n + 1 .. Len(pg) : g[m] = h[m]
  PROVE  ToTocStep(pg, g, n) = ToTocStep(pg, h, n)
<1> DEFINE kids == pg[n].kids
<1>1. \A k \in DOMAIN kids : kids[k] \in n + 1 .. Len(pg)
  BY KidsAre
<1>2. [k \in DOMAIN kids |-> g[kids[k]]] = [k \in DOMAIN kids |-> h[kids[k]]]
  BY <1>1
<1> QED
  BY <1>2 DEF ToTocStep

LEMMA ToTocSolved ==
  ASSUME NEW pg, IsPage(pg)
  PROVE  \A n \in 1 .. Len(pg) : ToToc(pg)[n] = ToTocStep(pg, ToToc(pg), n)
<1> DEFINE N == Len(pg)
           Solves(f, k) == \A m \in k .. N : f[m] = ToTocStep(pg, f, m)
           G == {k \in 1 .. N : \E f : Solves(f, k)}
<1>0. N \in Nat /\ 1 \in 1 .. N /\ DOMAIN pg = 1 .. N
  BY PageIs
<1>1. ASSUME NEW k \in 1 .. N, \A m \in k + 1 .. N : m \in G PROVE k \in G
  <2>1. \E f : Solves(f, k + 1)
    <3>1. CASE k = N
      <4>1. \A m \in k + 1 .. N : FALSE
        BY <1>0, <3>1
      <4> QED
        BY <4>1
    <3>2. CASE k # N
      <4>1. k + 1 \in k + 1 .. N
        <5>1. N \in Nat
          BY <1>0
        <5> QED
          BY <3>2, <5>1
      <4> QED
        BY <1>1, <4>1
    <3> QED
      BY <3>1, <3>2
  <2>2. PICK f : Solves(f, k + 1)
    BY <2>1
  <2> DEFINE h == [m \in 1 .. N |-> IF m = k THEN ToTocStep(pg, f, k) ELSE f[m]]
  <2>3. \A m \in k + 1 .. N : h[m] = f[m]
    BY <1>0
  <2>4. h[k] = ToTocStep(pg, f, k)
    OBVIOUS
  <2> HIDE DEF h
  <2>5. ASSUME NEW m \in k .. N PROVE h[m] = ToTocStep(pg, h, m)
    <3>1. m \in 1 .. N /\ \A n \in m + 1 .. N : n \in k + 1 .. N
      BY <1>0
    <3>2. ToTocStep(pg, h, m) = ToTocStep(pg, f, m)
      BY <2>3, <3>1, ToTocAhead
    <3>3. CASE m = k
      BY <2>4, <3>2, <3>3
    <3>4. CASE m # k
      <4>1. m \in k + 1 .. N
        BY <3>4
      <4> QED
        BY <2>2, <2>3, <3>2, <4>1
    <3> QED
      BY <3>3, <3>4
  <2> QED
    BY <2>5
<1>2. PICK f : Solves(f, 1)
  <2>1. 1 .. N \subseteq G
    <3> HIDE DEF G, N
    <3>1. N \in Int
      BY <1>0
    <3>2. \A k \in 1 .. N : (\A m \in k + 1 .. N : m \in G) => k \in G
      BY <1>1
    <3> QED
      BY <3>1, <3>2, DownInduction
  <2> QED
    BY <1>0, <2>1
<1> DEFINE v == [k \in 1 .. N |-> f[k]]
<1>3. ASSUME NEW k \in 1 .. N PROVE v[k] = ToTocStep(pg, v, k)
  <2>1. v[k] = f[k] /\ \A m \in k + 1 .. N : m \in 1 .. N /\ f[m] = v[m]
    BY <1>0
  <2> HIDE DEF v
  <2>2. ToTocStep(pg, f, k) = ToTocStep(pg, v, k)
    BY <2>1, ToTocAhead
  <2> QED
    BY <1>2, <2>1, <2>2
<1>4. v = [k \in DOMAIN pg |-> ToTocStep(pg, v, k)]
  BY <1>0, <1>3
<1>5. ToToc(pg) = CHOOSE g : g = [k \in DOMAIN pg |-> ToTocStep(pg, g, k)]
  BY DEF ToToc, ToTocStep
<1>6. ToToc(pg) = [k \in DOMAIN pg |-> ToTocStep(pg, ToToc(pg), k)]
  <2> HIDE DEF v
  <2> QED
    BY <1>4, <1>5
<1> QED
  BY <1>0, <1>6

-----------------------------------------------------------------------------
(***************************************************************************)
(* The nodes of an entry and of all below it lie between its first and its *)
(* last, and what is listed one after the other lies so in the document.   *)
(***************************************************************************)
FirstNode(e) == IF e.heading # Nil THEN e.heading ELSE e.list
LastNode(pg, e) == IF e.list = Nil THEN e.heading ELSE pg[e.list].last

Nested(pg, e) ==
  /\ e \in Entries(pg)
  /\ e.list = Nil => e.heading # Nil
  /\ e.list # Nil => e.heading < e.list

Listed(pg, s, lo, hi) ==
  /\ s \in Seq(Entries(pg))
  /\ \A k \in 1 .. Len(s) : Nested(pg, s[k]) /\ lo <= FirstNode(s[k]) /\ LastNode(pg, s[k]) <= hi
  /\ \A k, l \in 1 .. Len(s) : k < l => LastNode(pg, s[k]) < FirstNode(s[l])

LEMMA EntryIs ==
  ASSUME NEW pg, IsPage(pg), NEW h \in 0 .. Len(pg), NEW u \in 0 .. Len(pg), NEW e, e = Entry(h, u)
  PROVE  e \in Entries(pg) /\ e.heading = h /\ e.list = u
BY DEF Entry, Entries, Nil

LEMMA ProperIs ==
  ASSUME NEW pg, IsPage(pg), NEW e, Nested(pg, e)
  PROVE  /\ e.heading \in 0 .. Len(pg) /\ e.list \in 0 .. Len(pg)
         /\ FirstNode(e) \in 1 .. Len(pg) /\ LastNode(pg, e) \in 1 .. Len(pg)
         /\ FirstNode(e) <= LastNode(pg, e)
         /\ e.heading # Nil => FirstNode(e) = e.heading
         /\ e.list # Nil => FirstNode(e) <= e.list
<1>1. Len(pg) \in Nat /\ \A n \in 1 .. Len(pg) : pg[n].last \in n .. Len(pg)
  BY PageIs
<1>2. e.heading \in 0 .. Len(pg) /\ e.list \in 0 .. Len(pg)
  BY DEF Nested, Entries, Nil
<1>3. CASE e.list = 0
  BY <1>1, <1>2, <1>3 DEF Nested, FirstNode, LastNode, Nil
<1>4. CASE e.list # 0
  <2>1. e.list \in 1 .. Len(pg) /\ e.heading < e.list
    BY <1>2, <1>4 DEF Nested, Nil
  <2>2. pg[e.list].last \in e.list .. Len(pg)
    BY <1>1, <2>1
  <2> QED
    BY <1>1, <1>2, <1>4, <2>1, <2>2 DEF FirstNode, LastNode, Nil
<1> QED
  BY <1>3, <1>4

LEMMA ListedNone ==
  ASSUME NEW pg, NEW lo, NEW hi
  PROVE  Listed(pg, <<>>, lo, hi)
<1>1. <<>> \in Seq(Entries(pg)) /\ Len(<<>>) = 0
  OBVIOUS
<1> QED
  BY <1>1 DEF Listed

LEMMA ListedOne ==
  ASSUME NEW pg, NEW e, Nested(pg, e), NEW lo, NEW hi, lo <= FirstNode(e), LastNode(pg, e) <= hi
  PROVE  Listed(pg, <<e>>, lo, hi)
<1>1. e \in Entries(pg)
  BY DEF Nested
<1>2. <<e>> \in Seq(Entries(pg)) /\ Len(<<e>>) = 1 /\ <<e>>[1] = e
  BY <1>1
<1>3. \A k \in 1 .. 1 : k = 1
  OBVIOUS
<1> QED
  BY <1>2, <1>3 DEF Listed

LEMMA ListedFlatten ==
  ASSUME NEW pg, NEW ss \in Seq(Seq(Entries(pg))), NEW lo, NEW hi,
         \A k \in 1 .. Len(ss) : Listed(pg, ss[k], lo, hi),
         \A k, l \in 1 .. Len(ss) : k < l =>
           \A i \in 1 .. Len(ss[k]) : \A j \in 1 .. Len(ss[l]) :
             LastNode(pg, ss[k][i]) < FirstNode(ss[l][j])
  PROVE  Listed(pg, FlattenSeq(ss), lo, hi)
<1> DEFINE f == FlattenSeq(ss)
<1>1. f \in Seq(Entries(pg)) /\ \E block, pos : Parts(ss, Len(ss), f, block, pos)
  BY FlattenParts
<1>2. PICK block, pos : Parts(ss, Len(ss), f, block, pos)
  BY <1>1
<1> HIDE DEF f
<1>3. \A i \in 1 .. Len(f) :
       /\ block[i] \in 1 .. Len(ss) /\ pos[i] \in 1 .. Len(ss[block[i]])
       /\ f[i] = ss[block[i]][pos[i]]
  BY <1>2 DEF Parts
<1>4. ASSUME NEW i \in 1 .. Len(f)
      PROVE  Nested(pg, f[i]) /\ lo <= FirstNode(f[i]) /\ LastNode(pg, f[i]) <= hi
  BY <1>3 DEF Listed
<1>5. ASSUME NEW i \in 1 .. Len(f), NEW j \in 1 .. Len(f), i < j
      PROVE  LastNode(pg, f[i]) < FirstNode(f[j])
  <2>1. block[i] < block[j] \/ (block[i] = block[j] /\ pos[i] < pos[j])
    BY <1>2, <1>5 DEF Parts
  <2>2. CASE block[i] < block[j]
    <3> DEFINE k == block[i]
               l == block[j]
               u == pos[i]
               v == pos[j]
    <3>1. /\ k \in 1 .. Len(ss) /\ l \in 1 .. Len(ss) /\ k < l
          /\ u \in 1 .. Len(ss[k]) /\ v \in 1 .. Len(ss[l])
          /\ f[i] = ss[k][u] /\ f[j] = ss[l][v]
      BY <1>3, <2>2
    <3> HIDE DEF k, l, u, v
    <3>2. LastNode(pg, ss[k][u]) < FirstNode(ss[l][v])
      BY <3>1
    <3> QED
      BY <3>1, <3>2
  <2>3. CASE block[i] = block[j] /\ pos[i] < pos[j]
    <3> DEFINE r == ss[block[i]]
    <3>1. /\ Listed(pg, r, lo, hi) /\ pos[i] \in 1 .. Len(r) /\ pos[j] \in 1 .. Len(r)
          /\ f[i] = r[pos[i]] /\ f[j] = r[pos[j]]
      BY <1>3, <2>3
    <3> HIDE DEF r
    <3> QED
      BY <2>3, <3>1 DEF Listed
  <2> QED
    BY <2>1, <2>2, <2>3
<1>6. Listed(pg, f, lo, hi)
  BY <1>1, <1>4, <1>5 DEF Listed
<1> QED
  BY <1>6 DEF f

LEMMA ListedWider ==
  ASSUME NEW pg, IsPage(pg), NEW s, NEW lo \in Int, NEW hi \in Int, NEW lo2 \in Int, NEW hi2 \in Int,
         Listed(pg, s, lo, hi), lo2 <= lo, hi <= hi2
  PROVE  Listed(pg, s, lo2, hi2)
<1>1. ASSUME NEW k \in 1 .. Len(s)
      PROVE  Nested(pg, s[k]) /\ lo2 <= FirstNode(s[k]) /\ LastNode(pg, s[k]) <= hi2
  <2>1. Nested(pg, s[k]) /\ lo <= FirstNode(s[k]) /\ LastNode(pg, s[k]) <= hi
    BY DEF Listed
  <2>2. FirstNode(s[k]) \in 1 .. Len(pg) /\ LastNode(pg, s[k]) \in 1 .. Len(pg) /\ Len(pg) \in Nat
    BY <2>1, ProperIs, PageIs
  <2> QED
    BY <2>1, <2>2
<1> QED
  BY <1>1 DEF Listed

(***************************************************************************)
(* What is added for the children of a node, one after the other, where    *)
(* the k-th may take with it those up to the q[k]-th.                      *)
(***************************************************************************)
Pieces(pg, nodes, ss, q) ==
  \A k \in 1 .. Len(nodes) :
    /\ q[k] \in k .. Len(nodes)
    /\ Listed(pg, ss[k], nodes[k], pg[nodes[q[k]]].last)
    /\ \A m \in k + 1 .. q[k] : ss[m] = <<>>

LEMMA ListedPieces ==
  ASSUME NEW pg, IsPage(pg), NEW n \in 1 .. Len(pg), NEW nodes, nodes = pg[n].kids,
         NEW ss \in Seq(Seq(Entries(pg))), Len(ss) = Len(nodes), NEW q,
         Pieces(pg, nodes, ss, q)
  PROVE  Listed(pg, FlattenSeq(ss), n + 1, pg[n].last)
<1>1. /\ Len(nodes) \in Nat
      /\ \A k \in 1 .. Len(nodes) :
           /\ nodes[k] \in Nat /\ n < nodes[k]
           /\ pg[nodes[k]].last \in Nat /\ pg[nodes[k]].last <= pg[n].last
      /\ \A k, l \in 1 .. Len(nodes) : k < l => pg[nodes[k]].last < nodes[l]
  BY KidsAre
<1>2. n \in Nat /\ Len(pg) \in Nat /\ pg[n].last \in Nat
  BY PageIs
<1>h. \A k \in 1 .. Len(nodes) :
        /\ q[k] \in k .. Len(nodes)
        /\ Listed(pg, ss[k], nodes[k], pg[nodes[q[k]]].last)
        /\ \A m \in k + 1 .. q[k] : ss[m] = <<>>
  BY DEF Pieces
<1>3. \A k \in 1 .. Len(nodes) : q[k] \in 1 .. Len(nodes)
  <2>1. \A k \in 1 .. Len(nodes) : q[k] \in k .. Len(nodes)
    BY <1>h
  <2> QED
    BY <1>1, <2>1
<1>4. ss \in Seq(Seq(Entries(pg)))
  OBVIOUS
<1>5. ASSUME NEW k \in 1 .. Len(ss) PROVE Listed(pg, ss[k], n + 1, pg[n].last)
  <2>1. /\ Listed(pg, ss[k], nodes[k], pg[nodes[q[k]]].last)
        /\ nodes[k] \in Nat /\ n < nodes[k]
        /\ pg[nodes[q[k]]].last \in Nat /\ pg[nodes[q[k]]].last <= pg[n].last
    <3>1. k \in 1 .. Len(nodes)
      OBVIOUS
    <3> QED
      BY <1>1, <1>3, <1>h, <3>1
  <2> QED
    <3> DEFINE lo == nodes[k]
               hi == pg[nodes[q[k]]].last
    <3>0. n \in Int /\ pg[n].last \in Int
      BY <1>2
    <3>1. lo \in Nat /\ hi \in Nat /\ n < lo /\ hi <= pg[n].last /\ Listed(pg, ss[k], lo, hi)
      BY <2>1
    <3> DEFINE top == pg[n].last
    <3> HIDE DEF lo, hi, top
    <3>2. /\ lo \in Int /\ hi \in Int /\ n + 1 \in Int /\ top \in Int
          /\ n + 1 <= lo /\ hi <= top
      BY <3>0, <3>1 DEF top
    <3>3. Listed(pg, ss[k], n + 1, top)
      BY <3>1, <3>2, ListedWider
    <3> QED
      BY <3>3 DEF top
<1>6. ASSUME NEW k \in 1 .. Len(ss), NEW l \in 1 .. Len(ss), k < l,
             NEW i \in 1 .. Len(ss[k]), NEW j \in 1 .. Len(ss[l])
      PROVE  LastNode(pg, ss[k][i]) < FirstNode(ss[l][j])
  <2>1. q[k] \in 1 .. Len(nodes) /\ q[k] < l
    <3>1. ss[l] # <<>> /\ k \in 1 .. Len(nodes) /\ l \in 1 .. Len(nodes)
      <4>1. Len(<<>>) = 0
        OBVIOUS
      <4> QED
        BY <1>6, <4>1
    <3>2. q[k] \in 1 .. Len(nodes) /\ \A m \in k + 1 .. q[k] : ss[m] = <<>>
      BY <1>3, <1>h, <3>1
    <3>3. l \notin k + 1 .. q[k]
      BY <3>1, <3>2
    <3> QED
      BY <1>1, <1>6, <3>1, <3>2, <3>3
  <2> DEFINE d == LastNode(pg, ss[k][i])
             e == FirstNode(ss[l][j])
             m == pg[nodes[q[k]]].last
  <2>2. Nested(pg, ss[k][i]) /\ d <= m /\ Nested(pg, ss[l][j]) /\ nodes[l] <= e
    <3>1. /\ Listed(pg, ss[k], nodes[k], pg[nodes[q[k]]].last)
          /\ Listed(pg, ss[l], nodes[l], pg[nodes[q[l]]].last)
      BY <1>h, <1>6
    <3> QED
      BY <1>6, <3>1 DEF Listed
  <2>3. d \in 1 .. Len(pg) /\ e \in 1 .. Len(pg)
    BY <2>2, ProperIs
  <2>4. m < nodes[l] /\ nodes[l] \in Nat /\ m \in Nat
    BY <1>1, <2>1
  <2>5. d \in Int /\ e \in Int /\ m \in Int /\ nodes[l] \in Int
    <3>1. \A x \in 1 .. Len(pg) : x \in Int
      OBVIOUS
    <3> HIDE DEF d, e, m
    <3> QED
      BY <2>3, <2>4, <3>1
  <2>6. d <= m /\ m < nodes[l] /\ nodes[l] <= e
    BY <2>2, <2>4
  <2> HIDE DEF d, e, m
  <2>7. d < e
    BY <2>5, <2>6, SMTT(30)
  <2> QED
    BY <2>7 DEF d, e
<1> QED
  BY <1>4, <1>5, <1>6, ListedFlatten

LEMMA ToTocPieces ==
  ASSUME NEW pg, IsPage(pg), NEW n \in 1 .. Len(pg), NEW nodes, nodes = pg[n].kids,
         \A k \in 1 .. Len(nodes) : Listed(pg, ToToc(pg)[nodes[k]], nodes[k], pg[nodes[k]].last)
  PROVE  Listed(pg, FlattenSeq([k \in DOMAIN nodes |-> ToToc(pg)[nodes[k]]]), n + 1, pg[n].last)
<1> DEFINE ss == [k \in DOMAIN nodes |-> ToToc(pg)[nodes[k]]]
           q == [k \in DOMAIN nodes |-> k]
<1>1. Len(nodes) \in Nat /\ DOMAIN nodes = 1 .. Len(nodes)
  BY KidsAre
<1>2. /\ Len(ss) = Len(nodes) /\ ss \in Seq(Seq(Entries(pg)))
      /\ \A k \in 1 .. Len(nodes) : ss[k] = ToToc(pg)[nodes[k]] /\ q[k] = k
  <2>1. \A k \in 1 .. Len(nodes) : ToToc(pg)[nodes[k]] \in Seq(Entries(pg))
    BY DEF Listed
  <2> QED
    BY <1>1, <2>1
<1> HIDE DEF ss, q
<1>3. \A k \in 1 .. Len(nodes) :
        /\ q[k] \in k .. Len(nodes)
        /\ Listed(pg, ss[k], nodes[k], pg[nodes[q[k]]].last)
        /\ \A m \in k + 1 .. q[k] : ss[m] = <<>>
  <2> TAKE k \in 1 .. Len(nodes)
  <2>1. ss[k] = ToToc(pg)[nodes[k]] /\ q[k] = k
    BY <1>2
  <2>2. k \in k .. Len(nodes) /\ k + 1 .. k = {}
    BY <1>1
  <2> QED
    BY <2>1, <2>2
<1>4. Listed(pg, FlattenSeq(ss), n + 1, pg[n].last)
  <2>1. Pieces(pg, nodes, ss, q)
    BY <1>3 DEF Pieces
  <2> QED
    BY <1>2, <2>1, ListedPieces
<1> QED
  BY <1>4 DEF ss

LEMMA ToTocListed ==
  ASSUME NEW pg, IsPage(pg), NEW n \in 1 .. Len(pg)
  PROVE  Listed(pg, ToToc(pg)[n], n, pg[n].last)
<1> DEFINE N == Len(pg)
           G == {m \in 1 .. N : Listed(pg, ToToc(pg)[m], m, pg[m].last)}
<1>0. N \in Nat /\ \A m \in 1 .. N : pg[m].last \in m .. N
  BY PageIs
<1>1. ASSUME NEW k \in 1 .. N, \A m \in k + 1 .. N : m \in G PROVE k \in G
  <2> DEFINE kids == pg[k].kids
             ss == [i \in DOMAIN kids |-> ToToc(pg)[kids[i]]]
  <2>0. pg[k].last \in k .. N /\ pg[k].last \in Nat
    BY <1>0
  <2>1. ToToc(pg)[k] = ToTocStep(pg, ToToc(pg), k)
    BY ToTocSolved
  <2>2. CASE pg[k].tag = "UL"
    <3>1. ToToc(pg)[k] = <<Entry(Nil, k)>>
      BY <2>1, <2>2 DEF ToTocStep
    <3> DEFINE e == Entry(Nil, k)
    <3>2. e \in Entries(pg) /\ e.heading = Nil /\ e.list = k
      BY <1>0, EntryIs DEF Nil
    <3> HIDE DEF e
    <3>3. Nested(pg, e) /\ k <= FirstNode(e) /\ LastNode(pg, e) <= pg[k].last
      BY <2>0, <3>2 DEF Nested, FirstNode, LastNode, Nil
    <3> QED
      BY <3>1, <3>3, ListedOne DEF e
  <2>3. CASE pg[k].tag # "UL" /\ IsWhitespace(pg, k)
    BY <2>1, <2>3, ListedNone DEF ToTocStep
  <2>4. CASE pg[k].tag # "UL" /\ ~IsWhitespace(pg, k) /\ pg[k].tag # "LI"
    <3>1. ToToc(pg)[k] = <<Entry(k, Nil)>>
      BY <2>1, <2>4 DEF ToTocStep
    <3> DEFINE e == Entry(k, Nil)
    <3>2. e \in Entries(pg) /\ e.heading = k /\ e.list = Nil
      BY <1>0, EntryIs DEF Nil
    <3> HIDE DEF e
    <3>3. Nested(pg, e) /\ k <= FirstNode(e) /\ LastNode(pg, e) <= pg[k].last
      BY <2>0, <3>2 DEF Nested, FirstNode, LastNode, Nil
    <3> QED
      BY <3>1, <3>3, ListedOne DEF e
  <2>5. CASE pg[k].tag = "LI" /\ ~IsWhitespace(pg, k) /\ Section(pg, k) # {}
    <3> DEFINE e == CHOOSE e \in Section(pg, k) : TRUE
    <3>1. ToToc(pg)[k] = <<e>> /\ e \in Section(pg, k)
      BY <2>1, <2>5 DEF ToTocStep
    <3> HIDE DEF e
    <3>2. /\ e = Entry(e.heading, e.list)
          /\ e.heading \in k + 1 .. pg[k].last /\ e.list \in k + 1 .. pg[k].last
          /\ e.heading < e.list /\ pg[e.list].last <= pg[k].last
      BY <3>1, SectionIs
    <3>3. e.heading \in 0 .. Len(pg) /\ e.list \in 0 .. Len(pg) /\ e.heading # 0 /\ e.list # 0
      BY <1>0, <2>0, <3>2
    <3>4. e \in Entries(pg)
      BY <3>2, <3>3, EntryIs
    <3>5. Nested(pg, e) /\ k <= FirstNode(e) /\ LastNode(pg, e) <= pg[k].last
      BY <2>0, <3>2, <3>3, <3>4 DEF Nested, FirstNode, LastNode, Nil
    <3> QED
      BY <3>1, <3>5, ListedOne
  <2>6. CASE pg[k].tag = "LI" /\ ~IsWhitespace(pg, k) /\ Section(pg, k) = {}
    <3>1. ToToc(pg)[k] = FlattenSeq(ss)
      BY <2>1, <2>6 DEF ToTocStep
    <3>2. Len(kids) \in Nat /\ DOMAIN kids = 1 .. Len(kids)
          /\ \A i \in 1 .. Len(kids) : kids[i] \in k + 1 .. N
      BY KidsAre
    <3>3. ASSUME NEW i \in 1 .. Len(kids)
          PROVE  Listed(pg, ToToc(pg)[kids[i]], kids[i], pg[kids[i]].last)
      BY <1>1, <3>2
    <3>4. Listed(pg, FlattenSeq(ss), k + 1, pg[k].last)
      BY <3>2, <3>3, ToTocPieces
    <3> QED
      BY <2>0, <3>1, <3>4, ListedWider
  <2> QED
    BY <2>2, <2>3, <2>4, <2>5, <2>6
<1>2. 1 .. N \subseteq G
  <2> HIDE DEF G, N
  <2>1. N \in Int
    BY <1>0
  <2>2. \A k \in 1 .. N : (\A m \in k + 1 .. N : m \in G) => k \in G
    BY <1>1
  <2> QED
    BY <2>1, <2>2, DownInduction
<1> QED
  BY <1>2

\* A child is taken with the LI before it, or is between the two.
LEMMA TakenWith ==
  ASSUME NEW pg, IsPage(pg), NEW n \in 1 .. Len(pg), NEW nodes, nodes = pg[n].kids,
         NEW k \in DOMAIN nodes, NEW l \in DOMAIN nodes, SideBySide(pg, nodes, k, l),
         NEW m \in k + 1 .. l
  PROVE  ListToToc(pg, nodes, m) = <<>>
<1>1. /\ Len(nodes) \in Nat /\ DOMAIN nodes = 1 .. Len(nodes)
      /\ \A i \in 1 .. Len(nodes) : nodes[i] \in 1 .. Len(pg)
  BY KidsAre
<1>2. m \in DOMAIN nodes
  BY <1>1
<1>3. CASE m = l
  <2>1. pg[nodes[m]].tag = "UL"
    BY <1>3 DEF SideBySide
  <2>2. {i \in DOMAIN nodes : SideBySide(pg, nodes, m, i)} = {}
    BY <2>1 DEF SideBySide
  <2> QED
    BY <1>3, <2>2 DEF ListToToc
<1>4. CASE m # l
  <2>1. m \in k + 1 .. l - 1
    BY <1>1, <1>4
  <2>2. IsWhitespace(pg, nodes[m])
    BY <2>1 DEF SideBySide
  <2>3. pg[nodes[m]].tag # "UL" /\ pg[nodes[m]].tag # "LI"
    BY <2>2 DEF IsWhitespace
  <2>4. {i \in DOMAIN nodes : SideBySide(pg, nodes, m, i)} = {}
    BY <2>3 DEF SideBySide
  <2>5. ~\E i \in DOMAIN nodes : SideBySide(pg, nodes, i, m)
    BY <2>3 DEF SideBySide
  <2>6. ToToc(pg)[nodes[m]] = <<>>
    <3>1. ToToc(pg)[nodes[m]] = ToTocStep(pg, ToToc(pg), nodes[m])
      BY <1>1, <1>2, ToTocSolved
    <3> QED
      BY <2>2, <2>3, <3>1 DEF ToTocStep
  <2> QED
    BY <2>4, <2>5, <2>6 DEF ListToToc
<1> QED
  BY <1>3, <1>4

LEMMA ListPieces ==
  ASSUME NEW pg, IsPage(pg), NEW n \in 1 .. Len(pg), NEW nodes, nodes = pg[n].kids
  PROVE  Listed(pg, FlattenSeq([k \in DOMAIN nodes |-> ListToToc(pg, nodes, k)]), n + 1, pg[n].last)
<1> DEFINE ss == [k \in DOMAIN nodes |-> ListToToc(pg, nodes, k)]
           uls(k) == {l \in DOMAIN nodes : SideBySide(pg, nodes, k, l)}
           q == [k \in DOMAIN nodes |-> IF uls(k) # {} THEN CHOOSE l \in uls(k) : TRUE ELSE k]
<1>1. /\ Len(nodes) \in Nat /\ DOMAIN nodes = 1 .. Len(nodes)
      /\ \A k \in 1 .. Len(nodes) :
           /\ nodes[k] \in Nat /\ nodes[k] \in 1 .. Len(pg)
           /\ pg[nodes[k]].last \in Nat /\ nodes[k] <= pg[nodes[k]].last
      /\ \A k, l \in 1 .. Len(nodes) : k < l => pg[nodes[k]].last < nodes[l]
  BY KidsAre
<1>2. /\ Len(ss) = Len(nodes)
      /\ \A k \in 1 .. Len(nodes) : ss[k] = ListToToc(pg, nodes, k)
      /\ \A k \in 1 .. Len(nodes) : q[k] = IF uls(k) # {} THEN CHOOSE l \in uls(k) : TRUE ELSE k
  BY <1>1
<1>s. ss = [k \in 1 .. Len(nodes) |-> ListToToc(pg, nodes, k)]
  BY <1>1
<1> HIDE DEF ss, q
<1>3. ASSUME NEW k \in 1 .. Len(nodes)
      PROVE  /\ q[k] \in k .. Len(nodes)
             /\ Listed(pg, ss[k], nodes[k], pg[nodes[q[k]]].last)
             /\ \A m \in k + 1 .. q[k] : ss[m] = <<>>
  <2>1. CASE uls(k) # {}
    <3> DEFINE l == q[k]
               h == pg[nodes[k]].kids[1]
               e == Entry(h, nodes[l])
    <3>1. l \in DOMAIN nodes /\ SideBySide(pg, nodes, k, l)
      <4>1. l = CHOOSE u \in uls(k) : TRUE
        BY <1>2, <2>1
      <4>2. l \in uls(k)
        BY <2>1, <4>1
      <4> QED
        BY <4>2
    <3>2. ss[k] = <<e>>
      BY <1>2, <2>1 DEF ListToToc
    <3> HIDE DEF l
    <3>3. k < l /\ l \in 1 .. Len(nodes) /\ Len(pg[nodes[k]].kids) = 1
      BY <1>1, <3>1 DEF SideBySide
    <3>4. h \in Nat /\ nodes[k] < h /\ h \in 1 .. Len(pg) /\ h <= pg[nodes[k]].last
      <4> DEFINE ks == pg[nodes[k]].kids
      <4>1. nodes[k] \in 1 .. Len(pg) /\ 1 \in 1 .. Len(ks)
        BY <1>1, <3>3
      <4>2. \A i \in 1 .. Len(ks) :
              /\ ks[i] \in Nat /\ nodes[k] < ks[i] /\ ks[i] <= pg[nodes[k]].last
              /\ ks[i] \in 1 .. Len(pg)
        BY <4>1, KidsAre
      <4> QED
        BY <4>1, <4>2
    <3>5. h < nodes[l] /\ nodes[l] \in 1 .. Len(pg) /\ nodes[l] # 0 /\ h # 0
      <4>1. pg[nodes[k]].last < nodes[l] /\ nodes[l] \in 1 .. Len(pg) /\ pg[nodes[k]].last \in Nat
        BY <1>1, <3>3
      <4> HIDE DEF h, l
      <4> QED
        BY <3>4, <4>1
    <3>6. Len(pg) \in Nat
      BY PageIs
    <3> HIDE DEF h
    <3>7. e \in Entries(pg) /\ e.heading = h /\ e.list = nodes[l]
      BY <3>4, <3>5, <3>6, EntryIs
    <3> HIDE DEF e
    <3>8. Nested(pg, e) /\ nodes[k] <= FirstNode(e) /\ LastNode(pg, e) <= pg[nodes[l]].last
      BY <1>1, <3>3, <3>4, <3>5, <3>7 DEF Nested, FirstNode, LastNode, Nil
    <3>9. Listed(pg, ss[k], nodes[k], pg[nodes[l]].last)
      BY <3>2, <3>8, ListedOne
    <3>10. \A m \in k + 1 .. l : ss[m] = <<>>
      <4> TAKE m \in k + 1 .. l
      <4>1. ListToToc(pg, nodes, m) = <<>>
        BY <1>1, <3>1, TakenWith
      <4>2. m \in 1 .. Len(nodes)
        BY <1>1, <3>3
      <4> QED
        BY <1>2, <4>1, <4>2
    <3>11. l \in k .. Len(nodes)
      <4> HIDE DEF l
      <4> QED
        BY <1>1, <3>3
    <3> QED
      BY <3>9, <3>10, <3>11 DEF l
  <2>2. CASE uls(k) = {}
    <3>1. q[k] = k
      BY <1>2, <2>2
    <3>2. Listed(pg, ss[k], nodes[k], pg[nodes[k]].last)
      <4>1. CASE \E l \in DOMAIN nodes : SideBySide(pg, nodes, l, k)
        <5>1. ss[k] = <<>>
          BY <1>2, <2>2, <4>1 DEF ListToToc
        <5> QED
          BY <5>1, ListedNone
      <4>2. CASE ~\E l \in DOMAIN nodes : SideBySide(pg, nodes, l, k)
        <5>1. ss[k] = ToToc(pg)[nodes[k]]
          BY <1>2, <2>2, <4>2 DEF ListToToc
        <5> QED
          BY <1>1, <5>1, ToTocListed
      <4> QED
        BY <4>1, <4>2
    <3> QED
      BY <1>1, <3>1, <3>2
  <2> QED
    BY <2>1, <2>2
<1>4. ss \in Seq(Seq(Entries(pg)))
  <2>1. \A k \in 1 .. Len(nodes) : ListToToc(pg, nodes, k) \in Seq(Entries(pg))
    BY <1>2, <1>3 DEF Listed
  <2> QED
    BY <1>1, <1>s, <2>1
<1>5. \A k \in 1 .. Len(nodes) :
        /\ q[k] \in k .. Len(nodes)
        /\ Listed(pg, ss[k], nodes[k], pg[nodes[q[k]]].last)
        /\ \A m \in k + 1 .. q[k] : ss[m] = <<>>
  BY <1>3
<1>6. Pieces(pg, nodes, ss, q)
  BY <1>5 DEF Pieces
<1>7. Listed(pg, FlattenSeq(ss), n + 1, pg[n].last)
  BY <1>2, <1>4, <1>6, ListedPieces
<1> QED
  BY <1>7 DEF ss

\* The kids of an entry lie behind the node of its list.
LEMMA KidsListed ==
  ASSUME NEW pg, IsPage(pg), NEW e \in Entries(pg)
  PROVE  /\ e.list = Nil => Kids(pg, e) = <<>>
         /\ e.list # Nil => e.list \in 1 .. Len(pg)
                            /\ Listed(pg, Kids(pg, e), e.list + 1, pg[e.list].last)
<1> DEFINE nodes == pg[e.list].kids
<1>1. CASE e.list = Nil
  BY <1>1 DEF Kids
<1>2. CASE e.list # Nil
  <2>1. e.list \in 1 .. Len(pg)
    BY <1>2, PageIs DEF Entries, Nil
  <2>2. CASE e.heading = Nil
    <3>1. Kids(pg, e) = FlattenSeq([k \in DOMAIN nodes |-> ListToToc(pg, nodes, k)])
      BY <1>2, <2>2 DEF Kids
    <3> HIDE DEF nodes
    <3>2. Listed(pg, Kids(pg, e), e.list + 1, pg[e.list].last)
      BY <2>1, <3>1, ListPieces DEF nodes
    <3> QED
      BY <1>2, <2>1, <3>2
  <2>3. CASE e.heading # Nil
    <3>1. Kids(pg, e) = FlattenSeq([k \in DOMAIN nodes |-> ToToc(pg)[nodes[k]]])
      BY <1>2, <2>3 DEF Kids
    <3>2. \A k \in 1 .. Len(nodes) : nodes[k] \in 1 .. Len(pg)
      BY <2>1, KidsAre
    <3>3. \A k \in 1 .. Len(nodes) : Listed(pg, ToToc(pg)[nodes[k]], nodes[k], pg[nodes[k]].last)
      BY <3>2, ToTocListed
    <3> HIDE DEF nodes
    <3>4. Listed(pg, Kids(pg, e), e.list + 1, pg[e.list].last)
      BY <2>1, <3>1, <3>3, ToTocPieces DEF nodes
    <3> QED
      BY <1>2, <2>1, <3>4
  <2> QED
    BY <2>2, <2>3
<1> QED
  BY <1>1, <1>2

-----------------------------------------------------------------------------
(***************************************************************************)
(* Below an entry are entries of later lists only: what holds of an entry  *)
(* if it holds of its kids holds of all.                                   *)
(***************************************************************************)
Height(pg, e) == IF e.list = Nil THEN 0 ELSE Len(pg) + 1 - e.list

LEMMA KidsAreEntries ==
  ASSUME NEW pg, IsPage(pg), NEW e \in Entries(pg)
  PROVE  /\ Kids(pg, e) \in Seq(Entries(pg)) /\ Len(Kids(pg, e)) \in Nat
         /\ DOMAIN Kids(pg, e) = 1 .. Len(Kids(pg, e))
         /\ Kids(pg, e) = <<>> <=> Len(Kids(pg, e)) = 0
         /\ \A k \in 1 .. Len(Kids(pg, e)) : Kids(pg, e)[k] \in Entries(pg)
         /\ \A k \in 1 .. Len(Kids(pg, e)) : e.list # Nil /\ Height(pg, Kids(pg, e)[k]) < Height(pg, e)
         /\ Height(pg, e) \in 0 .. Len(pg)
<1> DEFINE s == Kids(pg, e)
<1>0. Len(pg) \in Nat /\ e.list \in 0 .. Len(pg)
  BY PageIs DEF Entries, Nil
<1>1. /\ e.list = Nil => s = <<>>
      /\ e.list # Nil => e.list \in 1 .. Len(pg) /\ Listed(pg, s, e.list + 1, pg[e.list].last)
  BY KidsListed
<1> HIDE DEF s
<1>2. s \in Seq(Entries(pg))
  <2>1. <<>> \in Seq(Entries(pg))
    OBVIOUS
  <2> QED
    BY <1>1, <2>1 DEF Listed
<1>3. Len(s) \in Nat /\ DOMAIN s = 1 .. Len(s) /\ (s = <<>> <=> Len(s) = 0)
      /\ \A k \in 1 .. Len(s) : s[k] \in Entries(pg)
  BY <1>2, LenProperties, EmptySeq, ElementOfSeq
<1>4. ASSUME NEW k \in 1 .. Len(s) PROVE e.list # Nil /\ Height(pg, s[k]) < Height(pg, e)
  <2>1. e.list # Nil
    BY <1>1, <1>3, <1>4
  <2> DEFINE x == s[k]
  <2>2. Nested(pg, x) /\ e.list + 1 <= FirstNode(x)
    BY <1>1, <2>1 DEF Listed
  <2> HIDE DEF x
  <2>3. /\ x.list \in 0 .. Len(pg) /\ FirstNode(x) \in 1 .. Len(pg)
        /\ x.list # Nil => FirstNode(x) <= x.list
    BY <2>2, ProperIs
  <2>4. Height(pg, x) < Height(pg, e)
    BY <1>0, <2>1, <2>2, <2>3 DEF Height, Nil
  <2> QED
    BY <2>1, <2>4 DEF x
<1>5. Height(pg, e) \in 0 .. Len(pg)
  BY <1>0 DEF Height, Nil
<1> QED
  BY <1>2, <1>3, <1>4, <1>5 DEF s

LEMMA EntryInduction ==
  ASSUME NEW pg, IsPage(pg), NEW G,
         \A e \in Entries(pg) : (\A k \in 1 .. Len(Kids(pg, e)) : Kids(pg, e)[k] \in G) => e \in G
  PROVE  Entries(pg) \subseteq G
<1> DEFINE H == {n \in Nat : \A e \in Entries(pg) : Height(pg, e) = n => e \in G}
<1>1. ASSUME NEW n \in Nat, \A m \in 0 .. n - 1 : m \in H PROVE n \in H
  <2> SUFFICES ASSUME NEW e \in Entries(pg), Height(pg, e) = n PROVE e \in G
    OBVIOUS
  <2>1. ASSUME NEW k \in 1 .. Len(Kids(pg, e)) PROVE Kids(pg, e)[k] \in G
    <3> DEFINE x == Kids(pg, e)[k]
    <3>1. x \in Entries(pg) /\ Height(pg, x) < n
      BY KidsAreEntries
    <3>2. Height(pg, x) \in 0 .. Len(pg) /\ Len(pg) \in Nat
      BY <3>1, KidsAreEntries, PageIs
    <3> HIDE DEF x
    <3>3. Height(pg, x) \in 0 .. n - 1
      BY <3>1, <3>2
    <3>4. x \in G
      BY <1>1, <3>1, <3>3
    <3> QED
      BY <3>4 DEF x
  <2> QED
    BY <2>1
<1>2. Nat \subseteq H
  <2> HIDE DEF H
  <2> QED
    BY <1>1, SetInduction
<1>3. ASSUME NEW e \in Entries(pg) PROVE e \in G
  <2>1. Height(pg, e) \in Nat
    BY KidsAreEntries, PageIs
  <2> QED
    BY <1>2, <2>1
<1> QED
  BY <1>3

ItemsStep(pg, heading, g, e) ==
  LET kids == Kids(pg, e) IN
  IF e.heading # Nil /\ pg[e.heading].text = heading
  THEN [k \in DOMAIN kids |-> kids[k].heading]
  ELSE FlattenSeq([k \in DOMAIN kids |-> g[kids[k]]])

LEMMA ItemsBelow ==
  ASSUME NEW pg, IsPage(pg), NEW heading, NEW g, NEW h, NEW e \in Entries(pg),
         \A k \in 1 .. Len(Kids(pg, e)) : g[Kids(pg, e)[k]] = h[Kids(pg, e)[k]]
  PROVE  ItemsStep(pg, heading, g, e) = ItemsStep(pg, heading, h, e)
<1> DEFINE kids == Kids(pg, e)
<1>1. DOMAIN kids = 1 .. Len(kids)
  BY KidsAreEntries
<1>2. \A k \in DOMAIN kids : g[kids[k]] = h[kids[k]]
  BY <1>1
<1> HIDE DEF kids
<1>3. [k \in DOMAIN kids |-> g[kids[k]]] = [k \in DOMAIN kids |-> h[kids[k]]]
  BY <1>2
<1> QED
  BY <1>3 DEF ItemsStep, kids

LEMMA ItemsSolved ==
  ASSUME NEW pg, IsPage(pg), NEW heading
  PROVE  \A e \in Entries(pg) :
           ExtractItems(pg, e, heading) = ItemsStep(pg, heading, [x \in Entries(pg) |-> ExtractItems(pg, x, heading)], e)
<1> DEFINE Solves(f, n) ==
             \A e \in Entries(pg) : Height(pg, e) <= n => f[e] = ItemsStep(pg, heading, f, e)
           G == {n \in Nat : \E f : Solves(f, n)}
           v == CHOOSE f : f = [e \in Entries(pg) |-> ItemsStep(pg, heading, f, e)]
<1>0. ASSUME NEW e \in Entries(pg)
      PROVE  /\ Height(pg, e) \in Nat
             /\ \A k \in 1 .. Len(Kids(pg, e)) :
                  /\ Kids(pg, e)[k] \in Entries(pg) /\ Height(pg, Kids(pg, e)[k]) \in Nat
                  /\ Height(pg, Kids(pg, e)[k]) < Height(pg, e)
  <2>1. \A x \in Entries(pg) : Height(pg, x) \in Nat
    BY KidsAreEntries, PageIs
  <2> QED
    BY <2>1, KidsAreEntries
<1>1. ASSUME NEW n \in Nat, \A m \in 0 .. n - 1 : m \in G PROVE n \in G
  <2>1. \E f : Solves(f, n - 1)
    <3>1. CASE n = 0
      BY <1>0, <3>1
    <3>2. CASE n # 0
      <4>1. n - 1 \in 0 .. n - 1
        BY <3>2
      <4> QED
        BY <1>1, <4>1
    <3> QED
      BY <3>1, <3>2
  <2>2. PICK f : Solves(f, n - 1)
    BY <2>1
  <2> DEFINE h == [e \in Entries(pg) |-> ItemsStep(pg, heading, f, e)]
  <2>3. ASSUME NEW e \in Entries(pg), Height(pg, e) <= n PROVE h[e] = ItemsStep(pg, heading, h, e)
    <3>1. ASSUME NEW k \in 1 .. Len(Kids(pg, e)) PROVE f[Kids(pg, e)[k]] = h[Kids(pg, e)[k]]
      <4> DEFINE x == Kids(pg, e)[k]
      <4>1. x \in Entries(pg) /\ Height(pg, x) <= n - 1
        BY <1>0, <2>3
      <4>2. h[x] = ItemsStep(pg, heading, f, x) /\ f[x] = ItemsStep(pg, heading, f, x)
        BY <2>2, <4>1
      <4> QED
        BY <4>2
    <3> HIDE DEF h
    <3>2. ItemsStep(pg, heading, f, e) = ItemsStep(pg, heading, h, e)
      BY <3>1, ItemsBelow
    <3> QED
      BY <3>2 DEF h
  <2> HIDE DEF h
  <2>4. Solves(h, n)
    BY <2>3
  <2> QED
    BY <2>4
<1>2. Nat \subseteq G
  <2> HIDE DEF G
  <2> QED
    BY <1>1, SetInduction
<1>3. PICK f : \A e \in Entries(pg) : f[e] = ItemsStep(pg, heading, f, e)
  <2>1. Len(pg) \in Nat /\ \A e \in Entries(pg) : Height(pg, e) <= Len(pg)
    BY KidsAreEntries, PageIs
  <2>2. \E f : Solves(f, Len(pg))
    BY <1>2, <2>1
  <2>3. PICK f : Solves(f, Len(pg))
    BY <2>2
  <2>4. \A e \in Entries(pg) : f[e] = ItemsStep(pg, heading, f, e)
    BY <2>1, <2>3
  <2> QED
    BY <2>4
<1> DEFINE w == [e \in Entries(pg) |-> f[e]]
<1>4. ASSUME NEW e \in Entries(pg) PROVE w[e] = ItemsStep(pg, heading, w, e)
  <2>1. w[e] = f[e] /\ \A k \in 1 .. Len(Kids(pg, e)) : f[Kids(pg, e)[k]] = w[Kids(pg, e)[k]]
    BY <1>0
  <2> HIDE DEF w
  <2>2. ItemsStep(pg, heading, f, e) = ItemsStep(pg, heading, w, e)
    BY <2>1, ItemsBelow
  <2> QED
    BY <1>3, <2>1, <2>2
<1>5. w = [e \in Entries(pg) |-> ItemsStep(pg, heading, w, e)]
  BY <1>4
<1>6. v = [e \in Entries(pg) |-> ItemsStep(pg, heading, v, e)]
  <2> HIDE DEF w
  <2> QED
    BY <1>5
<1>7. \A x : ExtractItems(pg, x, heading) = v[x]
  BY DEF ExtractItems, ItemsStep
<1> HIDE DEF v
<1>8. v = [x \in Entries(pg) |-> ExtractItems(pg, x, heading)]
  BY <1>6, <1>7
<1> QED
  BY <1>6, <1>7, <1>8

LeftStep(pg, marked, g, e) ==
  LET kids == Kids(pg, e) IN
  IF kids = <<>> /\ e.heading # Nil
  THEN IF e.heading \in marked THEN {} ELSE {e}
  ELSE IF \A k \in DOMAIN kids : g[kids[k]] = {} THEN {} ELSE {e}

LEMMA LeftBelow ==
  ASSUME NEW pg, IsPage(pg), NEW marked, NEW g, NEW h, NEW e \in Entries(pg),
         \A k \in 1 .. Len(Kids(pg, e)) : g[Kids(pg, e)[k]] = h[Kids(pg, e)[k]]
  PROVE  LeftStep(pg, marked, g, e) = LeftStep(pg, marked, h, e)
<1> DEFINE kids == Kids(pg, e)
<1>1. DOMAIN kids = 1 .. Len(kids)
  BY KidsAreEntries
<1>2. \A k \in DOMAIN kids : g[kids[k]] = h[kids[k]]
  BY <1>1
<1> HIDE DEF kids
<1>3. (\A k \in DOMAIN kids : g[kids[k]] = {}) <=> (\A k \in DOMAIN kids : h[kids[k]] = {})
  BY <1>2
<1> QED
  BY <1>3 DEF LeftStep, kids

LEMMA LeftSolved ==
  ASSUME NEW pg, IsPage(pg), NEW marked
  PROVE  \A e \in Entries(pg) :
           Uncovered(pg, marked, e) = LeftStep(pg, marked, [x \in Entries(pg) |-> Uncovered(pg, marked, x)], e)
<1> DEFINE Solves(f, n) ==
             \A e \in Entries(pg) : Height(pg, e) <= n => f[e] = LeftStep(pg, marked, f, e)
           G == {n \in Nat : \E f : Solves(f, n)}
           v == CHOOSE f : f = [e \in Entries(pg) |-> LeftStep(pg, marked, f, e)]
<1>0. ASSUME NEW e \in Entries(pg)
      PROVE  /\ Height(pg, e) \in Nat
             /\ \A k \in 1 .. Len(Kids(pg, e)) :
                  /\ Kids(pg, e)[k] \in Entries(pg) /\ Height(pg, Kids(pg, e)[k]) \in Nat
                  /\ Height(pg, Kids(pg, e)[k]) < Height(pg, e)
  <2>1. \A x \in Entries(pg) : Height(pg, x) \in Nat
    BY KidsAreEntries, PageIs
  <2> QED
    BY <2>1, KidsAreEntries
<1>1. ASSUME NEW n \in Nat, \A m \in 0 .. n - 1 : m \in G PROVE n \in G
  <2>1. \E f : Solves(f, n - 1)
    <3>1. CASE n = 0
      BY <1>0, <3>1
    <3>2. CASE n # 0
      <4>1. n - 1 \in 0 .. n - 1
        BY <3>2
      <4> QED
        BY <1>1, <4>1
    <3> QED
      BY <3>1, <3>2
  <2>2. PICK f : Solves(f, n - 1)
    BY <2>1
  <2> DEFINE h == [e \in Entries(pg) |-> LeftStep(pg, marked, f, e)]
  <2>3. ASSUME NEW e \in Entries(pg), Height(pg, e) <= n PROVE h[e] = LeftStep(pg, marked, h, e)
    <3>1. ASSUME NEW k \in 1 .. Len(Kids(pg, e)) PROVE f[Kids(pg, e)[k]] = h[Kids(pg, e)[k]]
      <4> DEFINE x == Kids(pg, e)[k]
      <4>1. x \in Entries(pg) /\ Height(pg, x) <= n - 1
        BY <1>0, <2>3
      <4>2. h[x] = LeftStep(pg, marked, f, x) /\ f[x] = LeftStep(pg, marked, f, x)
        BY <2>2, <4>1
      <4> QED
        BY <4>2
    <3> HIDE DEF h
    <3>2. LeftStep(pg, marked, f, e) = LeftStep(pg, marked, h, e)
      BY <3>1, LeftBelow
    <3> QED
      BY <3>2 DEF h
  <2> HIDE DEF h
  <2>4. Solves(h, n)
    BY <2>3
  <2> QED
    BY <2>4
<1>2. Nat \subseteq G
  <2> HIDE DEF G
  <2> QED
    BY <1>1, SetInduction
<1>3. PICK f : \A e \in Entries(pg) : f[e] = LeftStep(pg, marked, f, e)
  <2>1. Len(pg) \in Nat /\ \A e \in Entries(pg) : Height(pg, e) <= Len(pg)
    BY KidsAreEntries, PageIs
  <2>2. \E f : Solves(f, Len(pg))
    BY <1>2, <2>1
  <2>3. PICK f : Solves(f, Len(pg))
    BY <2>2
  <2>4. \A e \in Entries(pg) : f[e] = LeftStep(pg, marked, f, e)
    BY <2>1, <2>3
  <2> QED
    BY <2>4
<1> DEFINE w == [e \in Entries(pg) |-> f[e]]
<1>4. ASSUME NEW e \in Entries(pg) PROVE w[e] = LeftStep(pg, marked, w, e)
  <2>1. w[e] = f[e] /\ \A k \in 1 .. Len(Kids(pg, e)) : f[Kids(pg, e)[k]] = w[Kids(pg, e)[k]]
    BY <1>0
  <2> HIDE DEF w
  <2>2. LeftStep(pg, marked, f, e) = LeftStep(pg, marked, w, e)
    BY <2>1, LeftBelow
  <2> QED
    BY <1>3, <2>1, <2>2
<1>5. w = [e \in Entries(pg) |-> LeftStep(pg, marked, w, e)]
  BY <1>4
<1>6. v = [e \in Entries(pg) |-> LeftStep(pg, marked, v, e)]
  <2> HIDE DEF w
  <2> QED
    BY <1>5
<1>7. \A x : Uncovered(pg, marked, x) = v[x]
  BY DEF Uncovered, LeftStep
<1> HIDE DEF v
<1>8. v = [x \in Entries(pg) |-> Uncovered(pg, marked, x)]
  BY <1>6, <1>7
<1> QED
  BY <1>6, <1>7, <1>8

HtmlStep(pg, marked, g, e) ==
  LET kids == Kids(pg, e)
      heading == IF e.heading # Nil /\ (kids = <<>> \/ e.heading \notin marked)
                 THEN <<e.heading>> ELSE <<>>
  IN heading \o FlattenSeq([k \in DOMAIN kids |->
       IF Uncovered(pg, marked, kids[k]) = {} THEN <<>> ELSE g[kids[k]]])

LEMMA HtmlBelow ==
  ASSUME NEW pg, IsPage(pg), NEW marked, NEW g, NEW h, NEW e \in Entries(pg),
         \A k \in 1 .. Len(Kids(pg, e)) : g[Kids(pg, e)[k]] = h[Kids(pg, e)[k]]
  PROVE  HtmlStep(pg, marked, g, e) = HtmlStep(pg, marked, h, e)
<1> DEFINE kids == Kids(pg, e)
<1>1. DOMAIN kids = 1 .. Len(kids)
  BY KidsAreEntries
<1>2. \A k \in DOMAIN kids : g[kids[k]] = h[kids[k]]
  BY <1>1
<1> HIDE DEF kids
<1>3. [k \in DOMAIN kids |-> IF Uncovered(pg, marked, kids[k]) = {} THEN <<>> ELSE g[kids[k]]]
        = [k \in DOMAIN kids |-> IF Uncovered(pg, marked, kids[k]) = {} THEN <<>> ELSE h[kids[k]]]
  BY <1>2
<1> QED
  BY <1>3 DEF HtmlStep, kids

LEMMA HtmlSolved ==
  ASSUME NEW pg, IsPage(pg), NEW marked
  PROVE  \A e \in Entries(pg) :
           EntryToHtml(pg, marked, e) = HtmlStep(pg, marked, [x \in Entries(pg) |-> EntryToHtml(pg, marked, x)], e)
<1> DEFINE Solves(f, n) ==
             \A e \in Entries(pg) : Height(pg, e) <= n => f[e] = HtmlStep(pg, marked, f, e)
           G == {n \in Nat : \E f : Solves(f, n)}
           v == CHOOSE f : f = [e \in Entries(pg) |-> HtmlStep(pg, marked, f, e)]
<1>0. ASSUME NEW e \in Entries(pg)
      PROVE  /\ Height(pg, e) \in Nat
             /\ \A k \in 1 .. Len(Kids(pg, e)) :
                  /\ Kids(pg, e)[k] \in Entries(pg) /\ Height(pg, Kids(pg, e)[k]) \in Nat
                  /\ Height(pg, Kids(pg, e)[k]) < Height(pg, e)
  <2>1. \A x \in Entries(pg) : Height(pg, x) \in Nat
    BY KidsAreEntries, PageIs
  <2> QED
    BY <2>1, KidsAreEntries
<1>1. ASSUME NEW n \in Nat, \A m \in 0 .. n - 1 : m \in G PROVE n \in G
  <2>1. \E f : Solves(f, n - 1)
    <3>1. CASE n = 0
      BY <1>0, <3>1
    <3>2. CASE n # 0
      <4>1. n - 1 \in 0 .. n - 1
        BY <3>2
      <4> QED
        BY <1>1, <4>1
    <3> QED
      BY <3>1, <3>2
  <2>2. PICK f : Solves(f, n - 1)
    BY <2>1
  <2> DEFINE h == [e \in Entries(pg) |-> HtmlStep(pg, marked, f, e)]
  <2>3. ASSUME NEW e \in Entries(pg), Height(pg, e) <= n PROVE h[e] = HtmlStep(pg, marked, h, e)
    <3>1. ASSUME NEW k \in 1 .. Len(Kids(pg, e)) PROVE f[Kids(pg, e)[k]] = h[Kids(pg, e)[k]]
      <4> DEFINE x == Kids(pg, e)[k]
      <4>1. x \in Entries(pg) /\ Height(pg, x) <= n - 1
        BY <1>0, <2>3
      <4>2. h[x] = HtmlStep(pg, marked, f, x) /\ f[x] = HtmlStep(pg, marked, f, x)
        BY <2>2, <4>1
      <4> QED
        BY <4>2
    <3> HIDE DEF h
    <3>2. HtmlStep(pg, marked, f, e) = HtmlStep(pg, marked, h, e)
      BY <3>1, HtmlBelow
    <3> QED
      BY <3>2 DEF h
  <2> HIDE DEF h
  <2>4. Solves(h, n)
    BY <2>3
  <2> QED
    BY <2>4
<1>2. Nat \subseteq G
  <2> HIDE DEF G
  <2> QED
    BY <1>1, SetInduction
<1>3. PICK f : \A e \in Entries(pg) : f[e] = HtmlStep(pg, marked, f, e)
  <2>1. Len(pg) \in Nat /\ \A e \in Entries(pg) : Height(pg, e) <= Len(pg)
    BY KidsAreEntries, PageIs
  <2>2. \E f : Solves(f, Len(pg))
    BY <1>2, <2>1
  <2>3. PICK f : Solves(f, Len(pg))
    BY <2>2
  <2>4. \A e \in Entries(pg) : f[e] = HtmlStep(pg, marked, f, e)
    BY <2>1, <2>3
  <2> QED
    BY <2>4
<1> DEFINE w == [e \in Entries(pg) |-> f[e]]
<1>4. ASSUME NEW e \in Entries(pg) PROVE w[e] = HtmlStep(pg, marked, w, e)
  <2>1. w[e] = f[e] /\ \A k \in 1 .. Len(Kids(pg, e)) : f[Kids(pg, e)[k]] = w[Kids(pg, e)[k]]
    BY <1>0
  <2> HIDE DEF w
  <2>2. HtmlStep(pg, marked, f, e) = HtmlStep(pg, marked, w, e)
    BY <2>1, HtmlBelow
  <2> QED
    BY <1>3, <2>1, <2>2
<1>5. w = [e \in Entries(pg) |-> HtmlStep(pg, marked, w, e)]
  BY <1>4
<1>6. v = [e \in Entries(pg) |-> HtmlStep(pg, marked, v, e)]
  <2> HIDE DEF w
  <2> QED
    BY <1>5
<1>7. \A x : EntryToHtml(pg, marked, x) = v[x]
  BY DEF EntryToHtml, HtmlStep
<1> HIDE DEF v
<1>8. v = [x \in Entries(pg) |-> EntryToHtml(pg, marked, x)]
  BY <1>6, <1>7
<1> QED
  BY <1>6, <1>7, <1>8

LeafStep(pg, g, e) ==
  LET kids == Kids(pg, e) IN
  IF kids = <<>> THEN {e.heading} \ {Nil}
  ELSE UNION {g[kids[k]] : k \in DOMAIN kids}

LEMMA LeafBelow ==
  ASSUME NEW pg, IsPage(pg), NEW g, NEW h, NEW e \in Entries(pg),
         \A k \in 1 .. Len(Kids(pg, e)) : g[Kids(pg, e)[k]] = h[Kids(pg, e)[k]]
  PROVE  LeafStep(pg, g, e) = LeafStep(pg, h, e)
<1> DEFINE kids == Kids(pg, e)
<1>1. DOMAIN kids = 1 .. Len(kids)
  BY KidsAreEntries
<1>2. \A k \in DOMAIN kids : g[kids[k]] = h[kids[k]]
  BY <1>1
<1> HIDE DEF kids
<1>3. {g[kids[k]] : k \in DOMAIN kids} = {h[kids[k]] : k \in DOMAIN kids}
  BY <1>2
<1> QED
  BY <1>3 DEF LeafStep, kids

LEMMA LeafSolved ==
  ASSUME NEW pg, IsPage(pg)
  PROVE  \A e \in Entries(pg) :
           Leaves(pg, e) = LeafStep(pg, [x \in Entries(pg) |-> Leaves(pg, x)], e)
<1> DEFINE Solves(f, n) ==
             \A e \in Entries(pg) : Height(pg, e) <= n => f[e] = LeafStep(pg, f, e)
           G == {n \in Nat : \E f : Solves(f, n)}
           v == CHOOSE f : f = [e \in Entries(pg) |-> LeafStep(pg, f, e)]
<1>0. ASSUME NEW e \in Entries(pg)
      PROVE  /\ Height(pg, e) \in Nat
             /\ \A k \in 1 .. Len(Kids(pg, e)) :
                  /\ Kids(pg, e)[k] \in Entries(pg) /\ Height(pg, Kids(pg, e)[k]) \in Nat
                  /\ Height(pg, Kids(pg, e)[k]) < Height(pg, e)
  <2>1. \A x \in Entries(pg) : Height(pg, x) \in Nat
    BY KidsAreEntries, PageIs
  <2> QED
    BY <2>1, KidsAreEntries
<1>1. ASSUME NEW n \in Nat, \A m \in 0 .. n - 1 : m \in G PROVE n \in G
  <2>1. \E f : Solves(f, n - 1)
    <3>1. CASE n = 0
      BY <1>0, <3>1
    <3>2. CASE n # 0
      <4>1. n - 1 \in 0 .. n - 1
        BY <3>2
      <4> QED
        BY <1>1, <4>1
    <3> QED
      BY <3>1, <3>2
  <2>2. PICK f : Solves(f, n - 1)
    BY <2>1
  <2> DEFINE h == [e \in Entries(pg) |-> LeafStep(pg, f, e)]
  <2>3. ASSUME NEW e \in Entries(pg), Height(pg, e) <= n PROVE h[e] = LeafStep(pg, h, e)
    <3>1. ASSUME NEW k \in 1 .. Len(Kids(pg, e)) PROVE f[Kids(pg, e)[k]] = h[Kids(pg, e)[k]]
      <4> DEFINE x == Kids(pg, e)[k]
      <4>1. x \in Entries(pg) /\ Height(pg, x) <= n - 1
        BY <1>0, <2>3
      <4>2. h[x] = LeafStep(pg, f, x) /\ f[x] = LeafStep(pg, f, x)
        BY <2>2, <4>1
      <4> QED
        BY <4>2
    <3> HIDE DEF h
    <3>2. LeafStep(pg, f, e) = LeafStep(pg, h, e)
      BY <3>1, LeafBelow
    <3> QED
      BY <3>2 DEF h
  <2> HIDE DEF h
  <2>4. Solves(h, n)
    BY <2>3
  <2> QED
    BY <2>4
<1>2. Nat \subseteq G
  <2> HIDE DEF G
  <2> QED
    BY <1>1, SetInduction
<1>3. PICK f : \A e \in Entries(pg) : f[e] = LeafStep(pg, f, e)
  <2>1. Len(pg) \in Nat /\ \A e \in Entries(pg) : Height(pg, e) <= Len(pg)
    BY KidsAreEntries, PageIs
  <2>2. \E f : Solves(f, Len(pg))
    BY <1>2, <2>1
  <2>3. PICK f : Solves(f, Len(pg))
    BY <2>2
  <2>4. \A e \in Entries(pg) : f[e] = LeafStep(pg, f, e)
    BY <2>1, <2>3
  <2> QED
    BY <2>4
<1> DEFINE w == [e \in Entries(pg) |-> f[e]]
<1>4. ASSUME NEW e \in Entries(pg) PROVE w[e] = LeafStep(pg, w, e)
  <2>1. w[e] = f[e] /\ \A k \in 1 .. Len(Kids(pg, e)) : f[Kids(pg, e)[k]] = w[Kids(pg, e)[k]]
    BY <1>0
  <2> HIDE DEF w
  <2>2. LeafStep(pg, f, e) = LeafStep(pg, w, e)
    BY <2>1, LeafBelow
  <2> QED
    BY <1>3, <2>1, <2>2
<1>5. w = [e \in Entries(pg) |-> LeafStep(pg, w, e)]
  BY <1>4
<1>6. v = [e \in Entries(pg) |-> LeafStep(pg, v, e)]
  <2> HIDE DEF w
  <2> QED
    BY <1>5
<1>7. \A x : Leaves(pg, x) = v[x]
  BY DEF Leaves, LeafStep
<1> HIDE DEF v
<1>8. v = [x \in Entries(pg) |-> Leaves(pg, x)]
  BY <1>6, <1>7
<1> QED
  BY <1>6, <1>7, <1>8

-----------------------------------------------------------------------------
(***************************************************************************)
(* Sequences of nodes, missing ones among them, in document order.         *)
(***************************************************************************)
Elements(s) == {s[k] : k \in 1 .. Len(s)}

Ordered(pg, s, lo, hi) ==
  /\ s \in Seq(0 .. Len(pg))
  /\ \A k \in 1 .. Len(s) : s[k] # 0 => lo <= s[k] /\ s[k] <= hi
  /\ \A k, l \in 1 .. Len(s) : k < l /\ s[k] # 0 /\ s[l] # 0 => s[k] < s[l]

LEMMA FlattenElements ==
  ASSUME NEW S, NEW ss \in Seq(Seq(S))
  PROVE  Elements(FlattenSeq(ss)) = UNION {Elements(ss[k]) : k \in 1 .. Len(ss)}
<1> DEFINE f == FlattenSeq(ss)
<1>1. PICK block, pos : Parts(ss, Len(ss), f, block, pos)
  BY FlattenParts
<1> HIDE DEF f
<1>2. /\ \A i \in 1 .. Len(f) :
           /\ block[i] \in 1 .. Len(ss) /\ pos[i] \in 1 .. Len(ss[block[i]])
           /\ f[i] = ss[block[i]][pos[i]]
      /\ \A k \in 1 .. Len(ss) : \A l \in 1 .. Len(ss[k]) :
           \E i \in 1 .. Len(f) : block[i] = k /\ pos[i] = l
  BY <1>1 DEF Parts
<1>3. ASSUME NEW x \in Elements(f) PROVE \E k \in 1 .. Len(ss) : x \in Elements(ss[k])
  <2>1. PICK i \in 1 .. Len(f) : x = f[i]
    BY <1>3 DEF Elements
  <2>2. x \in Elements(ss[block[i]])
    BY <1>2, <2>1 DEF Elements
  <2> QED
    BY <1>2, <2>1, <2>2
<1>4. ASSUME NEW k \in 1 .. Len(ss), NEW x \in Elements(ss[k]) PROVE x \in Elements(f)
  <2>1. PICK l \in 1 .. Len(ss[k]) : x = ss[k][l]
    BY <1>4 DEF Elements
  <2>2. PICK i \in 1 .. Len(f) : block[i] = k /\ pos[i] = l
    BY <1>2
  <2>3. f[i] = x
    BY <1>2, <2>1, <2>2
  <2> QED
    BY <2>3 DEF Elements
<1> QED
  BY <1>3, <1>4 DEF f

LEMMA OrderedNone ==
  ASSUME NEW pg, NEW lo, NEW hi
  PROVE  Ordered(pg, <<>>, lo, hi)
<1>1. <<>> \in Seq(0 .. Len(pg)) /\ Len(<<>>) = 0
  OBVIOUS
<1> QED
  BY <1>1 DEF Ordered

LEMMA OrderedWider ==
  ASSUME NEW pg, IsPage(pg), NEW s, NEW lo \in Int, NEW hi \in Int, NEW lo2 \in Int, NEW hi2 \in Int,
         Ordered(pg, s, lo, hi), lo2 <= lo, hi <= hi2
  PROVE  Ordered(pg, s, lo2, hi2)
<1>1. ASSUME NEW k \in 1 .. Len(s), s[k] # 0 PROVE lo2 <= s[k] /\ s[k] <= hi2
  <2> DEFINE m == s[k]
  <2>1. m \in 0 .. Len(pg) /\ Len(pg) \in Nat /\ lo <= m /\ m <= hi
    BY <1>1, PageIs, ElementOfSeq DEF Ordered
  <2> HIDE DEF m
  <2>2. lo2 <= m /\ m <= hi2
    BY <2>1
  <2> QED
    BY <2>2 DEF m
<1> QED
  BY <1>1 DEF Ordered

LEMMA OrderedFlatten ==
  ASSUME NEW pg, IsPage(pg), NEW s, NEW lo \in Int, NEW hi \in Int, Listed(pg, s, lo, hi),
         NEW ss \in Seq(Seq(0 .. Len(pg))), Len(ss) = Len(s),
         \A k \in 1 .. Len(s) : Ordered(pg, ss[k], FirstNode(s[k]), LastNode(pg, s[k]))
  PROVE  Ordered(pg, FlattenSeq(ss), lo, hi)
<1> DEFINE f == FlattenSeq(ss)
<1>1. f \in Seq(0 .. Len(pg)) /\ \E block, pos : Parts(ss, Len(ss), f, block, pos)
  BY FlattenParts
<1>2. PICK block, pos : Parts(ss, Len(ss), f, block, pos)
  BY <1>1
<1> HIDE DEF f
<1>3. \A i \in 1 .. Len(f) :
       /\ block[i] \in 1 .. Len(s) /\ pos[i] \in 1 .. Len(ss[block[i]])
       /\ f[i] = ss[block[i]][pos[i]]
  BY <1>2 DEF Parts
<1>4. ASSUME NEW k \in 1 .. Len(s)
      PROVE  /\ FirstNode(s[k]) \in 1 .. Len(pg) /\ LastNode(pg, s[k]) \in 1 .. Len(pg) /\ Len(pg) \in Nat
             /\ lo <= FirstNode(s[k]) /\ LastNode(pg, s[k]) <= hi
             /\ \A l \in 1 .. Len(s) : k < l => LastNode(pg, s[k]) < FirstNode(s[l])
  BY ProperIs, PageIs DEF Listed
<1>5. ASSUME NEW i \in 1 .. Len(f), f[i] # 0
      PROVE  /\ f[i] \in 1 .. Len(pg)
             /\ FirstNode(s[block[i]]) <= f[i] /\ f[i] <= LastNode(pg, s[block[i]])
  <2> DEFINE r == ss[block[i]]
             e == s[block[i]]
  <2>1. Ordered(pg, r, FirstNode(e), LastNode(pg, e)) /\ pos[i] \in 1 .. Len(r) /\ f[i] = r[pos[i]]
    BY <1>3
  <2>2. f[i] \in 0 .. Len(pg) /\ Len(pg) \in Nat
    BY <1>1, ElementOfSeq, PageIs
  <2> HIDE DEF r, e
  <2>3. f[i] \in 1 .. Len(pg) /\ FirstNode(e) <= f[i] /\ f[i] <= LastNode(pg, e)
    BY <1>5, <2>1, <2>2 DEF Ordered
  <2> QED
    BY <2>3 DEF e
<1>6. ASSUME NEW i \in 1 .. Len(f), f[i] # 0 PROVE lo <= f[i] /\ f[i] <= hi
  <2> DEFINE d == FirstNode(s[block[i]])
             e == LastNode(pg, s[block[i]])
             m == f[i]
  <2>1. /\ d \in 1 .. Len(pg) /\ e \in 1 .. Len(pg) /\ Len(pg) \in Nat /\ lo <= d /\ e <= hi
        /\ m \in 1 .. Len(pg) /\ d <= m /\ m <= e
    BY <1>3, <1>4, <1>5, <1>6
  <2> HIDE DEF d, e, m
  <2>2. lo <= m /\ m <= hi
    BY <2>1
  <2> QED
    BY <2>2 DEF m
<1>7. ASSUME NEW i \in 1 .. Len(f), NEW j \in 1 .. Len(f), i < j, f[i] # 0, f[j] # 0
      PROVE  f[i] < f[j]
  <2>1. block[i] < block[j] \/ (block[i] = block[j] /\ pos[i] < pos[j])
    BY <1>2, <1>7 DEF Parts
  <2>2. CASE block[i] < block[j]
    <3> DEFINE d == LastNode(pg, s[block[i]])
               e == FirstNode(s[block[j]])
               m == f[i]
               n == f[j]
    <3>1. d < e /\ d \in 1 .. Len(pg) /\ e \in 1 .. Len(pg)
      BY <1>3, <1>4, <2>2
    <3>2. m \in 1 .. Len(pg) /\ n \in 1 .. Len(pg) /\ m <= d /\ e <= n /\ Len(pg) \in Nat
      BY <1>5, <1>7, PageIs
    <3> HIDE DEF d, e, m, n
    <3>3. m < n
      BY <3>1, <3>2
    <3> QED
      BY <3>3 DEF m, n
  <2>3. CASE block[i] = block[j] /\ pos[i] < pos[j]
    <3> DEFINE r == ss[block[i]]
               e == s[block[i]]
    <3>1. /\ Ordered(pg, r, FirstNode(e), LastNode(pg, e))
          /\ pos[i] \in 1 .. Len(r) /\ pos[j] \in 1 .. Len(r)
          /\ f[i] = r[pos[i]] /\ f[j] = r[pos[j]]
      BY <1>3, <2>3
    <3> HIDE DEF r, e
    <3> QED
      BY <1>7, <2>3, <3>1 DEF Ordered
  <2> QED
    BY <2>1, <2>2, <2>3
<1>8. Ordered(pg, f, lo, hi)
  BY <1>1, <1>6, <1>7 DEF Ordered
<1> QED
  BY <1>8 DEF f

-----------------------------------------------------------------------------
(***************************************************************************)
(* What extractItems collects below an entry lies behind its list, in      *)
(* document order, and is never collected for another heading.             *)
(***************************************************************************)
LEMMA ItemsAre ==
  ASSUME NEW pg, IsPage(pg), NEW heading, NEW e \in Entries(pg), NEW kids, kids = Kids(pg, e)
  PROVE  ExtractItems(pg, e, heading) =
           IF e.heading # Nil /\ pg[e.heading].text = heading
           THEN [k \in 1 .. Len(kids) |-> kids[k].heading]
           ELSE FlattenSeq([k \in 1 .. Len(kids) |-> ExtractItems(pg, kids[k], heading)])
<1> DEFINE g == [x \in Entries(pg) |-> ExtractItems(pg, x, heading)]
<1>1. DOMAIN kids = 1 .. Len(kids) /\ \A k \in 1 .. Len(kids) : kids[k] \in Entries(pg)
  BY KidsAreEntries
<1>2. ExtractItems(pg, e, heading) = ItemsStep(pg, heading, g, e)
  BY ItemsSolved
<1>3. \A k \in 1 .. Len(kids) : g[kids[k]] = ExtractItems(pg, kids[k], heading)
  BY <1>1
<1> HIDE DEF g
<1>4. [k \in DOMAIN kids |-> g[kids[k]]] = [k \in 1 .. Len(kids) |-> ExtractItems(pg, kids[k], heading)]
  BY <1>1, <1>3
<1> QED
  BY <1>1, <1>2, <1>4 DEF ItemsStep

LEMMA ItemsOrdered ==
  ASSUME NEW pg, IsPage(pg), NEW heading
  PROVE  \A e \in Entries(pg) :
           /\ e.list = Nil => ExtractItems(pg, e, heading) = <<>>
           /\ Ordered(pg, ExtractItems(pg, e, heading), e.list + 1, LastNode(pg, e))
<1> DEFINE G == {e \in Entries(pg) :
                   /\ e.list = Nil => ExtractItems(pg, e, heading) = <<>>
                   /\ Ordered(pg, ExtractItems(pg, e, heading), e.list + 1, LastNode(pg, e))}
<1>1. ASSUME NEW e \in Entries(pg),
             \A k \in 1 .. Len(Kids(pg, e)) : Kids(pg, e)[k] \in G
      PROVE  e \in G
  <2> DEFINE s == Kids(pg, e)
             hs == [k \in 1 .. Len(s) |-> s[k].heading]
             ss == [k \in 1 .. Len(s) |-> ExtractItems(pg, s[k], heading)]
             lo == e.list + 1
             hi == LastNode(pg, e)
  <2>1. /\ s \in Seq(Entries(pg)) /\ Len(s) \in Nat /\ (s = <<>> <=> Len(s) = 0)
        /\ \A k \in 1 .. Len(s) : s[k] \in Entries(pg)
    BY KidsAreEntries
  <2>2. ExtractItems(pg, e, heading) =
          IF e.heading # Nil /\ pg[e.heading].text = heading THEN hs ELSE FlattenSeq(ss)
    BY ItemsAre
  <2>3. CASE e.list = Nil
    <3>1. s = <<>> /\ Len(s) = 0
      BY <2>1, <2>3, KidsListed
    <3>2. hs = <<>> /\ ss = <<>> /\ Len(<<>>) = 0
      BY <3>1
    <3>3. FlattenSeq(ss) = <<>>
      BY <3>2, FlattenIs
    <3> HIDE DEF hs, ss
    <3> QED
      BY <2>2, <3>2, <3>3, OrderedNone
  <2>4. CASE e.list # Nil
    <3>1. Listed(pg, s, lo, hi) /\ e.list \in 1 .. Len(pg)
      BY <2>4, KidsListed DEF LastNode
    <3>2. lo \in Int /\ hi \in Int
      <4>1. pg[e.list].last \in Int
        BY <3>1, PageIs
      <4> QED
        BY <2>4, <3>1, <4>1 DEF LastNode
    <3>3. ASSUME NEW k \in 1 .. Len(s)
          PROVE  /\ Nested(pg, s[k]) /\ s[k].heading \in 0 .. Len(pg)
                 /\ lo <= FirstNode(s[k]) /\ FirstNode(s[k]) <= LastNode(pg, s[k]) /\ LastNode(pg, s[k]) <= hi
                 /\ s[k].heading # 0 => s[k].heading = FirstNode(s[k])
                 /\ FirstNode(s[k]) \in 1 .. Len(pg) /\ LastNode(pg, s[k]) \in 1 .. Len(pg)
                 /\ s[k].list # 0 => FirstNode(s[k]) <= s[k].list
                 /\ s[k].list \in 0 .. Len(pg)
      <4>1. Nested(pg, s[k]) /\ lo <= FirstNode(s[k]) /\ LastNode(pg, s[k]) <= hi
        BY <3>1 DEF Listed
      <4> HIDE DEF s
      <4> QED
        BY <4>1, ProperIs DEF Nil
    <3>4. Len(pg) \in Nat
      BY PageIs
    <3>5. CASE e.heading # Nil /\ pg[e.heading].text = heading
      <4>1. hs \in Seq(0 .. Len(pg)) /\ Len(hs) = Len(s) /\ \A k \in 1 .. Len(s) : hs[k] = s[k].heading
        BY <2>1, <3>3
      <4>2. \A k, l \in 1 .. Len(s) : k < l => LastNode(pg, s[k]) < FirstNode(s[l])
        BY <3>1 DEF Listed
      <4> HIDE DEF hs, s, lo, hi
      <4>3. ASSUME NEW k \in 1 .. Len(s), hs[k] # 0 PROVE lo <= hs[k] /\ hs[k] <= hi
        <5> DEFINE d == FirstNode(s[k])
                   m == LastNode(pg, s[k])
        <5>1. hs[k] = d /\ lo <= d /\ d <= m /\ m <= hi /\ d \in 1 .. Len(pg) /\ m \in 1 .. Len(pg)
          BY <3>3, <4>1, <4>3
        <5> HIDE DEF d, m
        <5> QED
          BY <3>2, <3>4, <5>1
      <4>4. ASSUME NEW k \in 1 .. Len(s), NEW l \in 1 .. Len(s), k < l, hs[k] # 0, hs[l] # 0
            PROVE  hs[k] < hs[l]
        <5> DEFINE d == FirstNode(s[k])
                   m == LastNode(pg, s[k])
                   n == FirstNode(s[l])
        <5>1. /\ hs[k] = d /\ d <= m /\ m < n /\ hs[l] = n
              /\ d \in 1 .. Len(pg) /\ m \in 1 .. Len(pg) /\ n \in 1 .. Len(pg)
          BY <3>3, <4>1, <4>2, <4>4
        <5> HIDE DEF d, m, n
        <5> QED
          BY <3>4, <5>1
      <4>5. Ordered(pg, hs, lo, hi)
        BY <4>1, <4>3, <4>4 DEF Ordered
      <4> QED
        BY <2>2, <2>4, <3>5, <4>5 DEF lo, hi
    <3>6. CASE ~(e.heading # Nil /\ pg[e.heading].text = heading)
      <4>1. ASSUME NEW k \in 1 .. Len(s)
            PROVE  Ordered(pg, ExtractItems(pg, s[k], heading), FirstNode(s[k]), LastNode(pg, s[k]))
        <5>1. /\ s[k].list = Nil => ExtractItems(pg, s[k], heading) = <<>>
              /\ Ordered(pg, ExtractItems(pg, s[k], heading), s[k].list + 1, LastNode(pg, s[k]))
          BY <1>1
        <5>2. CASE s[k].list = Nil
          BY <5>1, <5>2, OrderedNone
        <5>3. CASE s[k].list # Nil
          <6> DEFINE d == FirstNode(s[k])
                     m == LastNode(pg, s[k])
                     u == s[k].list
          <6>1. d \in Int /\ m \in Int /\ u + 1 \in Int /\ d <= u + 1
            BY <3>3, <3>4, <5>3 DEF Nil
          <6>2. Ordered(pg, ExtractItems(pg, s[k], heading), u + 1, m)
            BY <5>1
          <6> HIDE DEF d, m, u, s
          <6>3. Ordered(pg, ExtractItems(pg, s[k], heading), d, m)
            <7>1. m <= m
              BY <6>1
            <7> QED
              BY <6>1, <6>2, <7>1, OrderedWider
          <6> QED
            BY <6>3 DEF d, m
        <5> QED
          BY <5>2, <5>3
      <4>2. /\ ss \in Seq(Seq(0 .. Len(pg))) /\ Len(ss) = Len(s)
            /\ \A k \in 1 .. Len(s) : ss[k] = ExtractItems(pg, s[k], heading)
        <5>1. \A k \in 1 .. Len(s) : ExtractItems(pg, s[k], heading) \in Seq(0 .. Len(pg))
          BY <4>1 DEF Ordered
        <5> QED
          BY <2>1, <5>1
      <4> HIDE DEF ss, s, lo, hi
      <4>3. Ordered(pg, FlattenSeq(ss), lo, hi)
        <5>1. \A k \in 1 .. Len(s) : Ordered(pg, ss[k], FirstNode(s[k]), LastNode(pg, s[k]))
          BY <4>1, <4>2
        <5> QED
          BY <3>1, <3>2, <4>2, <5>1, OrderedFlatten
      <4>4. ExtractItems(pg, e, heading) = FlattenSeq(ss)
        BY <2>2, <3>6
      <4> QED
        BY <2>4, <4>3, <4>4 DEF lo, hi
    <3> QED
      BY <3>5, <3>6
  <2> QED
    BY <2>3, <2>4
<1>2. Entries(pg) \subseteq G
  <2> HIDE DEF G
  <2> QED
    BY <1>1, EntryInduction
<1> QED
  BY <1>2

Apart(s, r) == \A x \in Elements(s) : x \in Elements(r) => x = 0

\* What lies in one kid and in another is missing.
LEMMA KidsApart ==
  ASSUME NEW pg, IsPage(pg), NEW s, NEW lo, NEW hi, Listed(pg, s, lo, hi),
         NEW k \in 1 .. Len(s), NEW l \in 1 .. Len(s), k < l,
         NEW x, FirstNode(s[k]) <= x, x <= LastNode(pg, s[k]), FirstNode(s[l]) <= x, x <= LastNode(pg, s[l]), x \in Int
  PROVE  FALSE
<1> DEFINE d == LastNode(pg, s[k])
           e == FirstNode(s[l])
<1>1. Nested(pg, s[k]) /\ Nested(pg, s[l]) /\ d < e
  BY DEF Listed
<1>2. d \in 1 .. Len(pg) /\ e \in 1 .. Len(pg) /\ Len(pg) \in Nat
  BY <1>1, ProperIs, PageIs
<1>3. x <= d /\ e <= x
  OBVIOUS
<1> HIDE DEF d, e
<1> QED
  BY <1>1, <1>2, <1>3

\* An element of what is extracted from a kid lies in the kid, behind its heading.
LEMMA ItemsInKid ==
  ASSUME NEW pg, IsPage(pg), NEW s, NEW lo, NEW hi, Listed(pg, s, lo, hi),
         NEW k \in 1 .. Len(s), NEW heading, NEW x \in Elements(ExtractItems(pg, s[k], heading)), x # 0
  PROVE  x \in Int /\ FirstNode(s[k]) <= x /\ x <= LastNode(pg, s[k]) /\ s[k].heading < x
<1> DEFINE e == s[k]
           r == ExtractItems(pg, e, heading)
<1>1. Nested(pg, e)
  BY DEF Listed
<1> HIDE DEF e
<1>2. e \in Entries(pg)
  BY <1>1 DEF Nested
<1>3. /\ e.list = Nil => r = <<>>
      /\ Ordered(pg, r, e.list + 1, LastNode(pg, e))
  BY <1>2, ItemsOrdered
<1>4. x \in Elements(r)
  BY DEF e
<1> HIDE DEF r
<1>5. PICK i \in 1 .. Len(r) : x = r[i]
  BY <1>4 DEF Elements
<1>6. e.list # Nil
  <2>1. Len(<<>>) = 0
    OBVIOUS
  <2> QED
    BY <1>3, <1>5, <2>1
<1>7. x \in 0 .. Len(pg) /\ e.list + 1 <= x /\ x <= LastNode(pg, e)
  BY <1>3, <1>5, ElementOfSeq DEF Ordered
<1>8. /\ e.heading \in 0 .. Len(pg) /\ e.list \in 0 .. Len(pg) /\ FirstNode(e) \in 1 .. Len(pg)
      /\ FirstNode(e) <= e.list /\ (e.heading # 0 => FirstNode(e) = e.heading) /\ Len(pg) \in Nat
  BY <1>1, <1>6, ProperIs, PageIs DEF Nil
<1>9. x \in Int /\ FirstNode(e) <= x /\ e.heading < x
  BY <1>7, <1>8, <1>6 DEF Nil
<1> QED
  BY <1>7, <1>9 DEF e

LEMMA ItemsElements ==
  ASSUME NEW pg, IsPage(pg), NEW heading, NEW e \in Entries(pg), NEW kids, kids = Kids(pg, e)
  PROVE  Elements(ExtractItems(pg, e, heading)) =
           IF e.heading # Nil /\ pg[e.heading].text = heading
           THEN {kids[k].heading : k \in 1 .. Len(kids)}
           ELSE UNION {Elements(ExtractItems(pg, kids[k], heading)) : k \in 1 .. Len(kids)}
<1> DEFINE hs == [k \in 1 .. Len(kids) |-> kids[k].heading]
           ss == [k \in 1 .. Len(kids) |-> ExtractItems(pg, kids[k], heading)]
<1>1. Len(kids) \in Nat /\ \A k \in 1 .. Len(kids) : kids[k] \in Entries(pg)
  BY KidsAreEntries
<1>2. ExtractItems(pg, e, heading) =
        IF e.heading # Nil /\ pg[e.heading].text = heading THEN hs ELSE FlattenSeq(ss)
  BY ItemsAre
<1>3. Elements(hs) = {kids[k].heading : k \in 1 .. Len(kids)}
  <2>1. Len(hs) = Len(kids) /\ \A k \in 1 .. Len(kids) : hs[k] = kids[k].heading
    BY <1>1
  <2> HIDE DEF hs
  <2> QED
    BY <2>1 DEF Elements
<1>4. ss \in Seq(Seq(0 .. Len(pg))) /\ Len(ss) = Len(kids)
      /\ \A k \in 1 .. Len(kids) : ss[k] = ExtractItems(pg, kids[k], heading)
  <2>1. \A k \in 1 .. Len(kids) : ExtractItems(pg, kids[k], heading) \in Seq(0 .. Len(pg))
    BY <1>1, ItemsOrdered DEF Ordered
  <2> QED
    BY <1>1, <2>1
<1> HIDE DEF hs, ss
<1>5. Elements(FlattenSeq(ss)) = UNION {Elements(ExtractItems(pg, kids[k], heading)) : k \in 1 .. Len(kids)}
  <2>1. Elements(FlattenSeq(ss)) = UNION {Elements(ss[k]) : k \in 1 .. Len(ss)}
    BY <1>4, FlattenElements
  <2>2. {Elements(ss[k]) : k \in 1 .. Len(ss)} = {Elements(ExtractItems(pg, kids[k], heading)) : k \in 1 .. Len(kids)}
    BY <1>4
  <2> QED
    BY <2>1, <2>2
<1> QED
  BY <1>2, <1>3, <1>5

LEMMA ItemsApart ==
  ASSUME NEW pg, IsPage(pg), NEW heading, NEW other, heading # other
  PROVE  \A e \in Entries(pg) : Apart(ExtractItems(pg, e, heading), ExtractItems(pg, e, other))
<1> DEFINE G == {e \in Entries(pg) : Apart(ExtractItems(pg, e, heading), ExtractItems(pg, e, other))}
<1>1. ASSUME NEW e \in Entries(pg),
             \A k \in 1 .. Len(Kids(pg, e)) : Kids(pg, e)[k] \in G
      PROVE  e \in G
  <2> DEFINE s == Kids(pg, e)
  <2> SUFFICES ASSUME NEW x \in Elements(ExtractItems(pg, e, heading)),
                      x \in Elements(ExtractItems(pg, e, other)), x # 0
               PROVE  FALSE
    BY DEF Apart
  <2>1. PICK lo, hi : Listed(pg, s, lo, hi)
    BY KidsListed, ListedNone
  <2>2. \A k \in 1 .. Len(s) : Apart(ExtractItems(pg, s[k], heading), ExtractItems(pg, s[k], other))
    BY <1>1
  <2>3. /\ Elements(ExtractItems(pg, e, heading)) =
             IF e.heading # Nil /\ pg[e.heading].text = heading
             THEN {s[k].heading : k \in 1 .. Len(s)}
             ELSE UNION {Elements(ExtractItems(pg, s[k], heading)) : k \in 1 .. Len(s)}
        /\ Elements(ExtractItems(pg, e, other)) =
             IF e.heading # Nil /\ pg[e.heading].text = other
             THEN {s[k].heading : k \in 1 .. Len(s)}
             ELSE UNION {Elements(ExtractItems(pg, s[k], other)) : k \in 1 .. Len(s)}
    BY ItemsElements
  <2> HIDE DEF s
  <2>0. Len(s) \in Nat
    BY <2>1, LenProperties DEF Listed
  <2>4. ASSUME NEW k \in 1 .. Len(s), x = s[k].heading
        PROVE  x \in Int /\ FirstNode(s[k]) <= x /\ x <= LastNode(pg, s[k])
    <3>1. Nested(pg, s[k])
      BY <2>1 DEF Listed
    <3> QED
      BY <2>4, <3>1, ProperIs, PageIs DEF Nil
  <2>5. ASSUME NEW k \in 1 .. Len(s), NEW h, x \in Elements(ExtractItems(pg, s[k], h))
        PROVE  x \in Int /\ FirstNode(s[k]) <= x /\ x <= LastNode(pg, s[k]) /\ s[k].heading < x
    BY <2>1, <2>5, ItemsInKid
  <2>6. ASSUME NEW k \in 1 .. Len(s), NEW l \in 1 .. Len(s), k # l, x \in Int,
               FirstNode(s[k]) <= x, x <= LastNode(pg, s[k]), FirstNode(s[l]) <= x, x <= LastNode(pg, s[l])
        PROVE  FALSE
    <3>1. k < l \/ l < k
      BY <2>0, <2>6
    <3> QED
      BY <2>1, <2>6, <3>1, KidsApart
  <2>7. ASSUME NEW k \in 1 .. Len(s), x = s[k].heading,
               NEW l \in 1 .. Len(s), NEW h, x \in Elements(ExtractItems(pg, s[l], h))
        PROVE  FALSE
    <3>1. /\ x \in Int /\ FirstNode(s[k]) <= x /\ x <= LastNode(pg, s[k])
          /\ FirstNode(s[l]) <= x /\ x <= LastNode(pg, s[l]) /\ s[l].heading < x
      BY <2>4, <2>5, <2>7
    <3>2. k # l
      BY <2>7, <3>1
    <3> QED
      BY <2>6, <3>1, <3>2
  <2>8. CASE e.heading # Nil /\ pg[e.heading].text = heading
    <3>1. PICK k \in 1 .. Len(s) : x = s[k].heading
      BY <2>3, <2>8
    <3>2. ~(e.heading # Nil /\ pg[e.heading].text = other)
      BY <2>8
    <3>3. PICK l \in 1 .. Len(s) : x \in Elements(ExtractItems(pg, s[l], other))
      BY <2>3, <3>2
    <3> QED
      BY <2>7, <3>1, <3>3
  <2>9. CASE ~(e.heading # Nil /\ pg[e.heading].text = heading)
    <3>1. PICK l \in 1 .. Len(s) : x \in Elements(ExtractItems(pg, s[l], heading))
      BY <2>3, <2>9
    <3>2. CASE e.heading # Nil /\ pg[e.heading].text = other
      <4>1. PICK k \in 1 .. Len(s) : x = s[k].heading
        BY <2>3, <3>2
      <4> QED
        BY <2>7, <3>1, <4>1
    <3>3. CASE ~(e.heading # Nil /\ pg[e.heading].text = other)
      <4>1. PICK k \in 1 .. Len(s) : x \in Elements(ExtractItems(pg, s[k], other))
        BY <2>3, <3>3
      <4>2. /\ x \in Int /\ FirstNode(s[k]) <= x /\ x <= LastNode(pg, s[k])
            /\ FirstNode(s[l]) <= x /\ x <= LastNode(pg, s[l])
        BY <2>5, <3>1, <4>1
      <4>3. k = l
        BY <2>6, <4>2
      <4> QED
        BY <2>2, <3>1, <4>1, <4>3 DEF Apart
    <3> QED
      BY <3>2, <3>3
  <2> QED
    BY <2>8, <2>9
<1>2. Entries(pg) \subseteq G
  <2> HIDE DEF G
  <2> QED
    BY <1>1, EntryInduction
<1> QED
  BY <1>2

-----------------------------------------------------------------------------
(***************************************************************************)
(* The collected types and routines: each is there once, and no type is a  *)
(* routine.                                                                *)
(***************************************************************************)
Distinct(s) == \A k, l \in 1 .. Len(s) : s[k] = s[l] /\ s[k] # 0 => k = l

TypesOf(pg) == ExtractItems(pg, Contents(pg), "Types")
RoutinesOf(pg) == FlattenSeq([k \in DOMAIN RoutineHeadings |->
                                ExtractItems(pg, Contents(pg), RoutineHeadings[k])])

LEMMA ContentsIs ==
  ASSUME NEW pg, IsPage(pg)
  PROVE  Contents(pg) = Entry(Nil, 1) /\ Contents(pg) \in Entries(pg)
<1>1. 1 \in 1 .. Len(pg) /\ pg[1].tag = "UL" /\ Len(pg) \in Nat
  BY PageIs DEF IsPage
<1>2. ToToc(pg)[1] = <<Entry(Nil, 1)>>
  BY <1>1, ToTocSolved DEF ToTocStep
<1>3. Entry(Nil, 1) \in Entries(pg)
  BY <1>1, EntryIs DEF Nil
<1> QED
  BY <1>2, <1>3 DEF Contents

LEMMA OrderedDistinct ==
  ASSUME NEW pg, NEW s, NEW lo, NEW hi, Ordered(pg, s, lo, hi)
  PROVE  Distinct(s)
<1> SUFFICES ASSUME NEW k \in 1 .. Len(s), NEW l \in 1 .. Len(s), s[k] = s[l], s[k] # 0
             PROVE  k = l
  BY DEF Distinct
<1>1. s \in Seq(0 .. Len(pg)) /\ Len(s) \in Nat
  BY LenProperties DEF Ordered
<1>2. s[k] \in 0 .. Len(pg)
  BY <1>1, ElementOfSeq
<1>3. ~(s[k] < s[k])
  BY <1>2
<1>4. ~(k < l) /\ ~(l < k)
  BY <1>3 DEF Ordered
<1> QED
  BY <1>1, <1>4

LEMMA CollectedAre ==
  ASSUME NEW pg, IsPage(pg)
  PROVE  /\ TypesOf(pg) \in Seq(0 .. Len(pg)) /\ Distinct(TypesOf(pg))
         /\ RoutinesOf(pg) \in Seq(0 .. Len(pg)) /\ Distinct(RoutinesOf(pg))
         /\ Apart(TypesOf(pg), RoutinesOf(pg))
<1> DEFINE ss == [k \in 1 .. 6 |-> ExtractItems(pg, Contents(pg), RoutineHeadings[k])]
           f == FlattenSeq(ss)
<1>1. Contents(pg) \in Entries(pg)
  BY ContentsIs
<1>2. \A h : ExtractItems(pg, Contents(pg), h) \in Seq(0 .. Len(pg)) /\ Distinct(ExtractItems(pg, Contents(pg), h))
  BY <1>1, ItemsOrdered, OrderedDistinct DEF Ordered
<1>3. /\ DOMAIN RoutineHeadings = 1 .. 6
      /\ \A k \in 1 .. 6 : RoutineHeadings[k] # "Types"
      /\ \A k, l \in 1 .. 6 : k # l => RoutineHeadings[k] # RoutineHeadings[l]
  BY DEF RoutineHeadings
<1>4. RoutinesOf(pg) = f
  BY <1>3 DEF RoutinesOf
<1>5. /\ ss \in Seq(Seq(0 .. Len(pg))) /\ Len(ss) = 6
      /\ \A k \in 1 .. 6 : ss[k] = ExtractItems(pg, Contents(pg), RoutineHeadings[k])
  BY <1>2
<1> HIDE DEF ss
<1>6. f \in Seq(0 .. Len(pg))
  BY <1>5, FlattenParts
<1>7. Distinct(f)
  <2>1. PICK block, pos : Parts(ss, Len(ss), f, block, pos)
    BY <1>5, FlattenParts
  <2> HIDE DEF f
  <2>2. \A i \in 1 .. Len(f) :
          /\ block[i] \in 1 .. 6 /\ pos[i] \in 1 .. Len(ss[block[i]])
          /\ f[i] = ss[block[i]][pos[i]]
    BY <1>5, <2>1 DEF Parts
  <2> SUFFICES ASSUME NEW i \in 1 .. Len(f), NEW j \in 1 .. Len(f), f[i] = f[j], f[i] # 0
               PROVE  i = j
    BY DEF Distinct
  <2>3. block[i] = block[j]
    <3> SUFFICES ASSUME block[i] # block[j] PROVE FALSE
      OBVIOUS
    <3>1. /\ f[i] \in Elements(ss[block[i]]) /\ f[i] \in Elements(ss[block[j]])
      BY <2>2 DEF Elements
    <3>2. RoutineHeadings[block[i]] # RoutineHeadings[block[j]]
      BY <1>3, <2>2
    <3>3. Apart(ss[block[i]], ss[block[j]])
      <4> DEFINE a == RoutineHeadings[block[i]]
                 b == RoutineHeadings[block[j]]
      <4>1. /\ ss[block[i]] = ExtractItems(pg, Contents(pg), a)
            /\ ss[block[j]] = ExtractItems(pg, Contents(pg), b) /\ a # b
        BY <1>5, <2>2, <3>2
      <4> HIDE DEF a, b
      <4>2. Apart(ExtractItems(pg, Contents(pg), a), ExtractItems(pg, Contents(pg), b))
        BY <1>1, <4>1, ItemsApart
      <4> QED
        BY <4>1, <4>2
    <3> QED
      BY <3>1, <3>3 DEF Apart
  <2>4. pos[i] = pos[j]
    <3> DEFINE r == ss[block[i]]
    <3>1. Distinct(r) /\ pos[i] \in 1 .. Len(r) /\ pos[j] \in 1 .. Len(r)
          /\ f[i] = r[pos[i]] /\ f[j] = r[pos[j]]
      BY <1>2, <1>5, <2>2, <2>3
    <3> HIDE DEF r
    <3> QED
      BY <3>1 DEF Distinct
  <2>5. ~(i < j) /\ ~(j < i)
    <3>1. block[i] \in Int /\ pos[i] \in Int
      BY <2>2
    <3>2. \A k, l \in 1 .. Len(f) :
            k < l => block[k] < block[l] \/ (block[k] = block[l] /\ pos[k] < pos[l])
      BY <2>1 DEF Parts
    <3>3. ~(block[i] < block[i]) /\ ~(pos[i] < pos[i])
      BY <3>1
    <3> QED
      BY <2>3, <2>4, <3>2, <3>3
  <2>6. Len(f) \in Nat
    BY <1>6, LenProperties
  <2> QED
    BY <2>5, <2>6
<1>8. Apart(TypesOf(pg), f)
  <2> SUFFICES ASSUME NEW x \in Elements(TypesOf(pg)), x \in Elements(f) PROVE x = 0
    BY DEF Apart
  <2>1. Elements(f) = UNION {Elements(ss[k]) : k \in 1 .. Len(ss)}
    BY <1>5, FlattenElements
  <2> HIDE DEF f
  <2>2. PICK k \in 1 .. 6 : x \in Elements(ss[k])
    BY <1>5, <2>1
  <2>3. Apart(TypesOf(pg), ss[k])
    BY <1>1, <1>3, <1>5, ItemsApart DEF TypesOf
  <2> QED
    BY <2>2, <2>3 DEF Apart
<1> QED
  BY <1>2, <1>4, <1>6, <1>7, <1>8 DEF TypesOf

LEMMA ConcatElements ==
  ASSUME NEW S, NEW p \in Seq(S), NEW r \in Seq(S)
  PROVE  Elements(p \o r) = Elements(p) \cup Elements(r)
<1> DEFINE f == p \o r
<1>1. /\ Len(f) = Len(p) + Len(r) /\ Len(p) \in Nat /\ Len(r) \in Nat
      /\ \A k \in 1 .. Len(p) : f[k] = p[k]
      /\ \A k \in 1 .. Len(r) : f[k + Len(p)] = r[k]
  BY ConcatIs
<1> HIDE DEF f
<1>2. ASSUME NEW x \in Elements(f) PROVE x \in Elements(p) \cup Elements(r)
  <2>1. PICK k \in 1 .. Len(f) : x = f[k]
    BY <1>2 DEF Elements
  <2>2. CASE k \in 1 .. Len(p)
    BY <1>1, <2>1, <2>2 DEF Elements
  <2>3. CASE k \notin 1 .. Len(p)
    <3>1. k - Len(p) \in 1 .. Len(r) /\ (k - Len(p)) + Len(p) = k
      BY <1>1, <2>3
    <3>2. f[k] = r[k - Len(p)]
      BY <1>1, <3>1
    <3> QED
      BY <2>1, <3>1, <3>2 DEF Elements
  <2> QED
    BY <2>2, <2>3
<1>3. ASSUME NEW x \in Elements(p) PROVE x \in Elements(f)
  <2>1. PICK k \in 1 .. Len(p) : x = p[k]
    BY <1>3 DEF Elements
  <2>2. k \in 1 .. Len(f) /\ f[k] = x
    BY <1>1, <2>1
  <2> QED
    BY <2>2 DEF Elements
<1>4. ASSUME NEW x \in Elements(r) PROVE x \in Elements(f)
  <2>1. PICK k \in 1 .. Len(r) : x = r[k]
    BY <1>4 DEF Elements
  <2>2. k + Len(p) \in 1 .. Len(f) /\ f[k + Len(p)] = x
    BY <1>1, <2>1
  <2> QED
    BY <2>2 DEF Elements
<1> QED
  BY <1>2, <1>3, <1>4 DEF f

LEMMA OrderedThen ==
  ASSUME NEW pg, IsPage(pg), NEW x \in 1 .. Len(pg), NEW r, NEW lo \in Int, NEW hi \in Int,
         Ordered(pg, r, x + 1, hi), lo <= x, x <= hi
  PROVE  Ordered(pg, <<x>> \o r, lo, hi)
<1> DEFINE f == <<x>> \o r
<1>0. Len(pg) \in Nat
  BY PageIs
<1>1. <<x>> \in Seq(0 .. Len(pg)) /\ Len(<<x>>) = 1 /\ <<x>>[1] = x
  BY <1>0
<1>2. r \in Seq(0 .. Len(pg)) /\ Len(r) \in Nat
  BY LenProperties DEF Ordered
<1>3. /\ f \in Seq(0 .. Len(pg)) /\ Len(f) = 1 + Len(r) /\ f[1] = x
      /\ \A k \in 1 .. Len(r) : f[k + 1] = r[k]
  <2>1. /\ f \in Seq(0 .. Len(pg)) /\ Len(f) = Len(<<x>>) + Len(r)
        /\ \A k \in 1 .. Len(<<x>>) : f[k] = <<x>>[k]
        /\ \A k \in 1 .. Len(r) : f[k + Len(<<x>>)] = r[k]
    BY <1>1, <1>2, ConcatIs
  <2> QED
    BY <1>1, <2>1
<1> HIDE DEF f
<1>4. ASSUME NEW k \in 1 .. Len(f)
      PROVE  k = 1 \/ (k - 1 \in 1 .. Len(r) /\ f[k] = r[k - 1] /\ r[k - 1] \in 0 .. Len(pg)
                       /\ (r[k - 1] # 0 => x + 1 <= r[k - 1] /\ r[k - 1] <= hi))
  <2>1. CASE k # 1
    <3>1. k - 1 \in 1 .. Len(r) /\ (k - 1) + 1 = k
      BY <1>2, <1>3, <2>1
    <3>2. f[(k - 1) + 1] = r[k - 1]
      BY <1>3, <3>1
    <3>3. r[k - 1] \in 0 .. Len(pg)
      BY <1>2, <3>1, ElementOfSeq
    <3>4. r[k - 1] # 0 => x + 1 <= r[k - 1] /\ r[k - 1] <= hi
      BY <3>1 DEF Ordered
    <3> QED
      BY <3>1, <3>2, <3>3, <3>4
  <2> QED
    BY <2>1
<1>5. ASSUME NEW k \in 1 .. Len(f), f[k] # 0 PROVE lo <= f[k] /\ f[k] <= hi
  <2>1. CASE k = 1
    BY <1>3, <2>1
  <2>2. CASE k # 1
    <3> DEFINE m == r[k - 1]
    <3>1. f[k] = m /\ m \in 0 .. Len(pg) /\ x + 1 <= m /\ m <= hi
      BY <1>4, <1>5, <2>2
    <3> HIDE DEF m
    <3> QED
      BY <1>0, <3>1
  <2> QED
    BY <2>1, <2>2
<1>6. ASSUME NEW k \in 1 .. Len(f), NEW l \in 1 .. Len(f), k < l, f[k] # 0, f[l] # 0
      PROVE  f[k] < f[l]
  <2>0. l # 1
    BY <1>6
  <2> DEFINE n == r[l - 1]
  <2>1. f[l] = n /\ n \in 0 .. Len(pg) /\ x + 1 <= n /\ l - 1 \in 1 .. Len(r)
    BY <1>4, <1>6, <2>0
  <2>2. CASE k = 1
    <3> HIDE DEF n
    <3> QED
      BY <1>0, <1>3, <2>1, <2>2
  <2>3. CASE k # 1
    <3>1. k - 1 \in 1 .. Len(r) /\ f[k] = r[k - 1] /\ k - 1 < l - 1
      BY <1>4, <1>6, <2>3
    <3> QED
      BY <1>6, <2>1, <3>1 DEF Ordered
  <2> QED
    BY <2>2, <2>3
<1>7. Ordered(pg, f, lo, hi)
  BY <1>3, <1>5, <1>6 DEF Ordered
<1> QED
  BY <1>7 DEF f

-----------------------------------------------------------------------------
(***************************************************************************)
(* What is left of an entry, what is shown of it, and its leaves.          *)
(***************************************************************************)
LEMMA LeftIs ==
  ASSUME NEW pg, IsPage(pg), NEW marked, NEW e \in Entries(pg), NEW kids, kids = Kids(pg, e)
  PROVE  Uncovered(pg, marked, e) =
           IF kids = <<>> /\ e.heading # Nil
           THEN IF e.heading \in marked THEN {} ELSE {e}
           ELSE IF \A k \in 1 .. Len(kids) : Uncovered(pg, marked, kids[k]) = {} THEN {} ELSE {e}
<1> DEFINE g == [x \in Entries(pg) |-> Uncovered(pg, marked, x)]
<1>1. DOMAIN kids = 1 .. Len(kids) /\ \A k \in 1 .. Len(kids) : kids[k] \in Entries(pg)
  BY KidsAreEntries
<1>2. Uncovered(pg, marked, e) = LeftStep(pg, marked, g, e)
  BY LeftSolved
<1>3. \A k \in 1 .. Len(kids) : g[kids[k]] = Uncovered(pg, marked, kids[k])
  BY <1>1
<1> HIDE DEF g
<1>4. (\A k \in DOMAIN kids : g[kids[k]] = {})
        <=> (\A k \in 1 .. Len(kids) : Uncovered(pg, marked, kids[k]) = {})
  BY <1>1, <1>3
<1> QED
  BY <1>2, <1>4 DEF LeftStep

Shown(pg, marked, e) == IF Uncovered(pg, marked, e) = {} THEN <<>> ELSE EntryToHtml(pg, marked, e)

OwnHeading(pg, marked, e) ==
  IF e.heading # Nil /\ (Kids(pg, e) = <<>> \/ e.heading \notin marked) THEN <<e.heading>> ELSE <<>>

LEMMA HtmlIs ==
  ASSUME NEW pg, IsPage(pg), NEW marked, NEW e \in Entries(pg), NEW kids, kids = Kids(pg, e)
  PROVE  EntryToHtml(pg, marked, e) =
           OwnHeading(pg, marked, e) \o FlattenSeq([k \in 1 .. Len(kids) |-> Shown(pg, marked, kids[k])])
<1> DEFINE g == [x \in Entries(pg) |-> EntryToHtml(pg, marked, x)]
<1>1. DOMAIN kids = 1 .. Len(kids) /\ \A k \in 1 .. Len(kids) : kids[k] \in Entries(pg)
  BY KidsAreEntries
<1>2. EntryToHtml(pg, marked, e) = HtmlStep(pg, marked, g, e)
  BY HtmlSolved
<1>3. \A k \in 1 .. Len(kids) : g[kids[k]] = EntryToHtml(pg, marked, kids[k])
  BY <1>1
<1> HIDE DEF g
<1>4. [k \in DOMAIN kids |-> IF Uncovered(pg, marked, kids[k]) = {} THEN <<>> ELSE g[kids[k]]]
        = [k \in 1 .. Len(kids) |-> Shown(pg, marked, kids[k])]
  BY <1>1, <1>3 DEF Shown
<1> QED
  BY <1>2, <1>4 DEF HtmlStep, OwnHeading

LEMMA LeafIs ==
  ASSUME NEW pg, IsPage(pg), NEW e \in Entries(pg), NEW kids, kids = Kids(pg, e)
  PROVE  Leaves(pg, e) = IF kids = <<>> THEN {e.heading} \ {Nil}
                         ELSE UNION {Leaves(pg, kids[k]) : k \in 1 .. Len(kids)}
<1> DEFINE g == [x \in Entries(pg) |-> Leaves(pg, x)]
<1>1. DOMAIN kids = 1 .. Len(kids) /\ \A k \in 1 .. Len(kids) : kids[k] \in Entries(pg)
  BY KidsAreEntries
<1>2. Leaves(pg, e) = LeafStep(pg, g, e)
  BY LeafSolved
<1>3. \A k \in 1 .. Len(kids) : g[kids[k]] = Leaves(pg, kids[k])
  BY <1>1
<1> HIDE DEF g
<1>4. {g[kids[k]] : k \in DOMAIN kids} = {Leaves(pg, kids[k]) : k \in 1 .. Len(kids)}
  BY <1>1, <1>3
<1>5. Leaves(pg, e) = IF kids = <<>> THEN {e.heading} \ {Nil}
                      ELSE UNION {g[kids[k]] : k \in DOMAIN kids}
  BY <1>2 DEF LeafStep
<1> QED
  BY <1>4, <1>5

LEMMA OwnHeadingIs ==
  ASSUME NEW pg, IsPage(pg), NEW marked, NEW e \in Entries(pg)
  PROVE  /\ OwnHeading(pg, marked, e) \in Seq(1 .. Len(pg))
         /\ Elements(OwnHeading(pg, marked, e)) =
              IF e.heading # Nil /\ (Kids(pg, e) = <<>> \/ e.heading \notin marked) THEN {e.heading} ELSE {}
<1>1. e.heading \in 0 .. Len(pg) /\ Len(pg) \in Nat
  BY PageIs DEF Entries, Nil
<1>2. CASE e.heading # Nil /\ (Kids(pg, e) = <<>> \/ e.heading \notin marked)
  <2>1. e.heading \in 1 .. Len(pg)
    BY <1>1, <1>2 DEF Nil
  <2>2. <<e.heading>> \in Seq(1 .. Len(pg)) /\ Len(<<e.heading>>) = 1 /\ <<e.heading>>[1] = e.heading
    BY <2>1
  <2>3. Elements(<<e.heading>>) = {e.heading}
    <3>1. \A k : k \in 1 .. 1 <=> k = 1
      OBVIOUS
    <3> QED
      BY <2>2, <3>1 DEF Elements
  <2> QED
    BY <1>2, <2>2, <2>3 DEF OwnHeading
<1>3. CASE ~(e.heading # Nil /\ (Kids(pg, e) = <<>> \/ e.heading \notin marked))
  <2>1. <<>> \in Seq(1 .. Len(pg)) /\ Elements(<<>>) = {}
    <3>1. Len(<<>>) = 0 /\ 1 .. 0 = {}
      OBVIOUS
    <3> QED
      BY <3>1 DEF Elements
  <2> QED
    BY <1>3, <2>1 DEF OwnHeading
<1> QED
  BY <1>2, <1>3

\* Every element that is shown is a heading.
LEMMA HtmlNodes ==
  ASSUME NEW pg, IsPage(pg), NEW marked
  PROVE  \A e \in Entries(pg) : EntryToHtml(pg, marked, e) \in Seq(1 .. Len(pg))
<1> DEFINE G == {e \in Entries(pg) : EntryToHtml(pg, marked, e) \in Seq(1 .. Len(pg))}
<1>1. ASSUME NEW e \in Entries(pg), \A k \in 1 .. Len(Kids(pg, e)) : Kids(pg, e)[k] \in G
      PROVE  e \in G
  <2> DEFINE s == Kids(pg, e)
             ss == [k \in 1 .. Len(s) |-> Shown(pg, marked, s[k])]
  <2>1. EntryToHtml(pg, marked, e) = OwnHeading(pg, marked, e) \o FlattenSeq(ss)
    BY HtmlIs
  <2>2. \A k \in 1 .. Len(s) : Shown(pg, marked, s[k]) \in Seq(1 .. Len(pg))
    <3>1. <<>> \in Seq(1 .. Len(pg))
      OBVIOUS
    <3> QED
      BY <1>1, <3>1 DEF Shown
  <2>3. Len(s) \in Nat
    BY KidsAreEntries
  <2>4. ss \in Seq(Seq(1 .. Len(pg)))
    BY <2>2, <2>3
  <2> HIDE DEF ss
  <2>5. FlattenSeq(ss) \in Seq(1 .. Len(pg))
    BY <2>4, FlattenParts
  <2>6. OwnHeading(pg, marked, e) \o FlattenSeq(ss) \in Seq(1 .. Len(pg))
    BY <2>5, OwnHeadingIs, ConcatIs
  <2> QED
    BY <2>1, <2>6
<1>2. Entries(pg) \subseteq G
  <2> HIDE DEF G
  <2> QED
    BY <1>1, EntryInduction
<1> QED
  BY <1>2

LEMMA HtmlElements ==
  ASSUME NEW pg, IsPage(pg), NEW marked, NEW e \in Entries(pg), NEW kids, kids = Kids(pg, e)
  PROVE  Elements(EntryToHtml(pg, marked, e)) =
           (IF e.heading # Nil /\ (kids = <<>> \/ e.heading \notin marked) THEN {e.heading} ELSE {})
             \cup UNION {Elements(Shown(pg, marked, kids[k])) : k \in 1 .. Len(kids)}
<1> DEFINE ss == [k \in 1 .. Len(kids) |-> Shown(pg, marked, kids[k])]
<1>1. EntryToHtml(pg, marked, e) = OwnHeading(pg, marked, e) \o FlattenSeq(ss)
  BY HtmlIs
<1>2. \A k \in 1 .. Len(kids) : Shown(pg, marked, kids[k]) \in Seq(1 .. Len(pg))
  <2>1. <<>> \in Seq(1 .. Len(pg)) /\ \A k \in 1 .. Len(kids) : kids[k] \in Entries(pg)
    BY KidsAreEntries
  <2> QED
    BY <2>1, HtmlNodes DEF Shown
<1>3. Len(kids) \in Nat
  BY KidsAreEntries
<1>4. /\ ss \in Seq(Seq(1 .. Len(pg))) /\ Len(ss) = Len(kids)
      /\ \A k \in 1 .. Len(kids) : ss[k] = Shown(pg, marked, kids[k])
  BY <1>2, <1>3
<1> HIDE DEF ss
<1>5. FlattenSeq(ss) \in Seq(1 .. Len(pg))
  BY <1>4, FlattenParts
<1>6. Elements(EntryToHtml(pg, marked, e)) = Elements(OwnHeading(pg, marked, e)) \cup Elements(FlattenSeq(ss))
  BY <1>1, <1>5, OwnHeadingIs, ConcatElements
<1>7. Elements(FlattenSeq(ss)) = UNION {Elements(ss[k]) : k \in 1 .. Len(ss)}
  BY <1>4, FlattenElements
<1>8. {Elements(ss[k]) : k \in 1 .. Len(ss)} = {Elements(Shown(pg, marked, kids[k])) : k \in 1 .. Len(kids)}
  BY <1>4
<1>9. Elements(OwnHeading(pg, marked, e)) =
        IF e.heading # Nil /\ (kids = <<>> \/ e.heading \notin marked) THEN {e.heading} ELSE {}
  BY OwnHeadingIs
<1> QED
  BY <1>6, <1>7, <1>8, <1>9

\* What is shown of an entry is in document order.
LEMMA HtmlOrdered ==
  ASSUME NEW pg, IsPage(pg), NEW marked
  PROVE  \A e \in Entries(pg) :
           Nested(pg, e) => Ordered(pg, EntryToHtml(pg, marked, e), FirstNode(e), LastNode(pg, e))
<1> DEFINE G == {e \in Entries(pg) :
                   Nested(pg, e) => Ordered(pg, EntryToHtml(pg, marked, e), FirstNode(e), LastNode(pg, e))}
<1>1. ASSUME NEW e \in Entries(pg), \A k \in 1 .. Len(Kids(pg, e)) : Kids(pg, e)[k] \in G
      PROVE  e \in G
  <2> SUFFICES ASSUME Nested(pg, e)
               PROVE  Ordered(pg, EntryToHtml(pg, marked, e), FirstNode(e), LastNode(pg, e))
    OBVIOUS
  <2> DEFINE s == Kids(pg, e)
             ss == [k \in 1 .. Len(s) |-> Shown(pg, marked, s[k])]
             f == FlattenSeq(ss)
             lo == FirstNode(e)
             hi == LastNode(pg, e)
  <2>1. EntryToHtml(pg, marked, e) = OwnHeading(pg, marked, e) \o f
    BY HtmlIs
  <2>2. /\ e.heading \in 0 .. Len(pg) /\ e.list \in 0 .. Len(pg) /\ Len(pg) \in Nat
        /\ lo \in 1 .. Len(pg) /\ hi \in 1 .. Len(pg) /\ lo <= hi
        /\ (e.heading # 0 => lo = e.heading) /\ (e.list # 0 => lo <= e.list)
        /\ (e.list # 0 => e.heading < e.list)
    BY ProperIs, PageIs DEF Nested, Nil
  <2>3. Len(s) \in Nat
    BY KidsAreEntries
  <2>4. /\ e.list = Nil => s = <<>>
        /\ e.list # Nil => e.list \in 1 .. Len(pg) /\ Listed(pg, s, e.list + 1, hi)
    BY KidsListed DEF LastNode
  <2>5. \A k \in 1 .. Len(s) : Ordered(pg, Shown(pg, marked, s[k]), FirstNode(s[k]), LastNode(pg, s[k]))
    <3> TAKE k \in 1 .. Len(s)
    <3>1. s[k] \in Entries(pg) /\ Nested(pg, s[k])
      <4>1. Listed(pg, s, e.list + 1, hi)
        <5>1. Len(<<>>) = 0
          OBVIOUS
        <5> QED
          BY <2>4, <5>1
      <4> HIDE DEF s
      <4> QED
        BY <4>1 DEF Listed, Nested
    <3>2. Ordered(pg, EntryToHtml(pg, marked, s[k]), FirstNode(s[k]), LastNode(pg, s[k]))
      BY <1>1, <3>1
    <3> QED
      BY <3>2, OrderedNone DEF Shown
  <2>6. /\ ss \in Seq(Seq(0 .. Len(pg))) /\ Len(ss) = Len(s)
        /\ \A k \in 1 .. Len(s) : ss[k] = Shown(pg, marked, s[k])
    <3>1. \A k \in 1 .. Len(s) : Shown(pg, marked, s[k]) \in Seq(0 .. Len(pg))
      BY <2>5 DEF Ordered
    <3> QED
      BY <2>3, <3>1
  <2> HIDE DEF s, ss
  <2>7. e.list # Nil => Ordered(pg, f, e.list + 1, hi)
    <3> SUFFICES ASSUME e.list # Nil PROVE Ordered(pg, f, e.list + 1, hi)
      OBVIOUS
    <3>1. \A k \in 1 .. Len(s) : Ordered(pg, ss[k], FirstNode(s[k]), LastNode(pg, s[k]))
      BY <2>5, <2>6
    <3>2. e.list + 1 \in Int /\ hi \in Int
      BY <2>2
    <3>3. Listed(pg, s, e.list + 1, hi)
      BY <2>4
    <3> HIDE DEF hi
    <3> QED
      BY <2>6, <3>1, <3>2, <3>3, OrderedFlatten
  <2>8. e.list = Nil => f = <<>>
    <3> SUFFICES ASSUME e.list = Nil PROVE f = <<>>
      OBVIOUS
    <3>1. Len(ss) = 0
      <4>1. Len(<<>>) = 0
        OBVIOUS
      <4> QED
        BY <2>4, <2>6, <4>1
    <3>2. ss = <<>>
      BY <2>6, <3>1, EmptySeq
    <3> QED
      BY <3>1, <3>2, FlattenIs
  <2>9. Ordered(pg, f, e.heading + 1, hi)
    <3>1. CASE e.list = Nil
      BY <2>8, <3>1, OrderedNone
    <3>2. CASE e.list # Nil
      <4>1. Ordered(pg, f, e.list + 1, hi)
        BY <2>7, <3>2
      <4>2. /\ e.list + 1 \in Int /\ hi \in Int /\ e.heading + 1 \in Int
            /\ e.heading + 1 <= e.list + 1 /\ hi <= hi
        BY <2>2, <3>2 DEF Nil
      <4> HIDE DEF f, hi
      <4> QED
        BY <4>1, <4>2, OrderedWider
    <3> QED
      BY <3>1, <3>2
  <2>10. CASE OwnHeading(pg, marked, e) = <<>>
    <3>1. Ordered(pg, f, lo, hi)
      <4>1. CASE e.list = Nil
        BY <2>8, <4>1, OrderedNone
      <4>2. CASE e.list # Nil
        <5>1. Ordered(pg, f, e.list + 1, hi)
          BY <2>7, <4>2
        <5>2. e.list + 1 \in Int /\ hi \in Int /\ lo \in Int /\ lo <= e.list + 1 /\ hi <= hi
          BY <2>2, <4>2 DEF Nil
        <5> HIDE DEF f, hi, lo
        <5> QED
          BY <5>1, <5>2, OrderedWider
      <4> QED
        BY <4>1, <4>2
    <3>2. f \in Seq(0 .. Len(pg))
      BY <3>1 DEF Ordered
    <3>3. <<>> \o f = f
      BY <3>2
    <3> QED
      BY <2>1, <2>10, <3>1, <3>3
  <2>11. CASE OwnHeading(pg, marked, e) = <<e.heading>> /\ e.heading # Nil
    <3>1. e.heading \in 1 .. Len(pg) /\ lo \in Int /\ hi \in Int /\ lo <= e.heading /\ e.heading <= hi
      BY <2>2, <2>11 DEF Nil
    <3> HIDE DEF f, hi, lo
    <3>2. Ordered(pg, <<e.heading>> \o f, lo, hi)
      BY <2>9, <3>1, OrderedThen
    <3> QED
      BY <2>1, <2>11, <3>2 DEF lo, hi
  <2>12. \/ OwnHeading(pg, marked, e) = <<>>
         \/ OwnHeading(pg, marked, e) = <<e.heading>> /\ e.heading # Nil
    BY DEF OwnHeading
  <2> QED
    BY <2>10, <2>11, <2>12
<1>2. Entries(pg) \subseteq G
  <2> HIDE DEF G
  <2> QED
    BY <1>1, EntryInduction
<1> QED
  BY <1>2

(***************************************************************************)
(* What is left has no marked heading in it, is not empty, and lists every *)
(* leaf that is not marked.                                                *)
(***************************************************************************)
LEMMA ShownIs ==
  ASSUME NEW pg, IsPage(pg), NEW marked
  PROVE  \A e \in Entries(pg) :
           /\ Uncovered(pg, marked, e) \in {{}, {e}}
           /\ \A x \in Elements(Shown(pg, marked, e)) : x \notin marked
           /\ Uncovered(pg, marked, e) # {} => Elements(Shown(pg, marked, e)) # {}
           /\ Leaves(pg, e) \subseteq marked \cup Elements(Shown(pg, marked, e))
<1> DEFINE Good(e) ==
             /\ Uncovered(pg, marked, e) \in {{}, {e}}
             /\ \A x \in Elements(Shown(pg, marked, e)) : x \notin marked
             /\ Uncovered(pg, marked, e) # {} => Elements(Shown(pg, marked, e)) # {}
             /\ Leaves(pg, e) \subseteq marked \cup Elements(Shown(pg, marked, e))
           G == {e \in Entries(pg) : Good(e)}
<1>0. Elements(<<>>) = {}
  <2>1. Len(<<>>) = 0 /\ 1 .. 0 = {}
    OBVIOUS
  <2> QED
    BY <2>1 DEF Elements
<1>1. ASSUME NEW e \in Entries(pg), \A k \in 1 .. Len(Kids(pg, e)) : Kids(pg, e)[k] \in G
      PROVE  Good(e)
  <2> DEFINE s == Kids(pg, e)
             u == Uncovered(pg, marked, e)
             h == Elements(Shown(pg, marked, e))
  <2>1. u = IF s = <<>> /\ e.heading # Nil
            THEN IF e.heading \in marked THEN {} ELSE {e}
            ELSE IF \A k \in 1 .. Len(s) : Uncovered(pg, marked, s[k]) = {} THEN {} ELSE {e}
    BY LeftIs
  <2>2. Leaves(pg, e) = IF s = <<>> THEN {e.heading} \ {Nil}
                        ELSE UNION {Leaves(pg, s[k]) : k \in 1 .. Len(s)}
    BY LeafIs
  <2>3. Elements(EntryToHtml(pg, marked, e)) =
          (IF e.heading # Nil /\ (s = <<>> \/ e.heading \notin marked) THEN {e.heading} ELSE {})
            \cup UNION {Elements(Shown(pg, marked, s[k])) : k \in 1 .. Len(s)}
    BY HtmlElements
  <2>4. h = IF u = {} THEN {} ELSE Elements(EntryToHtml(pg, marked, e))
    BY <1>0 DEF Shown
  <2>5. Len(s) \in Nat /\ (s = <<>> <=> Len(s) = 0)
    BY KidsAreEntries
  <2>6. ASSUME NEW k \in 1 .. Len(s)
        PROVE  /\ Uncovered(pg, marked, s[k]) \in {{}, {s[k]}}
               /\ \A x \in Elements(Shown(pg, marked, s[k])) : x \notin marked
               /\ Uncovered(pg, marked, s[k]) # {} => Elements(Shown(pg, marked, s[k])) # {}
               /\ Leaves(pg, s[k]) \subseteq marked \cup Elements(Shown(pg, marked, s[k]))
    BY <1>1
  <2>7. \A k \in 1 .. Len(s) : Uncovered(pg, marked, s[k]) = {} => Elements(Shown(pg, marked, s[k])) = {}
    BY <1>0 DEF Shown
  <2> HIDE DEF s, u, h
  <2>8. CASE s = <<>>
    <3>1. 1 .. Len(s) = {}
      BY <2>5, <2>8
    <3>2. Leaves(pg, e) = {e.heading} \ {Nil}
      BY <2>2, <2>8
    <3>3. u = IF e.heading # Nil /\ e.heading \notin marked THEN {e} ELSE {}
      BY <2>1, <2>8, <3>1
    <3>4. h = IF e.heading # Nil /\ e.heading \notin marked THEN {e.heading} ELSE {}
      BY <2>3, <2>4, <2>8, <3>1, <3>3
    <3> QED
      BY <3>2, <3>3, <3>4 DEF u, h
  <2>9. CASE s # <<>>
    <3>1. u = IF \A k \in 1 .. Len(s) : Uncovered(pg, marked, s[k]) = {} THEN {} ELSE {e}
      BY <2>1, <2>9
    <3>2. Leaves(pg, e) = UNION {Leaves(pg, s[k]) : k \in 1 .. Len(s)}
      BY <2>2, <2>9
    <3>3. UNION {Elements(Shown(pg, marked, s[k])) : k \in 1 .. Len(s)} \subseteq h
      <4>1. CASE u = {}
        <5>1. \A k \in 1 .. Len(s) : Elements(Shown(pg, marked, s[k])) = {}
          BY <2>7, <3>1, <4>1
        <5> QED
          BY <5>1
      <4>2. CASE u # {}
        BY <2>3, <2>4, <4>2
      <4> QED
        BY <4>1, <4>2
    <3>4. Leaves(pg, e) \subseteq marked \cup h
      BY <2>6, <3>2, <3>3
    <3>5. \A x \in h : x \notin marked
      <4>1. h \subseteq (IF e.heading # Nil /\ e.heading \notin marked THEN {e.heading} ELSE {})
                          \cup UNION {Elements(Shown(pg, marked, s[k])) : k \in 1 .. Len(s)}
        BY <2>3, <2>4, <2>9
      <4> QED
        BY <2>6, <4>1
    <3>6. u # {} => h # {}
      <4> SUFFICES ASSUME u # {} PROVE h # {}
        OBVIOUS
      <4>1. PICK k \in 1 .. Len(s) : Uncovered(pg, marked, s[k]) # {}
        BY <3>1
      <4>2. Elements(Shown(pg, marked, s[k])) # {}
        BY <2>6, <4>1
      <4> QED
        BY <3>3, <4>2
    <3>7. u \in {{}, {e}}
      BY <3>1
    <3> QED
      BY <3>4, <3>5, <3>6, <3>7 DEF u, h
  <2> QED
    BY <2>8, <2>9
<1>2. Entries(pg) \subseteq G
  <2>1. \A e \in Entries(pg) : (\A k \in 1 .. Len(Kids(pg, e)) : Kids(pg, e)[k] \in G) => e \in G
    BY <1>1
  <2> HIDE DEF G
  <2> QED
    BY <2>1, EntryInduction
<1> QED
  BY <1>2

-----------------------------------------------------------------------------
(***************************************************************************)
(* Sorting: the order that Sorted chooses exists, and is a permutation.    *)
(***************************************************************************)
Before(rank, a, b) == rank[a] < rank[b] \/ (rank[a] = rank[b] /\ a < b)

IsOrder(rank, n, o) ==
  /\ o \in [1 .. n -> 1 .. n]
  /\ \A k \in 1 .. n : \E l \in 1 .. n : o[l] = k
  /\ \A k, l \in 1 .. n : k < l => Before(rank, o[k], o[l])

LEMMA OrderMore ==
  ASSUME NEW n \in Nat, NEW rank, \A k \in 1 .. n + 1 : rank[k] \in Nat,
         NEW o, IsOrder(rank, n, o)
  PROVE  \E o2 : IsOrder(rank, n + 1, o2)
<1> DEFINE m == n + 1
           Late == {k \in 1 .. m : k = m \/ (k <= n /\ rank[o[k]] > rank[m])}
<1>0. m \in Nat /\ m \in 1 .. m /\ n = m - 1 /\ 1 .. n \subseteq 1 .. m
  OBVIOUS
<1>1. \A k \in 1 .. n : o[k] \in 1 .. n
  BY DEF IsOrder
<1>2. PICK p \in Late : \A k \in Late : p <= k
  <2>1. Late \subseteq Nat /\ Late # {}
    BY <1>0
  <2> HIDE DEF Late
  <2> QED
    BY <2>1, Smallest
<1> DEFINE o2 == [k \in 1 .. m |-> IF k < p THEN o[k] ELSE IF k = p THEN m ELSE o[k - 1]]
<1>3. p \in 1 .. m /\ (p # m => rank[o[p]] > rank[m])
  BY <1>2
<1>4. \A k \in 1 .. n : k < p => rank[o[k]] <= rank[m]
  <2> TAKE k \in 1 .. n
  <2> HAVE k < p
  <2>1. k \notin Late /\ k \in 1 .. m /\ k # m
    BY <1>0, <1>2, <1>3
  <2>2. rank[o[k]] \in Nat /\ rank[m] \in Nat
    <3>1. o[k] \in 1 .. m
      BY <1>0, <1>1
    <3> QED
      BY <1>0, <3>1
  <2>3. ~(rank[o[k]] > rank[m])
    BY <2>1
  <2> QED
    BY <2>2, <2>3
<1> HIDE DEF Late
<1>5. ASSUME NEW k \in 1 .. m
      PROVE  \/ k < p /\ k \in 1 .. n /\ o2[k] = o[k]
             \/ k = p /\ o2[k] = m
             \/ k > p /\ k - 1 \in 1 .. n /\ o2[k] = o[k - 1]
  BY <1>0, <1>3
<1> HIDE DEF o2, m
<1>6. \A k \in 1 .. m : o2[k] \in 1 .. m
  BY <1>0, <1>1, <1>5
<1>7. o2 \in [1 .. m -> 1 .. m]
  <2>1. o2 = [k \in 1 .. m |-> o2[k]]
    BY DEF o2
  <2> QED
    BY <1>6, <2>1
<1>8. ASSUME NEW k \in 1 .. m PROVE \E l \in 1 .. m : o2[l] = k
  <2>1. CASE k = m
    <3>1. o2[p] = m
      BY <1>3, <1>5
    <3> QED
      BY <1>3, <2>1, <3>1
  <2>2. CASE k # m
    <3>1. k \in 1 .. n
      BY <1>0, <2>2
    <3>2. PICK l \in 1 .. n : o[l] = k
      BY <3>1 DEF IsOrder
    <3>3. CASE l < p
      <4>1. l \in 1 .. m /\ o2[l] = o[l]
        BY <1>0, <1>3, <1>5, <3>3
      <4> QED
        BY <3>2, <4>1
    <3>4. CASE ~(l < p)
      <4>1. l + 1 \in 1 .. m /\ l + 1 > p /\ (l + 1) - 1 = l
        BY <1>0, <1>3, <3>4
      <4>2. ~(l + 1 < p) /\ l + 1 # p
        BY <1>3, <4>1
      <4>3. o2[l + 1] = o[(l + 1) - 1]
        BY <1>5, <4>1, <4>2
      <4> QED
        BY <3>2, <4>1, <4>3
    <3> QED
      BY <3>3, <3>4
  <2> QED
    BY <2>1, <2>2
<1>9. \A k, l \in 1 .. n : k < l => Before(rank, o[k], o[l])
  BY DEF IsOrder
<1>r. \A k \in 1 .. m : rank[k] \in Nat
  BY DEF m
<1>10. ASSUME NEW k \in 1 .. m, NEW l \in 1 .. m, k < l
       PROVE  Before(rank, o2[k], o2[l])
  <2>1. CASE l < p
    <3>1. k < p /\ k \in 1 .. n /\ l \in 1 .. n /\ o2[k] = o[k] /\ o2[l] = o[l]
      BY <1>0, <1>3, <1>5, <1>10, <2>1
    <3> QED
      BY <1>9, <1>10, <3>1
  <2>2. CASE l = p
    <3>1. k < p /\ k \in 1 .. n /\ o2[k] = o[k] /\ o2[l] = m
      BY <1>0, <1>3, <1>5, <1>10, <2>2
    <3>2. o[k] \in 1 .. n /\ o[k] \in 1 .. m /\ o[k] < m
      BY <1>0, <1>1, <3>1
    <3>3. rank[o[k]] <= rank[m] /\ rank[o[k]] \in Nat /\ rank[m] \in Nat
      BY <1>0, <1>4, <1>r, <3>1, <3>2
    <3> QED
      BY <3>1, <3>2, <3>3 DEF Before
  <2>3. CASE l > p /\ k < p
    <3>1. k \in 1 .. n /\ o2[k] = o[k] /\ l - 1 \in 1 .. n /\ o2[l] = o[l - 1] /\ k < l - 1
      BY <1>0, <1>3, <1>5, <1>10, <2>3
    <3> QED
      BY <1>9, <3>1
  <2>4. CASE l > p /\ k = p
    <3>1. o2[k] = m /\ l - 1 \in 1 .. n /\ o2[l] = o[l - 1] /\ p \in 1 .. n /\ p <= l - 1
      BY <1>0, <1>3, <1>5, <1>10, <2>4
    <3>2. rank[m] < rank[o[p]] /\ o[p] \in 1 .. m /\ o[l - 1] \in 1 .. m
      BY <1>0, <1>1, <1>3, <3>1
    <3>3. rank[m] \in Nat /\ rank[o[p]] \in Nat /\ rank[o[l - 1]] \in Nat
      BY <1>0, <1>r, <3>2
    <3>4. rank[o[p]] <= rank[o[l - 1]]
      <4>1. CASE p = l - 1
        BY <3>3, <4>1
      <4>2. CASE p # l - 1
        <5>1. p < l - 1
          BY <3>1, <4>2
        <5>2. Before(rank, o[p], o[l - 1])
          BY <1>9, <3>1, <5>1
        <5> QED
          BY <3>3, <5>2 DEF Before
      <4> QED
        BY <4>1, <4>2
    <3>5. rank[m] < rank[o[l - 1]]
      BY <3>2, <3>3, <3>4
    <3> QED
      BY <3>1, <3>5 DEF Before
  <2>5. CASE l > p /\ k > p
    <3>1. /\ k - 1 \in 1 .. n /\ o2[k] = o[k - 1] /\ l - 1 \in 1 .. n /\ o2[l] = o[l - 1]
          /\ k - 1 < l - 1
      BY <1>0, <1>3, <1>5, <1>10, <2>5
    <3> QED
      BY <1>9, <3>1
  <2>6. (l < p \/ l = p \/ l > p) /\ (k < p \/ k = p \/ k > p)
    BY <1>3
  <2> QED
    BY <2>1, <2>2, <2>3, <2>4, <2>5, <2>6
<1>11. IsOrder(rank, m, o2)
  BY <1>7, <1>8, <1>10 DEF IsOrder
<1> QED
  BY <1>11 DEF m

LEMMA OrderExists ==
  ASSUME NEW n \in Nat, NEW rank, \A k \in 1 .. n : rank[k] \in Nat
  PROVE  \E o : IsOrder(rank, n, o)
<1> DEFINE G == {m \in Nat : m <= n => \E o : IsOrder(rank, m, o)}
<1>1. ASSUME NEW m \in Nat, \A l \in 0 .. m - 1 : l \in G PROVE m \in G
  <2> SUFFICES ASSUME m <= n PROVE \E o : IsOrder(rank, m, o)
    OBVIOUS
  <2>1. CASE m = 0
    <3>1. 1 .. 0 = {} /\ <<>> \in [{} -> {}]
      OBVIOUS
    <3>2. IsOrder(rank, 0, <<>>)
      BY <3>1 DEF IsOrder
    <3> QED
      BY <2>1, <3>2
  <2>2. CASE m # 0
    <3> DEFINE l == m - 1
    <3>1. l \in 0 .. m - 1 /\ l \in Nat /\ l + 1 = m /\ l <= n
      BY <2>2
    <3>2. \E o : IsOrder(rank, l, o)
      BY <1>1, <3>1
    <3>3. \A k \in 1 .. l + 1 : rank[k] \in Nat
      BY <3>1
    <3> HIDE DEF l
    <3>4. \E o : IsOrder(rank, l + 1, o)
      BY <3>1, <3>2, <3>3, OrderMore
    <3> QED
      BY <3>1, <3>4
  <2> QED
    BY <2>1, <2>2
<1>2. Nat \subseteq G
  <2> HIDE DEF G
  <2> QED
    BY <1>1, SetInduction
<1> QED
  BY <1>2

LEMMA SortedIs ==
  ASSUME NEW S, NEW kids \in Seq(S), NEW rank, \A k \in 1 .. Len(kids) : rank[k] \in Nat
  PROVE  \E o : /\ IsOrder(rank, Len(kids), o)
                /\ Sorted(kids, rank) = [k \in 1 .. Len(kids) |-> kids[o[k]]]
<1> DEFINE n == Len(kids)
           Good(o) == /\ o \in [1 .. n -> 1 .. n]
                      /\ \A k \in 1 .. n : \E l \in 1 .. n : o[l] = k
                      /\ \A k, l \in 1 .. n : k < l =>
                           rank[o[k]] < rank[o[l]] \/ (rank[o[k]] = rank[o[l]] /\ o[k] < o[l])
           order == CHOOSE o \in [1 .. n -> 1 .. n] :
                      /\ \A k \in 1 .. n : \E l \in 1 .. n : o[l] = k
                      /\ \A k, l \in 1 .. n : k < l =>
                           rank[o[k]] < rank[o[l]] \/ (rank[o[k]] = rank[o[l]] /\ o[k] < o[l])
<1>1. n \in Nat /\ DOMAIN kids = 1 .. n
  BY LenProperties
<1>2. Sorted(kids, rank) = [k \in 1 .. n |-> kids[order[k]]]
  BY <1>1 DEF Sorted
<1>3. \E o : IsOrder(rank, n, o)
  BY <1>1, OrderExists
<1>4. \E o \in [1 .. n -> 1 .. n] :
        /\ \A k \in 1 .. n : \E l \in 1 .. n : o[l] = k
        /\ \A k, l \in 1 .. n : k < l =>
             rank[o[k]] < rank[o[l]] \/ (rank[o[k]] = rank[o[l]] /\ o[k] < o[l])
  BY <1>3 DEF IsOrder, Before
<1>5. Good(order)
  BY <1>4
<1>6. IsOrder(rank, n, order)
  <2> HIDE DEF order
  <2> QED
    BY <1>5 DEF IsOrder, Before
<1> HIDE DEF order
<1>7. IsOrder(rank, Len(kids), order) /\ Sorted(kids, rank) = [k \in 1 .. Len(kids) |-> kids[order[k]]]
  BY <1>2, <1>6
<1> HIDE DEF Good, n
<1> QED
  BY <1>7

\* The same elements, each as often, and by rank.
Sorts(kids, rank, s, o) ==
  /\ o \in [1 .. Len(kids) -> 1 .. Len(kids)]
  /\ \A k \in 1 .. Len(kids) : s[k] = kids[o[k]]
  /\ \A k, l \in 1 .. Len(kids) : o[k] = o[l] => k = l
  /\ \A k \in 1 .. Len(kids) : \E l \in 1 .. Len(kids) : o[l] = k
  /\ \A k, l \in 1 .. Len(kids) : k < l => rank[o[k]] <= rank[o[l]]

LEMMA SortedKeeps ==
  ASSUME NEW S, NEW kids \in Seq(S), NEW rank, \A k \in 1 .. Len(kids) : rank[k] \in Nat,
         NEW s, s = Sorted(kids, rank)
  PROVE  /\ s \in Seq(S) /\ Len(s) = Len(kids) /\ Len(kids) \in Nat /\ DOMAIN s = 1 .. Len(kids)
         /\ \E o : Sorts(kids, rank, s, o)
<1> DEFINE n == Len(kids)
<1>1. n \in Nat /\ DOMAIN kids = 1 .. n /\ \A k \in 1 .. n : kids[k] \in S
  BY LenProperties, ElementOfSeq
<1>2. PICK o : IsOrder(rank, n, o) /\ s = [k \in 1 .. n |-> kids[o[k]]]
  BY SortedIs
<1>3. o \in [1 .. n -> 1 .. n] /\ \A k \in 1 .. n : o[k] \in 1 .. n
  BY <1>2 DEF IsOrder
<1>4. s \in Seq(S) /\ Len(s) = n /\ \A k \in 1 .. n : s[k] = kids[o[k]]
  BY <1>1, <1>2, <1>3
<1> HIDE DEF n
<1>5. \A k \in 1 .. n : \E l \in 1 .. n : o[l] = k
  BY <1>2 DEF IsOrder
<1>6. \A k \in 1 .. n : rank[o[k]] \in Nat
  BY <1>3 DEF n
<1>7. \A k, l \in 1 .. n : k < l => Before(rank, o[k], o[l])
  BY <1>2 DEF IsOrder
<1>8. ASSUME NEW k \in 1 .. n, NEW l \in 1 .. n, k < l
      PROVE  rank[o[k]] <= rank[o[l]] /\ o[k] # o[l]
  <2>1. Before(rank, o[k], o[l]) /\ rank[o[k]] \in Nat /\ rank[o[l]] \in Nat
        /\ o[k] \in 1 .. n /\ o[l] \in 1 .. n
    BY <1>3, <1>6, <1>7, <1>8
  <2> QED
    BY <2>1 DEF Before
<1>9. \A k, l \in 1 .. n : o[k] = o[l] => k = l
  <2> TAKE k, l \in 1 .. n
  <2> HAVE o[k] = o[l]
  <2>1. ~(k < l) /\ ~(l < k)
    BY <1>8
  <2> QED
    BY <2>1
<1>10. DOMAIN s = 1 .. n
  BY <1>2 DEF n
<1>11. Sorts(kids, rank, s, o)
  BY <1>3, <1>4, <1>5, <1>8, <1>9 DEF Sorts, n
<1> QED
  BY <1>1, <1>4, <1>10, <1>11 DEF n

-----------------------------------------------------------------------------
(***************************************************************************)
(* The lines of a rendered tree: what is left of the old contents, then    *)
(* one group after the other, each a type and its routines by name.        *)
(***************************************************************************)
Groups(pg) == [heading : 1 .. Len(pg), kids : Seq(1 .. Len(pg))]

Line(pg) == [made : {"original", "clone", "link"}, node : 1 .. Len(pg), below : 0 .. Len(pg)]

Ranked(pg) == \A n \in 1 .. Len(pg) : Rank(pg[n].text) \in Nat /\ Rank(pg[n].title) \in Nat

InGroup(pg, group, s) ==
  /\ s \in Seq(Line(pg)) /\ Len(s) = Len(group.kids) + 1 /\ Len(group.kids) \in Nat
  /\ s[1] = Clone(group.heading)
  /\ \A k \in 2 .. Len(s) : s[k].node \in Elements(group.kids) /\ s[k] = Link(s[k].node, group.heading)
  /\ \A n \in Elements(group.kids) : \E k \in 2 .. Len(s) : s[k].node = n
  /\ Distinct(group.kids) => \A k, l \in 2 .. Len(s) : s[k].node = s[l].node => k = l
  /\ \A k, l \in 2 .. Len(s) : k < l => Rank(pg[s[k].node].title) <= Rank(pg[s[l].node].title)

LEMMA GroupLines ==
  ASSUME NEW pg, IsPage(pg), Ranked(pg), NEW group \in Groups(pg)
  PROVE  InGroup(pg, group, GroupToHtml(pg, group))
<1> DEFINE kids == group.kids
           rank == [k \in DOMAIN kids |-> Rank(pg[kids[k]].title)]
           t == group.heading
           n == Len(kids)
           r == Sorted(kids, rank)
           links == [k \in DOMAIN r |-> Link(r[k], t)]
           s == <<Clone(t)>> \o links
<1>1. kids \in Seq(1 .. Len(pg)) /\ t \in 1 .. Len(pg)
  BY DEF Groups
<1>2. n \in Nat /\ DOMAIN kids = 1 .. n /\ \A k \in 1 .. n : kids[k] \in 1 .. Len(pg)
  BY <1>1, LenProperties, ElementOfSeq
<1>3. \A k \in 1 .. n : rank[k] = Rank(pg[kids[k]].title) /\ rank[k] \in Nat
  BY <1>2 DEF Ranked
<1>4. GroupToHtml(pg, group) = s
  BY DEF GroupToHtml
<1> HIDE DEF kids, rank, t, r
<1>a. /\ r \in Seq(1 .. Len(pg)) /\ Len(r) = n /\ DOMAIN r = 1 .. n
      /\ \E o : Sorts(kids, rank, r, o)
  BY <1>1, <1>3, SortedKeeps DEF r
<1>b. PICK o : Sorts(kids, rank, r, o)
  BY <1>a
<1>6. /\ o \in [1 .. n -> 1 .. n]
      /\ \A k \in 1 .. n : r[k] = kids[o[k]]
      /\ \A k, l \in 1 .. n : o[k] = o[l] => k = l
      /\ \A k \in 1 .. n : \E l \in 1 .. n : o[l] = k
      /\ \A k, l \in 1 .. n : k < l => rank[o[k]] <= rank[o[l]]
  BY <1>b DEF Sorts
<1>7. \A k \in 1 .. n : o[k] \in 1 .. n
  BY <1>6
<1>5. /\ r \in Seq(1 .. Len(pg)) /\ Len(r) = n /\ DOMAIN r = 1 .. n
      /\ \A k \in 1 .. n : \E l \in 1 .. n : r[l] = kids[k]
  <2>1. ASSUME NEW k \in 1 .. n PROVE \E l \in 1 .. n : r[l] = kids[k]
    <3>1. PICK l \in 1 .. n : o[l] = k
      BY <1>6
    <3>2. r[l] = kids[o[l]]
      BY <1>6
    <3> QED
      BY <3>1, <3>2
  <2> QED
    BY <1>a, <2>1
<1>8. links \in Seq(Line(pg)) /\ Len(links) = n /\ \A k \in 1 .. n : links[k] = Link(r[k], t)
  <2>1. \A k \in 1 .. n : Link(r[k], t) \in Line(pg)
    <3>1. \A k \in 1 .. n : r[k] \in 1 .. Len(pg)
      BY <1>5, ElementOfSeq
    <3>2. t \in 0 .. Len(pg)
      BY <1>1
    <3> QED
      BY <3>1, <3>2 DEF Link, Line
  <2> QED
    BY <1>2, <1>5, <2>1
<1>9. <<Clone(t)>> \in Seq(Line(pg)) /\ Len(<<Clone(t)>>) = 1 /\ <<Clone(t)>>[1] = Clone(t)
  <2>1. Clone(t) \in Line(pg)
    <3>1. 0 \in 0 .. Len(pg)
      BY PageIs
    <3> QED
      BY <1>1, <3>1 DEF Clone, Line, Nil
  <2> QED
    BY <2>1
<1> HIDE DEF links, n
<1>10. /\ s \in Seq(Line(pg)) /\ Len(s) = n + 1 /\ s[1] = Clone(t)
       /\ \A k \in 1 .. n : s[k + 1] = Link(r[k], t)
  <2>1. /\ s \in Seq(Line(pg)) /\ Len(s) = Len(<<Clone(t)>>) + Len(links)
        /\ \A k \in 1 .. Len(<<Clone(t)>>) : s[k] = <<Clone(t)>>[k]
        /\ \A k \in 1 .. Len(links) : s[k + Len(<<Clone(t)>>)] = links[k]
    BY <1>8, <1>9, ConcatIs
  <2> QED
    BY <1>2, <1>8, <1>9, <2>1
<1> HIDE DEF s
<1>11. ASSUME NEW k \in 2 .. Len(s)
       PROVE  /\ k - 1 \in 1 .. n /\ s[k] = Link(r[k - 1], t) /\ s[k].node = r[k - 1]
              /\ r[k - 1] = kids[o[k - 1]] /\ o[k - 1] \in 1 .. n
  <2>1. k - 1 \in 1 .. n /\ (k - 1) + 1 = k
    BY <1>2, <1>10
  <2>2. s[(k - 1) + 1] = Link(r[k - 1], t)
    BY <1>10, <2>1
  <2>3. s[k] = Link(r[k - 1], t)
    BY <2>1, <2>2
  <2> QED
    BY <1>6, <1>7, <2>1, <2>3 DEF Link
<1>12. ASSUME NEW k \in 2 .. Len(s)
       PROVE  s[k].node \in Elements(kids) /\ s[k] = Link(s[k].node, t)
  BY <1>11 DEF Elements, n
<1>13. ASSUME NEW x \in Elements(kids) PROVE \E k \in 2 .. Len(s) : s[k].node = x
  <2>1. PICK i \in 1 .. n : x = kids[i]
    BY <1>13 DEF Elements, n
  <2>2. PICK l \in 1 .. n : r[l] = x
    BY <1>5, <2>1
  <2>3. l + 1 \in 2 .. Len(s) /\ (l + 1) - 1 = l
    BY <1>2, <1>10
  <2> QED
    BY <1>11, <2>2, <2>3
<1>14. ASSUME Distinct(kids), NEW k \in 2 .. Len(s), NEW l \in 2 .. Len(s), s[k].node = s[l].node
       PROVE  k = l
  <2>1. kids[o[k - 1]] = kids[o[l - 1]] /\ o[k - 1] \in 1 .. n /\ o[l - 1] \in 1 .. n
        /\ k - 1 \in 1 .. n /\ l - 1 \in 1 .. n
    BY <1>11, <1>14
  <2>2. kids[o[k - 1]] # 0
    BY <1>2, <2>1
  <2>3. o[k - 1] = o[l - 1]
    BY <1>14, <2>1, <2>2 DEF Distinct, n
  <2>4. k - 1 = l - 1
    BY <1>6, <2>1, <2>3
  <2> QED
    BY <2>4
<1>15. ASSUME NEW k \in 2 .. Len(s), NEW l \in 2 .. Len(s), k < l
       PROVE  Rank(pg[s[k].node].title) <= Rank(pg[s[l].node].title)
  <2>1. /\ k - 1 \in 1 .. n /\ l - 1 \in 1 .. n /\ k - 1 < l - 1
        /\ o[k - 1] \in 1 .. n /\ o[l - 1] \in 1 .. n
        /\ s[k].node = kids[o[k - 1]] /\ s[l].node = kids[o[l - 1]]
    BY <1>11, <1>15
  <2>2. rank[o[k - 1]] <= rank[o[l - 1]]
    BY <1>6, <2>1
  <2> QED
    BY <1>3, <2>1, <2>2
<1>16. InGroup(pg, group, s)
  BY <1>2, <1>10, <1>12, <1>13, <1>14, <1>15 DEF InGroup, kids, t, n
<1> QED
  BY <1>4, <1>16

-----------------------------------------------------------------------------
Permutes(p, n) ==
  /\ p \in [1 .. n -> 1 .. n]
  /\ \A k, l \in 1 .. n : p[k] = p[l] => k = l
  /\ \A k \in 1 .. n : \E l \in 1 .. n : p[l] = k

\* The groups of the tree are those of the new branch, sorted or not.
Arranged(pg, toc) ==
  IF toc.orig = {} THEN Sorted(toc.news, [k \in DOMAIN toc.news |-> Rank(pg[toc.news[k].heading].text)])
  ELSE toc.news

LEMMA ArrangedIs ==
  ASSUME NEW pg, IsPage(pg), Ranked(pg), NEW toc, NEW news \in Seq(Groups(pg)), toc.news = news
  PROVE  /\ Arranged(pg, toc) \in Seq(Groups(pg))
         /\ Len(Arranged(pg, toc)) = Len(news) /\ DOMAIN Arranged(pg, toc) = 1 .. Len(news)
         /\ \E p : Permutes(p, Len(news)) /\ \A k \in 1 .. Len(news) : Arranged(pg, toc)[k] = news[p[k]]
<1> DEFINE n == Len(news)
           rank == [k \in DOMAIN news |-> Rank(pg[news[k].heading].text)]
           s == Sorted(news, rank)
<1>1. n \in Nat /\ DOMAIN news = 1 .. n /\ \A k \in 1 .. n : news[k] \in Groups(pg)
  BY LenProperties, ElementOfSeq
<1>2. CASE toc.orig = {}
  <2>1. \A k \in 1 .. n : rank[k] \in Nat
    BY <1>1 DEF Ranked, Groups
  <2>2. Arranged(pg, toc) = s
    BY <1>2 DEF Arranged
  <2> HIDE DEF rank, s
  <2>3. /\ s \in Seq(Groups(pg)) /\ Len(s) = n /\ DOMAIN s = 1 .. n
        /\ \E o : Sorts(news, rank, s, o)
    BY <2>1, SortedKeeps DEF s
  <2>4. PICK o : Sorts(news, rank, s, o)
    BY <2>3
  <2>5. Permutes(o, n) /\ \A k \in 1 .. n : s[k] = news[o[k]]
    BY <2>4 DEF Permutes, Sorts
  <2> QED
    BY <2>2, <2>3, <2>5
<1>3. CASE toc.orig # {}
  <2> DEFINE p == [k \in 1 .. n |-> k]
  <2>1. Permutes(p, n) /\ \A k \in 1 .. n : p[k] = k
    BY DEF Permutes
  <2>2. Arranged(pg, toc) = news
    BY <1>3 DEF Arranged
  <2> HIDE DEF p
  <2> QED
    BY <1>1, <2>1, <2>2
<1> QED
  BY <1>2, <1>3

(***************************************************************************)
(* Line i is the i-th left over, or the pos[i]-th of the block[i]-th group. *)
(***************************************************************************)
Laid(pg, news, shown, p, gs, block, pos, alt) ==
  /\ alt \in Seq(Line(pg)) /\ Len(shown) \in Nat /\ Len(shown) <= Len(alt)
  /\ Permutes(p, Len(news))
  /\ \A k \in 1 .. Len(news) : InGroup(pg, news[p[k]], gs[k])
  /\ \A i \in 1 .. Len(shown) : alt[i] = Original(shown[i])
  /\ \A i \in Len(shown) + 1 .. Len(alt) :
       /\ block[i] \in 1 .. Len(news) /\ pos[i] \in 1 .. Len(gs[block[i]])
       /\ alt[i] = gs[block[i]][pos[i]]
  /\ \A i, j \in Len(shown) + 1 .. Len(alt) :
       i < j => block[i] < block[j] \/ (block[i] = block[j] /\ pos[i] < pos[j])
  /\ \A k \in 1 .. Len(news) : \A l \in 1 .. Len(gs[k]) :
       \E i \in Len(shown) + 1 .. Len(alt) : block[i] = k /\ pos[i] = l

LEMMA LaidIs ==
  ASSUME NEW pg, IsPage(pg), Ranked(pg), NEW marked, NEW news \in Seq(Groups(pg)), NEW alt,
         alt = ToHtml(pg, marked, MergeTocs(pg, marked, Contents(pg), news)),
         NEW shown, shown = Shown(pg, marked, Contents(pg))
  PROVE  \E p, gs, block, pos : Laid(pg, news, shown, p, gs, block, pos, alt)
<1> DEFINE x == Contents(pg)
           u == Uncovered(pg, marked, x)
           toc == MergeTocs(pg, marked, x, news)
           m == Len(news)
           arr == Arranged(pg, toc)
           gs == [k \in DOMAIN arr |-> GroupToHtml(pg, arr[k])]
           old == [k \in DOMAIN shown |-> Original(shown[k])]
           f == FlattenSeq(gs)
<1>1. x \in Entries(pg)
  BY ContentsIs
<1>2. u \in {{}, {x}} /\ EntryToHtml(pg, marked, x) \in Seq(1 .. Len(pg))
  BY <1>1, ShownIs, HtmlNodes
<1>3. toc.orig = u /\ toc.news = news
  BY DEF MergeTocs
<1>4. shown = IF toc.orig = {} THEN <<>> ELSE EntryToHtml(pg, marked, CHOOSE e \in toc.orig : TRUE)
  <2>1. u # {} => (CHOOSE e \in u : TRUE) = x
    BY <1>2
  <2> HIDE DEF u, x
  <2> QED
    BY <1>3, <2>1 DEF Shown, u, x
<1>5. alt = old \o f
  BY <1>4 DEF ToHtml, Arranged
<1>6. shown \in Seq(1 .. Len(pg)) /\ Len(shown) \in Nat /\ DOMAIN shown = 1 .. Len(shown)
  <2>1. <<>> \in Seq(1 .. Len(pg))
    OBVIOUS
  <2>2. shown \in Seq(1 .. Len(pg))
    BY <1>2, <2>1 DEF Shown
  <2> QED
    BY <2>2, LenProperties
<1> HIDE DEF toc, u, x
<1>7. /\ arr \in Seq(Groups(pg)) /\ Len(arr) = m /\ DOMAIN arr = 1 .. m /\ m \in Nat
      /\ \E p : Permutes(p, m) /\ \A k \in 1 .. m : arr[k] = news[p[k]]
  <2>1. m \in Nat
    BY LenProperties
  <2> QED
    BY <1>3, <2>1, ArrangedIs
<1>8. PICK p : Permutes(p, m) /\ \A k \in 1 .. m : arr[k] = news[p[k]]
  BY <1>7
<1> HIDE DEF arr
<1>9. \A k \in 1 .. m : arr[k] \in Groups(pg) /\ InGroup(pg, arr[k], GroupToHtml(pg, arr[k]))
  BY <1>7, ElementOfSeq, GroupLines
<1>10. /\ gs \in Seq(Seq(Line(pg))) /\ Len(gs) = m
       /\ \A k \in 1 .. m : gs[k] = GroupToHtml(pg, arr[k]) /\ InGroup(pg, news[p[k]], gs[k])
  <2>1. \A k \in 1 .. m : GroupToHtml(pg, arr[k]) \in Seq(Line(pg))
    BY <1>9 DEF InGroup
  <2>2. gs \in Seq(Seq(Line(pg))) /\ Len(gs) = m /\ \A k \in 1 .. m : gs[k] = GroupToHtml(pg, arr[k])
    BY <1>7, <2>1
  <2> HIDE DEF gs
  <2> QED
    BY <1>8, <1>9, <2>2
<1> HIDE DEF gs
<1>11. f \in Seq(Line(pg)) /\ \E block, pos : Parts(gs, m, f, block, pos)
  BY <1>10, FlattenParts
<1>12. PICK block, pos : Parts(gs, m, f, block, pos)
  BY <1>11
<1> HIDE DEF f
<1>13. /\ old \in Seq(Line(pg)) /\ Len(old) = Len(shown)
       /\ \A k \in 1 .. Len(shown) : old[k] = Original(shown[k])
  <2>1. 0 \in 0 .. Len(pg)
    BY PageIs
  <2>2. \A k \in 1 .. Len(shown) : Original(shown[k]) \in Line(pg)
    BY <1>6, <2>1, ElementOfSeq DEF Original, Line, Nil
  <2> QED
    BY <1>6, <2>2
<1> HIDE DEF old, m
<1> DEFINE d == Len(shown)
           part2 == [i \in d + 1 .. Len(alt) |-> block[i - d]]
           pos2 == [i \in d + 1 .. Len(alt) |-> pos[i - d]]
<1>14. /\ alt \in Seq(Line(pg)) /\ Len(alt) = d + Len(f) /\ Len(f) \in Nat
       /\ \A k \in 1 .. d : alt[k] = Original(shown[k])
       /\ \A k \in 1 .. Len(f) : alt[k + d] = f[k]
  <2>1. /\ old \o f \in Seq(Line(pg)) /\ Len(old \o f) = Len(old) + Len(f) /\ Len(f) \in Nat
        /\ \A k \in 1 .. Len(old) : (old \o f)[k] = old[k]
        /\ \A k \in 1 .. Len(f) : (old \o f)[k + Len(old)] = f[k]
    <3>1. old \in Seq(Line(pg)) /\ f \in Seq(Line(pg))
      BY <1>11, <1>13
    <3> QED
      BY <3>1, ConcatIs
  <2> QED
    BY <1>5, <1>13, <2>1
<1>d. d \in Nat
  BY <1>6
<1> HIDE DEF d
<1>15. ASSUME NEW i \in d + 1 .. Len(alt)
       PROVE  /\ i - d \in 1 .. Len(f) /\ alt[i] = f[i - d]
              /\ part2[i] = block[i - d] /\ pos2[i] = pos[i - d]
  <2>1. i - d \in 1 .. Len(f) /\ (i - d) + d = i
    BY <1>14, <1>d
  <2>2. alt[(i - d) + d] = f[i - d]
    BY <1>14, <2>1
  <2> QED
    BY <2>1, <2>2
<1>16. ASSUME NEW k \in 1 .. Len(f)
       PROVE  k + d \in d + 1 .. Len(alt) /\ (k + d) - d = k
  BY <1>14, <1>d
<1> HIDE DEF part2, pos2
<1>17. \A i \in 1 .. Len(f) :
         block[i] \in 1 .. m /\ pos[i] \in 1 .. Len(gs[block[i]]) /\ f[i] = gs[block[i]][pos[i]]
  BY <1>12 DEF Parts
<1>18. ASSUME NEW i \in d + 1 .. Len(alt)
       PROVE  part2[i] \in 1 .. m /\ pos2[i] \in 1 .. Len(gs[part2[i]]) /\ alt[i] = gs[part2[i]][pos2[i]]
  BY <1>15, <1>17
<1>19. ASSUME NEW i \in d + 1 .. Len(alt), NEW j \in d + 1 .. Len(alt), i < j
       PROVE  part2[i] < part2[j] \/ (part2[i] = part2[j] /\ pos2[i] < pos2[j])
  <2>1. i - d \in 1 .. Len(f) /\ j - d \in 1 .. Len(f) /\ i - d < j - d
    BY <1>15, <1>19, <1>d
  <2>2. block[i - d] < block[j - d] \/ (block[i - d] = block[j - d] /\ pos[i - d] < pos[j - d])
    BY <1>12, <2>1 DEF Parts
  <2> QED
    BY <1>15, <2>2
<1>20. ASSUME NEW k \in 1 .. m, NEW l \in 1 .. Len(gs[k])
       PROVE  \E i \in d + 1 .. Len(alt) : part2[i] = k /\ pos2[i] = l
  <2>1. PICK i \in 1 .. Len(f) : block[i] = k /\ pos[i] = l
    BY <1>12 DEF Parts
  <2>2. i + d \in d + 1 .. Len(alt) /\ part2[i + d] = block[(i + d) - d] /\ pos2[i + d] = pos[(i + d) - d]
        /\ (i + d) - d = i
    BY <1>15, <1>16
  <2> QED
    BY <2>1, <2>2
<1>21. Len(shown) <= Len(alt)
  BY <1>14, <1>d DEF d
<1>22. Laid(pg, news, shown, p, gs, part2, pos2, alt)
  BY <1>8, <1>10, <1>14, <1>18, <1>19, <1>20, <1>21, <1>d DEF Laid, d, m
<1> QED
  BY <1>22

-----------------------------------------------------------------------------
(***************************************************************************)
(* The new branch when buildToc is through: one group for each type, with  *)
(* the routines attached to it if no earlier type has its name, and all    *)
(* that the branch has is marked.                                          *)
(***************************************************************************)
OwnRoutines(pg, ty, pr, k) == {n \in Elements(pr) : pg[n].attached = <<pg[ty[k]].text>>}

FirstOfName(pg, ty, k) == \A l \in 1 .. k - 1 : pg[ty[l]].text # pg[ty[k]].text

GroupIs(pg, ty, pr, k, group) ==
  /\ group \in Groups(pg) /\ group.heading = ty[k] /\ Distinct(group.kids)
  /\ Elements(group.kids) = IF FirstOfName(pg, ty, k) THEN OwnRoutines(pg, ty, pr, k) ELSE {}

Settled(pg, ty, pr, news, marked) ==
  /\ ty \in Seq(1 .. Len(pg)) /\ Distinct(ty) /\ Apart(ty, pr)
  /\ ty # <<>> => \A x \in Elements(pr) : x \in 1 .. Len(pg)
  /\ news \in Seq(Groups(pg)) /\ Len(news) = Len(ty)
  /\ \A k \in 1 .. Len(ty) : GroupIs(pg, ty, pr, k, news[k])
  /\ marked = Elements(ty) \cup UNION {OwnRoutines(pg, ty, pr, k) : k \in 1 .. Len(ty)}

\* A line of the group of the a-th type: the type, or one of its routines.
LineOf(pg, ty, pr, a, line, place) ==
  /\ a \in 1 .. Len(ty) /\ ty[a] \in 1 .. Len(pg)
  /\ place = 1 => line = Clone(ty[a])
  /\ place # 1 =>
       /\ line = Link(line.node, ty[a])
       /\ line.node \in OwnRoutines(pg, ty, pr, a) /\ FirstOfName(pg, ty, a)

LEMMA LineIs ==
  ASSUME NEW pg, IsPage(pg), NEW ty, NEW pr, NEW news, NEW marked, Settled(pg, ty, pr, news, marked),
         NEW shown, NEW p, NEW gs, NEW block, NEW pos, NEW alt,
         Laid(pg, news, shown, p, gs, block, pos, alt),
         NEW i \in Len(shown) + 1 .. Len(alt)
  PROVE  /\ LineOf(pg, ty, pr, p[block[i]], alt[i], pos[i])
         /\ alt[i].node \in marked
<1> DEFINE a == p[block[i]]
           g == gs[block[i]]
           group == news[a]
<1>1. block[i] \in 1 .. Len(news) /\ pos[i] \in 1 .. Len(g) /\ alt[i] = g[pos[i]]
  BY DEF Laid
<1>2. a \in 1 .. Len(news) /\ InGroup(pg, group, g)
  BY <1>1 DEF Laid, Permutes
<1>3. a \in 1 .. Len(ty) /\ GroupIs(pg, ty, pr, a, group)
  BY <1>2 DEF Settled
<1>t. ty \in Seq(1 .. Len(pg))
  BY DEF Settled
<1>4. ty[a] \in 1 .. Len(pg)
  BY <1>3, <1>t, ElementOfSeq
<1> HIDE DEF a, g, group
<1>5. CASE pos[i] = 1
  <2>1. alt[i] = Clone(ty[a])
    BY <1>1, <1>2, <1>3, <1>5 DEF InGroup, GroupIs
  <2>2. alt[i].node = ty[a]
    BY <2>1 DEF Clone
  <2>3. ty[a] \in marked
    <3>1. ty[a] \in Elements(ty)
      BY <1>3 DEF Elements
    <3> QED
      BY <3>1 DEF Settled
  <2> QED
    BY <1>3, <1>4, <1>5, <2>1, <2>2, <2>3 DEF LineOf, a
<1>6. CASE pos[i] # 1
  <2>1. Len(g) \in Nat
    BY <1>2 DEF InGroup
  <2>2. pos[i] \in 2 .. Len(g)
    BY <1>1, <1>6, <2>1
  <2>3. alt[i].node \in Elements(group.kids) /\ alt[i] = Link(alt[i].node, ty[a])
    BY <1>1, <1>2, <1>3, <2>2 DEF InGroup, GroupIs
  <2>4. FirstOfName(pg, ty, a) /\ alt[i].node \in OwnRoutines(pg, ty, pr, a)
    BY <1>3, <2>3 DEF GroupIs
  <2>5. alt[i].node \in marked
    BY <1>3, <2>4 DEF Settled
  <2> QED
    BY <1>3, <1>4, <1>6, <2>3, <2>4, <2>5 DEF LineOf, a
<1> QED
  BY <1>5, <1>6

\* The lines of one group are lines of one type.
LEMMA SameGroup ==
  ASSUME NEW pg, IsPage(pg), NEW ty, NEW pr, NEW news, NEW marked, Settled(pg, ty, pr, news, marked),
         NEW shown, NEW p, NEW gs, NEW block, NEW pos, NEW alt,
         Laid(pg, news, shown, p, gs, block, pos, alt),
         NEW i \in Len(shown) + 1 .. Len(alt), NEW j \in Len(shown) + 1 .. Len(alt),
         p[block[i]] = p[block[j]]
  PROVE  /\ block[i] = block[j]
         /\ alt[i].node = alt[j].node /\ pos[i] # 1 /\ pos[j] # 1 => i = j
         /\ pos[i] = 1 /\ pos[j] = 1 => i = j
         /\ pos[i] # 1 /\ pos[j] # 1 /\ i < j =>
              Rank(pg[alt[i].node].title) <= Rank(pg[alt[j].node].title)
<1> DEFINE g == gs[block[i]]
           group == news[p[block[i]]]
<1>1. block[i] = block[j] /\ block[i] \in 1 .. Len(news)
  BY DEF Laid, Permutes
<1>2. /\ pos[i] \in 1 .. Len(g) /\ pos[j] \in 1 .. Len(g)
      /\ alt[i] = g[pos[i]] /\ alt[j] = g[pos[j]] /\ InGroup(pg, group, g)
  BY <1>1 DEF Laid
<1>3. p[block[i]] \in 1 .. Len(ty) /\ Distinct(group.kids)
  <2>1. p[block[i]] \in 1 .. Len(news)
    BY <1>1 DEF Laid, Permutes
  <2> QED
    BY <2>1 DEF Settled, GroupIs
<1> HIDE DEF g, group
<1>4. Len(g) \in Nat
  BY <1>2 DEF InGroup
<1>5. pos[i] = pos[j] => i = j
  <2> SUFFICES ASSUME pos[i] = pos[j] PROVE i = j
    OBVIOUS
  <2>1. i \in Int /\ j \in Int /\ block[i] \in Int /\ pos[i] \in Int
    <3>1. Len(shown) \in Nat
      BY DEF Laid
    <3> QED
      BY <1>1, <1>2, <3>1
  <2>2. \A k, l \in Len(shown) + 1 .. Len(alt) :
          k < l => block[k] < block[l] \/ (block[k] = block[l] /\ pos[k] < pos[l])
    BY DEF Laid
  <2>3. ~(block[i] < block[i]) /\ ~(pos[i] < pos[i])
    BY <2>1
  <2>4. ~(i < j) /\ ~(j < i)
    BY <1>1, <2>2, <2>3
  <2> QED
    BY <2>1, <2>4
<1>6. ASSUME pos[i] # 1, pos[j] # 1
      PROVE  pos[i] \in 2 .. Len(g) /\ pos[j] \in 2 .. Len(g)
  BY <1>2, <1>4, <1>6
<1>7. ASSUME alt[i].node = alt[j].node, pos[i] # 1, pos[j] # 1 PROVE i = j
  <2>1. pos[i] = pos[j]
    BY <1>2, <1>3, <1>6, <1>7 DEF InGroup
  <2> QED
    BY <1>5, <2>1
<1>8. ASSUME pos[i] # 1, pos[j] # 1, i < j
      PROVE  Rank(pg[alt[i].node].title) <= Rank(pg[alt[j].node].title)
  <2>1. block[i] < block[j] \/ pos[i] < pos[j]
    BY <1>8 DEF Laid
  <2>2. block[i] \in Int
    BY <1>1
  <2>3. pos[i] < pos[j]
    BY <1>1, <2>1, <2>2
  <2>4. pos[i] \in 2 .. Len(g) /\ pos[j] \in 2 .. Len(g)
    BY <1>6, <1>8
  <2>5. alt[i].node = g[pos[i]].node /\ alt[j].node = g[pos[j]].node
    BY <1>2
  <2>6. \A k, l \in 2 .. Len(g) : k < l => Rank(pg[g[k].node].title) <= Rank(pg[g[l].node].title)
    BY <1>2 DEF InGroup
  <2> QED
    BY <2>3, <2>4, <2>5, <2>6
<1> QED
  BY <1>1, <1>5, <1>7, <1>8

LEMMA ShownLine ==
  ASSUME NEW pg, IsPage(pg), NEW marked, NEW shown, shown = Shown(pg, marked, Contents(pg)),
         NEW news, NEW p, NEW gs, NEW block, NEW pos, NEW alt,
         Laid(pg, news, shown, p, gs, block, pos, alt),
         NEW i \in 1 .. Len(shown)
  PROVE  /\ alt[i] = Original(shown[i]) /\ alt[i].node = shown[i] /\ shown[i] \notin marked
         /\ alt[i].below = 0 /\ alt[i].made = "original"
         /\ \A j \in 1 .. Len(shown) : shown[i] = shown[j] => i = j
<1> DEFINE x == Contents(pg)
<1>1. x \in Entries(pg) /\ Nested(pg, x)
  <2>1. x = Entry(Nil, 1) /\ x \in Entries(pg) /\ 1 \in 1 .. Len(pg) /\ Len(pg) \in Nat
    BY ContentsIs, PageIs
  <2>2. x.heading = 0 /\ x.list = 1
    BY <2>1 DEF Entry, Nil
  <2> QED
    BY <2>1, <2>2 DEF Nested, Nil
<1>2. alt[i] = Original(shown[i])
  BY DEF Laid
<1>3. shown[i] \notin marked
  <2>1. shown[i] \in Elements(Shown(pg, marked, x))
    BY DEF Elements
  <2> HIDE DEF x
  <2> QED
    BY <1>1, <2>1, ShownIs
<1>4. shown \in Seq(1 .. Len(pg)) /\ Distinct(shown)
  <2>1. <<>> \in Seq(1 .. Len(pg)) /\ EntryToHtml(pg, marked, x) \in Seq(1 .. Len(pg))
    BY <1>1, HtmlNodes
  <2>2. Distinct(EntryToHtml(pg, marked, x))
    BY <1>1, HtmlOrdered, OrderedDistinct
  <2>3. Distinct(<<>>)
    <3>1. Len(<<>>) = 0 /\ 1 .. 0 = {}
      OBVIOUS
    <3> QED
      BY <3>1 DEF Distinct
  <2> QED
    BY <2>1, <2>2, <2>3 DEF Shown
<1>5. shown[i] # 0
  <2>1. shown[i] \in 1 .. Len(pg)
    BY <1>4, ElementOfSeq
  <2> QED
    BY <2>1
<1> QED
  BY <1>2, <1>3, <1>4, <1>5 DEF Distinct, Original, Nil

LEMMA GroupHasType ==
  ASSUME NEW pg, IsPage(pg), NEW ty, NEW pr, NEW news, NEW marked, Settled(pg, ty, pr, news, marked),
         NEW shown, NEW p, NEW gs, NEW block, NEW pos, NEW alt,
         Laid(pg, news, shown, p, gs, block, pos, alt), NEW a \in 1 .. Len(ty)
  PROVE  \E i \in Len(shown) + 1 .. Len(alt) : p[block[i]] = a /\ pos[i] = 1
<1>1. PICK k \in 1 .. Len(news) : p[k] = a
  BY DEF Settled, Laid, Permutes
<1>2. \A l \in 1 .. Len(gs[k]) : \E i \in Len(shown) + 1 .. Len(alt) : block[i] = k /\ pos[i] = l
  BY <1>1 DEF Laid
<1>3. 1 \in 1 .. Len(gs[k])
  <2> DEFINE g == gs[k]
             group == news[a]
  <2>1. InGroup(pg, group, g)
    BY <1>1 DEF Laid
  <2> HIDE DEF g, group
  <2>2. 1 \in 1 .. Len(g)
    BY <2>1 DEF InGroup
  <2> QED
    BY <2>2 DEF g
<1> QED
  BY <1>1, <1>2, <1>3

LEMMA GroupHasRoutine ==
  ASSUME NEW pg, IsPage(pg), NEW ty, NEW pr, NEW news, NEW marked, Settled(pg, ty, pr, news, marked),
         NEW shown, NEW p, NEW gs, NEW block, NEW pos, NEW alt,
         Laid(pg, news, shown, p, gs, block, pos, alt), NEW a \in 1 .. Len(ty),
         NEW n \in Elements(news[a].kids)
  PROVE  \E i \in Len(shown) + 1 .. Len(alt) : p[block[i]] = a /\ pos[i] # 1 /\ alt[i].node = n
<1>1. PICK k \in 1 .. Len(news) : p[k] = a
  BY DEF Settled, Laid, Permutes
<1> DEFINE g == gs[k]
           group == news[a]
<1>2. InGroup(pg, group, g) /\ n \in Elements(group.kids)
  BY <1>1 DEF Laid
<1>3. \A l \in 1 .. Len(g) : \E i \in Len(shown) + 1 .. Len(alt) : block[i] = k /\ pos[i] = l
  BY <1>1 DEF Laid
<1>4. \A i \in Len(shown) + 1 .. Len(alt) : alt[i] = gs[block[i]][pos[i]]
  BY DEF Laid
<1> HIDE DEF g, group
<1>5. PICK l \in 2 .. Len(g) : g[l].node = n
  BY <1>2 DEF InGroup
<1>6. l \in 1 .. Len(g) /\ l # 1
  <2>1. Len(g) \in Nat
    BY <1>2 DEF InGroup
  <2> QED
    BY <1>5, <2>1
<1>7. PICK i \in Len(shown) + 1 .. Len(alt) : block[i] = k /\ pos[i] = l
  BY <1>3, <1>6
<1>8. alt[i] = g[l]
  BY <1>4, <1>7 DEF g
<1> QED
  BY <1>1, <1>5, <1>6, <1>7, <1>8

\* The routines attached to a type are those attached to the first of its name.
LEMMA FirstHasThem ==
  ASSUME NEW pg, NEW ty \in Seq(1 .. Len(pg)), NEW pr, NEW k \in 1 .. Len(ty)
  PROVE  \E a \in 1 .. Len(ty) : FirstOfName(pg, ty, a) /\ OwnRoutines(pg, ty, pr, a) = OwnRoutines(pg, ty, pr, k)
<1> DEFINE T == {l \in 1 .. Len(ty) : pg[ty[l]].text = pg[ty[k]].text}
<1>0. Len(ty) \in Nat
  BY LenProperties
<1>1. PICK a \in T : \A l \in T : a <= l
  <2>1. T \subseteq Nat /\ T # {}
    BY <1>0
  <2> HIDE DEF T
  <2> QED
    BY <2>1, Smallest
<1>2. a \in 1 .. Len(ty) /\ pg[ty[a]].text = pg[ty[k]].text
  BY <1>1
<1>3. ASSUME NEW l \in 1 .. a - 1 PROVE pg[ty[l]].text # pg[ty[a]].text
  <2>1. l \in 1 .. Len(ty) /\ ~(a <= l)
    BY <1>0, <1>2
  <2> QED
    BY <1>1, <1>2, <2>1
<1> QED
  BY <1>2, <1>3 DEF FirstOfName, OwnRoutines

LEMMA MarkedLine ==
  ASSUME NEW pg, IsPage(pg), NEW ty, NEW pr, NEW news, NEW marked, Settled(pg, ty, pr, news, marked),
         NEW shown, NEW p, NEW gs, NEW block, NEW pos, NEW alt,
         Laid(pg, news, shown, p, gs, block, pos, alt), NEW n \in marked
  PROVE  \E i \in Len(shown) + 1 .. Len(alt) : alt[i].node = n
<1>1. CASE n \in Elements(ty)
  <2>1. PICK a \in 1 .. Len(ty) : n = ty[a]
    BY <1>1 DEF Elements
  <2>2. PICK i \in Len(shown) + 1 .. Len(alt) : p[block[i]] = a /\ pos[i] = 1
    BY GroupHasType
  <2>3. LineOf(pg, ty, pr, a, alt[i], 1)
    <3>1. LineOf(pg, ty, pr, p[block[i]], alt[i], pos[i])
      BY LineIs
    <3> QED
      BY <2>2, <3>1
  <2>4. alt[i].node = n
    BY <2>1, <2>3 DEF LineOf, Clone
  <2> QED
    BY <2>4
<1>2. CASE n \notin Elements(ty)
  <2>1. PICK k \in 1 .. Len(ty) : n \in OwnRoutines(pg, ty, pr, k)
    BY <1>2 DEF Settled
  <2>2. ty \in Seq(1 .. Len(pg))
    BY DEF Settled
  <2>3. PICK a \in 1 .. Len(ty) : /\ FirstOfName(pg, ty, a)
                                 /\ OwnRoutines(pg, ty, pr, a) = OwnRoutines(pg, ty, pr, k)
    BY <2>2, FirstHasThem
  <2>4. GroupIs(pg, ty, pr, a, news[a])
    BY DEF Settled
  <2>5. n \in Elements(news[a].kids)
    BY <2>1, <2>3, <2>4 DEF GroupIs
  <2>6. \E i \in Len(shown) + 1 .. Len(alt) : p[block[i]] = a /\ pos[i] # 1 /\ alt[i].node = n
    BY <2>5, GroupHasRoutine
  <2> QED
    BY <2>6
<1> QED
  BY <1>1, <1>2

(***************************************************************************)
(* The rendered tree has every leaf of the contents, has no node twice,    *)
(* and is empty on a page without leaves only.                             *)
(***************************************************************************)
LEMMA HtmlKeeps ==
  ASSUME NEW pg, IsPage(pg), Ranked(pg), NEW ty, NEW pr, NEW news, NEW marked,
         Settled(pg, ty, pr, news, marked), NEW alt,
         alt = ToHtml(pg, marked, MergeTocs(pg, marked, Contents(pg), news))
  PROVE  /\ alt \in Seq(Line(pg))
         /\ Leaves(pg, Contents(pg)) \subseteq {alt[k].node : k \in 1 .. Len(alt)}
         /\ \A k, l \in 1 .. Len(alt) : alt[k].node = alt[l].node => k = l
         /\ alt = <<>> => Leaves(pg, Contents(pg)) = {} /\ ty = <<>>
<1> DEFINE x == Contents(pg)
           shown == Shown(pg, marked, x)
           d == Len(shown)
<1>1. news \in Seq(Groups(pg))
  BY DEF Settled
<1>2. \E p, gs, block, pos : Laid(pg, news, shown, p, gs, block, pos, alt)
  BY <1>1, LaidIs
<1>3. PICK p, gs, block, pos : Laid(pg, news, shown, p, gs, block, pos, alt)
  BY <1>2
<1>4. x \in Entries(pg)
  BY ContentsIs
<1>5. Leaves(pg, x) \subseteq marked \cup Elements(shown)
  BY <1>4, ShownIs
<1>6. ASSUME NEW i \in 1 .. d
      PROVE  /\ alt[i].node = shown[i] /\ shown[i] \notin marked
             /\ \A j \in 1 .. d : shown[i] = shown[j] => i = j
  BY <1>3, ShownLine
<1> HIDE DEF x, shown
<1>7. d \in Nat /\ d <= Len(alt) /\ alt \in Seq(Line(pg)) /\ Len(alt) \in Nat
  BY <1>3, LenProperties DEF Laid
<1>8. ASSUME NEW i \in d + 1 .. Len(alt)
      PROVE  LineOf(pg, ty, pr, p[block[i]], alt[i], pos[i]) /\ alt[i].node \in marked
  BY <1>3, LineIs
<1>9. ASSUME NEW n \in Leaves(pg, x) PROVE \E i \in 1 .. Len(alt) : alt[i].node = n
  <2>1. CASE n \in marked
    <3>1. \E i \in d + 1 .. Len(alt) : alt[i].node = n
      BY <1>3, <2>1, MarkedLine
    <3> QED
      BY <1>7, <3>1
  <2>2. CASE n \in Elements(shown)
    <3>1. PICK i \in 1 .. d : n = shown[i]
      BY <2>2 DEF Elements
    <3>2. i \in 1 .. Len(alt) /\ alt[i].node = n
      BY <1>6, <1>7, <3>1
    <3> QED
      BY <3>2
  <2> QED
    BY <1>5, <2>1, <2>2
<1>10. ASSUME NEW i \in 1 .. Len(alt), NEW j \in 1 .. Len(alt), alt[i].node = alt[j].node
       PROVE  i = j
  <2>1. (i \in 1 .. d \/ i \in d + 1 .. Len(alt)) /\ (j \in 1 .. d \/ j \in d + 1 .. Len(alt))
    BY <1>7
  <2>2. CASE i \in 1 .. d /\ j \in 1 .. d
    BY <1>6, <1>10, <2>2
  <2>3. CASE i \in 1 .. d /\ j \in d + 1 .. Len(alt)
    BY <1>6, <1>8, <1>10, <2>3
  <2>4. CASE i \in d + 1 .. Len(alt) /\ j \in 1 .. d
    BY <1>6, <1>8, <1>10, <2>4
  <2>5. CASE i \in d + 1 .. Len(alt) /\ j \in d + 1 .. Len(alt)
    <3> DEFINE a == p[block[i]]
               b == p[block[j]]
               n == alt[i].node
    <3>1. LineOf(pg, ty, pr, a, alt[i], pos[i]) /\ LineOf(pg, ty, pr, b, alt[j], pos[j])
      BY <1>8, <2>5
    <3>2. a = b => /\ (pos[i] # 1 /\ pos[j] # 1 => i = j)
                   /\ (pos[i] = 1 /\ pos[j] = 1 => i = j)
      BY <1>3, <1>10, <2>5, SameGroup
    <3>3. alt[j].node = n
      BY <1>10
    <3>s. Distinct(ty) /\ Apart(ty, pr)
      BY DEF Settled
    <3> HIDE DEF a, b, n
    <3>4. CASE pos[i] = 1 /\ pos[j] = 1
      <4>1. n = ty[a] /\ n = ty[b] /\ ty[a] # 0 /\ a \in 1 .. Len(ty) /\ b \in 1 .. Len(ty)
        BY <3>1, <3>3, <3>4 DEF LineOf, Clone, n
      <4>2. a = b
        BY <3>s, <4>1 DEF Distinct
      <4> QED
        BY <3>2, <3>4, <4>2
    <3>5. CASE pos[i] # 1 /\ pos[j] # 1
      <4>1. /\ n \in OwnRoutines(pg, ty, pr, a) /\ FirstOfName(pg, ty, a) /\ a \in 1 .. Len(ty)
            /\ n \in OwnRoutines(pg, ty, pr, b) /\ FirstOfName(pg, ty, b) /\ b \in 1 .. Len(ty)
        BY <3>1, <3>3, <3>5 DEF LineOf, n
      <4>2. pg[ty[a]].text = pg[ty[b]].text
        <5>1. <<pg[ty[a]].text>> = <<pg[ty[b]].text>>
          BY <4>1 DEF OwnRoutines
        <5> QED
          BY <5>1
      <4>3. Len(ty) \in Nat
        <5>1. ty \in Seq(1 .. Len(pg))
          BY DEF Settled
        <5> QED
          BY <5>1, LenProperties
      <4>4. ~(a \in 1 .. b - 1) /\ ~(b \in 1 .. a - 1)
        BY <4>1, <4>2 DEF FirstOfName
      <4>5. a = b
        BY <4>1, <4>3, <4>4
      <4> QED
        BY <3>2, <3>5, <4>5
    <3>6. CASE (pos[i] = 1 /\ pos[j] # 1) \/ (pos[i] # 1 /\ pos[j] = 1)
      <4>1. \E c1, c2 \in 1 .. Len(ty) : n = ty[c1] /\ ty[c1] \in 1 .. Len(pg) /\ n \in OwnRoutines(pg, ty, pr, c2)
        BY <3>1, <3>3, <3>6 DEF LineOf, Clone, n
      <4>2. n \in Elements(ty) /\ n \in Elements(pr) /\ n # 0
        BY <4>1 DEF OwnRoutines, Elements
      <4> QED
        BY <3>s, <4>2 DEF Apart
    <3> QED
      BY <3>4, <3>5, <3>6
  <2> QED
    BY <2>1, <2>2, <2>3, <2>4, <2>5
<1>11. ASSUME alt = <<>> PROVE Leaves(pg, x) = {} /\ ty = <<>>
  <2>1. Len(alt) = 0
    BY <1>11
  <2>2. Leaves(pg, x) = {}
    BY <1>9, <2>1
  <2>3. Len(ty) = 0
    <3>1. ty \in Seq(1 .. Len(pg)) /\ Len(ty) \in Nat
      BY LenProperties DEF Settled
    <3> SUFFICES ASSUME Len(ty) # 0 PROVE FALSE
      OBVIOUS
    <3>2. 1 \in 1 .. Len(ty)
      BY <3>1
    <3>3. \E i \in d + 1 .. Len(alt) : TRUE
      BY <1>3, <3>2, GroupHasType
    <3> QED
      BY <1>7, <2>1, <3>3
  <2>4. ty = <<>>
    BY <2>3, EmptySeq DEF Settled
  <2> QED
    BY <2>2, <2>4
<1>12. Leaves(pg, x) \subseteq {alt[k].node : k \in 1 .. Len(alt)}
  BY <1>9
<1> QED
  BY <1>7, <1>10, <1>11, <1>12 DEF x

(***************************************************************************)
(* Below a type are its routines by name, if no earlier type has its name. *)
(***************************************************************************)
\* The headings below a cloned type are the routines of the a-th type, in order.
GroupBelow(pg, ty, pr, alt, t, below, a) ==
  /\ t = ty[a] /\ t # 0
  /\ {alt[k] : k \in below} =
       {Link(n, t) : n \in IF FirstOfName(pg, ty, a) THEN OwnRoutines(pg, ty, pr, a) ELSE {}}
  /\ \A k, l \in below : k < l => Rank(pg[alt[k].node].title) <= Rank(pg[alt[l].node].title)

LEMMA HtmlGroups ==
  ASSUME NEW pg, IsPage(pg), Ranked(pg), NEW ty, NEW pr, NEW news, NEW marked,
         Settled(pg, ty, pr, news, marked), NEW alt,
         alt = ToHtml(pg, marked, MergeTocs(pg, marked, Contents(pg), news)),
         NEW i \in 1 .. Len(alt), alt[i].made = "clone", NEW t, t = alt[i].node,
         NEW below, below = {k \in 1 .. Len(alt) : alt[k].below = t}
  PROVE  \E a \in 1 .. Len(ty) : GroupBelow(pg, ty, pr, alt, t, below, a)
<1> DEFINE shown == Shown(pg, marked, Contents(pg))
           d == Len(shown)
<1>1. \E p, gs, block, pos : Laid(pg, news, shown, p, gs, block, pos, alt)
  <2>1. news \in Seq(Groups(pg))
    BY DEF Settled
  <2> QED
    BY <2>1, LaidIs
<1>2. PICK p, gs, block, pos : Laid(pg, news, shown, p, gs, block, pos, alt)
  BY <1>1
<1>3. ASSUME NEW k \in 1 .. d PROVE alt[k].below = 0 /\ alt[k].made = "original"
  BY <1>2, ShownLine
<1> HIDE DEF shown
<1>4. d \in Nat /\ d <= Len(alt) /\ Len(alt) \in Nat
  BY <1>2, LenProperties DEF Laid
<1>5. ASSUME NEW k \in d + 1 .. Len(alt) PROVE LineOf(pg, ty, pr, p[block[k]], alt[k], pos[k])
  BY <1>2, LineIs
<1> HIDE DEF d
<1>6. \A k \in 1 .. Len(alt) : k \in 1 .. d \/ k \in d + 1 .. Len(alt)
  BY <1>4
<1>7. i \in d + 1 .. Len(alt)
  BY <1>3, <1>6
<1> DEFINE a == p[block[i]]
<1>8. LineOf(pg, ty, pr, a, alt[i], pos[i])
  BY <1>5, <1>7
<1> HIDE DEF a
<1>9. pos[i] = 1 /\ t = ty[a] /\ a \in 1 .. Len(ty) /\ t # 0
  <2>1. pos[i] = 1
    BY <1>8 DEF LineOf, Link
  <2> QED
    BY <1>8, <2>1 DEF LineOf, Clone
<1>10. ASSUME NEW k \in below
       PROVE  /\ k \in d + 1 .. Len(alt) /\ p[block[k]] = a /\ pos[k] # 1
              /\ alt[k] = Link(alt[k].node, t)
              /\ alt[k].node \in OwnRoutines(pg, ty, pr, a) /\ FirstOfName(pg, ty, a)
  <2>1. k \in 1 .. Len(alt) /\ alt[k].below = t
    OBVIOUS
  <2>2. k \in d + 1 .. Len(alt)
    BY <1>3, <1>6, <1>9, <2>1
  <2> DEFINE b == p[block[k]]
  <2>3. LineOf(pg, ty, pr, b, alt[k], pos[k])
    BY <1>5, <2>2
  <2> HIDE DEF b
  <2>4. pos[k] # 1
    BY <1>9, <2>1, <2>3 DEF LineOf, Clone, Nil
  <2>5. /\ alt[k] = Link(alt[k].node, ty[b]) /\ b \in 1 .. Len(ty)
        /\ alt[k].node \in OwnRoutines(pg, ty, pr, b) /\ FirstOfName(pg, ty, b)
    BY <2>3, <2>4 DEF LineOf
  <2>6. ty[b] = t
    <3>1. alt[k].below = ty[b]
      BY <2>5 DEF Link
    <3> QED
      BY <2>1, <3>1
  <2>7. b = a
    <3>1. Distinct(ty)
      BY DEF Settled
    <3> QED
      BY <1>9, <2>5, <2>6, <3>1 DEF Distinct
  <2> QED
    BY <2>2, <2>4, <2>5, <2>6, <2>7 DEF b
<1>11. ASSUME FirstOfName(pg, ty, a), NEW n \in OwnRoutines(pg, ty, pr, a)
       PROVE  \E k \in below : alt[k] = Link(n, t)
  <2>1. GroupIs(pg, ty, pr, a, news[a])
    BY <1>9 DEF Settled
  <2>2. n \in Elements(news[a].kids)
    BY <1>11, <2>1 DEF GroupIs
  <2>3. \E k \in Len(shown) + 1 .. Len(alt) : p[block[k]] = a /\ pos[k] # 1 /\ alt[k].node = n
    <3>1. a \in 1 .. Len(ty)
      BY <1>9
    <3> QED
      BY <1>2, <2>2, <3>1, GroupHasRoutine
  <2>4. PICK k \in d + 1 .. Len(alt) : p[block[k]] = a /\ pos[k] # 1 /\ alt[k].node = n
    BY <2>3 DEF d
  <2>5. LineOf(pg, ty, pr, a, alt[k], pos[k])
    BY <1>5, <2>4
  <2>6. alt[k] = Link(n, t)
    BY <1>9, <2>4, <2>5 DEF LineOf
  <2>7. alt[k].below = t /\ k \in 1 .. Len(alt)
    <3>1. k \in 1 .. Len(alt)
      BY <1>4
    <3> QED
      BY <2>6, <3>1 DEF Link
  <2> QED
    BY <2>6, <2>7
<1>12. {alt[k] : k \in below} =
         {Link(n, t) : n \in IF FirstOfName(pg, ty, a) THEN OwnRoutines(pg, ty, pr, a) ELSE {}}
  <2> DEFINE own == IF FirstOfName(pg, ty, a) THEN OwnRoutines(pg, ty, pr, a) ELSE {}
  <2>1. ASSUME NEW k \in below PROVE \E n \in own : alt[k] = Link(n, t)
    BY <1>10
  <2>2. ASSUME NEW n \in own PROVE \E k \in below : alt[k] = Link(n, t)
    <3>1. FirstOfName(pg, ty, a) /\ n \in OwnRoutines(pg, ty, pr, a)
      BY <2>2
    <3> QED
      BY <1>11, <3>1
  <2> HIDE DEF own
  <2>3. {alt[k] : k \in below} = {Link(n, t) : n \in own}
    BY <2>1, <2>2
  <2> QED
    BY <2>3 DEF own
<1>13. ASSUME NEW k \in below, NEW l \in below, k < l
       PROVE  Rank(pg[alt[k].node].title) <= Rank(pg[alt[l].node].title)
  <2>1. /\ k \in Len(shown) + 1 .. Len(alt) /\ l \in Len(shown) + 1 .. Len(alt)
        /\ p[block[k]] = p[block[l]] /\ pos[k] # 1 /\ pos[l] # 1
    BY <1>10 DEF d
  <2> QED
    BY <1>2, <1>13, <2>1, SameGroup
<1>14. GroupBelow(pg, ty, pr, alt, t, below, a)
  BY <1>9, <1>12, <1>13 DEF GroupBelow
<1> QED
  BY <1>9, <1>14

-----------------------------------------------------------------------------
(***************************************************************************)
(* The inductive invariant.  A page is troubled when a call raises on it   *)
(* in the loops of buildToc, after it has marked some of the nodes; on any *)
(* other page the marks are exactly what the groups made so far have.      *)
(***************************************************************************)
Troubled(ty, pr) == 0 \in Elements(ty) \/ (ty # <<>> /\ 0 \in Elements(pr))

MarksOf(pg, ty, pr, m) ==
  {ty[k] : k \in 1 .. m} \cup UNION {OwnRoutines(pg, ty, pr, k) : k \in 1 .. m}

\* Of the routines attached to the k-th type, those before the i-th of all.
Placed(pg, ty, pr, k, i) ==
  {n \in {pr[j] : j \in 1 .. i - 1} : pg[n].attached = <<pg[ty[k]].text>>}

Grouped(pg, ty, pr, m, news) ==
  /\ news \in Seq(Groups(pg)) /\ Len(news) = m
  /\ \A k \in 1 .. m : GroupIs(pg, ty, pr, k, news[k])

Filling(pg, ty, pr, m, i, group, marked) ==
  /\ marked = MarksOf(pg, ty, pr, m - 1) \cup {ty[m]} \cup Placed(pg, ty, pr, m, i)
  /\ group \in Groups(pg) /\ group.heading = ty[m] /\ Distinct(group.kids)
  /\ Elements(group.kids) = IF FirstOfName(pg, ty, m) THEN Placed(pg, ty, pr, m, i) ELSE {}

Collected ==
  /\ page \in Pages
  /\ \/ types = <<>> /\ procs = <<>> /\ procIndex = 1 /\ typeIndex = 1 /\ tocPc = "idle"
        /\ marks = {} /\ alternative = <<>> /\ raised = FALSE
     \/ types = TypesOf(page) /\ procs = RoutinesOf(page)

Bounds ==
  /\ grouping \in {"section", "type"} /\ tocPc \in {"idle", "types", "procs"}
  /\ typeIndex \in 1 .. Len(types) + 1 /\ procIndex \in 1 .. Len(procs) + 1
  /\ tocPc = "procs" => typeIndex \in 1 .. Len(types) /\ types[typeIndex] # 0
  /\ marks \subseteq 1 .. Len(page)
  /\ tocShown \in BOOLEAN /\ raised \in BOOLEAN

\* What the loops have passed was not missing.
Passed ==
  /\ tocPc # "idle" => \A k \in 1 .. typeIndex - 1 : types[k] # 0
  /\ tocPc # "idle" /\ typeIndex > 1 => 0 \notin Elements(procs)
  /\ tocPc = "procs" => \A k \in 1 .. procIndex - 1 : procs[k] # 0

Built ==
  /\ tocPc # "idle" => alternative = <<>>
  /\ ~Troubled(types, procs) =>
       /\ tocPc = "idle" /\ alternative = <<>> => marks = {}
       /\ tocPc # "idle" => Grouped(page, types, procs, typeIndex - 1, newStuff)
       /\ tocPc = "types" => marks = MarksOf(page, types, procs, typeIndex - 1)
       /\ tocPc = "procs" => Filling(page, types, procs, typeIndex, procIndex, c, marks)
  /\ alternative # <<>> =>
       /\ Settled(page, types, procs, newStuff, marks)
       /\ alternative = ToHtml(page, marks, MergeTocs(page, marks, Contents(page), newStuff))

TocInv ==
  /\ Collected /\ Bounds /\ Passed /\ Built
  /\ raised => Troubled(types, procs) \/ Leaves(page, Contents(page)) = {}

LEMMA UntroubledIs ==
  ASSUME NEW pg, IsPage(pg), NEW ty, ty = TypesOf(pg), NEW pr, pr = RoutinesOf(pg), ~Troubled(ty, pr)
  PROVE  /\ ty \in Seq(1 .. Len(pg)) /\ Distinct(ty) /\ Distinct(pr) /\ Apart(ty, pr)
         /\ ty # <<>> => \A x \in Elements(pr) : x \in 1 .. Len(pg)
<1>1. /\ ty \in Seq(0 .. Len(pg)) /\ Distinct(ty) /\ pr \in Seq(0 .. Len(pg)) /\ Distinct(pr)
      /\ Apart(ty, pr)
  BY CollectedAre
<1>2. Len(ty) \in Nat /\ DOMAIN ty = 1 .. Len(ty)
  BY <1>1, LenProperties
<1>3. Len(pg) \in Nat
  BY PageIs
<1>4. \A k \in 1 .. Len(ty) : ty[k] \in 1 .. Len(pg)
  <2> TAKE k \in 1 .. Len(ty)
  <2>1. ty[k] \in 0 .. Len(pg)
    BY <1>1, ElementOfSeq
  <2>2. ty[k] # 0
    BY DEF Troubled, Elements
  <2> QED
    BY <1>3, <2>1, <2>2
<1>5. ty \in Seq(1 .. Len(pg))
  BY <1>1, <1>2, <1>4
<1>6. ASSUME ty # <<>>, NEW x \in Elements(pr) PROVE x \in 1 .. Len(pg)
  <2>1. x # 0
    BY <1>6 DEF Troubled
  <2>2. x \in 0 .. Len(pg)
    BY <1>1, ElementOfSeq DEF Elements
  <2> QED
    BY <1>3, <2>1, <2>2
<1> QED
  BY <1>1, <1>5, <1>6

LEMMA NothingPlaced ==
  ASSUME NEW pg, NEW ty, NEW pr
  PROVE  MarksOf(pg, ty, pr, 0) = {} /\ \A k : Placed(pg, ty, pr, k, 1) = {}
<1>1. 1 .. 0 = {} /\ 1 .. 1 - 1 = {}
  OBVIOUS
<1> QED
  BY <1>1 DEF MarksOf, Placed

LEMMA StartGroup ==
  ASSUME NEW pg, IsPage(pg), NEW ty, NEW pr, NEW m \in Nat, ty[m] \in 1 .. Len(pg), NEW marked,
         marked = MarksOf(pg, ty, pr, m - 1)
  PROVE  Filling(pg, ty, pr, m, 1, Group(ty[m]), marked \cup {ty[m]})
<1>1. Placed(pg, ty, pr, m, 1) = {}
  BY NothingPlaced
<1> DEFINE g == Group(ty[m])
<1>2. <<>> \in Seq(1 .. Len(pg)) /\ Elements(<<>>) = {} /\ Distinct(<<>>)
  <2>1. Len(<<>>) = 0 /\ 1 .. 0 = {}
    OBVIOUS
  <2> QED
    BY <2>1 DEF Elements, Distinct
<1>3. g \in Groups(pg) /\ g.heading = ty[m] /\ g.kids = <<>>
  BY <1>2 DEF Group, Groups
<1> HIDE DEF g
<1>4. Filling(pg, ty, pr, m, 1, g, marked \cup {ty[m]})
  BY <1>1, <1>2, <1>3 DEF Filling
<1> QED
  BY <1>4 DEF g

LEMMA AppendIs ==
  ASSUME NEW S, NEW s \in Seq(S), NEW x \in S
  PROVE  /\ Append(s, x) \in Seq(S) /\ Len(Append(s, x)) = Len(s) + 1 /\ Len(s) \in Nat
         /\ \A k \in 1 .. Len(s) : Append(s, x)[k] = s[k]
         /\ Append(s, x)[Len(s) + 1] = x
<1>1. Len(s) \in Nat
  BY LenProperties
<1> QED
  BY <1>1, AppendProperties

LEMMA AppendElements ==
  ASSUME NEW S, NEW s \in Seq(S), NEW x \in S
  PROVE  /\ Elements(Append(s, x)) = Elements(s) \cup {x}
         /\ Distinct(s) /\ x \notin Elements(s) => Distinct(Append(s, x))
<1> DEFINE f == Append(s, x)
           n == Len(s)
<1>1. /\ Len(f) = n + 1 /\ n \in Nat /\ \A k \in 1 .. n : f[k] = s[k]
      /\ f[n + 1] = x
  BY AppendIs
<1> HIDE DEF f
<1>2. \A k \in 1 .. Len(f) : k \in 1 .. n \/ k = n + 1
  BY <1>1
<1>3. 1 .. n \subseteq 1 .. Len(f) /\ n + 1 \in 1 .. Len(f)
  BY <1>1
<1>4. Elements(f) = Elements(s) \cup {x}
  BY <1>1, <1>2, <1>3 DEF Elements
<1>5. ASSUME Distinct(s), x \notin Elements(s) PROVE Distinct(f)
  <2> SUFFICES ASSUME NEW k \in 1 .. Len(f), NEW l \in 1 .. Len(f), f[k] = f[l], f[k] # 0
               PROVE  k = l
    BY DEF Distinct
  <2>1. \A i \in 1 .. n : f[i] # x
    BY <1>1, <1>5 DEF Elements
  <2>2. CASE k \in 1 .. n /\ l \in 1 .. n
    BY <1>1, <1>5, <2>2 DEF Distinct
  <2>3. CASE k = n + 1 \/ l = n + 1
    BY <1>1, <1>2, <2>1, <2>3
  <2> QED
    BY <1>2, <2>2, <2>3
<1> QED
  BY <1>4, <1>5 DEF f

\* The routine that is looked at now joins the group or is of no concern to it.
LEMMA FillGroup ==
  ASSUME NEW pg, IsPage(pg), NEW ty \in Seq(1 .. Len(pg)), NEW pr, Distinct(pr), Apart(ty, pr),
         NEW m \in 1 .. Len(ty), NEW i \in 1 .. Len(pr), NEW n, n = pr[i], n \in 1 .. Len(pg),
         NEW group, NEW marked, Filling(pg, ty, pr, m, i, group, marked)
  PROVE  IF n \notin marked /\ pg[n].attached = <<pg[ty[m]].text>>
         THEN Filling(pg, ty, pr, m, i + 1, Add(group, n), marked \cup {n})
         ELSE Filling(pg, ty, pr, m, i + 1, group, marked)
<1> DEFINE own == pg[n].attached = <<pg[ty[m]].text>>
           before == Placed(pg, ty, pr, m, i)
           after == Placed(pg, ty, pr, m, i + 1)
           early == MarksOf(pg, ty, pr, m - 1)
<1>0. i \in Nat /\ m \in Nat /\ Len(ty) \in Nat /\ n # 0
  BY LenProperties
<1>1. /\ marked = early \cup {ty[m]} \cup before
      /\ group \in Groups(pg) /\ group.heading = ty[m] /\ Distinct(group.kids)
      /\ Elements(group.kids) = IF FirstOfName(pg, ty, m) THEN before ELSE {}
  BY DEF Filling
<1>2. after = before \cup (IF own THEN {n} ELSE {})
  <2>1. \A k : k \in 1 .. (i + 1) - 1 <=> k \in 1 .. i - 1 \/ k = i
    BY <1>0
  <2>2. {pr[j] : j \in 1 .. (i + 1) - 1} = {pr[j] : j \in 1 .. i - 1} \cup {n}
    BY <2>1
  <2> QED
    BY <2>2 DEF Placed
<1>3. CASE ~own
  <2>1. after = before
    BY <1>2, <1>3
  <2> QED
    BY <1>1, <1>3, <2>1 DEF Filling
<1>4. CASE own
  <2>1. n \notin Elements(ty)
    <3>1. n \in Elements(pr)
      BY DEF Elements
    <3> QED
      BY <1>0, <3>1 DEF Apart
  <2>2. n \notin before
    <3>1. ASSUME NEW j \in 1 .. i - 1 PROVE pr[j] # n
      <4>1. j \in 1 .. Len(pr) /\ j # i
        <5>1. Len(pr) >= i
          OBVIOUS
        <5> QED
          BY <1>0
      <4> QED
        BY <1>0, <4>1 DEF Distinct
    <3> QED
      BY <3>1 DEF Placed
  <2>3. n # ty[m] /\ n \notin {ty[k] : k \in 1 .. m - 1}
    <3>1. \A k \in 1 .. m : k \in 1 .. Len(ty)
      BY <1>0
    <3>2. \A k \in 1 .. Len(ty) : ty[k] # n
      BY <2>1 DEF Elements
    <3>3. m \in 1 .. m /\ 1 .. m - 1 \subseteq 1 .. m
      BY <1>0
    <3> QED
      BY <3>1, <3>2, <3>3
  <2>4. n \in early <=> ~FirstOfName(pg, ty, m)
    <3>1. n \in early <=> \E k \in 1 .. m - 1 : n \in OwnRoutines(pg, ty, pr, k)
      BY <2>3 DEF MarksOf
    <3>2. n \in Elements(pr)
      BY DEF Elements
    <3>3. \A k : n \in OwnRoutines(pg, ty, pr, k) <=> <<pg[ty[m]].text>> = <<pg[ty[k]].text>>
      BY <1>4, <3>2 DEF OwnRoutines
    <3>4. \A a, b : <<a>> = <<b>> <=> a = b
      <4> TAKE a, b
      <4>1. <<a>>[1] = a /\ <<b>>[1] = b
        OBVIOUS
      <4> QED
        BY <4>1
    <3>5. \A k : n \in OwnRoutines(pg, ty, pr, k) <=> pg[ty[m]].text = pg[ty[k]].text
      BY <3>3, <3>4
    <3> QED
      BY <3>1, <3>5 DEF FirstOfName
  <2>5. n \notin marked <=> FirstOfName(pg, ty, m)
    BY <1>1, <2>2, <2>3, <2>4
  <2>6. after = before \cup {n}
    BY <1>2, <1>4
  <2> HIDE DEF before, after, early
  <2>7. CASE FirstOfName(pg, ty, m)
    <3> DEFINE g == Add(group, n)
    <3>1. group.kids \in Seq(1 .. Len(pg)) /\ n \notin Elements(group.kids)
      BY <1>1, <2>2, <2>7 DEF Groups
    <3>2. /\ Append(group.kids, n) \in Seq(1 .. Len(pg))
          /\ Elements(Append(group.kids, n)) = Elements(group.kids) \cup {n}
          /\ Distinct(Append(group.kids, n))
      BY <1>1, <3>1, AppendIs, AppendElements
    <3>3. g.kids = Append(group.kids, n) /\ g.heading = ty[m] /\ g \in Groups(pg)
      BY <1>1, <3>2 DEF Add, Groups
    <3> HIDE DEF g
    <3>4. marked \cup {n} = early \cup {ty[m]} \cup after
      BY <1>1, <2>6
    <3>5. Filling(pg, ty, pr, m, i + 1, g, marked \cup {n})
      BY <1>1, <2>6, <2>7, <3>2, <3>3, <3>4 DEF Filling, after, early
    <3> QED
      BY <1>4, <2>5, <2>7, <3>5 DEF g
  <2>8. CASE ~FirstOfName(pg, ty, m)
    <3>1. n \in early
      BY <2>4, <2>8
    <3>2. marked = early \cup {ty[m]} \cup after
      BY <1>1, <2>6, <3>1
    <3>3. Filling(pg, ty, pr, m, i + 1, group, marked)
      BY <1>1, <2>8, <3>2 DEF Filling, after, early
    <3> QED
      BY <2>5, <2>8, <3>3
  <2> QED
    BY <2>7, <2>8
<1> QED
  BY <1>3, <1>4

LEMMA EndGroup ==
  ASSUME NEW pg, IsPage(pg), NEW ty, NEW pr \in Seq(0 .. Len(pg)), NEW m \in Nat, m # 0, NEW i, i = Len(pr) + 1,
         NEW group, NEW marked, Filling(pg, ty, pr, m, i, group, marked),
         NEW news, Grouped(pg, ty, pr, m - 1, news)
  PROVE  /\ Grouped(pg, ty, pr, m, Append(news, group))
         /\ marked = MarksOf(pg, ty, pr, m)
<1>0. Len(pr) \in Nat
  BY LenProperties
<1>1. Placed(pg, ty, pr, m, i) = OwnRoutines(pg, ty, pr, m)
  <2>1. i - 1 = Len(pr)
    BY <1>0
  <2> QED
    BY <2>1 DEF Placed, OwnRoutines, Elements
<1>2. GroupIs(pg, ty, pr, m, group)
  BY <1>1 DEF Filling, GroupIs
<1> DEFINE f == Append(news, group)
<1>3. news \in Seq(Groups(pg)) /\ group \in Groups(pg) /\ Len(news) = m - 1
  BY DEF Grouped, Filling
<1>4. f \in Seq(Groups(pg)) /\ Len(f) = m /\ \A k \in 1 .. m - 1 : f[k] = news[k]
  <2>1. /\ f \in Seq(Groups(pg)) /\ Len(f) = Len(news) + 1 /\ \A k \in 1 .. Len(news) : f[k] = news[k]
    BY <1>3, AppendIs
  <2> QED
    BY <1>3, <2>1
<1>5. f[m] = group
  <2>1. f[Len(news) + 1] = group /\ Len(news) + 1 = m
    BY <1>3, AppendIs
  <2> QED
    BY <2>1
<1> HIDE DEF f
<1>6. \A k \in 1 .. m : k \in 1 .. m - 1 \/ k = m
  OBVIOUS
<1>7. \A k \in 1 .. m : GroupIs(pg, ty, pr, k, f[k])
  BY <1>2, <1>4, <1>5, <1>6 DEF Grouped
<1>8. Grouped(pg, ty, pr, m, f)
  BY <1>4, <1>7 DEF Grouped
<1>9. marked = MarksOf(pg, ty, pr, m)
  <2>1. marked = MarksOf(pg, ty, pr, m - 1) \cup {ty[m]} \cup OwnRoutines(pg, ty, pr, m)
    BY <1>1 DEF Filling
  <2>2. \A k : k \in 1 .. m <=> k \in 1 .. m - 1 \/ k = m
    OBVIOUS
  <2>3. {ty[k] : k \in 1 .. m} = {ty[k] : k \in 1 .. m - 1} \cup {ty[m]}
    BY <2>2
  <2>4. UNION {OwnRoutines(pg, ty, pr, k) : k \in 1 .. m} =
          (UNION {OwnRoutines(pg, ty, pr, k) : k \in 1 .. m - 1}) \cup OwnRoutines(pg, ty, pr, m)
    <3>1. \A x : (\E k \in 1 .. m : x \in OwnRoutines(pg, ty, pr, k))
                   <=> \/ \E k \in 1 .. m - 1 : x \in OwnRoutines(pg, ty, pr, k)
                       \/ x \in OwnRoutines(pg, ty, pr, m)
      BY <2>2
    <3> DEFINE A == UNION {OwnRoutines(pg, ty, pr, k) : k \in 1 .. m}
               B == UNION {OwnRoutines(pg, ty, pr, k) : k \in 1 .. m - 1}
               O == OwnRoutines(pg, ty, pr, m)
    <3>2. \A x : x \in A <=> \E k \in 1 .. m : x \in OwnRoutines(pg, ty, pr, k)
      OBVIOUS
    <3>3. \A x : x \in B <=> \E k \in 1 .. m - 1 : x \in OwnRoutines(pg, ty, pr, k)
      OBVIOUS
    <3>4. \A x : x \in A <=> x \in B \/ x \in O
      BY <3>1, <3>2, <3>3
    <3> HIDE DEF A, B, O
    <3>5. A = B \cup O
      BY <3>4
    <3> QED
      BY <3>5 DEF A, B, O
  <2> QED
    BY <2>1, <2>3, <2>4 DEF MarksOf
<1> QED
  BY <1>8, <1>9 DEF f

LEMMA AllGrouped ==
  ASSUME NEW pg, IsPage(pg), NEW ty, ty = TypesOf(pg), NEW pr, pr = RoutinesOf(pg), ~Troubled(ty, pr),
         NEW news, Grouped(pg, ty, pr, Len(ty), news), NEW marked, marked = MarksOf(pg, ty, pr, Len(ty))
  PROVE  Settled(pg, ty, pr, news, marked)
<1>1. /\ ty \in Seq(1 .. Len(pg)) /\ Distinct(ty) /\ Apart(ty, pr)
      /\ ty # <<>> => \A x \in Elements(pr) : x \in 1 .. Len(pg)
  BY UntroubledIs
<1>2. marked = Elements(ty) \cup UNION {OwnRoutines(pg, ty, pr, k) : k \in 1 .. Len(ty)}
  BY DEF MarksOf, Elements
<1> QED
  BY <1>1, <1>2 DEF Settled, Grouped

LEMMA SettledNone ==
  ASSUME NEW pg, NEW ty, ty = <<>>, NEW pr, NEW news, NEW marked, Settled(pg, ty, pr, news, marked)
  PROVE  marked = {}
<1>1. Len(ty) = 0 /\ 1 .. 0 = {}
  OBVIOUS
<1> QED
  BY <1>1 DEF Settled, Elements

LEMMA PagesAre ==
  ASSUME NEW pg \in Pages
  PROVE  /\ IsPage(pg) /\ Ranked(pg) /\ Len(pg) \in Nat /\ DOMAIN pg = 1 .. Len(pg)
         /\ Contents(pg) \in Entries(pg)
<1>1. IsPage(pg)
  BY PagesAssumption DEF IsPage
<1>2. DOMAIN pg = 1 .. Len(pg) /\ Len(pg) \in Nat
  BY <1>1, PageIs
<1> QED
  BY <1>1, <1>2, ContentsIs, RankAssumption DEF Ranked

\* What is collected is a sequence of nodes and missing ones.
LEMMA SequencesAre ==
  ASSUME Collected
  PROVE  /\ types \in Seq(0 .. Len(page)) /\ procs \in Seq(0 .. Len(page))
         /\ Len(types) \in Nat /\ Len(procs) \in Nat
         /\ \A k \in 1 .. Len(types) : types[k] \in 0 .. Len(page)
         /\ \A k \in 1 .. Len(procs) : procs[k] \in 0 .. Len(page)
<1>1. types \in Seq(0 .. Len(page)) /\ procs \in Seq(0 .. Len(page))
  <2>1. CASE types = <<>> /\ procs = <<>>
    BY <2>1
  <2>2. CASE types = TypesOf(page) /\ procs = RoutinesOf(page)
    <3>1. IsPage(page)
      BY PagesAre DEF Collected
    <3> QED
      BY <2>2, <3>1, CollectedAre
  <2> QED
    BY <2>1, <2>2 DEF Collected
<1> QED
  BY <1>1, LenProperties, ElementOfSeq

LEMMA TocInit_Inv == TocInit => TocInv
<1> SUFFICES ASSUME TocInit PROVE TocInv
  OBVIOUS
<1>1. Len(<<>>) = 0
  OBVIOUS
<1>2. Collected
  BY DEF TocInit, Collected
<1>3. Bounds
  <2>1. typeIndex \in 1 .. Len(types) + 1 /\ procIndex \in 1 .. Len(procs) + 1
    BY <1>1 DEF TocInit
  <2> QED
    BY <2>1 DEF TocInit, Bounds
<1>4. Built /\ Passed
  BY DEF TocInit, Built, Passed
<1> QED
  BY <1>2, <1>3, <1>4 DEF TocInit, TocInv

\* A call that raises ends in a state that is as good.
LEMMA RaiseKeeps ==
  ASSUME TocInv, RaiseInToc, tocPc # "idle",
         \/ Troubled(types, procs)
         \/ Leaves(page, Contents(page)) = {} /\ marks = {}
  PROVE  TocInv'
<1> USE DEF RaiseInToc, locals, shownVars
<1>1. Collected'
  BY DEF TocInv, Collected
<1>2. Bounds'
  BY DEF TocInv, Bounds
<1>3. alternative = <<>>
  BY DEF TocInv, Built
<1>4. Built'
  BY <1>3 DEF Built
<1>5. raised' => Troubled(types', procs') \/ Leaves(page', Contents(page')) = {}
  OBVIOUS
<1>6. Passed'
  BY DEF Passed
<1> QED
  BY <1>1, <1>2, <1>4, <1>5, <1>6 DEF TocInv

LEMMA GroupByAgain_Inv ==
  ASSUME TocInv, NEW value \in {"section", "type"}, GroupByAgain(value)
  PROVE  TocInv'
<1> USE DEF GroupByAgain, Show, locals
<1>1. Collected'
  BY DEF TocInv, Collected
<1>2. Bounds'
  BY DEF TocInv, Bounds
<1>3. Built'
  BY DEF TocInv, Built
<1>4. raised' => Troubled(types', procs') \/ Leaves(page', Contents(page')) = {}
  BY DEF TocInv
<1>5. Passed'
  BY DEF Passed
<1> QED
  BY <1>1, <1>2, <1>3, <1>4, <1>5 DEF TocInv

LEMMA GroupByFirst_Inv ==
  ASSUME TocInv, NEW value \in {"section", "type"}, GroupByFirst(value)
  PROVE  TocInv'
<1> USE DEF GroupByFirst, shownVars
<1>1. types' = TypesOf(page) /\ procs' = RoutinesOf(page) /\ page' = page
  BY DEF TypesOf, RoutinesOf
<1>2. Collected'
  BY <1>1 DEF TocInv, Collected
<1>3. Len(types') \in Nat /\ Len(procs') \in Nat
  <2>1. IsPage(page)
    BY PagesAre DEF TocInv, Collected
  <2>2. types' \in Seq(0 .. Len(page)) /\ procs' \in Seq(0 .. Len(page))
    BY <1>1, <2>1, CollectedAre
  <2> QED
    BY <2>2, LenProperties
<1>4. Bounds'
  <2>1. procIndex' \in 1 .. Len(procs') + 1
    <3>1. CASE types = <<>> /\ procs = <<>> /\ procIndex = 1
      BY <1>3, <3>1
    <3>2. CASE types = TypesOf(page) /\ procs = RoutinesOf(page)
      BY <1>1, <3>2 DEF TocInv, Bounds
    <3> QED
      BY <3>1, <3>2 DEF TocInv, Collected
  <2>2. typeIndex' \in 1 .. Len(types') + 1
    BY <1>3
  <2> QED
    BY <2>1, <2>2 DEF TocInv, Bounds
<1>5. alternative = <<>> /\ tocPc' = "types" /\ typeIndex' = 1 /\ newStuff' = <<>> /\ marks' = marks
  OBVIOUS
<1>6. ~Troubled(types', procs') => marks = {}
  <2>1. CASE marks = {}
    BY <2>1
  <2>2. CASE types = TypesOf(page) /\ procs = RoutinesOf(page)
    <3>1. types' = types /\ procs' = procs
      BY <1>1, <2>2
    <3> QED
      BY <1>5, <3>1 DEF TocInv, Built
  <2> QED
    BY <2>1, <2>2 DEF TocInv, Collected
<1>7. Grouped(page', types', procs', 0, <<>>)
  <2>1. <<>> \in Seq(Groups(page')) /\ Len(<<>>) = 0 /\ 1 .. 0 = {}
    OBVIOUS
  <2> QED
    BY <2>1 DEF Grouped
<1>8. Built'
  <2>1. MarksOf(page', types', procs', 0) = {}
    BY NothingPlaced
  <2>2. typeIndex' - 1 = 0
    BY <1>5
  <2> QED
    BY <1>5, <1>6, <1>7, <2>1, <2>2 DEF Built
<1>9. raised' => Troubled(types', procs') \/ Leaves(page', Contents(page')) = {}
  <2>1. CASE raised = FALSE
    BY <2>1
  <2>2. CASE types = TypesOf(page) /\ procs = RoutinesOf(page)
    <3>1. types' = types /\ procs' = procs
      BY <1>1, <2>2
    <3> QED
      BY <1>1, <3>1 DEF TocInv
  <2> QED
    BY <2>1, <2>2 DEF TocInv, Collected
<1>10. Passed'
  <2>1. 1 .. typeIndex' - 1 = {} /\ ~(typeIndex' > 1)
    BY <1>5
  <2> QED
    BY <1>5, <2>1 DEF Passed
<1> QED
  BY <1>2, <1>4, <1>8, <1>9, <1>10 DEF TocInv

LEMMA TakeType_Inv == TocInv /\ TakeType => TocInv'
<1> SUFFICES ASSUME TocInv, TakeType PROVE TocInv'
  OBVIOUS
<1>1. tocPc = "types" /\ typeIndex \in 1 .. Len(types)
  <2>1. typeIndex \in 1 .. Len(types) + 1 /\ typeIndex <= Len(types) /\ Len(types) \in Nat
    BY SequencesAre DEF TocInv, Bounds, TakeType
  <2> QED
    BY <2>1 DEF TakeType
<1>2. CASE types[typeIndex] = Nil
  <2>1. RaiseInToc
    BY <1>2 DEF TakeType
  <2>2. Troubled(types, procs)
    BY <1>1, <1>2 DEF Troubled, Elements, Nil
  <2> QED
    BY <1>1, <2>1, <2>2, RaiseKeeps
<1>3. CASE types[typeIndex] # Nil
  <2>1. /\ c' = Group(types[typeIndex]) /\ marks' = marks \cup {types[typeIndex]}
        /\ procIndex' = 1 /\ tocPc' = "procs"
        /\ UNCHANGED <<page, grouping, types, procs, typeIndex, newStuff, shownVars, raised>>
    BY <1>3 DEF TakeType
  <2>2. UNCHANGED alternative /\ UNCHANGED tocShown
    BY <2>1 DEF shownVars
  <2>3. types[typeIndex] \in 1 .. Len(page) /\ Len(page) \in Nat /\ Len(procs) \in Nat
    <3>1. types[typeIndex] \in 0 .. Len(page) /\ Len(procs) \in Nat
      BY <1>1, SequencesAre DEF TocInv
    <3>2. Len(page) \in Nat
      BY PagesAre DEF TocInv, Collected
    <3> QED
      BY <1>3, <3>1, <3>2 DEF Nil
  <2>4. Collected'
    BY <1>1, <2>1, <2>2 DEF TocInv, Collected
  <2>5. Bounds'
    <3>1. procIndex' \in 1 .. Len(procs') + 1
      BY <2>1, <2>3
    <3>2. marks' \subseteq 1 .. Len(page')
      BY <2>1, <2>3 DEF TocInv, Bounds
    <3>3. types[typeIndex] # 0
      BY <2>3
    <3> QED
      BY <1>1, <2>1, <2>2, <3>1, <3>2, <3>3 DEF TocInv, Bounds
  <2>6. alternative = <<>>
    BY <1>1 DEF TocInv, Built
  <2>7. ASSUME ~Troubled(types, procs)
        PROVE  /\ Grouped(page, types, procs, typeIndex - 1, newStuff)
               /\ Filling(page, types, procs, typeIndex, 1, Group(types[typeIndex]), marks \cup {types[typeIndex]})
    <3>1. /\ Grouped(page, types, procs, typeIndex - 1, newStuff)
          /\ marks = MarksOf(page, types, procs, typeIndex - 1)
      BY <1>1, <2>7 DEF TocInv, Built
    <3>2. typeIndex \in Nat /\ IsPage(page)
      BY <1>1, PagesAre DEF TocInv, Collected
    <3> QED
      BY <2>3, <3>1, <3>2, StartGroup
  <2>8. Built'
    BY <2>1, <2>2, <2>6, <2>7 DEF Built
  <2>9. raised' => Troubled(types', procs') \/ Leaves(page', Contents(page')) = {}
    BY <2>1 DEF TocInv
  <2>10. Passed'
    <3>1. 1 .. procIndex' - 1 = {}
      BY <2>1
    <3> QED
      BY <1>1, <2>1, <3>1 DEF TocInv, Passed
  <2> QED
    BY <2>4, <2>5, <2>8, <2>9, <2>10 DEF TocInv
<1> QED
  BY <1>2, <1>3

LEMMA TakeProc_Inv == TocInv /\ TakeProc => TocInv'
<1> SUFFICES ASSUME TocInv, TakeProc PROVE TocInv'
  OBVIOUS
<1>1. tocPc = "procs" /\ procIndex \in 1 .. Len(procs) /\ typeIndex \in 1 .. Len(types)
  <2>1. procIndex \in 1 .. Len(procs) + 1 /\ procIndex <= Len(procs) /\ Len(procs) \in Nat
    BY SequencesAre DEF TocInv, Bounds, TakeProc
  <2>2. tocPc = "procs"
    BY DEF TakeProc
  <2> QED
    BY <2>1, <2>2 DEF TocInv, Bounds
<1> DEFINE n == procs[procIndex]
<1>2. CASE n = Nil
  <2>1. RaiseInToc
    BY <1>2 DEF TakeProc
  <2>2. Troubled(types, procs)
    <3>1. types # <<>>
      BY <1>1
    <3> QED
      BY <1>1, <1>2, <3>1 DEF Troubled, Elements, Nil
  <2> QED
    BY <1>1, <2>1, <2>2, RaiseKeeps
<1>3. CASE n # Nil
  <2> DEFINE att == n \notin marks /\ page[n].attached = <<page[types[typeIndex]].text>>
  <2>1. /\ c' = (IF att THEN Add(c, n) ELSE c) /\ marks' = (IF att THEN marks \cup {n} ELSE marks)
        /\ procIndex' = procIndex + 1
        /\ UNCHANGED <<page, grouping, tocPc, types, procs, typeIndex, newStuff, shownVars, raised>>
    BY <1>3 DEF TakeProc, IsAttached
  <2>2. UNCHANGED alternative /\ UNCHANGED tocShown
    BY <2>1 DEF shownVars
  <2>3. n \in 1 .. Len(page) /\ Len(page) \in Nat /\ Len(procs) \in Nat
    <3>1. n \in 0 .. Len(page) /\ Len(procs) \in Nat
      BY <1>1, SequencesAre DEF TocInv
    <3>2. Len(page) \in Nat
      BY PagesAre DEF TocInv, Collected
    <3> QED
      BY <1>3, <3>1, <3>2 DEF Nil
  <2>4. Collected'
    BY <1>1, <2>1, <2>2 DEF TocInv, Collected
  <2>5. Bounds'
    <3>1. procIndex' \in 1 .. Len(procs') + 1
      BY <1>1, <2>1, <2>3
    <3>2. marks' \subseteq 1 .. Len(page')
      BY <2>1, <2>3 DEF TocInv, Bounds
    <3> QED
      BY <1>1, <2>1, <2>2, <3>1, <3>2 DEF TocInv, Bounds
  <2>6. alternative = <<>>
    BY <1>1 DEF TocInv, Built
  <2>7. ASSUME ~Troubled(types, procs)
        PROVE  /\ Grouped(page, types, procs, typeIndex - 1, newStuff)
               /\ Filling(page, types, procs, typeIndex, procIndex + 1, c', marks')
    <3>1. /\ Grouped(page, types, procs, typeIndex - 1, newStuff)
          /\ Filling(page, types, procs, typeIndex, procIndex, c, marks)
      BY <1>1, <2>7 DEF TocInv, Built
    <3>2. IsPage(page) /\ types = TypesOf(page) /\ procs = RoutinesOf(page)
      BY <1>1, PagesAre DEF TocInv, Collected
    <3>3. types \in Seq(1 .. Len(page)) /\ Distinct(procs) /\ Apart(types, procs)
      BY <2>7, <3>2, UntroubledIs
    <3> HIDE DEF n
    <3>4. IF n \notin marks /\ page[n].attached = <<page[types[typeIndex]].text>>
          THEN Filling(page, types, procs, typeIndex, procIndex + 1, Add(c, n), marks \cup {n})
          ELSE Filling(page, types, procs, typeIndex, procIndex + 1, c, marks)
      <4>1. n = procs[procIndex]
        BY DEF n
      <4> QED
        BY <1>1, <2>3, <3>1, <3>2, <3>3, <4>1, FillGroup
    <3> QED
      BY <2>1, <3>1, <3>4
  <2>8. Built'
    BY <1>1, <2>1, <2>2, <2>6, <2>7 DEF Built
  <2>9. raised' => Troubled(types', procs') \/ Leaves(page', Contents(page')) = {}
    BY <2>1 DEF TocInv
  <2>10. Passed'
    <3>1. \A k \in 1 .. procIndex' - 1 : k \in 1 .. procIndex - 1 \/ k = procIndex
      BY <1>1, <2>1
    <3>2. \A k \in 1 .. procIndex' - 1 : procs'[k] # 0
      BY <1>1, <1>3, <2>1, <3>1 DEF TocInv, Passed, Nil
    <3> QED
      BY <1>1, <2>1, <3>2 DEF TocInv, Passed
  <2> QED
    BY <2>4, <2>5, <2>8, <2>9, <2>10 DEF TocInv
<1> QED
  BY <1>2, <1>3

LEMMA EndType_Inv == TocInv /\ EndType => TocInv'
<1> SUFFICES ASSUME TocInv, EndType PROVE TocInv'
  OBVIOUS
<1> USE DEF EndType
<1>0. UNCHANGED alternative /\ UNCHANGED tocShown
  BY DEF shownVars
<1>1. /\ tocPc = "procs" /\ procIndex = Len(procs) + 1 /\ typeIndex \in 1 .. Len(types)
      /\ Len(types) \in Nat /\ procs \in Seq(0 .. Len(page))
  <2>1. /\ procIndex \in 1 .. Len(procs) + 1 /\ procIndex > Len(procs) /\ Len(procs) \in Nat
        /\ Len(types) \in Nat /\ procs \in Seq(0 .. Len(page))
    BY SequencesAre DEF TocInv, Bounds
  <2> QED
    BY <2>1 DEF TocInv, Bounds
<1>2. Collected'
  BY <1>0, <1>1 DEF TocInv, Collected
<1>3. Bounds'
  <2>1. typeIndex' \in 1 .. Len(types') + 1
    BY <1>1
  <2> QED
    BY <1>0, <2>1 DEF TocInv, Bounds
<1>4. alternative = <<>>
  BY <1>1 DEF TocInv, Built
<1>5. ASSUME ~Troubled(types, procs)
      PROVE  /\ Grouped(page, types, procs, typeIndex, Append(newStuff, c))
             /\ marks = MarksOf(page, types, procs, typeIndex)
  <2>1. /\ Grouped(page, types, procs, typeIndex - 1, newStuff)
        /\ Filling(page, types, procs, typeIndex, procIndex, c, marks)
    BY <1>1, <1>5 DEF TocInv, Built
  <2>2. IsPage(page) /\ typeIndex \in Nat /\ typeIndex # 0
    BY <1>1, PagesAre DEF TocInv, Collected
  <2> QED
    BY <1>1, <2>1, <2>2, EndGroup
<1>6. typeIndex' - 1 = typeIndex
  BY <1>1
<1>7. Built'
  BY <1>0, <1>4, <1>5, <1>6 DEF Built
<1>8. raised' => Troubled(types', procs') \/ Leaves(page', Contents(page')) = {}
  BY DEF TocInv
<1>9. Passed'
  <2>1. \A k \in 1 .. typeIndex' - 1 : k \in 1 .. typeIndex - 1 \/ k = typeIndex
    BY <1>1
  <2>2. \A k \in 1 .. typeIndex' - 1 : types'[k] # 0
    BY <1>1, <2>1 DEF TocInv, Passed, Bounds
  <2>3. procIndex - 1 = Len(procs)
    <3>1. Len(procs) \in Nat
      BY SequencesAre DEF TocInv
    <3> QED
      BY <1>1, <3>1
  <2>4. 0 \notin Elements(procs)
    BY <1>1, <2>3 DEF TocInv, Passed, Elements
  <2> QED
    BY <2>2, <2>4 DEF Passed
<1> QED
  BY <1>2, <1>3, <1>7, <1>8, <1>9 DEF TocInv

LEMMA Finish_Inv == TocInv /\ Finish => TocInv'
<1> SUFFICES ASSUME TocInv, Finish PROVE TocInv'
  OBVIOUS
<1> DEFINE html == ToHtml(page, marks, MergeTocs(page, marks, Contents(page), newStuff))
<1>1. /\ tocPc = "types" /\ typeIndex = Len(types) + 1 /\ Len(types) \in Nat
      /\ page \in Pages /\ types = TypesOf(page) /\ procs = RoutinesOf(page)
  <2>1. /\ typeIndex \in 1 .. Len(types) + 1 /\ typeIndex > Len(types) /\ Len(types) \in Nat
        /\ tocPc = "types"
    BY SequencesAre DEF TocInv, Bounds, Finish
  <2> QED
    BY <2>1 DEF TocInv, Collected
<1>2. IsPage(page) /\ Ranked(page)
  BY <1>1, PagesAre
<1>3. ASSUME ~Troubled(types, procs) PROVE Settled(page, types, procs, newStuff, marks)
  <2>1. /\ Grouped(page, types, procs, typeIndex - 1, newStuff)
        /\ marks = MarksOf(page, types, procs, typeIndex - 1)
    BY <1>1, <1>3 DEF TocInv, Built
  <2>2. typeIndex - 1 = Len(types)
    BY <1>1
  <2> QED
    BY <1>1, <1>2, <1>3, <2>1, <2>2, AllGrouped
<1>4. CASE html = <<>>
  <2>1. RaiseInToc
    BY <1>4 DEF Finish
  <2>2. ASSUME ~Troubled(types, procs) PROVE Leaves(page, Contents(page)) = {} /\ marks = {}
    <3>1. Settled(page, types, procs, newStuff, marks)
      BY <1>3, <2>2
    <3>2. Leaves(page, Contents(page)) = {} /\ types = <<>>
      BY <1>2, <1>4, <3>1, HtmlKeeps
    <3> QED
      BY <3>1, <3>2, SettledNone
  <2> QED
    BY <1>1, <2>1, <2>2, RaiseKeeps
<1>5. CASE html # <<>>
  <2>1. /\ alternative' = html /\ tocPc' = "idle" /\ tocShown' = ~tocShown
        /\ UNCHANGED <<page, grouping, locals, marks, raised>>
    BY <1>5 DEF Finish, Show
  <2>2. UNCHANGED <<types, procs, typeIndex, procIndex, newStuff, c>>
    BY <2>1 DEF locals
  <2>3. Collected'
    BY <1>1, <2>1, <2>2 DEF TocInv, Collected
  <2>4. Bounds'
    BY <2>1, <2>2 DEF TocInv, Bounds
  <2>5. ~Troubled(types, procs)
    <3>1. typeIndex - 1 = Len(types)
      BY <1>1
    <3>2. 0 \notin Elements(types)
      BY <1>1, <3>1 DEF TocInv, Passed, Elements
    <3>3. types # <<>> => typeIndex > 1
      <4>1. types # <<>> => Len(types) # 0
        BY SequencesAre, EmptySeq DEF TocInv
      <4> QED
        BY <1>1, <4>1
    <3> QED
      BY <1>1, <3>2, <3>3 DEF TocInv, Passed, Troubled
  <2>6. Settled(page, types, procs, newStuff, marks)
    BY <1>3, <2>5
  <2>7. Built'
    BY <1>5, <2>1, <2>2, <2>6 DEF Built
  <2>8. raised' => Troubled(types', procs') \/ Leaves(page', Contents(page')) = {}
    BY <2>1, <2>2 DEF TocInv
  <2>9. Passed'
    BY <2>1 DEF Passed
  <2> QED
    BY <2>3, <2>4, <2>7, <2>8, <2>9 DEF TocInv
<1> QED
  BY <1>4, <1>5

-----------------------------------------------------------------------------
LEMMA TocNext_Inv == TocInv /\ [TocNext]_tocVars => TocInv'
<1> SUFFICES ASSUME TocInv, [TocNext]_tocVars PROVE TocInv'
  OBVIOUS
<1>1. ASSUME NEW value \in {"section", "type"}, GroupByAgain(value) PROVE TocInv'
  BY <1>1, GroupByAgain_Inv
<1>2. ASSUME NEW value \in {"section", "type"}, GroupByFirst(value) PROVE TocInv'
  BY <1>2, GroupByFirst_Inv
<1>3. CASE UNCHANGED tocVars
  <2>1. UNCHANGED <<page, grouping, tocPc, types, procs, typeIndex, procIndex, newStuff, c, marks,
                    alternative, tocShown, raised>>
    BY <1>3 DEF tocVars, locals, shownVars
  <2> QED
    BY <2>1 DEF TocInv, Collected, Bounds, Passed, Built
<1> QED
  BY <1>1, <1>2, <1>3, TakeType_Inv, TakeProc_Inv, EndType_Inv, Finish_Inv DEF TocNext

(***************************************************************************)
(* What the loops of buildToc know of the page at every step: the marks    *)
(* and the new branch are those of the types taken so far, and what has    *)
(* been rendered is rendered from all of them.                             *)
(***************************************************************************)
THEOREM TocSpec_Inv == TocSpec => []TocInv
BY TocInit_Inv, TocNext_Inv, PTL DEF TocSpec

LEMMA TocInv_TypeOK == TocInv => TocTypeOK
<1> SUFFICES ASSUME TocInv PROVE TocTypeOK
  OBVIOUS
<1>1. Len(page) \in Nat /\ DOMAIN page = 1 .. Len(page)
  BY PagesAre DEF TocInv, Collected
<1>2. Nodes = 1 .. Len(page) /\ Nodes \cup {Nil} = 0 .. Len(page)
  BY <1>1 DEF Nodes, Nil
<1>3. types \in Seq(0 .. Len(page)) /\ procs \in Seq(0 .. Len(page))
  BY SequencesAre DEF TocInv
<1> QED
  BY <1>2, <1>3 DEF TocInv, Bounds, TocTypeOK

(***************************************************************************)
(* The headings that extractItems collects are nodes of the page or        *)
(* missing, and buildToc's loops stay within them.                         *)
(***************************************************************************)
THEOREM TocSpec_TypeOK == TocSpec => []TocTypeOK
BY TocSpec_Inv, TocInv_TypeOK, PTL

LEMMA TocInv_Kept == TocInv => EntriesAreKept
<1> SUFFICES ASSUME TocInv, alternative # <<>>
             PROVE  /\ Leaves(page, Contents(page)) \subseteq {alternative[k].node : k \in Lines}
                    /\ \A k, l \in Lines : alternative[k].node = alternative[l].node => k = l
  BY DEF EntriesAreKept
<1>1. IsPage(page) /\ Ranked(page)
  BY PagesAre DEF TocInv, Collected
<1>2. /\ Settled(page, types, procs, newStuff, marks)
      /\ alternative = ToHtml(page, marks, MergeTocs(page, marks, Contents(page), newStuff))
  BY DEF TocInv, Built
<1>3. /\ alternative \in Seq(Line(page))
      /\ Leaves(page, Contents(page)) \subseteq {alternative[k].node : k \in 1 .. Len(alternative)}
      /\ \A k, l \in 1 .. Len(alternative) : alternative[k].node = alternative[l].node => k = l
  BY <1>1, <1>2, HtmlKeeps
<1>4. Lines = 1 .. Len(alternative)
  BY <1>3, LenProperties DEF Lines
<1> QED
  BY <1>3, <1>4

LEMMA TocInv_Raises == TocInv => RaisesForNestedLists
<1> SUFFICES ASSUME TocInv, raised
             PROVE  \/ Nil \in {types[k] : k \in DOMAIN types}
                    \/ types # <<>> /\ Nil \in {procs[k] : k \in DOMAIN procs}
                    \/ Leaves(page, Contents(page)) = {}
  BY DEF RaisesForNestedLists
<1>1. DOMAIN types = 1 .. Len(types) /\ DOMAIN procs = 1 .. Len(procs)
  BY SequencesAre, LenProperties DEF TocInv
<1> QED
  BY <1>1 DEF TocInv, Troubled, Elements, Nil

(***************************************************************************)
(* Grouping a page by type keeps every entry of its contents and lists     *)
(* none twice, on every page; a call raises only where an entry has no     *)
(* heading or there are no contents.                                       *)
(***************************************************************************)
THEOREM TocSpec_GroupingIsComplete == TocSpec => []GroupingIsComplete
BY TocSpec_Inv, TocInv_Kept, TocInv_Raises, PTL DEF GroupingIsComplete

LEMMA TocInv_Routines == TocInv => TypesHaveTheirRoutines
<1> SUFFICES ASSUME TocInv, NEW i \in Lines, alternative[i].made = "clone"
             PROVE  LET t == alternative[i].node
                        first == \A k, l \in DOMAIN types :
                                   (types[k] = t /\ page[types[l]].text = page[t].text) => k <= l
                        own == {n \in {procs[k] : k \in DOMAIN procs} : page[n].attached = <<page[t].text>>}
                        below == {k \in Lines : alternative[k].below = t}
                    IN /\ {alternative[k] : k \in below} = {Link(n, t) : n \in IF first THEN own ELSE {}}
                       /\ \A k, l \in below :
                            k < l => Rank(page[alternative[k].node].title) <= Rank(page[alternative[l].node].title)
  BY DEF TypesHaveTheirRoutines
<1> DEFINE t == alternative[i].node
           first == \A k, l \in DOMAIN types :
                      (types[k] = t /\ page[types[l]].text = page[t].text) => k <= l
           own == {n \in {procs[k] : k \in DOMAIN procs} : page[n].attached = <<page[t].text>>}
           below == {k \in Lines : alternative[k].below = t}
<1>1. IsPage(page) /\ Ranked(page)
  BY PagesAre DEF TocInv, Collected
<1>2. alternative # <<>>
  BY DEF Lines
<1>3. /\ Settled(page, types, procs, newStuff, marks)
      /\ alternative = ToHtml(page, marks, MergeTocs(page, marks, Contents(page), newStuff))
  BY <1>2 DEF TocInv, Built
<1>4. alternative \in Seq(Line(page))
  BY <1>1, <1>3, HtmlKeeps
<1>5. Lines = 1 .. Len(alternative)
  BY <1>4, LenProperties DEF Lines
<1>6. below = {k \in 1 .. Len(alternative) : alternative[k].below = t} /\ i \in 1 .. Len(alternative)
  BY <1>5
<1>7. DOMAIN types = 1 .. Len(types) /\ DOMAIN procs = 1 .. Len(procs) /\ Len(types) \in Nat
  BY SequencesAre, LenProperties DEF TocInv
<1>8. t = alternative[i].node
  OBVIOUS
<1> HIDE DEF t, below
<1>9. alternative[i].made = "clone"
  OBVIOUS
<1>10. \E a \in 1 .. Len(types) : GroupBelow(page, types, procs, alternative, t, below, a)
  BY <1>1, <1>3, <1>6, <1>9, <1>8, HtmlGroups
<1>11. PICK a \in 1 .. Len(types) : GroupBelow(page, types, procs, alternative, t, below, a)
  BY <1>10
<1>12. /\ t = types[a] /\ t # 0 /\ a \in 1 .. Len(types)
      /\ {alternative[k] : k \in below} =
           {Link(n, t) : n \in IF FirstOfName(page, types, a) THEN OwnRoutines(page, types, procs, a) ELSE {}}
      /\ \A k, l \in below :
           k < l => Rank(page[alternative[k].node].title) <= Rank(page[alternative[l].node].title)
  BY <1>11 DEF GroupBelow
<1>13. own = OwnRoutines(page, types, procs, a)
  BY <1>7, <1>12 DEF OwnRoutines, Elements
<1>14. first <=> FirstOfName(page, types, a)
  <2>1. ASSUME first PROVE FirstOfName(page, types, a)
    <3> SUFFICES ASSUME NEW l \in 1 .. a - 1, page[types[l]].text = page[types[a]].text PROVE FALSE
      BY DEF FirstOfName
    <3>1. l \in 1 .. Len(types) /\ ~(a <= l)
      BY <1>7
    <3> QED
      BY <1>7, <1>12, <2>1, <3>1
  <2>2. ASSUME FirstOfName(page, types, a) PROVE first
    <3> SUFFICES ASSUME NEW k \in 1 .. Len(types), NEW l \in 1 .. Len(types),
                        types[k] = t, page[types[l]].text = page[t].text, ~(k <= l)
                 PROVE  FALSE
      BY <1>7
    <3>1. Distinct(types)
      BY <1>3 DEF Settled
    <3>2. k = a
      BY <1>12, <3>1 DEF Distinct
    <3>3. l \in 1 .. a - 1
      BY <3>2
    <3> QED
      BY <1>12, <2>2, <3>3 DEF FirstOfName
  <2> QED
    BY <2>1, <2>2
<1> HIDE DEF first, own
<1>15. {alternative[k] : k \in below} = {Link(n, t) : n \in IF first THEN own ELSE {}}
  BY <1>12, <1>13, <1>14
<1> QED
  BY <1>12, <1>15 DEF t, below, first, own

(***************************************************************************)
(* On every page the routines attached to a type, all of them and no       *)
(* others, are linked below it in the order of their titles, and a type    *)
(* of a name that was there before has none.                               *)
(***************************************************************************)
THEOREM TocSpec_TypesHaveTheirRoutines == TocSpec => []TypesHaveTheirRoutines
BY TocSpec_Inv, TocInv_Routines, PTL
=============================================================================
