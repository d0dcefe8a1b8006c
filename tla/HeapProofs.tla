----------------------------- MODULE HeapProofs -----------------------------
(***************************************************************************)
(* Proofs about Heap, for every heap, every set of sizes and every number  *)
(* of nodes.                                                               *)
(***************************************************************************)
EXTENDS Heap, SequenceTheorems, WellFoundedInduction, TLAPS

Nodes == [start : 0..Bottom, end : 0..Bottom]

\* A node of l: it has room for a byte at least.
Sized(l) == \A i \in 1..Len(l) : l[i].start + 2 <= l[i].end

\* Every node of l lies below all those in front of it.
Descends(l) ==
  \A i, j \in 1..Len(l) : i < j => l[j].end <= l[i].start + 1

\* Where a granted block is in l.
Holds(l, b, i) == l[i].start = b.at /\ l[i].end = b.at + b.size + 1

Backed(l, g) ==
  \A b \in g : /\ b.at \in Nat /\ b.at >= Top
               /\ b.size \in Sizes
               /\ \E i \in 1..Len(l) : Holds(l, b, i)

\* Accounted says it of neighbours only.
HeapInv ==
  /\ list \in Seq(Nodes)
  /\ Sized(list)
  /\ Descends(list)
  /\ \A b \in granted : b = [at |-> b.at, size |-> b.size]
  /\ Backed(list, granted)

\* What the community modules' InsertAt does to a sequence.
Inserted(m, s, i, e) ==
  /\ Len(m) = Len(s) + 1
  /\ \A j \in 1..(Len(s) + 1) :
       m[j] = IF j < i THEN s[j] ELSE IF j = i THEN e ELSE s[j - 1]

LEMMA InsertAtProperties ==
  ASSUME NEW S, NEW s \in Seq(S), NEW i \in 1..(Len(s) + 1), NEW e \in S
  PROVE  InsertAt(s, i, e) \in Seq(S) /\ Inserted(InsertAt(s, i, e), s, i, e)
<1> DEFINE a == SubSeq(s, 1, i - 1)
           b == SubSeq(s, i, Len(s))
<1>1. /\ a \in Seq(S) /\ Len(a) = i - 1 /\ \A j \in 1..(i - 1) : a[j] = s[j]
      /\ b \in Seq(S) /\ Len(b) = Len(s) - i + 1
      /\ \A j \in 1..(Len(s) - i + 1) : b[j] = s[i + j - 1]
  BY SubSeqProperties
<1>2. <<e>> \in Seq(S) /\ Len(<<e>>) = 1 /\ <<e>>[1] = e
  OBVIOUS
<1> HIDE DEF a, b
<1> DEFINE c == a \o <<e>>
<1>3. /\ c \in Seq(S) /\ Len(c) = i
      /\ \A j \in 1..i : c[j] = IF j < i THEN s[j] ELSE e
  BY <1>1, <1>2, ConcatProperties
<1> HIDE DEF c
<1>4. /\ c \o b \in Seq(S) /\ Len(c \o b) = Len(s) + 1
      /\ \A j \in 1..(Len(s) + 1) : (c \o b)[j] = IF j <= i THEN c[j] ELSE b[j - i]
  <2>1. Len(c) + Len(b) = Len(s) + 1
    BY <1>1, <1>3
  <2>2. /\ c \o b \in Seq(S) /\ Len(c \o b) = Len(c) + Len(b)
        /\ \A j \in 1..(Len(c) + Len(b)) :
             (c \o b)[j] = IF j <= Len(c) THEN c[j] ELSE b[j - Len(c)]
    BY <1>1, <1>3, ConcatProperties
  <2>3. QED
    BY <1>3, <2>1, <2>2
<1>5. InsertAt(s, i, e) = c \o b
  BY DEF InsertAt, a, b, c
<1>6. QED
  BY <1>1, <1>3, <1>4, <1>5 DEF Inserted

\* And RemoveAt.
LEMMA RemoveAtProperties ==
  ASSUME NEW S, NEW s \in Seq(S), NEW i \in 1..Len(s)
  PROVE  /\ RemoveAt(s, i) \in Seq(S)
         /\ Len(RemoveAt(s, i)) = Len(s) - 1
         /\ \A j \in 1..(Len(s) - 1) :
              RemoveAt(s, i)[j] = IF j < i THEN s[j] ELSE s[j + 1]
<1> DEFINE a == SubSeq(s, 1, i - 1)
           b == SubSeq(s, i + 1, Len(s))
<1>1. /\ a \in Seq(S) /\ Len(a) = i - 1 /\ \A j \in 1..(i - 1) : a[j] = s[j]
      /\ b \in Seq(S) /\ Len(b) = Len(s) - i
      /\ \A j \in 1..(Len(s) - i) : b[j] = s[i + j]
  BY SubSeqProperties
<1> HIDE DEF a, b
<1>2. /\ a \o b \in Seq(S) /\ Len(a \o b) = Len(s) - 1
      /\ \A j \in 1..(Len(s) - 1) : (a \o b)[j] = IF j < i THEN a[j] ELSE b[j - (i - 1)]
  <2>1. Len(a) + Len(b) = Len(s) - 1
    BY <1>1
  <2>2. /\ a \o b \in Seq(S) /\ Len(a \o b) = Len(a) + Len(b)
        /\ \A j \in 1..(Len(a) + Len(b)) :
             (a \o b)[j] = IF j <= Len(a) THEN a[j] ELSE b[j - Len(a)]
    BY <1>1, ConcatProperties
  <2>3. QED
    BY <1>1, <2>1, <2>2
<1>3. RemoveAt(s, i) = a \o b
  BY DEF RemoveAt, a, b
<1>4. QED
  BY <1>1, <1>2, <1>3


\* The least number of a nonempty set.
LEMMA MinIsLeast ==
  ASSUME NEW S \in SUBSET Nat, S # {}
  PROVE  Min(S) \in S /\ \A y \in S : Min(S) <= y
<1>1. PICK x \in S : \A y \in S : ~(<<y, x>> \in OpToRel(<, Nat))
  BY NatLessThanWellFounded, WFMin
<1>2. \A y \in S : x <= y
  <2> SUFFICES ASSUME NEW y \in S PROVE x <= y
    OBVIOUS
  <2>1. x \in Nat /\ y \in Nat
    BY <1>1
  <2>2. ~(y < x)
    BY <1>1, <2>1 DEF OpToRel
  <2>3. QED
    BY <2>1, <2>2
<1>3. \E z \in S : \A y \in S : z <= y
  BY <1>1, <1>2
<1>4. QED
  BY <1>3 DEF Min

\* Addresses do not wrap.
LEMMA NoWrap ==
  ASSUME NEW a \in 0..Bottom
  PROVE  Wrap(a) = a
BY LayoutAssumption DEF Wrap

\* What is in a node.
LEMMA Numbered ==
  ASSUME NEW v \in Nodes
  PROVE  /\ v.start \in 0..Bottom /\ v.end \in 0..Bottom
         /\ v.start \in Int /\ v.end \in Int
<1>1. v.start \in 0..Bottom /\ v.end \in 0..Bottom
  BY DEF Nodes
<1>2. QED
  BY <1>1

\* A size is a positive number.
LEMMA SizeIs ==
  ASSUME NEW z \in Sizes
  PROVE  z \in Nat /\ z \in Int /\ z >= 1
BY SizesAssumption, LayoutAssumption

\* Two nodes that start at the same address are one.
LEMMA StartsDiffer ==
  ASSUME NEW l \in Seq(Nodes), Sized(l), Descends(l),
         NEW i \in 1..Len(l), NEW j \in 1..Len(l), l[i].start = l[j].start
  PROVE  i = j
<1>1. ASSUME NEW h \in 1..Len(l), NEW k \in 1..Len(l), h < k
      PROVE  l[h].start # l[k].start
  <2>1. l[h] \in Nodes /\ l[k] \in Nodes
    OBVIOUS
  <2>2. /\ l[h].start \in Int /\ l[k].start \in Int
        /\ l[h].end \in Int /\ l[k].end \in Int
    BY <2>1, Numbered
  <2>3. l[k].end <= l[h].start + 1 /\ l[k].start + 2 <= l[k].end
    BY <1>1 DEF Sized, Descends
  <2>4. QED
    BY <2>2, <2>3
<1>2. i < j \/ j < i \/ i = j
  OBVIOUS
<1>3. QED
  BY <1>1, <1>2

\* A node linked between its neighbours keeps the order.
Fitting(l, p, v) ==
  /\ l \in Seq(Nodes) /\ Sized(l) /\ Descends(l)
  /\ p \in 1..(Len(l) + 1) /\ v \in Nodes /\ v.start + 2 <= v.end
  /\ p > 1 => v.end <= l[p - 1].start + 1
  /\ p <= Len(l) => l[p].end <= v.start + 1

Keeps(l, p, v, m) ==
  /\ m \in Seq(Nodes) /\ Len(m) = Len(l) + 1
  /\ Sized(m) /\ Descends(m)
  /\ m[p] = v
  /\ \A j \in 1..Len(l) : j < p => v.end <= l[j].start + 1
  /\ \A j \in 1..Len(l) : p <= j => l[j].end <= v.start + 1
  /\ \A j \in 1..Len(l) : \E k \in 1..(Len(l) + 1) : m[k] = l[j]

LEMMA InsertKeeps ==
  ASSUME NEW l, NEW p, NEW v, Fitting(l, p, v)
  PROVE  Keeps(l, p, v, InsertAt(l, p, v))
<1>a. SUFFICES ASSUME l \in Seq(Nodes), Sized(l), Descends(l),
                      p \in 1..(Len(l) + 1), v \in Nodes, v.start + 2 <= v.end,
                      p > 1 => v.end <= l[p - 1].start + 1,
                      p <= Len(l) => l[p].end <= v.start + 1
               PROVE  Keeps(l, p, v, InsertAt(l, p, v))
  BY DEF Fitting
<1> USE <1>a
<1> DEFINE m == InsertAt(l, p, v)
<1>1. /\ m \in Seq(Nodes) /\ Len(m) = Len(l) + 1
      /\ \A j \in 1..(Len(l) + 1) :
           m[j] = IF j < p THEN l[j] ELSE IF j = p THEN v ELSE l[j - 1]
  <2>1. m \in Seq(Nodes) /\ Inserted(m, l, p, v)
    BY InsertAtProperties, Zenon
  <2>2. QED
    BY <2>1 DEF Inserted
<1> HIDE DEF m
<1>2. Len(l) \in Nat /\ p \in Int
  OBVIOUS
<1>3. \A j \in 1..Len(l) : /\ l[j] \in Nodes
                           /\ l[j].start \in Int /\ l[j].end \in Int
                           /\ l[j].start + 2 <= l[j].end
  BY Numbered DEF Sized
<1>4. v.start \in Int /\ v.end \in Int
  BY Numbered
<1>5. Sized(m)
  <2> SUFFICES ASSUME NEW j \in 1..(Len(l) + 1) PROVE m[j].start + 2 <= m[j].end
    BY <1>1 DEF Sized
  <2>1. CASE j < p
    BY <1>1, <1>2, <1>3, <2>1
  <2>2. CASE j = p
    BY <1>1, <2>2
  <2>3. CASE j > p
    BY <1>1, <1>2, <1>3, <2>3
  <2>4. QED
    BY <1>2, <2>1, <2>2, <2>3
<1>6. \A j \in 1..Len(l) : j < p => v.end <= l[j].start + 1
  <2> SUFFICES ASSUME NEW j \in 1..Len(l), j < p PROVE v.end <= l[j].start + 1
    OBVIOUS
  <2>1. CASE j = p - 1
    BY <1>2, <2>1
  <2>2. CASE j < p - 1
    <3> DEFINE a == l[p - 1].start
               c == l[p - 1].end
               z == l[j].start
    <3>1. p - 1 \in 1..Len(l)
      BY <1>2, <2>2
    <3>2. c <= z + 1
      BY <2>2, <3>1 DEF Descends
    <3>3. v.end <= a + 1
      BY <1>2, <2>2
    <3>4. z \in Int /\ a \in Int /\ c \in Int /\ a + 2 <= c
      BY <1>3, <3>1
    <3> HIDE DEF a, c, z
    <3>5. v.end <= z + 1
      BY <1>4, <3>2, <3>3, <3>4
    <3>6. QED
      BY <3>5 DEF z
  <2>3. QED
    BY <1>2, <2>1, <2>2
<1>7. \A j \in 1..Len(l) : p <= j => l[j].end <= v.start + 1
  <2> SUFFICES ASSUME NEW j \in 1..Len(l), p <= j PROVE l[j].end <= v.start + 1
    OBVIOUS
  <2>1. CASE j = p
    BY <1>2, <2>1
  <2>2. CASE j > p
    <3> DEFINE a == l[p].start
               c == l[p].end
               z == l[j].end
    <3>1. p \in 1..Len(l)
      BY <1>2, <2>2
    <3>2. z <= a + 1
      BY <2>2, <3>1 DEF Descends
    <3>3. c <= v.start + 1
      BY <3>1
    <3>4. z \in Int /\ a \in Int /\ c \in Int /\ a + 2 <= c
      BY <1>3, <3>1
    <3> HIDE DEF a, c, z
    <3>5. z <= v.start + 1
      BY <1>4, <3>2, <3>3, <3>4
    <3>6. QED
      BY <3>5 DEF z
  <2>3. QED
    BY <1>2, <2>1, <2>2
<1>8. Descends(m)
  <2> SUFFICES ASSUME NEW h \in 1..(Len(l) + 1), NEW k \in 1..(Len(l) + 1), h < k
               PROVE  m[k].end <= m[h].start + 1
    BY <1>1 DEF Descends
  <2>1. CASE k < p
    <3>1. h \in 1..Len(l) /\ k \in 1..Len(l) /\ m[h] = l[h] /\ m[k] = l[k]
      BY <1>1, <1>2, <2>1
    <3>2. QED
      BY <3>1 DEF Descends
  <2>2. CASE k = p
    <3>1. h \in 1..Len(l) /\ h < p /\ m[h] = l[h] /\ m[k] = v
      BY <1>1, <1>2, <2>2
    <3>2. QED
      BY <1>6, <3>1
  <2>3. CASE k > p
    <3>1. k - 1 \in 1..Len(l) /\ m[k] = l[k - 1] /\ p <= k - 1
      BY <1>1, <1>2, <2>3
    <3>2. CASE h < p
      <4>1. h \in 1..Len(l) /\ h < k - 1 /\ m[h] = l[h]
        BY <1>1, <1>2, <2>3, <3>2
      <4>2. QED
        BY <3>1, <4>1 DEF Descends
    <3>3. CASE h = p
      <4>1. m[h] = v
        BY <1>1, <3>3
      <4>2. QED
        BY <1>7, <3>1, <4>1
    <3>4. CASE h > p
      <4>1. h - 1 \in 1..Len(l) /\ h - 1 < k - 1 /\ m[h] = l[h - 1]
        BY <1>1, <1>2, <2>3, <3>4
      <4>2. QED
        BY <3>1, <4>1 DEF Descends
    <3>5. QED
      BY <1>2, <3>2, <3>3, <3>4
  <2>4. QED
    BY <1>2, <2>1, <2>2, <2>3
<1>9. m[p] = v
  BY <1>1
<1>10. \A j \in 1..Len(l) : \E k \in 1..(Len(l) + 1) : m[k] = l[j]
  <2> SUFFICES ASSUME NEW j \in 1..Len(l)
               PROVE  \E k \in 1..(Len(l) + 1) : m[k] = l[j]
    OBVIOUS
  <2>1. CASE j < p
    <3>1. j \in 1..(Len(l) + 1) /\ m[j] = l[j]
      BY <1>1, <1>2, <2>1
    <3>2. QED
      BY <3>1
  <2>2. CASE ~(j < p)
    <3>1. j + 1 \in 1..(Len(l) + 1) /\ m[j + 1] = l[j]
      <4>1. j + 1 \in 1..(Len(l) + 1) /\ ~(j + 1 < p) /\ j + 1 # p /\ (j + 1) - 1 = j
        BY <1>2, <2>2
      <4>2. QED
        BY <1>1, <4>1
    <3>2. QED
      BY <3>1
  <2>3. QED
    BY <2>1, <2>2
<1>11. QED
  BY <1>1, <1>5, <1>6, <1>7, <1>8, <1>9, <1>10 DEF m, Keeps

\* A node taken out of the list leaves the others in their order.
LEMMA RemoveKeeps ==
  ASSUME NEW l \in Seq(Nodes), Sized(l), Descends(l), NEW p \in 1..Len(l)
  PROVE  /\ RemoveAt(l, p) \in Seq(Nodes)
         /\ Sized(RemoveAt(l, p)) /\ Descends(RemoveAt(l, p))
         /\ \A j \in 1..Len(l) :
              j # p => \E k \in 1..Len(RemoveAt(l, p)) : RemoveAt(l, p)[k] = l[j]
<1> DEFINE m == RemoveAt(l, p)
           To(j) == IF j < p THEN j ELSE j + 1
<1>1. /\ m \in Seq(Nodes) /\ Len(m) = Len(l) - 1
      /\ \A j \in 1..(Len(l) - 1) : m[j] = IF j < p THEN l[j] ELSE l[j + 1]
  BY RemoveAtProperties
<1> HIDE DEF m
<1>2. Len(l) \in Nat /\ p \in Int
  OBVIOUS
<1>3. \A j \in 1..Len(m) : To(j) \in 1..Len(l) /\ m[j] = l[To(j)]
  BY <1>1, <1>2
<1>4. \A h, k \in 1..Len(m) : h < k => To(h) < To(k)
  BY <1>1, <1>2
<1>5. \A j \in 1..Len(l) : j # p => \E k \in 1..Len(m) : m[k] = l[j]
  <2> SUFFICES ASSUME NEW j \in 1..Len(l), j # p
               PROVE  \E k \in 1..Len(m) : m[k] = l[j]
    OBVIOUS
  <2>1. CASE j < p
    <3>1. j \in 1..Len(m) /\ m[j] = l[j]
      BY <1>1, <1>2, <2>1
    <3>2. QED
      BY <3>1
  <2>2. CASE j > p
    <3>1. j - 1 \in 1..Len(m) /\ m[j - 1] = l[j]
      <4>1. j - 1 \in 1..(Len(l) - 1) /\ ~(j - 1 < p) /\ (j - 1) + 1 = j
        BY <1>2, <2>2
      <4>2. QED
        BY <1>1, <4>1
    <3>2. QED
      BY <3>1
  <2>3. QED
    BY <1>2, <2>1, <2>2
<1> HIDE DEF To
<1>6. Sized(m) /\ Descends(m)
  BY <1>3, <1>4 DEF Sized, Descends
<1>7. QED
  BY <1>1, <1>5, <1>6 DEF m

\* The gap between two neighbours is never negative, so it never wraps.
LEMMA GapIs ==
  ASSUME HeapInv, NEW k \in 1..(Len(list) - 1)
  PROVE  GapAfter(k) = list[k].start + 1 - list[k + 1].end
<1> DEFINE s == list[k].start
           e == list[k + 1].end
<1>1. list \in Seq(Nodes) /\ k \in 1..Len(list) /\ k + 1 \in 1..Len(list) /\ k < k + 1
  BY DEF HeapInv
<1>2. list[k] \in Nodes /\ list[k + 1] \in Nodes
  BY <1>1
<1>3. s \in 0..Bottom /\ e \in 0..Bottom /\ list[k + 1].start \in 0..Bottom
  BY <1>2, Numbered
<1>4. e <= s + 1
  BY <1>1 DEF HeapInv, Descends
<1>5. list[k + 1].start + 2 <= e
  BY <1>1 DEF HeapInv, Sized
<1>6. e >= 1
  BY <1>3, <1>5
<1> HIDE DEF s, e
<1>7. s + 1 - e \in 0..Bottom
  BY <1>3, <1>4, <1>6, LayoutAssumption
<1>8. Wrap(s + 1 - e) = s + 1 - e
  BY <1>7, NoWrap
<1>9. QED
  BY <1>8 DEF s, e, GapAfter

\* The node malloc puts a new one behind, and where the new one ends.
LEMMA Ranged ==
  ASSUME HeapInv, NEW n \in Sizes, ~Lost(n), NEW end \in Ends(n)
  PROVE  /\ Place(n) \in 0..Len(list)
         /\ Place(n) = 0 \/ ~HeadGap
         /\ Place(n) = 0 => Len(list) = 0 \/ HeadGap
         /\ Place(n) > 0 /\ Place(n) < Len(list) => Place(n) \in Fits(n)
         /\ n \in Nat /\ n >= 1 /\ n \in Int
         /\ end \in 0..Bottom /\ end \in Int
         /\ Place(n) = 0 => end = Bottom
         /\ Place(n) > 0 => end = list[Place(n)].start + 1
<1>1. /\ list \in Seq(Nodes) /\ Len(list) \in Nat
      /\ \A j \in 1..Len(list) : /\ list[j] \in Nodes
                                 /\ list[j].start \in 0..Bottom
                                 /\ list[j].end \in 0..Bottom
                                 /\ list[j].start + 2 <= list[j].end
  BY Numbered DEF HeapInv, Sized
<1>2. n \in Nat /\ n >= 1
  BY SizesAssumption, LayoutAssumption
<1>3. Bottom \in Nat
  BY LayoutAssumption
<1>4. /\ Place(n) \in 0..Len(list)
      /\ Place(n) = 0 \/ ~HeadGap
      /\ Place(n) = 0 => Len(list) = 0 \/ HeadGap
      /\ Place(n) > 0 /\ Place(n) < Len(list) => Place(n) \in Fits(n)
  <2>1. CASE list = <<>> \/ HeadGap
    BY <1>1, <2>1 DEF Place
  <2>2. CASE ~(list = <<>> \/ HeadGap) /\ Fits(n) = {}
    <3>1. Place(n) = Len(list) /\ ~HeadGap /\ Len(list) > 0
      BY <1>1, <2>2, EmptySeq DEF Place
    <3>2. QED
      BY <1>1, <3>1
  <2>3. CASE ~(list = <<>> \/ HeadGap) /\ Fits(n) # {}
    <3>1. Place(n) = Min(Fits(n)) /\ ~HeadGap
      BY <2>3 DEF Place
    <3>2. Fits(n) \subseteq 1..(Len(list) - 1) /\ Fits(n) \subseteq Nat
      BY <1>1 DEF Fits
    <3>3. Min(Fits(n)) \in Fits(n)
      BY <2>3, <3>2, MinIsLeast
    <3>4. Place(n) \in Fits(n) /\ Place(n) \in 1..(Len(list) - 1)
      BY <3>1, <3>2, <3>3
    <3>5. QED
      BY <1>1, <3>1, <3>4
  <2>4. QED
    BY <2>1, <2>2, <2>3
<1>5. Place(n) = 0 => end = Bottom
  BY DEF Ends
<1>6. Place(n) > 0 => end = list[Place(n)].start + 1
  BY <1>4 DEF Ends
<1>7. end \in 0..Bottom
  <2>1. CASE Place(n) = 0
    BY <1>3, <1>5, <2>1
  <2>2. CASE Place(n) > 0
    <3>1. Place(n) \in 1..Len(list)
      BY <1>1, <1>4, <2>2
    <3>2. /\ list[Place(n)].start \in 0..Bottom /\ list[Place(n)].end \in 0..Bottom
          /\ list[Place(n)].start + 2 <= list[Place(n)].end
      BY <1>1, <3>1
    <3>3. QED
      BY <1>3, <1>6, <2>2, <3>2
  <2>3. QED
    BY <1>1, <1>4, <2>1, <2>2
<1>8. QED
  BY <1>2, <1>4, <1>5, <1>6, <1>7

\* Where malloc puts a node that is not lost: right below the one in front of
\* it, and not over the one behind it.
LEMMA Chosen ==
  ASSUME HeapInv, NEW n \in Sizes, ~Lost(n), NEW end \in Ends(n), end - n - 1 >= 0
  PROVE  /\ Place(n) \in 0..Len(list)
         /\ n \in Nat /\ n >= 1 /\ end \in 0..Bottom
         /\ NewNode(end, n) = [start |-> end - n - 1, end |-> end]
         /\ Place(n) = 0 => end = Bottom
         /\ Place(n) > 0 => end = list[Place(n)].start + 1
         /\ Place(n) < Len(list) => list[Place(n) + 1].end <= end - n
<1>1. /\ list \in Seq(Nodes) /\ Len(list) \in Nat
      /\ \A j \in 1..Len(list) : /\ list[j] \in Nodes
                                 /\ list[j].start \in 0..Bottom
                                 /\ list[j].end \in 0..Bottom
                                 /\ list[j].start + 2 <= list[j].end
  BY Numbered DEF HeapInv, Sized
<1>2. n \in Nat /\ n >= 1
  BY SizesAssumption, LayoutAssumption
<1>3. Bottom \in Nat
  BY LayoutAssumption
<1>4. /\ Place(n) \in 0..Len(list)
      /\ Place(n) = 0 \/ ~HeadGap
      /\ Place(n) = 0 => Len(list) = 0 \/ HeadGap
      /\ Place(n) > 0 /\ Place(n) < Len(list) => Place(n) \in Fits(n)
  BY Ranged
<1>5. Place(n) = 0 => end = Bottom
  BY Ranged
<1>6. Place(n) > 0 => end = list[Place(n)].start + 1
  BY Ranged
<1>7. end \in 0..Bottom
  BY Ranged
<1>8. NewNode(end, n) = [start |-> end - n - 1, end |-> end]
  <2>1. end - n - 1 \in 0..Bottom
    BY <1>2, <1>3, <1>7
  <2>2. QED
    BY <2>1, NoWrap DEF NewNode
<1>9. ASSUME Place(n) < Len(list)
      PROVE  list[Place(n) + 1].end <= end - n
  <2>1. CASE Place(n) = 0
    <3>1. HeadGap /\ Len(list) >= 1
      BY <1>1, <1>4, <1>9, <2>1
    <3>2. ~(Bottom - list[1].end < n)
      BY <3>1 DEF Lost
    <3>3. list[1].end \in 0..Bottom
      BY <1>1, <3>1
    <3>4. list[1].end <= Bottom - n
      BY <1>2, <1>3, <3>2, <3>3
    <3>5. QED
      BY <1>5, <2>1, <3>4
  <2>2. CASE Place(n) > 0
    <3> DEFINE k == Place(n)
               a == list[k].start
               c == list[k + 1].end
    <3>1. k \in Fits(n) /\ k \in 1..(Len(list) - 1)
      BY <1>1, <1>4, <1>9, <2>2
    <3>2. GapAfter(k) >= n
      BY <3>1 DEF Fits
    <3>3. GapAfter(k) = a + 1 - c
      BY <3>1, GapIs
    <3>4. end = a + 1
      BY <1>6, <2>2
    <3>5. k \in 1..Len(list) /\ k + 1 \in 1..Len(list)
      BY <1>1, <3>1
    <3>6. a \in Int /\ c \in Int
      BY <1>1, <3>5
    <3> HIDE DEF a, c
    <3>7. c <= end - n
      BY <1>2, <3>2, <3>3, <3>4, <3>6
    <3>8. QED
      BY <3>7 DEF c
  <2>3. QED
    BY <1>1, <1>4, <2>1, <2>2
<1>10. QED
  BY <1>2, <1>4, <1>5, <1>6, <1>7, <1>8, <1>9

\* What malloc does to a request that is not lost.
Below(n, end) == [start |-> end - n - 1, end |-> end]
Block(n, end) == [at |-> end - n - 1, size |-> n]

Links(n, end, p) ==
  /\ ~Lost(n) /\ end \in Ends(n) /\ end - n - 1 >= 0 /\ p = Place(n) + 1
  /\ list' = InsertAt(list, p, Below(n, end))
  /\ granted' = IF end - n - 1 < Top THEN granted
                ELSE granted \cup {Block(n, end)}

\* Without a lost request every malloc links a node.
LEMMA MallocLinks ==
  ASSUME Exposed \subseteq {"refusal"}, HeapInv, NEW n \in Sizes, Malloc(n)
  PROVE  \E end \in Ends(n) : Links(n, end, Place(n) + 1)
<1>1. "head_gap" \notin Exposed /\ "wrap" \notin Exposed
  OBVIOUS
<1>2. ~Lost(n)
  BY <1>1 DEF Malloc
<1>3. PICK end \in Ends(n) :
        /\ ~(end - n - 1 < 0)
        /\ list' = InsertAt(list, Place(n) + 1, NewNode(end, n))
        /\ granted' = IF NewNode(end, n).start < Top THEN granted
                      ELSE granted \cup {[at |-> NewNode(end, n).start, size |-> n]}
  BY <1>1, <1>2 DEF Malloc
<1>4. end \in Int /\ n \in Int
  BY <1>2, Ranged
<1>5. end - n - 1 >= 0
  BY <1>3, <1>4
<1>6. NewNode(end, n) = Below(n, end)
  BY <1>2, <1>5, Chosen DEF Below
<1>7. NewNode(end, n).start = end - n - 1
  BY <1>6 DEF Below
<1>8. QED
  BY <1>2, <1>3, <1>5, <1>6, <1>7 DEF Links, Block

\* The node malloc links lies in the heap, below the node in front of it and
\* over the one behind it.
Apart(n, end) ==
  \A i \in 1..Len(list) : list[i].start + 1 >= end \/ list[i].end <= end - n

LEMMA LinkedNode ==
  ASSUME HeapInv, NEW n \in Sizes, NEW end \in Ends(n), NEW p, Links(n, end, p)
  PROVE  /\ p \in 1..(Len(list) + 1)
         /\ n \in Nat /\ n >= 1 /\ end \in 0..Bottom /\ end - n - 1 >= 0
         /\ list' \in Seq(Nodes) /\ Sized(list') /\ Descends(list')
         /\ Len(list') = Len(list) + 1
         /\ list'[p] = Below(n, end)
         /\ \A j \in 1..Len(list) : \E k \in 1..Len(list') : list'[k] = list[j]
         /\ Apart(n, end)
<1> DEFINE v == Below(n, end)
<1>1. /\ ~Lost(n) /\ end - n - 1 >= 0 /\ p = Place(n) + 1
      /\ list' = InsertAt(list, p, v)
  BY DEF Links
<1>2. /\ Place(n) \in 0..Len(list)
      /\ n \in Nat /\ n >= 1 /\ end \in 0..Bottom
      /\ Place(n) > 0 => end = list[Place(n)].start + 1
      /\ Place(n) < Len(list) => list[Place(n) + 1].end <= end - n
  BY <1>1, Chosen
<1>3. Len(list) \in Nat /\ Bottom \in Nat
  BY LayoutAssumption DEF HeapInv
<1>4. p \in 1..(Len(list) + 1)
  BY <1>1, <1>2, <1>3
<1>5. /\ v.start = end - n - 1 /\ v.end = end /\ v.start + 2 <= v.end
      /\ v \in Nodes
  <2>1. v.start = end - n - 1 /\ v.end = end
    BY DEF Below
  <2>2. end - n - 1 \in 0..Bottom /\ end - n - 1 + 2 <= end
    BY <1>1, <1>2, <1>3
  <2>3. v \in Nodes
    BY <1>2, <2>2 DEF Below, Nodes
  <2>4. QED
    BY <2>1, <2>2, <2>3
<1>6. p > 1 => v.end <= list[p - 1].start + 1
  <2> SUFFICES ASSUME p > 1 PROVE end <= list[p - 1].start + 1
    BY <1>5
  <2>1. p - 1 = Place(n) /\ Place(n) > 0
    BY <1>1, <1>2
  <2>2. end = list[p - 1].start + 1
    BY <1>2, <2>1
  <2>3. QED
    BY <1>2, <2>2
<1>7. p <= Len(list) => list[p].end <= v.start + 1
  <2> SUFFICES ASSUME p <= Len(list) PROVE list[p].end <= v.start + 1
    OBVIOUS
  <2>1. list[p].end <= end - n
    BY <1>1, <1>2, <1>3
  <2>2. v.start + 1 = end - n
    BY <1>2, <1>5
  <2>3. QED
    BY <2>1, <2>2
<1> HIDE DEF v
<1>8. Keeps(list, p, v, list')
  <2>1. Fitting(list, p, v)
    BY <1>4, <1>5, <1>6, <1>7 DEF HeapInv, Fitting
  <2>2. QED
    BY <1>1, <2>1, InsertKeeps
<1>9. /\ \A j \in 1..Len(list) : j < p => v.end <= list[j].start + 1
      /\ \A j \in 1..Len(list) : p <= j => list[j].end <= v.start + 1
  BY <1>8 DEF Keeps
<1>10. Apart(n, end)
  <2> SUFFICES ASSUME NEW i \in 1..Len(list)
               PROVE  list[i].start + 1 >= end \/ list[i].end <= end - n
    BY DEF Apart
  <2> DEFINE a == list[i].start
             c == list[i].end
  <2>1. list[i] \in Nodes
    BY DEF HeapInv
  <2>2. a \in Int /\ c \in Int
    BY <2>1, Numbered
  <2>3. i < p => v.end <= a + 1
    BY <1>9
  <2>4. p <= i => c <= v.start + 1
    BY <1>9
  <2>5. i < p \/ p <= i
    BY <1>4
  <2> HIDE DEF a, c
  <2>6. a + 1 >= end \/ c <= end - n
    <3>1. v.start + 1 = end - n /\ v.end = end /\ end \in Int /\ n \in Int
      BY <1>2, <1>5
    <3>2. QED
      BY <2>2, <2>3, <2>4, <2>5, <3>1
  <2>7. QED
    BY <2>6 DEF a, c
<1>11. QED
  BY <1>1, <1>2, <1>4, <1>8, <1>10 DEF v, Keeps

\* A block granted before is still backed by a node.
LEMMA StillBacked ==
  ASSUME NEW l, NEW m, NEW g, Backed(l, g),
         \A b \in g : \A j \in 1..Len(l) :
           Holds(l, b, j) => \E k \in 1..Len(m) : m[k] = l[j]
  PROVE  Backed(m, g)
<1> SUFFICES ASSUME NEW b \in g PROVE \E k \in 1..Len(m) : Holds(m, b, k)
  BY DEF Backed
<1>1. PICK j \in 1..Len(l) : Holds(l, b, j)
  BY DEF Backed
<1>2. PICK k \in 1..Len(m) : m[k] = l[j]
  BY <1>1
<1>3. QED
  BY <1>1, <1>2 DEF Holds

\* malloc keeps the invariant.
LEMMA MallocKeeps ==
  ASSUME HeapInv, NEW n \in Sizes, NEW end \in Ends(n), NEW p, Links(n, end, p)
  PROVE  HeapInv'
<1>1. /\ p \in 1..(Len(list) + 1) /\ Len(list') = Len(list) + 1
      /\ n \in Nat /\ end \in 0..Bottom /\ end - n - 1 >= 0
      /\ list' \in Seq(Nodes) /\ Sized(list') /\ Descends(list')
      /\ list'[p] = Below(n, end)
      /\ \A j \in 1..Len(list) : \E k \in 1..Len(list') : list'[k] = list[j]
  BY LinkedNode
<1>2. Backed(list', granted)
  BY <1>1, StillBacked DEF HeapInv
<1>3. CASE end - n - 1 < Top
  <2>1. granted' = granted
    BY <1>3 DEF Links
  <2>2. QED
    BY <1>1, <1>2, <2>1 DEF HeapInv
<1>4. CASE ~(end - n - 1 < Top)
  <2> DEFINE c == Block(n, end)
  <2>1. granted' = granted \cup {c}
    BY <1>4 DEF Links
  <2>2. c.at = end - n - 1 /\ c.size = n /\ c = [at |-> c.at, size |-> c.size]
    BY DEF Block
  <2>3. end - n - 1 \in Nat /\ end - n - 1 >= Top
    BY <1>1, <1>4, LayoutAssumption
  <2>4. p \in 1..Len(list') /\ Holds(list', c, p)
    <3>1. p \in 1..Len(list')
      BY <1>1
    <3>2. list'[p].start = end - n - 1 /\ list'[p].end = end
      BY <1>1 DEF Below
    <3>3. end = (end - n - 1) + n + 1
      BY <1>1
    <3>4. QED
      BY <2>2, <3>1, <3>2, <3>3 DEF Holds
  <2> HIDE DEF c
  <2>5. Backed(list', granted')
    BY <1>2, <2>1, <2>2, <2>3, <2>4 DEF Backed
  <2>6. \A b \in granted' : b = [at |-> b.at, size |-> b.size]
    BY <2>1, <2>2 DEF HeapInv
  <2>7. QED
    BY <1>1, <2>5, <2>6 DEF HeapInv
<1>5. QED
  BY <1>3, <1>4

\* free keeps the invariant.
LEMMA FreeKeeps ==
  ASSUME HeapInv, NEW a, Free(a)
  PROVE  HeapInv'
<1>1. granted' = {b \in granted : b.at # a}
  BY DEF Free
<1>2. \A b \in granted' : b = [at |-> b.at, size |-> b.size]
  BY <1>1 DEF HeapInv
<1>3. Backed(list, granted')
  BY <1>1 DEF HeapInv, Backed
<1>4. CASE UNCHANGED list
  BY <1>2, <1>3, <1>4 DEF HeapInv
<1>5. ASSUME NEW i \in 1..Len(list), list[i].start = a, list' = RemoveAt(list, i)
      PROVE  HeapInv'
  <2>1. list \in Seq(Nodes) /\ Sized(list) /\ Descends(list)
    BY DEF HeapInv
  <2>2. /\ list' \in Seq(Nodes) /\ Sized(list') /\ Descends(list')
        /\ \A j \in 1..Len(list) :
             j # i => \E k \in 1..Len(list') : list'[k] = list[j]
    BY <1>5, <2>1, RemoveKeeps
  <2>3. \A b \in granted' : \A j \in 1..Len(list) :
          Holds(list, b, j) => \E k \in 1..Len(list') : list'[k] = list[j]
    BY <1>1, <1>5, <2>2 DEF Holds
  <2>4. Backed(list', granted')
    BY <1>3, <2>3, StillBacked
  <2>5. QED
    BY <1>2, <2>2, <2>4 DEF HeapInv
<1>6. QED
  BY <1>4, <1>5 DEF Free

\* It holds of the empty heap.
LEMMA InitHeap == Init => HeapInv
<1> SUFFICES ASSUME Init PROVE HeapInv
  OBVIOUS
<1>1. list \in Seq(Nodes) /\ Len(list) = 0 /\ granted = {}
  BY DEF Init
<1>2. QED
  BY <1>1 DEF HeapInv, Sized, Descends, Backed

\* Every step keeps it.
LEMMA StepKeeps ==
  ASSUME Exposed \subseteq {"refusal"}, HeapInv, [Next]_vars
  PROVE  HeapInv'
<1>1. ASSUME NEW n \in Sizes, Malloc(n) PROVE HeapInv'
  <2>1. PICK end \in Ends(n) : Links(n, end, Place(n) + 1)
    BY <1>1, MallocLinks
  <2>2. QED
    BY <2>1, MallocKeeps
<1>2. ASSUME NEW a \in Address, Free(a) PROVE HeapInv'
  BY <1>2, FreeKeeps
<1>3. CASE UNCHANGED vars
  BY <1>3 DEF HeapInv, vars
<1>4. QED
  BY <1>1, <1>2, <1>3 DEF Next

\* It is Accounted, and more.
LEMMA InvAccounted == HeapInv => Accounted
<1> SUFFICES ASSUME HeapInv PROVE Accounted
  OBVIOUS
<1>1. Len(list) \in Nat
  BY DEF HeapInv
<1>2. ASSUME NEW i \in 1..(Len(list) - 1)
      PROVE  list[i + 1].end <= list[i].start + 1
  <2>1. i \in 1..Len(list) /\ i + 1 \in 1..Len(list) /\ i < i + 1
    BY <1>1
  <2>2. QED
    BY <2>1 DEF HeapInv, Descends
<1>3. QED
  BY <1>2 DEF Accounted, HeapInv, Backed, Holds

\* As long as no request is lost and no address wraps, the list runs from the
\* bottom down without overlap and holds every block a caller holds, with its
\* size (paging.c: malloc, free).
THEOREM AccountedCorrect ==
  ASSUME Exposed \subseteq {"refusal"}
  PROVE  Spec => []Accounted
<1>1. Init => HeapInv
  BY InitHeap
<1>2. HeapInv /\ [Next]_vars => HeapInv'
  BY StepKeeps
<1>3. HeapInv => Accounted
  BY InvAccounted
<1>4. QED
  BY <1>1, <1>2, <1>3, PTL DEF Spec

\* A block as malloc hands it out is none of those granted.
LEMMA Fresh ==
  ASSUME HeapInv, NEW n \in Nat, n >= 1, NEW end \in 0..Bottom, Apart(n, end),
         NEW b \in granted
  PROVE  /\ b.at \in Nat /\ b.at >= Top /\ b.size \in Nat /\ b.size >= 1
         /\ b.at + 1 >= end \/ b.at + b.size + 1 <= end - n
<1>1. PICK i \in 1..Len(list) : Holds(list, b, i)
  BY DEF HeapInv, Backed
<1>2. b.at \in Nat /\ b.at >= Top /\ b.size \in Sizes
  BY DEF HeapInv, Backed
<1>3. b.size \in Nat /\ b.size >= 1
  BY <1>2, SizeIs
<1>4. list[i].start = b.at /\ list[i].end = b.at + b.size + 1
  BY <1>1 DEF Holds
<1>5. list[i].start + 1 >= end \/ list[i].end <= end - n
  BY DEF Apart
<1>6. QED
  BY <1>2, <1>3, <1>4, <1>5

\* Two granted blocks at one address are one.
LEMMA OneBlockAt ==
  ASSUME HeapInv, NEW b \in granted, NEW c \in granted, b.at = c.at
  PROVE  b = c
<1>1. PICK i \in 1..Len(list) : Holds(list, b, i)
  BY DEF HeapInv, Backed
<1>2. PICK j \in 1..Len(list) : Holds(list, c, j)
  BY DEF HeapInv, Backed
<1>3. i = j
  BY <1>1, <1>2, StartsDiffer DEF HeapInv, Holds
<1>4. b.at + b.size + 1 = c.at + c.size + 1
  BY <1>1, <1>2, <1>3 DEF Holds
<1>5. b.at \in Nat /\ b.size \in Sizes /\ c.size \in Sizes
  BY DEF HeapInv, Backed
<1>6. b.size \in Int /\ c.size \in Int
  BY <1>5, SizeIs
<1>7. b.size = c.size
  BY <1>4, <1>5, <1>6
<1>8. b = [at |-> b.at, size |-> b.size] /\ c = [at |-> c.at, size |-> c.size]
  BY DEF HeapInv
<1>9. QED
  BY <1>7, <1>8

\* What malloc grants is what Allocator allows.
LEMMA MallocGrants ==
  ASSUME HeapInv, NEW n \in Sizes, NEW end \in Ends(n), NEW p, Links(n, end, p)
  PROVE  A!Grant \/ granted' = granted
<1> DEFINE c == Block(n, end)
<1>1. CASE end - n - 1 < Top
  BY <1>1 DEF Links
<1>2. CASE ~(end - n - 1 < Top)
  <2>1. granted' = granted \cup {c}
    BY <1>2 DEF Links
  <2>2. /\ n \in Nat /\ n >= 1 /\ end \in 0..Bottom /\ end - n - 1 >= 0
        /\ Apart(n, end)
    BY LinkedNode
  <2>3. Top \in Nat /\ Bottom \in Nat
    BY LayoutAssumption
  <2>4. c.at = end - n - 1 /\ c.size = n
    BY DEF Block
  <2>5. c \in A!Blocks
    <3>1. end - n - 1 \in Top..(Bottom - 1)
      BY <1>2, <2>2, <2>3
    <3>2. QED
      BY <3>1 DEF Block, A!Blocks
  <2> HIDE DEF c
  <2>6. A!Bytes(c) = (end - n - 1)..(end - 2)
    <3>1. end - n - 1 + n - 1 = end - 2
      BY <2>2
    <3>2. QED
      BY <2>4, <3>1 DEF A!Bytes
  <2>7. A!Bytes(c) \subseteq Top..(Bottom - 1)
    BY <1>2, <2>2, <2>3, <2>6
  <2>8. ASSUME NEW g \in granted PROVE A!Bytes(g) \cap A!Bytes(c) = {}
    <3> DEFINE x == g.at
               z == g.size
    <3>1. /\ x \in Nat /\ z \in Nat
          /\ x + 1 >= end \/ x + z + 1 <= end - n
      BY <2>2, Fresh
    <3>2. A!Bytes(g) = x..(x + z - 1)
      BY DEF A!Bytes
    <3> HIDE DEF x, z
    <3>3. x..(x + z - 1) \cap (end - n - 1)..(end - 2) = {}
      BY <2>2, <3>1
    <3>4. QED
      BY <2>6, <3>2, <3>3
  <2>9. QED
    BY <2>1, <2>5, <2>7, <2>8 DEF A!Grant
<1>3. QED
  BY <1>1, <1>2

\* free takes at most one block from the callers' view.
LEMMA FreeReleases ==
  ASSUME HeapInv, NEW a, Free(a)
  PROVE  A!Release \/ granted' = granted
<1>1. granted' = {b \in granted : b.at # a}
  BY DEF Free
<1>2. CASE \A b \in granted : b.at # a
  BY <1>1, <1>2
<1>3. ASSUME NEW b \in granted, b.at = a PROVE A!Release
  <2>1. \A c \in granted : c.at = a => c = b
    BY <1>3, OneBlockAt
  <2>2. granted' = granted \ {b}
    BY <1>1, <1>3, <2>1
  <2>3. QED
    BY <2>2 DEF A!Release
<1>4. QED
  BY <1>2, <1>3

\* As long as no request is lost and no address wraps, malloc and free keep
\* Allocator's promise: a granted block lies in the heap, shares no byte with
\* another, and stays granted until it is freed (paging.c: malloc, free).
THEOREM AllocatesCorrect ==
  ASSUME Exposed \subseteq {"refusal"}
  PROVE  Spec => Allocates
<1>1. Init => HeapInv
  BY InitHeap
<1>2. HeapInv /\ [Next]_vars => HeapInv'
  BY StepKeeps
<1>3. Init => A!Init
  BY DEF Init, A!Init
<1>4. HeapInv /\ [Next]_vars => [A!Next]_granted
  <2> SUFFICES ASSUME HeapInv, [Next]_vars PROVE A!Next \/ granted' = granted
    BY DEF A!Next
  <2>1. ASSUME NEW n \in Sizes, Malloc(n) PROVE A!Next \/ granted' = granted
    <3>1. PICK end \in Ends(n) : Links(n, end, Place(n) + 1)
      BY <2>1, MallocLinks
    <3>2. QED
      BY <3>1, MallocGrants DEF A!Next
  <2>2. ASSUME NEW a \in Address, Free(a) PROVE A!Next \/ granted' = granted
    BY <2>2, FreeReleases DEF A!Next
  <2>3. CASE UNCHANGED vars
    BY <2>3 DEF vars
  <2>4. QED
    BY <2>1, <2>2, <2>3 DEF Next
<1>5. QED
  BY <1>1, <1>2, <1>3, <1>4, PTL DEF Spec, Allocates, A!Spec

\* A request for which there is room is linked where it fits in the heap.
LEMMA RoomIsUsed ==
  ASSUME HeapInv, NEW n \in Sizes, RoomFor(n), NEW end \in Ends(n), ~Lost(n)
  PROVE  end - n - 1 >= Top
<1>1. /\ list \in Seq(Nodes) /\ Len(list) \in Nat
      /\ \A j \in 1..Len(list) : list[j].start \in Int /\ list[j].end \in Int
  BY Numbered DEF HeapInv
<1>2. /\ n \in Nat /\ end \in Int
      /\ Place(n) \in 0..Len(list)
      /\ Place(n) = 0 => end = Bottom
      /\ Place(n) > 0 => end = list[Place(n)].start + 1
  BY Ranged
<1>3. Top \in Nat /\ Bottom \in Nat
  BY LayoutAssumption
<1>4. CASE HeadGap /\ Bottom - n - 1 >= Top
  <2>1. Place(n) = 0
    BY <1>4 DEF Place
  <2>2. QED
    BY <1>2, <1>4, <2>1
<1>5. ASSUME NEW i \in 1..(Len(list) - 1), list[i].start - n >= Top,
             list[i].start - n >= list[i + 1].end - 1
      PROVE  end - n - 1 >= Top
  <2> DEFINE a == list[i].start
             c == list[i + 1].end
  <2>1. i \in 1..Len(list) /\ a \in Int /\ c \in Int
    BY <1>1
  <2>2. CASE Place(n) = 0
    <3>1. a + 2 <= list[i].end
      BY <2>1 DEF HeapInv, Sized
    <3>2. list[i].end <= Bottom /\ list[i].end \in Int
      BY <2>1, Numbered DEF HeapInv
    <3>3. a - n >= Top
      BY <1>5
    <3> HIDE DEF a
    <3>4. QED
      BY <1>2, <1>3, <2>1, <2>2, <3>1, <3>2, <3>3
  <2>3. CASE Place(n) # 0
    <3>1. GapAfter(i) = a + 1 - c
      BY GapIs
    <3>2. a - n >= Top /\ a - n >= c - 1
      BY <1>5
    <3>3. GapAfter(i) >= n
      <4> HIDE DEF a, c
      <4>1. QED
        BY <1>2, <2>1, <3>1, <3>2
    <3>4. i \in Fits(n)
      BY <3>3 DEF Fits
    <3>5. Place(n) = Min(Fits(n))
      BY <2>3, <3>4 DEF Place
    <3>6. Fits(n) \in SUBSET Nat /\ Fits(n) \subseteq 1..Len(list)
      BY <1>1 DEF Fits
    <3>7. Place(n) \in 1..Len(list) /\ Place(n) <= i
      BY <3>4, <3>5, <3>6, MinIsLeast
    <3> DEFINE z == list[Place(n)].start
    <3>8. z >= a
      <4>1. CASE Place(n) = i
        BY <2>1, <4>1
      <4>2. CASE Place(n) # i
        <5>1. Place(n) < i
          BY <2>1, <3>7, <4>2
        <5>2. list[i].end <= z + 1
          BY <2>1, <3>7, <5>1 DEF HeapInv, Descends
        <5>3. a + 2 <= list[i].end
          BY <2>1 DEF HeapInv, Sized
        <5>4. z \in Int /\ list[i].end \in Int
          BY <1>1, <2>1, <3>7
        <5> HIDE DEF a, z
        <5>5. QED
          BY <2>1, <5>2, <5>3, <5>4
      <4>3. QED
        BY <4>1, <4>2
    <3>9. end = z + 1 /\ z \in Int
      BY <1>1, <1>2, <3>7
    <3> HIDE DEF a, z
    <3>10. QED
      BY <1>2, <1>3, <2>1, <3>2, <3>8, <3>9
  <2>4. QED
    BY <2>2, <2>3
<1>6. QED
  BY <1>4, <1>5 DEF RoomFor

\* What FitFound says of a step.
Found ==
  \A n \in Sizes : Malloc(n) /\ RoomFor(n) =>
    \E b \in granted' \ granted : b.at >= Top /\ b.at + b.size < Bottom

LEMMA InvFound ==
  ASSUME Exposed \subseteq {"refusal"}, HeapInv
  PROVE  Found
<1> SUFFICES ASSUME NEW n \in Sizes, Malloc(n), RoomFor(n)
             PROVE  \E b \in granted' \ granted :
                      b.at >= Top /\ b.at + b.size < Bottom
  BY DEF Found
<1>1. PICK end \in Ends(n) : Links(n, end, Place(n) + 1)
  BY MallocLinks
<1>2. ~Lost(n) /\ end - n - 1 >= Top
  BY <1>1, RoomIsUsed DEF Links
<1>3. n \in Nat /\ n >= 1 /\ end \in 0..Bottom /\ Apart(n, end)
  BY <1>1, LinkedNode
<1>4. Top \in Nat /\ Bottom \in Nat
  BY LayoutAssumption
<1> DEFINE c == Block(n, end)
<1>5. granted' = granted \cup {c}
  BY <1>1, <1>2, <1>3, <1>4 DEF Links
<1>6. c.at = end - n - 1 /\ c.size = n
  BY DEF Block
<1>7. c.at >= Top /\ c.at + c.size < Bottom
  BY <1>2, <1>3, <1>4, <1>6
<1>8. c \notin granted
  <2> SUFFICES ASSUME c \in granted PROVE FALSE
    OBVIOUS
  <2>1. c.size >= 1 /\ (c.at + 1 >= end \/ c.at + c.size + 1 <= end - n)
    BY <1>3, Fresh
  <2>2. QED
    BY <1>3, <1>6, <2>1
<1>9. QED
  BY <1>5, <1>7, <1>8

\* As long as no request is lost and no address wraps, a request that a gap
\* inside the heap has room for is granted (paging.c: malloc, "chekc space
\* between every block").
THEOREM FitFoundCorrect ==
  ASSUME Exposed \subseteq {"refusal"}
  PROVE  Spec => FitFound
<1>1. Init => HeapInv
  BY InitHeap
<1>2. HeapInv /\ [Next]_vars => HeapInv'
  BY StepKeeps
<1>3. HeapInv => [Found]_vars
  BY InvFound
<1>4. QED
  BY <1>1, <1>2, <1>3, PTL DEF Spec, FitFound, Found
=============================================================================
