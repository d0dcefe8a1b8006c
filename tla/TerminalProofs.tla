--------------------------- MODULE TerminalProofs ---------------------------
(***************************************************************************)
(* Proofs about Terminal, for every length of a line and of the history:   *)
(* what the keys do to the row, what the reader is given, and that the     *)
(* prompt is a LineEditor.                                                 *)
(***************************************************************************)
EXTENDS Terminal, SequenceTheorems, FiniteSetTheorems, TLAPS

(***************************************************************************)
(* Numbers, and what is done so many times.                                *)
(***************************************************************************)
\* The least number of a nonempty set.
LEMMA MinIsLeast ==
  ASSUME NEW S \in SUBSET Nat, S # {}
  PROVE  Min(S) \in S /\ \A y \in S : Min(S) <= y
<1>1. PICK x \in S : \A y \in S : ~(<<y, x>> \in OpToRel(<, Nat))
  BY NatLessThanWellFounded, WFMin
<1>2. \A y \in S : x <= y
  <2> SUFFICES ASSUME NEW y \in S PROVE x <= y
    OBVIOUS
  <2>1. x \in Nat /\ y \in Nat
    BY <1>1
  <2>2. ~(y < x)
    BY <1>1, <2>1 DEF OpToRel
  <2>3. QED
    BY <2>1, <2>2
<1>3. \E z \in S : \A y \in S : z <= y
  BY <1>1, <1>2
<1>4. QED
  BY <1>3 DEF Min

\* The greatest number of a nonempty set of numbers up to n.
LEMMA MaxIsGreatest ==
  ASSUME NEW n \in Nat, NEW S \in SUBSET (0..n), S # {}
  PROVE  Max(S) \in S /\ \A y \in S : y <= Max(S)
<1> DEFINE T == {n - k : k \in S}
<1>1. T \in SUBSET Nat /\ T # {}
  <2>1. \A k \in S : n - k \in Nat /\ n - k \in T
    OBVIOUS
  <2>2. QED
    BY <2>1
<1>2. PICK m : m \in T /\ \A y \in T : m <= y
  BY <1>1, MinIsLeast
<1>3. PICK x \in S : m = n - x
  BY <1>2
<1>4. \A y \in S : x >= y
  <2> SUFFICES ASSUME NEW y \in S PROVE x >= y
    OBVIOUS
  <2>1. n - x <= n - y
    BY <1>2, <1>3
  <2>2. QED
    BY <2>1
<1>5. \E z \in S : \A y \in S : z >= y
  BY <1>4
<1>6. Max(S) \in S /\ \A y \in S : Max(S) >= y
  BY <1>5 DEF Max
<1>7. QED
  BY <1>6

\* What holds of 0 and of each number after one it holds of, holds up to n.
LEMMA Reaches ==
  ASSUME NEW n \in Nat, NEW G, 0 \in G, \A k \in 1..n : k - 1 \in G => k \in G
  PROVE  \A k \in 0..n : k \in G
<1> DEFINE bad == {k \in 0..n : k \notin G}
<1>1. SUFFICES ASSUME bad # {} PROVE FALSE
  OBVIOUS
<1>2. bad \in SUBSET Nat
  OBVIOUS
<1>3. PICK m : m \in bad /\ \A y \in bad : m <= y
  BY <1>1, <1>2, MinIsLeast
<1>4. m \in 1..n /\ m - 1 \in 0..n /\ ~(m <= m - 1)
  BY <1>3
<1>5. m - 1 \in G
  BY <1>3, <1>4
<1>6. QED
  BY <1>3, <1>4, <1>5

\* What a step of a loop says of its states, and that it has such states.
Iterates(g, f, x, n) == g = [k \in 0..n |-> IF k = 0 THEN x ELSE f[k][g[k - 1]]]

LEMMA IterationExists ==
  ASSUME NEW S, NEW x \in S, NEW n \in Nat, NEW f \in [1..n -> [S -> S]]
  PROVE  \E g \in [0..n -> S] : Iterates(g, f, x, n)
<1> DEFINE G == {k \in 0..n : \E g \in [0..k -> S] : Iterates(g, f, x, k)}
<1>1. 0 \in G
  <2> DEFINE g == [k \in 0..0 |-> x]
  <2>1. g \in [0..0 -> S] /\ \A k \in 0..0 : k = 0
    OBVIOUS
  <2>2. Iterates(g, f, x, 0)
    BY <2>1 DEF Iterates
  <2>3. QED
    BY <2>1, <2>2
<1>2. ASSUME NEW k \in 1..n, k - 1 \in G PROVE k \in G
  <2>1. PICK g \in [0..(k - 1) -> S] : Iterates(g, f, x, k - 1)
    BY <1>2
  <2> DEFINE last == f[k][g[k - 1]]
             h == [i \in 0..k |-> IF i = k THEN last ELSE g[i]]
  <2>2. k - 1 \in 0..(k - 1) /\ last \in S
    <3>1. k - 1 \in 0..(k - 1)
      OBVIOUS
    <3>2. QED
      BY <3>1
  <2>8. last = f[k][g[k - 1]]
    OBVIOUS
  <2> HIDE DEF last
  <2>3. /\ h \in [0..k -> S] /\ h[k] = last
        /\ \A i \in 0..(k - 1) : h[i] = g[i]
    <3>1. \A i \in 0..k : i = k \/ i \in 0..(k - 1)
      OBVIOUS
    <3>2. k \in 0..k /\ \A i \in 0..(k - 1) : i # k /\ i \in 0..k
      OBVIOUS
    <3>3. QED
      BY <2>2, <3>1, <3>2
  <2> HIDE DEF h
  <2>4. ASSUME NEW i \in 0..k
        PROVE  h[i] = IF i = 0 THEN x ELSE f[i][h[i - 1]]
    <3>1. CASE i = k
      BY <2>2, <2>3, <2>8, <3>1
    <3>2. CASE i # k
      <4>1. i \in 0..(k - 1) /\ (i # 0 => i - 1 \in 0..(k - 1))
        BY <3>2
      <4>2. g[i] = IF i = 0 THEN x ELSE f[i][g[i - 1]]
        BY <2>1, <4>1 DEF Iterates
      <4>3. QED
        BY <2>3, <4>1, <4>2
    <3>3. QED
      BY <3>1, <3>2
  <2>5. h = [i \in 0..k |-> h[i]]
    BY <2>3
  <2>6. Iterates(h, f, x, k)
    BY <2>4, <2>5, Zenon DEF Iterates
  <2>7. QED
    BY <2>3, <2>6
<1>3. \A k \in 0..n : k \in G
  <2> HIDE DEF G
  <2>1. QED
    BY <1>1, <1>2, Reaches
<1>4. n \in 0..n
  OBVIOUS
<1>5. QED
  BY <1>3, <1>4

(***************************************************************************)
(* The row under edit.                                                     *)
(***************************************************************************)
Glyphs == Chars \cup {Nul, Newline}
Lines  == {s \in Seq(Chars) : Len(s) <= BufMax}

\* Left of max are characters, at max a zero, and right of it zeros and
\* newlines that earlier lines have left.
Editors ==
  {e \in [idx : 0..BufMax, max : 0..BufMax, key : [Cells -> Glyphs]] :
     /\ e.idx <= e.max
     /\ \A k \in Cells : k < e.max => e.key[k] \in Chars
     /\ e.key[e.max] = Nul
     /\ \A k \in Cells : k > e.max => e.key[k] \in {Nul, Newline}}

TextOf(e) == [i \in 1..e.max |-> e.key[i - 1]]

\* The text is a line.
LEMMA TextIs ==
  ASSUME NEW e \in Editors
  PROVE  /\ TextOf(e) \in Seq(Chars) /\ TextOf(e) \in Lines
         /\ Len(TextOf(e)) = e.max
         /\ \A i \in 1..e.max : TextOf(e)[i] = e.key[i - 1]
<1>1. e.max \in 0..BufMax /\ BufMax \in Nat
  BY SizeAssumption DEF Editors
<1>2. \A i \in 1..e.max : i - 1 \in Cells /\ i - 1 < e.max
  BY <1>1 DEF Cells
<1>3. \A i \in 1..e.max : e.key[i - 1] \in Chars
  BY <1>2 DEF Editors
<1>4. TextOf(e) \in Seq(Chars) /\ Len(TextOf(e)) = e.max
  BY <1>1, <1>3 DEF TextOf
<1>5. QED
  BY <1>1, <1>4 DEF TextOf, Lines

\* Two lines are one if they agree character by character.
LEMMA TextEqual ==
  ASSUME NEW e \in Editors, NEW s \in Seq(Chars), Len(s) = e.max,
         \A i \in 1..e.max : e.key[i - 1] = s[i]
  PROVE  TextOf(e) = s
<1>1. /\ TextOf(e) \in Seq(Chars) /\ Len(TextOf(e)) = e.max
      /\ \A i \in 1..e.max : TextOf(e)[i] = e.key[i - 1]
  BY TextIs
<1>2. \A i \in 1..Len(TextOf(e)) : TextOf(e)[i] = s[i]
  BY <1>1
<1>3. QED
  BY <1>1, <1>2, SeqEqual

\* clear_buf leaves an empty line, whatever was in the row.
LEMMA ClearedIs ==
  ASSUME NEW e, e.key \in [Cells -> Glyphs], e.key[BufMax] \in {Nul, Newline}
  PROVE  Cleared(e) \in Editors /\ Cleared(e).max = 0 /\ Cleared(e).idx = 0
<1> DEFINE c == Cleared(e)
<1>1. BufMax \in Nat /\ BufMax >= 2
  BY SizeAssumption
<1>2. c.idx = 0 /\ c.max = 0
  BY DEF Cleared
<1>3. \A k \in Cells : c.key[k] = IF k < BufMax - 1 THEN Nul
                                  ELSE IF k = BufMax - 1 THEN Newline ELSE e.key[k]
  BY DEF Cleared
<1>4. \A k \in Cells : c.key[k] \in {Nul, Newline}
  BY <1>1, <1>3 DEF Cells
<1>5. c = [idx |-> 0, max |-> 0, key |-> c.key] /\ c.key \in [Cells -> Glyphs]
  <2>1. DOMAIN c.key = Cells /\ c.key = [k \in Cells |-> c.key[k]]
    BY DEF Cleared
  <2>2. \A k \in Cells : c.key[k] \in Glyphs
    BY <1>4 DEF Glyphs
  <2>3. c = [idx |-> 0, max |-> 0, key |-> c.key]
    BY DEF Cleared
  <2> HIDE DEF c
  <2>4. QED
    BY <2>1, <2>2, <2>3
<1>6. c.key[0] = Nul /\ \A k \in Cells : ~(k < 0)
  BY <1>1, <1>3 DEF Cells
<1> HIDE DEF c
<1>7. c \in [idx : 0..BufMax, max : 0..BufMax, key : [Cells -> Glyphs]]
  BY <1>1, <1>5
<1>8. c \in Editors
  BY <1>2, <1>4, <1>6, <1>7 DEF Editors
<1>9. QED
  BY <1>2, <1>8 DEF c

\* A row that is full takes no more.
LEMMA InsertFull ==
  ASSUME NEW e \in Editors, NEW c, e.max = BufMax
  PROVE  Insert(e, c) = e
<1>1. BufMax \in Nat /\ BufMax > BufMax - 1
  BY SizeAssumption
<1>2. QED
  BY <1>1 DEF Insert

\* Otherwise the characters right of the cursor are moved up by one.
LEMMA InsertIs ==
  ASSUME NEW e \in Editors, NEW c \in Chars, e.max < BufMax
  PROVE  /\ Insert(e, c) \in Editors
         /\ Insert(e, c).idx = e.idx + 1
         /\ Insert(e, c).max = e.max + 1
         /\ \A k \in 0..e.max : Insert(e, c).key[k] =
              IF k < e.idx THEN e.key[k] ELSE IF k = e.idx THEN c ELSE e.key[k - 1]
<1> DEFINE n == Insert(e, c)
           key == [k \in Cells |-> IF k = e.idx THEN c
                                   ELSE IF k \in (e.idx + 1)..(e.max + 1) THEN e.key[k - 1]
                                   ELSE e.key[k]]
<1>1. /\ BufMax \in Nat /\ e.max \in 0..BufMax /\ e.idx \in 0..BufMax /\ e.idx <= e.max
      /\ e.key \in [Cells -> Glyphs] /\ e.key[e.max] = Nul
      /\ \A k \in Cells : k < e.max => e.key[k] \in Chars
      /\ \A k \in Cells : k > e.max => e.key[k] \in {Nul, Newline}
  BY SizeAssumption DEF Editors
<1>2. n = [idx |-> e.idx + 1, max |-> e.max + 1, key |-> key]
  BY <1>1 DEF Insert
<1>3. \A k \in Cells : /\ k < e.idx => key[k] = e.key[k]
                       /\ k = e.idx => key[k] = c
                       /\ k > e.idx /\ k <= e.max + 1 => k - 1 \in Cells /\ key[k] = e.key[k - 1]
                       /\ k > e.max + 1 => key[k] = e.key[k]
  BY <1>1 DEF Cells
<1>4. \A k \in Cells : key[k] \in Glyphs
  <2> HIDE DEF key
  <2>1. \A k \in Cells : k < e.idx \/ k = e.idx \/ (k > e.idx /\ k <= e.max + 1) \/ k > e.max + 1
    BY <1>1 DEF Cells
  <2>2. QED
    BY <1>1, <1>3, <2>1 DEF Glyphs
<1>5. key \in [Cells -> Glyphs]
  BY <1>4
<1> HIDE DEF key
<1>6. ASSUME NEW k \in Cells, k < e.max + 1 PROVE key[k] \in Chars
  <2>1. CASE k < e.idx
    BY <1>1, <1>3, <2>1 DEF Cells
  <2>2. CASE k = e.idx
    BY <1>3, <2>2
  <2>3. CASE k > e.idx
    <3>1. k - 1 \in Cells /\ key[k] = e.key[k - 1] /\ k - 1 < e.max
      BY <1>1, <1>3, <1>6, <2>3 DEF Cells
    <3>2. QED
      BY <1>1, <3>1
  <2>4. QED
    BY <1>1, <2>1, <2>2, <2>3 DEF Cells
<1>7. key[e.max + 1] = Nul
  <2>1. e.max + 1 \in Cells /\ e.max + 1 > e.idx /\ e.max + 1 - 1 = e.max
    BY <1>1 DEF Cells
  <2>2. QED
    BY <1>1, <1>3, <2>1
<1>8. ASSUME NEW k \in Cells, k > e.max + 1 PROVE key[k] \in {Nul, Newline}
  BY <1>1, <1>3, <1>8 DEF Cells
<1>9. n \in Editors
  <2>1. n \in [idx : 0..BufMax, max : 0..BufMax, key : [Cells -> Glyphs]]
    BY <1>1, <1>2, <1>5
  <2>2. n.idx = e.idx + 1 /\ n.max = e.max + 1 /\ n.key = key
    BY <1>2
  <2> HIDE DEF n
  <2>3. n.idx <= n.max
    BY <1>1, <2>2
  <2>4. QED
    BY <1>6, <1>7, <1>8, <2>1, <2>2, <2>3 DEF Editors
<1>10. \A k \in 0..e.max : key[k] =
         IF k < e.idx THEN e.key[k] ELSE IF k = e.idx THEN c ELSE e.key[k - 1]
  BY <1>1, <1>3 DEF Cells
<1>11. QED
  BY <1>2, <1>9, <1>10

\* A backspace at the row's beginning does nothing.
LEMMA EraseNone == ASSUME NEW e, e.idx = 0 PROVE Erase(e) = e
BY DEF Erase

\* Elsewhere the characters right of the cursor are moved down by one.
LEMMA EraseIs ==
  ASSUME NEW e \in Editors, e.idx # 0
  PROVE  /\ Erase(e) \in Editors
         /\ Erase(e).idx = e.idx - 1
         /\ Erase(e).max = e.max - 1
         /\ \A k \in 0..(e.max - 2) : Erase(e).key[k] =
              IF k < e.idx - 1 THEN e.key[k] ELSE e.key[k + 1]
<1> DEFINE n == Erase(e)
           key == [k \in Cells |-> IF k = e.max - 1 THEN Nul
                                   ELSE IF k \in (e.idx - 1)..(e.max - 2) THEN e.key[k + 1]
                                   ELSE e.key[k]]
<1>1. /\ BufMax \in Nat /\ e.max \in 1..BufMax /\ e.idx \in 1..BufMax /\ e.idx <= e.max
      /\ e.key \in [Cells -> Glyphs] /\ e.key[e.max] = Nul
      /\ \A k \in Cells : k < e.max => e.key[k] \in Chars
      /\ \A k \in Cells : k > e.max => e.key[k] \in {Nul, Newline}
  BY SizeAssumption DEF Editors
<1>2. n = [idx |-> e.idx - 1, max |-> e.max - 1, key |-> key]
  BY DEF Erase
<1>3. \A k \in Cells : /\ k < e.idx - 1 => key[k] = e.key[k]
                       /\ k >= e.idx - 1 /\ k <= e.max - 2 => k + 1 \in Cells /\ key[k] = e.key[k + 1]
                       /\ k = e.max - 1 => key[k] = Nul
                       /\ k > e.max - 1 => key[k] = e.key[k]
  BY <1>1 DEF Cells
<1>4. \A k \in Cells : key[k] \in Glyphs
  <2> HIDE DEF key
  <2>1. \A k \in Cells : k < e.idx - 1 \/ (k >= e.idx - 1 /\ k <= e.max - 2) \/ k = e.max - 1
                         \/ k > e.max - 1
    BY <1>1 DEF Cells
  <2>2. QED
    BY <1>1, <1>3, <2>1 DEF Glyphs
<1>5. key \in [Cells -> Glyphs]
  BY <1>4
<1> HIDE DEF key
<1>6. ASSUME NEW k \in Cells, k < e.max - 1 PROVE key[k] \in Chars
  <2>1. CASE k < e.idx - 1
    BY <1>1, <1>3, <2>1 DEF Cells
  <2>2. CASE k >= e.idx - 1
    <3>1. k \in Nat /\ e.max \in Nat /\ k <= e.max - 2 /\ k + 1 < e.max
      BY <1>1, <1>6 DEF Cells
    <3>2. k + 1 \in Cells /\ key[k] = e.key[k + 1]
      BY <1>3, <2>2, <3>1
    <3>3. QED
      BY <1>1, <3>1, <3>2
  <2>3. QED
    BY <1>1, <2>1, <2>2 DEF Cells
<1>7. e.max - 1 \in Cells /\ key[e.max - 1] = Nul
  BY <1>1, <1>3 DEF Cells
<1>8. ASSUME NEW k \in Cells, k > e.max - 1 PROVE key[k] \in {Nul, Newline}
  <2>1. key[k] = e.key[k] /\ (k = e.max \/ k > e.max)
    BY <1>1, <1>3, <1>8 DEF Cells
  <2>2. QED
    BY <1>1, <2>1
<1>9. n \in Editors
  <2>1. n \in [idx : 0..BufMax, max : 0..BufMax, key : [Cells -> Glyphs]]
    BY <1>1, <1>2, <1>5
  <2>2. n.idx = e.idx - 1 /\ n.max = e.max - 1 /\ n.key = key
    BY <1>2
  <2> HIDE DEF n
  <2>3. n.idx <= n.max
    BY <1>1, <2>2
  <2>4. QED
    BY <1>6, <1>7, <1>8, <2>1, <2>2, <2>3 DEF Editors
<1>10. \A k \in 0..(e.max - 2) : key[k] = IF k < e.idx - 1 THEN e.key[k] ELSE e.key[k + 1]
  BY <1>1, <1>3 DEF Cells
<1>11. QED
  BY <1>2, <1>9, <1>10

\* One more character or one less.
LEMMA InsertType ==
  ASSUME NEW e \in Editors, NEW c \in Chars
  PROVE  Insert(e, c) \in Editors
<1>1. e.max = BufMax \/ e.max < BufMax
  BY SizeAssumption DEF Editors
<1>2. QED
  BY <1>1, InsertFull, InsertIs

LEMMA EraseType == ASSUME NEW e \in Editors PROVE Erase(e) \in Editors
BY EraseNone, EraseIs

\* BUF_MAX backspaces at the end of the line empty it.
LEMMA EraseAllIs ==
  ASSUME NEW e \in Editors
  PROVE  /\ EraseAll(e) \in Editors
         /\ e.idx = e.max => EraseAll(e).max = 0 /\ EraseAll(e).idx = 0
<1> DEFINE f == [k \in 1..BufMax |-> [x \in Editors |-> Erase(x)]]
           Body(g) == [n \in 0..BufMax |-> IF n = 0 THEN e ELSE Erase(g[n - 1])]
           h == CHOOSE g : g = Body(g)
<1>1. BufMax \in Nat /\ BufMax >= 2
  BY SizeAssumption
<1>2. EraseAll(e) = h[BufMax]
  BY Zenon DEF EraseAll
<1>3. \E g : g = Body(g) /\ g \in [0..BufMax -> Editors]
  <2>1. f \in [1..BufMax -> [Editors -> Editors]]
    BY EraseType
  <2>2. PICK g \in [0..BufMax -> Editors] : Iterates(g, f, e, BufMax)
    BY <1>1, <2>1, IterationExists
  <2>3. \A n \in 0..BufMax : n # 0 => n \in 1..BufMax /\ n - 1 \in 0..BufMax
    BY <1>1
  <2>4. \A n \in 0..BufMax : n # 0 => f[n][g[n - 1]] = Erase(g[n - 1])
    BY <2>2, <2>3
  <2> HIDE DEF f
  <2>5. g = Body(g)
    BY <2>2, <2>4 DEF Iterates
  <2>6. QED
    BY <2>2, <2>5
<1>4. h = Body(h)
  BY <1>3
<1> HIDE DEF h
<1>5. h[0] = e /\ \A n \in 1..BufMax : h[n] = Erase(h[n - 1])
  <2>1. 0 \in 0..BufMax /\ \A n \in 1..BufMax : n \in 0..BufMax /\ n # 0
    BY <1>1
  <2>2. QED
    BY <1>4, <2>1
<1> DEFINE G == {n \in 0..BufMax :
                   /\ h[n] \in Editors
                   /\ e.idx = e.max => /\ h[n].idx = h[n].max
                                       /\ h[n].max = IF n <= e.max THEN e.max - n ELSE 0}
<1>6. 0 \in G
  BY <1>1, <1>5 DEF Editors
<1>7. ASSUME NEW n \in 1..BufMax, n - 1 \in G PROVE n \in G
  <2>1. h[n - 1] \in Editors /\ h[n] = Erase(h[n - 1])
    BY <1>5, <1>7
  <2>2. h[n] \in Editors
    BY <2>1, EraseType
  <2>3. ASSUME e.idx = e.max
        PROVE  /\ h[n].idx = h[n].max
               /\ h[n].max = IF n <= e.max THEN e.max - n ELSE 0
    <3>1. /\ h[n - 1].idx = h[n - 1].max
          /\ h[n - 1].max = IF n - 1 <= e.max THEN e.max - (n - 1) ELSE 0
      BY <1>7, <2>3
    <3>2. e.max \in Nat
      BY DEF Editors
    <3>3. CASE h[n - 1].idx = 0
      <4>1. h[n] = h[n - 1]
        BY <2>1, <3>3, EraseNone
      <4>2. QED
        BY <3>1, <3>2, <3>3, <4>1
    <3>4. CASE h[n - 1].idx # 0
      <4>1. h[n].idx = h[n - 1].idx - 1 /\ h[n].max = h[n - 1].max - 1
        BY <2>1, <3>4, EraseIs
      <4>2. QED
        BY <3>1, <3>2, <3>4, <4>1
    <3>5. QED
      BY <3>3, <3>4
  <2>4. QED
    BY <1>1, <2>2, <2>3
<1> HIDE DEF G
<1>8. BufMax \in G
  <2>1. \A k \in 0..BufMax : k \in G
    BY <1>1, <1>6, <1>7, Reaches
  <2>2. QED
    BY <1>1, <2>1
<1>9. e.max \in 0..BufMax
  BY DEF Editors
<1>10. QED
  BY <1>1, <1>2, <1>8, <1>9 DEF G

\* As much of s as the row has room for.
Fits(e, s) == IF e.max + Len(s) <= BufMax THEN e.max + Len(s) ELSE BufMax

\* What is typed at the end of the line is added to it as long as there is room.
LEMMA InsertAllIs ==
  ASSUME NEW e \in Editors, NEW s \in Seq(Chars)
  PROVE  /\ InsertAll(e, s) \in Editors
         /\ e.idx = e.max =>
              /\ InsertAll(e, s).idx = Fits(e, s) /\ InsertAll(e, s).max = Fits(e, s)
              /\ \A i \in 1..Fits(e, s) :
                   InsertAll(e, s).key[i - 1] = IF i <= e.max THEN e.key[i - 1] ELSE s[i - e.max]
<1> DEFINE N == Len(s)
           f == [k \in 1..N |-> [x \in Editors |-> Insert(x, s[k])]]
           Body(g) == [n \in 0..N |-> IF n = 0 THEN e ELSE Insert(g[n - 1], s[n])]
           h == CHOOSE g : g = Body(g)
           Room(n) == IF e.max + n <= BufMax THEN e.max + n ELSE BufMax
<1>1. /\ BufMax \in Nat /\ BufMax >= 2 /\ N \in Nat
      /\ e.max \in 0..BufMax
      /\ \A k \in 1..N : s[k] \in Chars
  BY SizeAssumption DEF Editors
<1>2. InsertAll(e, s) = h[N]
  BY Zenon DEF InsertAll
<1>3. \E g : g = Body(g) /\ g \in [0..N -> Editors]
  <2>1. f \in [1..N -> [Editors -> Editors]]
    BY <1>1, InsertType
  <2>2. PICK g \in [0..N -> Editors] : Iterates(g, f, e, N)
    BY <1>1, <2>1, IterationExists
  <2>3. \A n \in 0..N : n # 0 => n \in 1..N /\ n - 1 \in 0..N
    BY <1>1
  <2>4. \A n \in 0..N : n # 0 => f[n][g[n - 1]] = Insert(g[n - 1], s[n])
    BY <2>2, <2>3
  <2> HIDE DEF f
  <2>5. g = Body(g)
    BY <2>2, <2>4 DEF Iterates
  <2>6. QED
    BY <2>2, <2>5
<1>4. h = Body(h)
  BY <1>3
<1> HIDE DEF h
<1>5. h[0] = e /\ \A n \in 1..N : h[n] = Insert(h[n - 1], s[n])
  <2>1. 0 \in 0..N /\ \A n \in 1..N : n \in 0..N /\ n # 0
    BY <1>1
  <2>2. QED
    BY <1>4, <2>1
<1> DEFINE Typed(n) == /\ h[n].idx = Room(n) /\ h[n].max = Room(n)
                       /\ \A i \in 1..Room(n) :
                            h[n].key[i - 1] = IF i <= e.max THEN e.key[i - 1] ELSE s[i - e.max]
           G == {n \in 0..N : h[n] \in Editors /\ (e.idx = e.max => Typed(n))}
<1>6. 0 \in G
  BY <1>1, <1>5
<1>7. ASSUME NEW n \in 1..N, n - 1 \in G PROVE n \in G
  <2>1. h[n - 1] \in Editors /\ h[n] = Insert(h[n - 1], s[n]) /\ s[n] \in Chars
    BY <1>1, <1>5, <1>7
  <2>2. h[n] \in Editors
    BY <2>1, InsertType
  <2>3. ASSUME e.idx = e.max PROVE Typed(n)
    <3>1. Typed(n - 1)
      BY <1>7, <2>3
    <3>3. CASE h[n - 1].max = BufMax
      <4>1. h[n] = h[n - 1]
        BY <2>1, <3>3, InsertFull
      <4>2. Room(n) = BufMax /\ Room(n - 1) = BufMax
        <5> DEFINE m == e.max
        <5>1. Room(n - 1) = BufMax
          <6> HIDE DEF Room
          <6>1. QED
            BY <3>1, <3>3
        <5>2. m \in 0..BufMax
          BY <1>1
        <5>3. Room(n - 1) = (IF m + (n - 1) <= BufMax THEN m + (n - 1) ELSE BufMax)
          OBVIOUS
        <5>4. Room(n) = (IF m + n <= BufMax THEN m + n ELSE BufMax)
          OBVIOUS
        <5> HIDE DEF m, Room
        <5>5. QED
          BY <1>1, <5>1, <5>2, <5>3, <5>4
      <4> HIDE DEF Room
      <4>3. QED
        BY <3>1, <4>1, <4>2
    <3>4. CASE h[n - 1].max # BufMax
      <4>1. /\ Room(n) = e.max + n /\ Room(n - 1) = e.max + n - 1
            /\ h[n - 1].max < BufMax /\ h[n - 1].idx = e.max + n - 1 /\ h[n - 1].max = e.max + n - 1
        BY <1>1, <3>1, <3>4
      <4>2. /\ h[n].idx = Room(n) /\ h[n].max = Room(n)
            /\ \A k \in 0..(e.max + n - 1) :
                 h[n].key[k] = IF k < e.max + n - 1 THEN h[n - 1].key[k]
                               ELSE IF k = e.max + n - 1 THEN s[n] ELSE h[n - 1].key[k - 1]
        <5> DEFINE p == h[n - 1]
                   q == h[n]
                   m == e.max + n - 1
        <5>1. /\ p \in Editors /\ q = Insert(p, s[n]) /\ s[n] \in Chars
              /\ p.max < BufMax /\ p.idx = m /\ p.max = m
          BY <2>1, <4>1
        <5> HIDE DEF p, q, m
        <5>2. /\ q.idx = m + 1 /\ q.max = m + 1
              /\ \A k \in 0..m : q.key[k] = IF k < m THEN p.key[k]
                                           ELSE IF k = m THEN s[n] ELSE p.key[k - 1]
          BY <5>1, InsertIs
        <5>3. m + 1 = Room(n)
          BY <1>1, <4>1 DEF m
        <5>4. QED
          BY <5>2, <5>3 DEF p, q, m
      <4>3. ASSUME NEW i \in 1..Room(n)
            PROVE  h[n].key[i - 1] = IF i <= e.max THEN e.key[i - 1] ELSE s[i - e.max]
        <5>1. CASE i = e.max + n
          <6>1. e.max \in Nat /\ n \in Nat /\ n >= 1
            BY <1>1
          <6>2. /\ i - 1 \in 0..(e.max + n - 1) /\ i - 1 = e.max + n - 1
                /\ i - e.max = n /\ ~(i <= e.max)
            BY <5>1, <6>1
          <6>3. h[n].key[i - 1] = s[n]
            BY <4>2, <6>2
          <6>4. QED
            BY <6>2, <6>3
        <5>2. CASE i # e.max + n
          <6>4. i \in 1..(e.max + n) /\ e.max \in Nat /\ n \in Nat
            BY <1>1, <4>1
          <6>5. /\ i \in 1..(e.max + n - 1)
                /\ i - 1 \in 0..(e.max + n - 1) /\ i - 1 < e.max + n - 1
            BY <5>2, <6>4
          <6>1. i \in 1..Room(n - 1) /\ i - 1 \in 0..(e.max + n - 1) /\ i - 1 < e.max + n - 1
            BY <4>1, <6>5
          <6>2. h[n].key[i - 1] = h[n - 1].key[i - 1]
            BY <4>2, <6>1
          <6>3. QED
            BY <3>1, <6>1, <6>2
        <5>3. QED
          BY <5>1, <5>2
      <4>4. QED
        BY <4>2, <4>3
    <3>5. QED
      BY <3>3, <3>4
  <2> HIDE DEF Typed
  <2>4. QED
    BY <1>1, <2>2, <2>3
<1> HIDE DEF G
<1>8. N \in G
  <2>1. \A k \in 0..N : k \in G
    BY <1>1, <1>6, <1>7, Reaches
  <2>2. QED
    BY <1>1, <2>1
<1>9. Room(N) = Fits(e, s)
  BY DEF Fits
<1>10. InsertAll(e, s) \in Editors /\ (e.idx = e.max => Typed(N))
  BY <1>2, <1>8 DEF G
<1> HIDE DEF N, Room
<1>11. QED
  BY <1>2, <1>9, <1>10

(***************************************************************************)
(* What every key leaves true of the row and the history.                  *)
(***************************************************************************)
EditInv ==
  /\ ed \in Editors
  /\ store \in [Cells -> Glyphs]
  /\ history \in [0..(HistoryMax - 1) -> Lines]
  /\ histIdx \in 0..(HistoryMax - 1) /\ arrowIdx \in 0..(HistoryMax - 1)

\* The remainder of a number below twice the divisor.
LEMMA Remainder ==
  ASSUME NEW b \in Nat \ {0}, NEW a \in 0..(2 * b - 1)
  PROVE  a % b = IF a < b THEN a ELSE a - b
OBVIOUS

LEMMA InitEdit == Init => EditInv
<1> SUFFICES ASSUME Init PROVE EditInv
  OBVIOUS
<1>1. /\ BufMax \in Nat /\ BufMax >= 2 /\ HistoryMax \in Nat /\ HistoryMax >= 2
  BY SizeAssumption
<1>2. ed \in Editors
  BY <1>1 DEF Init, Editors, Glyphs, Cells
<1>3. store \in [Cells -> Glyphs]
  BY DEF Init, Glyphs
<1>4. <<>> \in Lines
  BY <1>1 DEF Lines
<1>5. QED
  BY <1>1, <1>2, <1>3, <1>4 DEF Init, EditInv

\* The row as Enter hands it on: the line, then its newline.
LEMMA FullRow ==
  ASSUME ed \in Editors, NEW full, full = [ed.key EXCEPT ![ed.max] = Newline]
  PROVE  /\ full \in [Cells -> Glyphs]
         /\ full[BufMax] \in {Nul, Newline}
         /\ \A i \in 1..Len(Append(Text, Newline)) : full[i - 1] = Append(Text, Newline)[i]
         /\ Append(Text, Newline) \in Seq(Glyphs) /\ Len(Append(Text, Newline)) = ed.max + 1
<1>1. /\ BufMax \in Nat /\ BufMax >= 2
      /\ ed.max \in 0..BufMax /\ ed.key \in [Cells -> Glyphs]
      /\ \A k \in Cells : k > ed.max => ed.key[k] \in {Nul, Newline}
  BY SizeAssumption DEF Editors
<1>2. full \in [Cells -> Glyphs]
  BY <1>1 DEF Glyphs, Cells
<1>3. full[BufMax] \in {Nul, Newline}
  <2>1. BufMax \in Cells /\ ed.max \in Cells /\ (ed.max = BufMax \/ BufMax > ed.max)
    BY <1>1 DEF Cells
  <2>2. QED
    BY <1>1, <2>1
<1>4. /\ Text = TextOf(ed) /\ Text \in Seq(Chars) /\ Len(Text) = ed.max
      /\ \A i \in 1..ed.max : Text[i] = ed.key[i - 1]
  BY TextIs DEF Text, TextOf
<1> HIDE DEF Text
<1>5. /\ Append(Text, Newline) \in Seq(Glyphs) /\ Len(Append(Text, Newline)) = ed.max + 1
      /\ \A i \in 1..(ed.max + 1) :
           Append(Text, Newline)[i] = IF i <= ed.max THEN Text[i] ELSE Newline
  <2>1. Text \in Seq(Glyphs)
    BY <1>4, SeqMonotonic DEF Glyphs
  <2>2. Newline \in Glyphs
    BY DEF Glyphs
  <2>3. QED
    BY <1>1, <1>4, <2>1, <2>2
<1>6. ASSUME NEW i \in 1..(ed.max + 1) PROVE full[i - 1] = Append(Text, Newline)[i]
  <2>1. i - 1 \in Cells /\ (i - 1 = ed.max \/ i <= ed.max)
    BY <1>1 DEF Cells
  <2>2. CASE i - 1 = ed.max
    BY <1>1, <1>5, <2>1, <2>2
  <2>3. CASE i - 1 # ed.max
    BY <1>1, <1>4, <1>5, <2>1, <2>3
  <2>4. QED
    BY <2>2, <2>3
<1>7. QED
  BY <1>2, <1>3, <1>5, <1>6

\* A name of the directory, or what is left of it, is typed as it stands.
LEMMA NameTail ==
  ASSUME NEW i \in DOMAIN Files, NEW n \in Nat
  PROVE  SubSeq(Files[i], n + 1, Len(Files[i])) \in Seq(Chars)
<1>1. Files[i] \in Seq(Chars \ {Space})
  BY FilesAssumption
<1>2. Len(Files[i]) \in Nat /\ \A k \in (n + 1)..Len(Files[i]) : Files[i][k] \in Chars
  BY <1>1
<1>3. QED
  BY <1>2, SubSeqProperties

\* The word that Tab completes: what follows the line's last space.
TabFirst == Max({0} \cup {k \in 1..ed.max : ed.key[k - 1] = Space})
TabStop  == {k \in TabFirst..BufMax : ed.key[k] = Nul}
TabWord  == [i \in 1..(Min(TabStop) - TabFirst) |-> ed.key[TabFirst + i - 1]]

LEMMA TabWordIs ==
  ASSUME ed \in Editors
  PROVE  /\ TabFirst \in 0..ed.max /\ TabStop # {} /\ Min(TabStop) = ed.max
         /\ TabWord \in Seq(Chars) /\ Len(TabWord) = ed.max - TabFirst
         /\ \A i \in 1..(ed.max - TabFirst) : TabWord[i] = Text[TabFirst + i]
<1>1. /\ BufMax \in Nat /\ ed.max \in 0..BufMax /\ ed.key[ed.max] = Nul
      /\ \A k \in Cells : k < ed.max => ed.key[k] \in Chars
  BY SizeAssumption DEF Editors
<1>2. TabFirst \in 0..ed.max
  <2> DEFINE S == {0} \cup {k \in 1..ed.max : ed.key[k - 1] = Space}
  <2>1. S \in SUBSET (0..ed.max) /\ S # {} /\ ed.max \in Nat
    BY <1>1
  <2> HIDE DEF S
  <2>2. Max(S) \in S
    BY <2>1, MaxIsGreatest
  <2>3. QED
    BY <2>1, <2>2 DEF TabFirst, S
<1> HIDE DEF TabFirst
<1>3. TabStop \in SUBSET Nat /\ ed.max \in TabStop
  BY <1>1, <1>2 DEF TabStop
<1>4. Min(TabStop) \in TabStop /\ Min(TabStop) <= ed.max
  BY <1>3, MinIsLeast
<1>5. Min(TabStop) = ed.max
  <2>1. /\ Min(TabStop) \in Cells /\ Min(TabStop) \in Nat
        /\ ed.key[Min(TabStop)] = Nul
    BY <1>1, <1>2, <1>4 DEF TabStop, Cells
  <2>2. ~(Min(TabStop) < ed.max)
    BY <1>1, <2>1, CharsAssumption
  <2>3. QED
    BY <1>1, <1>4, <2>1, <2>2
<1>6. \A i \in 1..(ed.max - TabFirst) :
        /\ TabFirst + i \in 1..ed.max /\ TabFirst + i - 1 \in Cells /\ TabFirst + i - 1 < ed.max
  BY <1>1, <1>2 DEF Cells
<1>7. TabWord = [i \in 1..(ed.max - TabFirst) |-> ed.key[TabFirst + i - 1]]
  BY <1>5 DEF TabWord
<1> HIDE DEF TabWord, TabStop
<1>8. \A i \in 1..(ed.max - TabFirst) :
        /\ TabWord[i] \in Chars /\ TabWord[i] = Text[TabFirst + i]
  <2> SUFFICES ASSUME NEW i \in 1..(ed.max - TabFirst)
               PROVE  TabWord[i] \in Chars /\ TabWord[i] = Text[TabFirst + i]
    OBVIOUS
  <2>1. TabWord[i] = ed.key[TabFirst + i - 1]
    BY <1>7
  <2>2. Text[TabFirst + i] = ed.key[TabFirst + i - 1]
    <3>1. TabFirst + i \in 1..ed.max
      BY <1>6
    <3>2. \A j \in 1..ed.max : Text[j] = ed.key[j - 1]
      BY DEF Text
    <3>3. TabFirst \in Int /\ i \in Int
      BY <1>1, <1>2
    <3>4. (TabFirst + i) - 1 = TabFirst + (i - 1)
      BY <3>3
    <3>5. QED
      BY <3>1, <3>2, <3>4
  <2>3. ed.key[TabFirst + i - 1] \in Chars
    BY <1>1, <1>6
  <2>4. QED
    BY <2>1, <2>2, <2>3
<1>9. ed.max - TabFirst \in Nat
  BY <1>1, <1>2
<1>10. TabWord \in Seq(Chars) /\ Len(TabWord) = ed.max - TabFirst
  <2> DEFINE N == ed.max - TabFirst
             w == [i \in 1..N |-> TabWord[i]]
  <2>1. TabWord = w /\ \A i \in 1..N : TabWord[i] \in Chars
    BY <1>7, <1>8
  <2>2. N \in Nat
    BY <1>9
  <2> HIDE DEF N
  <2>3. w \in Seq(Chars) /\ Len(w) = N
    BY <2>1, <2>2
  <2>4. QED
    BY <2>1, <2>3 DEF N
<1>11. QED
  BY <1>2, <1>3, <1>5, <1>8, <1>10

LEMMA NextEdit == EditInv /\ [Next]_vars => EditInv'
<1> SUFFICES ASSUME EditInv, [Next]_vars PROVE EditInv'
  OBVIOUS
<1>1. /\ BufMax \in Nat /\ BufMax >= 2 /\ HistoryMax \in Nat /\ HistoryMax >= 2
  BY SizeAssumption
<1>2. ed.idx \in 0..BufMax /\ ed.max \in 0..BufMax /\ ed.idx <= ed.max
  BY DEF EditInv, Editors
<1>3. ASSUME NEW c \in Chars, Char(c) PROVE EditInv'
  BY <1>3, InsertType DEF Char, EditInv
<1>4. CASE Backspace
  BY <1>4, EraseType DEF Backspace, EditInv
<1>5. CASE BufMove
  <2>1. ed' \in Editors
    <3>1. \E n \in 0..ed.max : ed' = [ed EXCEPT !.idx = n]
      BY <1>2, <1>5 DEF BufMove
    <3>2. PICK n \in 0..ed.max : ed' = [ed EXCEPT !.idx = n]
      BY <3>1
    <3>3. ed \in [idx : 0..BufMax, max : 0..BufMax, key : [Cells -> Glyphs]]
      BY DEF EditInv, Editors
    <3>4. /\ ed' \in [idx : 0..BufMax, max : 0..BufMax, key : [Cells -> Glyphs]]
          /\ ed'.idx <= ed'.max /\ ed'.max = ed.max /\ ed'.key = ed.key
      BY <1>1, <1>2, <3>2, <3>3
    <3>5. QED
      BY <3>4 DEF EditInv, Editors
  <2>2. QED
    BY <1>5, <2>1 DEF BufMove, EditInv
<1>6. CASE Clear
  <2>1. ed.key \in [Cells -> Glyphs] /\ ed.key[BufMax] \in {Nul, Newline}
    <3>1. BufMax \in Cells /\ (BufMax = ed.max \/ BufMax > ed.max)
      BY <1>1, <1>2 DEF Cells
    <3>2. QED
      BY <3>1 DEF EditInv, Editors
  <2>2. QED
    BY <1>6, <2>1, ClearedIs DEF Clear, EditInv
<1>7. CASE TabComp
  <2>1. PICK i \in DOMAIN Files, n \in Nat :
           ed' = InsertAll(ed, SubSeq(Files[i], n + 1, Len(Files[i])))
    <3> DEFINE hits == {k \in DOMAIN Files : IsPrefix(TabWord, Files[k])}
    <3>1. /\ hits # {}
          /\ ed' = InsertAll(ed, SubSeq(Files[Min(hits)], Len(TabWord) + 1, Len(Files[Min(hits)])))
      BY <1>7, Zenon DEF TabComp, TabFirst, TabStop, TabWord
    <3>2. hits \in SUBSET Nat
      <4>1. DOMAIN Files \subseteq Nat
        BY FilesAssumption
      <4>2. QED
        BY <4>1
    <3>3. Min(hits) \in hits
      BY <3>1, <3>2, MinIsLeast
    <3>4. Len(TabWord) \in Nat
      BY <1>2, TabWordIs DEF EditInv
    <3>5. QED
      BY <3>1, <3>3, <3>4
  <2>2. SubSeq(Files[i], n + 1, Len(Files[i])) \in Seq(Chars)
    BY NameTail
  <2>3. ed' \in Editors
    BY <2>1, <2>2, InsertAllIs DEF EditInv
  <2>4. QED
    BY <1>7, <2>3 DEF TabComp, EditInv
<1>8. CASE Enter
  <2> DEFINE full == [ed.key EXCEPT ![ed.max] = Newline]
             next == (histIdx + 1) % HistoryMax
  <2>1. full \in [Cells -> Glyphs] /\ full[BufMax] \in {Nul, Newline}
    BY FullRow DEF EditInv
  <2>2. ed' = Cleared([ed EXCEPT !.key = full])
    BY <1>8 DEF Enter
  <2>3. ed' \in Editors
    <3> DEFINE e == [ed EXCEPT !.key = full]
    <3>1. e.key = full
      BY DEF EditInv, Editors
    <3> HIDE DEF e, full
    <3>2. Cleared(e) \in Editors
      BY <2>1, <3>1, ClearedIs
    <3>3. QED
      BY <2>2, <3>2 DEF e
  <2>4. store' \in [Cells -> Glyphs]
    BY <1>8, <2>1 DEF Enter, EditInv
  <2>5. Text \in Lines /\ <<>> \in Lines
    <3>1. Text = TextOf(ed)
      BY DEF Text, TextOf
    <3>2. TextOf(ed) \in Lines
      BY TextIs DEF EditInv
    <3>3. <<>> \in Lines
      BY <1>1 DEF Lines
    <3>4. QED
      BY <3>1, <3>2, <3>3
  <2>6. next \in 0..(HistoryMax - 1)
    BY <1>1 DEF EditInv
  <2>7. \/ UNCHANGED <<history, histIdx, arrowIdx>>
        \/ /\ history' = [history EXCEPT ![histIdx] = Text, ![next] = <<>>]
           /\ histIdx' = next /\ arrowIdx' = next
    BY <1>8 DEF Enter
  <2>8. history' \in [0..(HistoryMax - 1) -> Lines]
    BY <2>5, <2>7 DEF EditInv
  <2> HIDE DEF next
  <2>9. QED
    BY <2>3, <2>4, <2>6, <2>7, <2>8 DEF EditInv
<1>9. ASSUME NEW i \in 0..(HistoryMax - 1), Recall(i) PROVE ed' \in Editors
  <2>1. EraseAll(ed) \in Editors /\ history[i] \in Seq(Chars)
    BY EraseAllIs DEF EditInv, Lines
  <2>2. QED
    BY <1>9, <2>1, InsertAllIs DEF Recall
<1>10. Before(arrowIdx) \in 0..(HistoryMax - 1) /\ After(arrowIdx) \in 0..(HistoryMax - 1)
  BY <1>1 DEF Before, After, EditInv
<1>11. CASE HistUp
  BY <1>9, <1>10, <1>11 DEF HistUp, EditInv
<1>12. CASE HistDown
  <2>1. ed' \in Editors
    BY <1>9, <1>10, <1>12, EraseAllIs DEF HistDown, EditInv
  <2>2. arrowIdx' \in 0..(HistoryMax - 1)
    BY <1>10, <1>12 DEF HistDown, EditInv
  <2>3. QED
    BY <1>12, <2>1, <2>2 DEF HistDown, EditInv
<1>13. CASE ReadBegin \/ ReadWake \/ ReadCopy \/ ReadReturn
  BY <1>13 DEF ReadBegin, ReadWake, ReadCopy, ReadReturn, editVars, EditInv
<1>14. CASE UNCHANGED vars
  BY <1>14 DEF vars, editVars, EditInv
<1>15. QED
  BY <1>3, <1>4, <1>5, <1>6, <1>7, <1>8, <1>11, <1>12, <1>13, <1>14 DEF Next, Key

LEMMA EditInvariance == Spec => []EditInv
BY InitEdit, NextEdit, PTL DEF Spec

(***************************************************************************)
(* The reader: from its wake-up to its return nothing but the keys that    *)
(* LineDelivered's hypothesis leaves out touches the line stored for it.   *)
(***************************************************************************)
ReadInv ==
  /\ pc \in {"user", "wait", "copy", "return"}
  /\ typed \in Seq(Glyphs)
  /\ InRead => /\ enterFlag = Len(typed)
               /\ \A i \in 1..Len(typed) : i <= BufMax => store[i - 1] = typed[i]
  /\ pc = "return" => copied = [i \in 1..enterFlag |-> store[i - 1]]

LEMMA InitRead == Init => ReadInv
BY DEF Init, ReadInv, InRead

\* The line is stored whole, but for the newline that a full row has no cell for.
LEMMA EnterRead ==
  ASSUME EditInv, ReadInv, Enter, "enter_in_read" \notin Exposed
  PROVE  ReadInv'
<1> DEFINE full == [ed.key EXCEPT ![ed.max] = Newline]
           line == Append(Text, Newline)
<1>1. /\ full \in [Cells -> Glyphs]
      /\ line \in Seq(Glyphs) /\ Len(line) = ed.max + 1
      /\ \A i \in 1..Len(line) : full[i - 1] = line[i]
  BY FullRow DEF EditInv
<1>2. BufMax \in Nat /\ ed.max \in Nat
  BY SizeAssumption DEF EditInv, Editors
<1>3. /\ ~InRead /\ UNCHANGED readVars /\ enterFlag' = ed.max + 1
      /\ store' = [k \in Cells |-> IF k < BufMax THEN full[k] ELSE store[k]]
      /\ typed' = IF pc = "wait" /\ ~InRead THEN line ELSE typed
  BY DEF Enter
<1> HIDE DEF full, line
<1>4. pc' = pc /\ copied' = copied /\ pc \in {"user", "wait"}
  BY <1>3 DEF readVars, ReadInv, InRead
<1>5. CASE pc = "user"
  BY <1>3, <1>4, <1>5 DEF ReadInv, InRead
<1>6. CASE pc = "wait"
  <2>1. typed' = line
    BY <1>3, <1>6
  <2>2. ASSUME NEW i \in 1..Len(typed'), i <= BufMax PROVE store'[i - 1] = typed'[i]
    <3>1. i - 1 \in Cells /\ i - 1 < BufMax
      BY <1>1, <1>2, <2>1, <2>2 DEF Cells
    <3>2. store'[i - 1] = full[i - 1]
      BY <1>3, <3>1
    <3>3. QED
      BY <1>1, <2>1, <3>2
  <2>3. QED
    BY <1>1, <1>3, <1>4, <1>6, <2>1, <2>2 DEF ReadInv
<1>7. QED
  BY <1>4, <1>5, <1>6

LEMMA NextRead ==
  ASSUME "enter_in_read" \notin Exposed
  PROVE  EditInv /\ ReadInv /\ [Next]_vars => ReadInv'
<1> SUFFICES ASSUME EditInv, ReadInv, [Next]_vars PROVE ReadInv'
  OBVIOUS
<1>1. CASE UNCHANGED <<store, enterFlag, pc, copied, typed>>
  BY <1>1 DEF ReadInv, InRead
<1>2. CASE Enter
  BY <1>2, EnterRead
<1>3. CASE ReadBegin
  BY <1>3 DEF ReadBegin, ReadInv, InRead
<1>4. CASE ReadWake
  BY <1>4 DEF ReadWake, ReadInv, InRead
<1>5. CASE ReadCopy
  BY <1>5 DEF ReadCopy, ReadInv, InRead
<1>6. CASE ReadReturn
  BY <1>6 DEF ReadReturn, ReadInv, InRead
<1>7. (\E c \in Chars : Char(c)) \/ Backspace \/ BufMove \/ Clear \/ TabComp \/ HistUp \/ HistDown
        => UNCHANGED <<store, enterFlag, pc, copied, typed>>
  BY DEF Char, Backspace, BufMove, Clear, TabComp, HistUp, HistDown, readVars
<1>8. UNCHANGED vars => UNCHANGED <<store, enterFlag, pc, copied, typed>>
  BY DEF vars, readVars
<1>9. QED
  BY <1>1, <1>2, <1>3, <1>4, <1>5, <1>6, <1>7, <1>8 DEF Next, Key

\* The line a process reads is the line the user entered while it waited, with
\* its newline and its length, as long as the user enters no other before the
\* read returns (terminal_read reads enter_flag and store_buf in three steps
\* that the keyboard can come between).
THEOREM LineDeliveredCorrect ==
  ASSUME "enter_in_read" \notin Exposed
  PROVE  Spec => LineDelivered
<1> DEFINE Whole == pc = "return" /\ pc' = "user" /\ Len(typed) <= BufMax =>
                      copied = typed /\ enterFlag = Len(typed)
<1>1. ReadInv => Whole
  <2> SUFFICES ASSUME ReadInv, pc = "return", Len(typed) <= BufMax
               PROVE  copied = typed /\ enterFlag = Len(typed)
    OBVIOUS
  <2>1. InRead
    BY DEF InRead
  <2>2. /\ enterFlag = Len(typed) /\ Len(typed) \in Nat
        /\ copied = [i \in 1..Len(typed) |-> store[i - 1]]
        /\ typed = [i \in 1..Len(typed) |-> typed[i]]
    BY <2>1 DEF ReadInv
  <2>3. \A i \in 1..Len(typed) : store[i - 1] = typed[i]
    BY <2>1, <2>2, SizeAssumption DEF ReadInv
  <2>4. QED
    BY <2>2, <2>3
<1> HIDE DEF Whole
<1>2. EditInv /\ ReadInv /\ [Next]_vars => ReadInv'
  BY NextRead
<1>3. Spec => [][Whole]_vars
  BY InitRead, <1>1, <1>2, EditInvariance, PTL DEF Spec
<1>4. QED
  BY <1>3 DEF LineDelivered, Whole

(***************************************************************************)
(* The line as LineEditor sees it.                                         *)
(***************************************************************************)
\* What LineEditor's InsertAt and RemoveAt do to a sequence.
LEMMA InsertAtIs ==
  ASSUME NEW S, NEW s \in Seq(S), NEW i \in 1..(Len(s) + 1), NEW c \in S
  PROVE  /\ InsertAt(s, i, c) \in Seq(S)
         /\ Len(InsertAt(s, i, c)) = Len(s) + 1
         /\ \A j \in 1..(Len(s) + 1) :
              InsertAt(s, i, c)[j] = IF j < i THEN s[j] ELSE IF j = i THEN c ELSE s[j - 1]
<1> DEFINE a == SubSeq(s, 1, i - 1)
           b == SubSeq(s, i, Len(s))
<1>1. /\ a \in Seq(S) /\ Len(a) = i - 1 /\ \A j \in 1..(i - 1) : a[j] = s[j]
      /\ b \in Seq(S) /\ Len(b) = Len(s) - i + 1
      /\ \A j \in 1..(Len(s) - i + 1) : b[j] = s[i + j - 1]
  BY SubSeqProperties
<1>2. <<c>> \in Seq(S) /\ Len(<<c>>) = 1 /\ <<c>>[1] = c
  OBVIOUS
<1> HIDE DEF a, b
<1> DEFINE l == a \o <<c>>
<1>3. /\ l \in Seq(S) /\ Len(l) = i
      /\ \A j \in 1..i : l[j] = IF j < i THEN s[j] ELSE c
  BY <1>1, <1>2, ConcatProperties
<1> HIDE DEF l
<1>4. /\ l \o b \in Seq(S) /\ Len(l \o b) = Len(s) + 1
      /\ \A j \in 1..(Len(s) + 1) : (l \o b)[j] = IF j <= i THEN l[j] ELSE b[j - i]
  <2>1. Len(l) + Len(b) = Len(s) + 1
    BY <1>1, <1>3
  <2>2. /\ l \o b \in Seq(S) /\ Len(l \o b) = Len(l) + Len(b)
        /\ \A j \in 1..(Len(l) + Len(b)) :
             (l \o b)[j] = IF j <= Len(l) THEN l[j] ELSE b[j - Len(l)]
    BY <1>1, <1>3, ConcatProperties
  <2>3. QED
    BY <1>3, <2>1, <2>2
<1>5. InsertAt(s, i, c) = l \o b
  BY DEF InsertAt, a, b, l
<1>6. QED
  BY <1>1, <1>3, <1>4, <1>5

LEMMA RemoveAtIs ==
  ASSUME NEW S, NEW s \in Seq(S), NEW i \in 1..Len(s)
  PROVE  /\ RemoveAt(s, i) \in Seq(S)
         /\ Len(RemoveAt(s, i)) = Len(s) - 1
         /\ \A j \in 1..(Len(s) - 1) :
              RemoveAt(s, i)[j] = IF j < i THEN s[j] ELSE s[j + 1]
<1> DEFINE a == SubSeq(s, 1, i - 1)
           b == SubSeq(s, i + 1, Len(s))
<1>1. /\ a \in Seq(S) /\ Len(a) = i - 1 /\ \A j \in 1..(i - 1) : a[j] = s[j]
      /\ b \in Seq(S) /\ Len(b) = Len(s) - i
      /\ \A j \in 1..(Len(s) - i) : b[j] = s[i + j]
  BY SubSeqProperties
<1> HIDE DEF a, b
<1>2. /\ a \o b \in Seq(S) /\ Len(a \o b) = Len(s) - 1
      /\ \A j \in 1..(Len(s) - 1) : (a \o b)[j] = IF j < i THEN a[j] ELSE b[j - (i - 1)]
  <2>1. Len(a) + Len(b) = Len(s) - 1
    BY <1>1
  <2>2. /\ a \o b \in Seq(S) /\ Len(a \o b) = Len(a) + Len(b)
        /\ \A j \in 1..(Len(a) + Len(b)) :
             (a \o b)[j] = IF j <= Len(a) THEN a[j] ELSE b[j - Len(a)]
    BY <1>1, ConcatProperties
  <2>3. QED
    BY <1>1, <2>1, <2>2
<1>3. RemoveAt(s, i) = a \o b
  BY DEF RemoveAt, a, b
<1>4. QED
  BY <1>1, <1>2, <1>3

\* A character goes where the cursor is, a backspace takes what is before it.
LEMMA InsertText ==
  ASSUME NEW e \in Editors, NEW c \in Chars, e.max < BufMax
  PROVE  TextOf(Insert(e, c)) = InsertAt(TextOf(e), e.idx + 1, c)
<1> DEFINE n == Insert(e, c)
           t == InsertAt(TextOf(e), e.idx + 1, c)
<1>1. /\ e.max \in Nat /\ e.idx \in Nat /\ e.idx <= e.max
  BY SizeAssumption DEF Editors
<1>2. /\ TextOf(e) \in Seq(Chars) /\ Len(TextOf(e)) = e.max
      /\ \A i \in 1..e.max : TextOf(e)[i] = e.key[i - 1]
  BY TextIs
<1>3. /\ t \in Seq(Chars) /\ Len(t) = e.max + 1
      /\ \A j \in 1..(e.max + 1) :
           t[j] = IF j < e.idx + 1 THEN TextOf(e)[j]
                  ELSE IF j = e.idx + 1 THEN c ELSE TextOf(e)[j - 1]
  <2> DEFINE s == TextOf(e)
             i == e.idx + 1
  <2>1. s \in Seq(Chars) /\ i \in 1..(Len(s) + 1) /\ Len(s) = e.max
    BY <1>1, <1>2
  <2> HIDE DEF s, i
  <2>2. /\ InsertAt(s, i, c) \in Seq(Chars) /\ Len(InsertAt(s, i, c)) = Len(s) + 1
        /\ \A j \in 1..(Len(s) + 1) :
             InsertAt(s, i, c)[j] = IF j < i THEN s[j] ELSE IF j = i THEN c ELSE s[j - 1]
    BY <2>1, InsertAtIs
  <2>3. t = InsertAt(s, i, c)
    BY DEF s, i
  <2> HIDE DEF t
  <2>4. /\ t \in Seq(Chars) /\ Len(t) = e.max + 1
        /\ \A j \in 1..(e.max + 1) :
             t[j] = IF j < i THEN s[j] ELSE IF j = i THEN c ELSE s[j - 1]
    BY <2>1, <2>2, <2>3
  <2>5. QED
    BY <2>4 DEF s, i
<1>4. /\ n \in Editors /\ n.max = e.max + 1
      /\ \A k \in 0..e.max : n.key[k] =
           IF k < e.idx THEN e.key[k] ELSE IF k = e.idx THEN c ELSE e.key[k - 1]
  BY InsertIs
<1> HIDE DEF n, t
<1>5. ASSUME NEW i \in 1..(e.max + 1) PROVE n.key[i - 1] = t[i]
  <2>1. i - 1 \in 0..e.max
    BY <1>1
  <2>2. CASE i < e.idx + 1
    BY <1>1, <1>2, <1>3, <1>4, <2>1, <2>2
  <2>3. CASE i = e.idx + 1
    BY <1>1, <1>3, <1>4, <2>1, <2>3
  <2>4. CASE i > e.idx + 1
    <3>1. i - 1 \in 1..e.max /\ ~(i - 1 < e.idx) /\ i - 1 # e.idx
      BY <1>1, <2>4
    <3>2. n.key[i - 1] = e.key[(i - 1) - 1]
      BY <1>4, <2>1, <3>1
    <3>3. t[i] = TextOf(e)[i - 1]
      BY <1>1, <1>3, <2>4
    <3>4. QED
      BY <1>2, <3>1, <3>2, <3>3
  <2>5. QED
    BY <1>1, <2>2, <2>3, <2>4
<1>6. TextOf(n) = t
  BY <1>3, <1>4, <1>5, TextEqual
<1>7. QED
  BY <1>6 DEF n, t

LEMMA EraseText ==
  ASSUME NEW e \in Editors, e.idx # 0
  PROVE  TextOf(Erase(e)) = RemoveAt(TextOf(e), e.idx)
<1> DEFINE n == Erase(e)
           t == RemoveAt(TextOf(e), e.idx)
<1>1. e.max \in Nat /\ e.idx \in 1..e.max
  BY SizeAssumption DEF Editors
<1>2. /\ TextOf(e) \in Seq(Chars) /\ Len(TextOf(e)) = e.max
      /\ \A i \in 1..e.max : TextOf(e)[i] = e.key[i - 1]
  BY TextIs
<1>3. /\ t \in Seq(Chars) /\ Len(t) = e.max - 1
      /\ \A j \in 1..(e.max - 1) : t[j] = IF j < e.idx THEN TextOf(e)[j] ELSE TextOf(e)[j + 1]
  <2> DEFINE s == TextOf(e)
             i == e.idx
  <2>1. s \in Seq(Chars) /\ i \in 1..Len(s) /\ Len(s) = e.max
    BY <1>1, <1>2
  <2> HIDE DEF s, i
  <2>2. /\ RemoveAt(s, i) \in Seq(Chars) /\ Len(RemoveAt(s, i)) = Len(s) - 1
        /\ \A j \in 1..(Len(s) - 1) : RemoveAt(s, i)[j] = IF j < i THEN s[j] ELSE s[j + 1]
    BY <2>1, RemoveAtIs
  <2>3. t = RemoveAt(s, i)
    BY DEF s, i
  <2> HIDE DEF t
  <2>4. /\ t \in Seq(Chars) /\ Len(t) = e.max - 1
        /\ \A j \in 1..(e.max - 1) : t[j] = IF j < i THEN s[j] ELSE s[j + 1]
    BY <2>1, <2>2, <2>3
  <2>5. QED
    BY <2>4 DEF s, i
<1>4. /\ n \in Editors /\ n.max = e.max - 1
      /\ \A k \in 0..(e.max - 2) : n.key[k] = IF k < e.idx - 1 THEN e.key[k] ELSE e.key[k + 1]
  BY EraseIs
<1> HIDE DEF n, t
<1>5. ASSUME NEW i \in 1..(e.max - 1) PROVE n.key[i - 1] = t[i]
  <2>1. i - 1 \in 0..(e.max - 2)
    BY <1>1
  <2>2. CASE i < e.idx
    BY <1>1, <1>2, <1>3, <1>4, <2>1, <2>2
  <2>3. CASE ~(i < e.idx)
    <3>1. ~(i - 1 < e.idx - 1) /\ i + 1 \in 1..e.max /\ (i - 1) + 1 = (i + 1) - 1
      BY <1>1, <2>3
    <3>2. n.key[i - 1] = e.key[(i - 1) + 1]
      BY <1>4, <2>1, <3>1
    <3>3. t[i] = TextOf(e)[i + 1]
      BY <1>3, <2>3
    <3>4. QED
      BY <1>2, <3>1, <3>2, <3>3
  <2>4. QED
    BY <2>2, <2>3
<1>6. TextOf(n) = t
  BY <1>3, <1>4, <1>5, TextEqual
<1>7. QED
  BY <1>6 DEF n, t

\* Typing a row of the history on a line that backspaces have emptied.
LEMMA RecallText ==
  ASSUME NEW e \in Editors, e.idx = e.max, NEW s \in Lines
  PROVE  /\ TextOf(InsertAll(EraseAll(e), s)) = s
         /\ InsertAll(EraseAll(e), s).idx = Len(s)
<1> DEFINE z == EraseAll(e)
           n == InsertAll(z, s)
<1>1. z \in Editors /\ z.max = 0 /\ z.idx = z.max
  BY EraseAllIs
<1>2. s \in Seq(Chars) /\ Len(s) \in Nat /\ Len(s) <= BufMax /\ BufMax \in Nat
  BY SizeAssumption DEF Lines
<1>3. Fits(z, s) = Len(s)
  BY <1>1, <1>2 DEF Fits
<1> HIDE DEF z
<1>4. /\ n \in Editors /\ n.idx = Len(s) /\ n.max = Len(s)
      /\ \A i \in 1..Len(s) : n.key[i - 1] = IF i <= z.max THEN z.key[i - 1] ELSE s[i - z.max]
  BY <1>1, <1>2, <1>3, InsertAllIs
<1> HIDE DEF n
<1>5. \A i \in 1..Len(s) : n.key[i - 1] = s[i]
  BY <1>1, <1>2, <1>4
<1>6. TextOf(n) = s
  BY <1>2, <1>4, <1>5, TextEqual
<1>7. QED
  BY <1>4, <1>6 DEF n, z

(***************************************************************************)
(* The ring of histories.  Row Back(k) is k rows before the one that the   *)
(* next line goes to; the newest n are in use, and the arrows are at one   *)
(* of them or at the line that is being typed.                             *)
(***************************************************************************)
Back(k) == (histIdx + HistoryMax - k) % HistoryMax
At == (histIdx + HistoryMax - arrowIdx) % HistoryMax

Ring(n) == /\ \A k \in 1..n : ~IsEmpty(Back(k))
           /\ \A k \in (n + 1)..HistoryMax : IsEmpty(Back(k))

RingInv == \E n \in 0..(HistoryMax - 1) : Ring(n) /\ At <= n

\* Back without a remainder.
LEMMA Wraps ==
  ASSUME NEW M \in Nat, M >= 2, NEW h \in 0..(M - 1), NEW k \in 0..M
  PROVE  (h + M - k) % M = IF k <= h THEN h - k ELSE h + M - k
<1> DEFINE a == h + M - k
<1>1. a \in 0..(2 * M - 1) /\ M \in Nat \ {0}
  OBVIOUS
<1> HIDE DEF a
<1>2. a % M = IF a < M THEN a ELSE a - M
  BY <1>1, Remainder
<1>3. QED
  BY <1>2 DEF a

LEMMA BackIs ==
  ASSUME EditInv, NEW k \in 0..HistoryMax
  PROVE  /\ Back(k) = IF k <= histIdx THEN histIdx - k ELSE histIdx + HistoryMax - k
         /\ Back(k) \in 0..(HistoryMax - 1)
<1>1. HistoryMax \in Nat /\ HistoryMax >= 2 /\ histIdx \in 0..(HistoryMax - 1)
  BY SizeAssumption DEF EditInv
<1>2. Back(k) = IF k <= histIdx THEN histIdx - k ELSE histIdx + HistoryMax - k
  BY <1>1, Wraps DEF Back
<1>3. QED
  BY <1>1, <1>2

\* No two of them are one row.
LEMMA BackApart ==
  ASSUME EditInv, NEW j \in 0..(HistoryMax - 1), NEW k \in 0..(HistoryMax - 1), j # k
  PROVE  Back(j) # Back(k)
<1>1. HistoryMax \in Nat /\ HistoryMax >= 2 /\ histIdx \in 0..(HistoryMax - 1)
  BY SizeAssumption DEF EditInv
<1>2. /\ Back(j) = IF j <= histIdx THEN histIdx - j ELSE histIdx + HistoryMax - j
      /\ Back(k) = IF k <= histIdx THEN histIdx - k ELSE histIdx + HistoryMax - k
  BY <1>1, BackIs
<1>3. QED
  BY <1>1, <1>2

\* The row the arrows are at, the one above it and the one below.
LEMMA AtIs ==
  ASSUME EditInv
  PROVE  /\ At \in 0..(HistoryMax - 1) /\ Back(At) = arrowIdx
         /\ (At = 0) <=> (arrowIdx = histIdx)
         /\ Before(arrowIdx) = Back(At + 1)
         /\ At # 0 => After(arrowIdx) = Back(At - 1)
<1>1. /\ HistoryMax \in Nat /\ HistoryMax >= 2
      /\ histIdx \in 0..(HistoryMax - 1) /\ arrowIdx \in 0..(HistoryMax - 1)
  BY SizeAssumption DEF EditInv
<1>2. At = IF arrowIdx <= histIdx THEN histIdx - arrowIdx ELSE histIdx + HistoryMax - arrowIdx
  BY <1>1, Wraps DEF At
<1>3. At \in 0..(HistoryMax - 1) /\ ((At = 0) <=> (arrowIdx = histIdx))
  BY <1>1, <1>2
<1>4. Before(arrowIdx) = IF arrowIdx = 0 THEN HistoryMax - 1 ELSE arrowIdx - 1
  <2> DEFINE a == arrowIdx + HistoryMax - 1
  <2>1. a \in 0..(2 * HistoryMax - 1) /\ HistoryMax \in Nat \ {0}
    BY <1>1
  <2> HIDE DEF a
  <2>2. a % HistoryMax = IF a < HistoryMax THEN a ELSE a - HistoryMax
    BY <2>1, Remainder
  <2>3. QED
    BY <1>1, <2>2 DEF Before, a
<1>5. After(arrowIdx) = IF arrowIdx = HistoryMax - 1 THEN 0 ELSE arrowIdx + 1
  <2> DEFINE a == arrowIdx + 1
  <2>1. a \in 0..(2 * HistoryMax - 1) /\ HistoryMax \in Nat \ {0}
    BY <1>1
  <2> HIDE DEF a
  <2>2. a % HistoryMax = IF a < HistoryMax THEN a ELSE a - HistoryMax
    BY <2>1, Remainder
  <2>3. QED
    BY <1>1, <2>2 DEF After, a
<1> HIDE DEF At
<1>6. Back(At) = arrowIdx
  <2>1. Back(At) = IF At <= histIdx THEN histIdx - At ELSE histIdx + HistoryMax - At
    BY <1>1, <1>3, BackIs
  <2>2. QED
    BY <1>1, <1>2, <2>1
<1>7. Before(arrowIdx) = Back(At + 1)
  <2>1. Back(At + 1) = IF At + 1 <= histIdx THEN histIdx - (At + 1)
                       ELSE histIdx + HistoryMax - (At + 1)
    BY <1>1, <1>3, BackIs
  <2>2. QED
    BY <1>1, <1>2, <1>4, <2>1
<1>8. ASSUME At # 0 PROVE After(arrowIdx) = Back(At - 1)
  <2>1. Back(At - 1) = IF At - 1 <= histIdx THEN histIdx - (At - 1)
                       ELSE histIdx + HistoryMax - (At - 1)
    BY <1>1, <1>3, <1>8, BackIs
  <2>2. QED
    BY <1>1, <1>2, <1>5, <1>8, <2>1
<1>9. QED
  BY <1>3, <1>6, <1>7, <1>8

\* What the rows in use hold, oldest first, is what LineEditor remembers.
LEMMA PastIs ==
  ASSUME EditInv, NEW n \in 0..(HistoryMax - 1), Ring(n)
  PROVE  /\ Past \in Seq(Lines) /\ Len(Past) = n
         /\ \A j \in 1..n : Past[j] = history[Back(n + 1 - j)]
<1> DEFINE used == {k \in 1..(HistoryMax - 1) : ~IsEmpty(Back(k))}
<1>1. HistoryMax \in Nat /\ HistoryMax >= 2 /\ n \in Nat /\ n <= HistoryMax - 1
  BY SizeAssumption
<1>2. used = 1..n
  <2>1. \A k \in 1..(HistoryMax - 1) : k \in 1..n \/ k \in (n + 1)..HistoryMax
    BY <1>1
  <2>2. 1..n \subseteq 1..(HistoryMax - 1)
    BY <1>1
  <2>3. QED
    BY <2>1, <2>2 DEF Ring
<1>3. Cardinality(used) = n
  <2>1. Cardinality(1..n) = IF 1 > n THEN 0 ELSE n - 1 + 1
    BY <1>1, FS_Interval
  <2> HIDE DEF used
  <2>2. QED
    BY <1>1, <1>2, <2>1
<1>4. Past = [j \in 1..n |-> history[Back(n + 1 - j)]]
  BY <1>3, Zenon DEF Past, Back
<1>5. \A j \in 1..n : history[Back(n + 1 - j)] \in Lines
  <2> SUFFICES ASSUME NEW j \in 1..n PROVE history[Back(n + 1 - j)] \in Lines
    OBVIOUS
  <2>1. n + 1 - j \in 0..HistoryMax
    BY <1>1
  <2>2. Back(n + 1 - j) \in 0..(HistoryMax - 1)
    BY <2>1, BackIs
  <2>3. QED
    BY <2>2 DEF EditInv
<1>6. QED
  BY <1>1, <1>4, <1>5

\* And of the next state.
Remembers(n) == /\ Past \in Seq(Lines) /\ Len(Past) = n
                /\ \A j \in 1..n : Past[j] = history[Back(n + 1 - j)]

LEMMA RingRemembers ==
  EditInv => \A n \in 0..(HistoryMax - 1) : Ring(n) => Remembers(n)
BY PastIs DEF Remembers

LEMMA RingRemembersNext ==
  EditInv' => \A n \in 0..(HistoryMax - 1) : Ring(n)' => Remembers(n)'
<1>1. (EditInv => \A n \in 0..(HistoryMax - 1) : Ring(n) => Remembers(n))'
  BY RingRemembers, PTL
<1>2. QED
  BY <1>1

LEMMA InitRing == Init => RingInv /\ E!Init
<1> SUFFICES ASSUME Init PROVE RingInv /\ E!Init
  OBVIOUS
<1>1. HistoryMax \in Nat /\ HistoryMax >= 2 /\ EditInv
  BY SizeAssumption, InitEdit
<1>2. At = 0 /\ \A k \in 0..HistoryMax : Back(k) \in 0..(HistoryMax - 1)
  BY <1>1, AtIs, BackIs DEF Init
<1>3. Ring(0)
  BY <1>1, <1>2 DEF Init, Ring, IsEmpty
<1>4. RingInv
  BY <1>1, <1>2, <1>3 DEF RingInv
<1>5. Len(Past) = 0 /\ Past \in Seq(Lines)
  BY <1>1, <1>3, PastIs
<1>6. Past = <<>>
  BY <1>5
<1>7. Text = <<>> /\ ed.idx = 0
  <2>1. Text = [i \in 1..0 |-> ed.key[i - 1]]
    BY DEF Init, Text
  <2>2. QED
    BY <2>1 DEF Init
<1>8. QED
  BY <1>2, <1>4, <1>6, <1>7 DEF E!Init, At

(***************************************************************************)
(* Every key is a step of LineEditor.                                      *)
(***************************************************************************)
LEMMA TextTextOf == Text = TextOf(ed) /\ Text' = TextOf(ed')
BY DEF Text, TextOf

\* The editing keys leave the history alone.
LEMMA RingStays ==
  ASSUME UNCHANGED <<history, histIdx, arrowIdx>>
  PROVE  /\ Past' = Past /\ At' = At
         /\ RingInv => RingInv'
<1>1. Past' = Past
  BY DEF Past, IsEmpty
<1>2. At' = At /\ \A k : Back(k)' = Back(k)
  BY DEF At, Back
<1>3. \A n : Ring(n)' <=> Ring(n)
  BY <1>2 DEF Ring, IsEmpty
<1>4. QED
  BY <1>1, <1>2, <1>3 DEF RingInv

LEMMA CharTypes ==
  ASSUME EditInv, NEW c \in Chars, Char(c)
  PROVE  E!Type(c) \/ ed' = ed
<1>1. ed \in Editors /\ ed.max \in Nat /\ ed' = Insert(ed, c) /\ BufMax \in Nat
  BY SizeAssumption DEF EditInv, Editors, Char
<1>2. CASE ed.max = BufMax
  BY <1>1, <1>2, InsertFull
<1>3. CASE ed.max # BufMax
  <2>1. ed.max < BufMax
    BY <1>1, <1>3 DEF Editors
  <2>2. Text' = InsertAt(Text, ed.idx + 1, c) /\ ed'.idx = ed.idx + 1
    BY <1>1, <2>1, InsertText, InsertIs, TextTextOf
  <2>3. Len(Text) = ed.max
    BY <1>1, TextIs, TextTextOf
  <2>4. QED
    BY <2>1, <2>2, <2>3 DEF E!Type, E!InsertAt, InsertAt
<1>4. QED
  BY <1>2, <1>3

LEMMA BackspaceDeletes ==
  ASSUME EditInv, Backspace
  PROVE  E!Delete \/ ed' = ed
<1>1. ed \in Editors /\ ed.idx \in Nat /\ ed' = Erase(ed)
  BY SizeAssumption DEF EditInv, Editors, Backspace
<1>2. CASE ed.idx = 0
  BY <1>1, <1>2, EraseNone
<1>3. CASE ed.idx # 0
  <2>1. Text' = RemoveAt(Text, ed.idx) /\ ed'.idx = ed.idx - 1 /\ ed.idx > 0
    BY <1>1, <1>3, EraseText, EraseIs, TextTextOf
  <2>2. QED
    BY <2>1 DEF E!Delete, E!RemoveAt, RemoveAt
<1>4. QED
  BY <1>2, <1>3

LEMMA BufMoveMoves ==
  ASSUME EditInv, BufMove
  PROVE  E!Move
<1>1. Len(Text) = ed.max
  BY TextIs, TextTextOf DEF EditInv
<1>2. ed \in [idx : 0..BufMax, max : 0..BufMax, key : [Cells -> Glyphs]]
  BY DEF EditInv, Editors
<1>3. /\ ed'.max = ed.max /\ ed'.key = ed.key
      /\ \/ ed.idx > 0 /\ ed'.idx = ed.idx - 1
         \/ ed.idx < ed.max /\ ed'.idx = ed.idx + 1
  BY <1>2 DEF BufMove
<1>4. Text' = Text
  BY <1>3 DEF Text
<1>5. QED
  BY <1>1, <1>3, <1>4 DEF E!Move

\* A row that is cleared is an empty line.
LEMMA EmptyText == ASSUME NEW e, e.max = 0 PROVE TextOf(e) = <<>>
<1>1. TextOf(e) = [i \in 1..0 |-> e.key[i - 1]]
  BY DEF TextOf
<1>2. QED
  BY <1>1

LEMMA ClearDiscards ==
  ASSUME EditInv, Clear
  PROVE  E!Discard
<1>1. ed'.max = 0 /\ ed'.idx = 0
  BY DEF Clear, Cleared
<1>2. QED
  BY <1>1, EmptyText, TextTextOf DEF E!Discard

\* Tab at the end of the line.
LEMMA TabCompletes ==
  ASSUME EditInv, TabComp, "key_in_line" \notin Exposed
  PROVE  E!Complete
<1> DEFINE hits == {k \in DOMAIN Files : IsPrefix(TabWord, Files[k])}
           name == Files[Min(hits)]
           tail == SubSeq(name, Len(TabWord) + 1, Len(name))
           head == SubSeq(Text, 1, TabFirst)
           all == head \o name
           M == ed.max
           F == TabFirst
           n == InsertAll(ed, tail)
<1>1. /\ ed.idx = M /\ hits # {}
      /\ ed' = n
  BY Zenon DEF TabComp, TabFirst, TabStop, TabWord
<1>2. Min(hits) \in hits
  <2>1. hits \in SUBSET Nat
    <3>1. DOMAIN Files \subseteq Nat
      BY FilesAssumption
    <3>2. QED
      BY <3>1
  <2>2. QED
    BY <1>1, <2>1, MinIsLeast
<1>3. /\ ed \in Editors /\ M \in Nat /\ M <= BufMax /\ BufMax \in Nat
  BY SizeAssumption DEF EditInv, Editors
<1>4. /\ F \in 0..M /\ TabWord \in Seq(Chars) /\ Len(TabWord) = M - F
      /\ \A i \in 1..(M - F) : TabWord[i] = Text[F + i]
  BY <1>3, TabWordIs
<1>5. /\ Text \in Seq(Chars) /\ Len(Text) = M
      /\ \A i \in 1..M : Text[i] = ed.key[i - 1]
  BY <1>3, TextIs, TextTextOf
<1>6. /\ name \in Seq(Chars) /\ Len(name) \in Nat /\ M - F <= Len(name)
      /\ \A i \in 1..(M - F) : name[i] = Text[F + i]
  <2>1. name \in Seq(Chars \ {Space}) /\ IsPrefix(TabWord, name)
    BY <1>2, FilesAssumption
  <2> HIDE DEF name, F, M
  <2>2. name \in Seq(Chars)
    BY <2>1, SeqMonotonic
  <2>3. Len(name) \in Nat /\ M - F <= Len(name) /\ \A i \in 1..Len(name) : name[i] \in Chars
    BY <1>4, <2>1, <2>2 DEF IsPrefix
  <2>4. SubSeq(TabWord, 1, M - F) = SubSeq(name, 1, M - F)
    BY <1>4, <2>1 DEF IsPrefix
  <2>5. /\ M - F \in Nat
        /\ \A i \in 1..(M - F) : /\ SubSeq(TabWord, 1, M - F)[i] = TabWord[i]
                                 /\ SubSeq(name, 1, M - F)[i] = name[i]
    BY <1>3, <1>4, <2>2, <2>3
  <2>6. QED
    BY <1>4, <2>2, <2>3, <2>4, <2>5
<1> HIDE DEF name, F, M
<1>7. /\ tail \in Seq(Chars) /\ Len(tail) = Len(name) - (M - F)
      /\ \A i \in 1..(Len(name) - (M - F)) : tail[i] = name[M - F + i]
  <2> DEFINE w == M - F
  <2>1. w \in Nat /\ w <= Len(name) /\ tail = SubSeq(name, w + 1, Len(name))
    BY <1>3, <1>4, <1>6
  <2> HIDE DEF w, tail
  <2>2. \A i \in (w + 1)..Len(name) : name[i] \in Chars
    BY <1>6, <2>1
  <2>3. /\ tail \in Seq(Chars) /\ Len(tail) = Len(name) - w
        /\ \A i \in 1..(Len(name) - w) : tail[i] = name[w + i]
    BY <1>6, <2>1, <2>2, SubSeqProperties
  <2>4. QED
    BY <2>3 DEF w
<1>8. /\ head \in Seq(Chars) /\ Len(head) = F
      /\ \A i \in 1..F : head[i] = Text[i]
  <2>1. F \in Nat /\ F <= M /\ head = SubSeq(Text, 1, F) /\ \A i \in 1..F : Text[i] \in Chars
    BY <1>3, <1>4, <1>5 DEF F
  <2> HIDE DEF head
  <2>2. QED
    BY <2>1, SubSeqProperties
<1> HIDE DEF head, tail
<1>9. /\ all \in Seq(Chars) /\ Len(all) = F + Len(name)
      /\ \A i \in 1..(F + Len(name)) : all[i] = IF i <= F THEN Text[i] ELSE name[i - F]
  <2>1. /\ all \in Seq(Chars) /\ Len(all) = Len(head) + Len(name)
        /\ \A i \in 1..(Len(head) + Len(name)) :
             all[i] = IF i <= Len(head) THEN head[i] ELSE name[i - Len(head)]
    BY <1>6, <1>8, ConcatProperties
  <2> HIDE DEF all
  <2> DEFINE l == Len(name)
  <2>2. /\ all \in Seq(Chars) /\ Len(all) = F + l
        /\ \A i \in 1..(F + l) : all[i] = IF i <= F THEN head[i] ELSE name[i - F]
    BY <1>8, <2>1
  <2>3. l \in Nat /\ F \in Nat
    BY <1>3, <1>4, <1>6
  <2> HIDE DEF l
  <2>4. \A i \in 1..(F + l) : i <= F => i \in 1..F
    BY <2>3
  <2>5. \A i \in 1..(F + l) : all[i] = IF i <= F THEN Text[i] ELSE name[i - F]
    BY <1>8, <2>2, <2>4
  <2>6. QED
    BY <2>2, <2>5 DEF l
<1> HIDE DEF all
<1> DEFINE N == IF Len(all) < BufMax THEN Len(all) ELSE BufMax
           t == SubSeq(all, 1, N)
<1>10. N \in Nat /\ N <= Len(all) /\ N <= BufMax
  BY <1>3, <1>4, <1>6, <1>9
<1>11. Fits(ed, tail) = N
  BY <1>3, <1>4, <1>6, <1>7, <1>9 DEF Fits, M
<1> HIDE DEF N
<1>12. t \in Seq(Chars) /\ Len(t) = N /\ \A i \in 1..N : t[i] = all[i]
  BY <1>9, <1>10
<1>13. /\ n \in Editors /\ n.idx = N /\ n.max = N
       /\ \A i \in 1..N : n.key[i - 1] = IF i <= M THEN ed.key[i - 1] ELSE tail[i - M]
  BY <1>1, <1>3, <1>7, <1>11, InsertAllIs DEF M
<1> HIDE DEF n, t
<1>14. ASSUME NEW i \in 1..N PROVE n.key[i - 1] = t[i]
  <2>1. i \in Nat /\ i >= 1 /\ i <= F + Len(name) /\ F \in Nat /\ F <= M
    BY <1>4, <1>9, <1>10, <1>3
  <2>2. t[i] = IF i <= F THEN Text[i] ELSE name[i - F]
    BY <1>9, <1>12, <1>6, <2>1
  <2>3. CASE i <= F
    BY <1>3, <1>5, <1>13, <2>1, <2>2, <2>3
  <2>4. CASE i > F /\ i <= M
    <3>1. i - F \in 1..(M - F) /\ F + (i - F) = i
      BY <1>3, <2>1, <2>4
    <3>2. name[i - F] = Text[i]
      BY <1>6, <3>1
    <3>3. ~(i <= F) /\ i \in 1..M
      BY <1>3, <2>1, <2>4
    <3>4. t[i] = name[i - F] /\ n.key[i - 1] = ed.key[i - 1]
      BY <1>13, <2>2, <2>4, <3>3
    <3>5. QED
      BY <1>5, <3>2, <3>3, <3>4
  <2>5. CASE i > M
    <3>1. i - M \in 1..(Len(name) - (M - F)) /\ M - F + (i - M) = i - F
      BY <1>3, <1>6, <2>1, <2>5
    <3>2. tail[i - M] = name[i - F]
      BY <1>7, <3>1
    <3>3. ~(i <= M) /\ ~(i <= F)
      BY <1>3, <2>1, <2>5
    <3>4. t[i] = name[i - F] /\ n.key[i - 1] = tail[i - M]
      BY <1>13, <2>2, <3>3
    <3>5. QED
      BY <3>2, <3>4
  <2>6. QED
    BY <1>3, <2>1, <2>3, <2>4, <2>5
<1>15. TextOf(n) = t
  BY <1>12, <1>13, <1>14, TextEqual
<1>16. Text' = t /\ ed'.idx = Len(Text')
  BY <1>1, <1>12, <1>13, <1>15, TextTextOf DEF n
<1>17. F = Max({0} \cup {k \in DOMAIN Text : Text[k] = Space})
  <2>1. DOMAIN Text = 1..ed.max /\ \A k \in 1..ed.max : Text[k] = ed.key[k - 1]
    BY DEF Text
  <2>2. {k \in 1..ed.max : ed.key[k - 1] = Space} = {k \in DOMAIN Text : Text[k] = Space}
    BY <2>1
  <2>3. QED
    BY <2>2 DEF F, TabFirst
<1>18. SubSeq(Text, F + 1, Len(Text)) = TabWord
  <2> DEFINE w == SubSeq(Text, F + 1, Len(Text))
  <2>1. /\ F + 1 \in Int /\ Len(Text) \in Int
        /\ \A i \in (F + 1)..Len(Text) : Text[i] \in Chars
    BY <1>3, <1>4, <1>5
  <2>2. w \in Seq(Chars) /\ Len(w) = M - F /\ \A i \in 1..(M - F) : w[i] = Text[F + i]
    BY <1>3, <1>4, <1>5, <2>1, SubSeqProperties
  <2> HIDE DEF w
  <2>3. w = TabWord
    BY <1>4, <2>2, SeqEqual
  <2>4. QED
    BY <2>3 DEF w
<1>19. /\ Min(hits) \in DOMAIN Files /\ IsPrefix(TabWord, name)
       /\ t = SubSeq(SubSeq(Text, 1, F) \o name, 1,
                      IF Len(SubSeq(Text, 1, F) \o name) < BufMax
                      THEN Len(SubSeq(Text, 1, F) \o name) ELSE BufMax)
  BY <1>2 DEF name, t, N, all, head, F
<1>20. QED
  <2> DEFINE m == Min(hits)
  <2>1. F = E!Max({0} \cup {k \in DOMAIN Text : Text[k] = Space})
    BY <1>17, Zenon DEF E!Max, Max
  <2>2. E!IsPrefix(SubSeq(Text, F + 1, Len(Text)), Files[m])
    BY <1>18, <1>19 DEF E!IsPrefix, IsPrefix, name
  <2>3. /\ m \in DOMAIN Files
        /\ Text' = SubSeq(SubSeq(Text, 1, F) \o Files[m], 1,
                          IF Len(SubSeq(Text, 1, F) \o Files[m]) < BufMax
                          THEN Len(SubSeq(Text, 1, F) \o Files[m]) ELSE BufMax)
        /\ ed'.idx = Len(Text')
    BY <1>16, <1>19, Zenon DEF name
  <2> HIDE DEF m
  <2>4. \E i \in DOMAIN Files :
          /\ E!IsPrefix(SubSeq(Text, F + 1, Len(Text)), Files[i])
          /\ Text' = SubSeq(SubSeq(Text, 1, F) \o Files[i], 1,
                            IF Len(SubSeq(Text, 1, F) \o Files[i]) < BufMax
                            THEN Len(SubSeq(Text, 1, F) \o Files[i]) ELSE BufMax)
          /\ ed'.idx = Len(Text')
    BY <2>2, <2>3, Zenon
  <2>5. QED
    BY <2>1, <2>4, Zenon DEF E!Complete

\* Enter gives the line to the history, and forgets the oldest if all rows are
\* in use.
LEMMA EnterRing ==
  ASSUME EditInv, RingInv, Enter, Text # <<>>, EditInv'
  PROVE  RingInv' /\ E!Enter
<1> DEFINE next == (histIdx + 1) % HistoryMax
           M == HistoryMax
<1>1. /\ M \in Nat /\ M >= 2 /\ histIdx \in 0..(M - 1)
      /\ history \in [0..(M - 1) -> Lines]
  BY SizeAssumption DEF EditInv
<1>2. PICK n \in 0..(M - 1) : Ring(n)
  BY DEF RingInv
<1>3. /\ history' = [history EXCEPT ![histIdx] = Text, ![next] = <<>>]
      /\ histIdx' = next /\ arrowIdx' = next
      /\ ed'.max = 0 /\ ed'.idx = 0
  BY DEF Enter, Cleared
<1>4. next = IF histIdx = M - 1 THEN 0 ELSE histIdx + 1
  <2> DEFINE a == histIdx + 1
  <2>1. a \in 0..(2 * M - 1) /\ M \in Nat \ {0}
    BY <1>1
  <2> HIDE DEF a, M
  <2>2. a % M = IF a < M THEN a ELSE a - M
    BY <2>1, Remainder
  <2>3. QED
    BY <1>1, <2>2 DEF a, M
<1> HIDE DEF next
<1>5. \A k \in 0..M : /\ Back(k) = IF k <= histIdx THEN histIdx - k ELSE histIdx + M - k
                      /\ Back(k) \in 0..(M - 1)
  BY BackIs
<1>6. ASSUME NEW k \in 1..M PROVE Back(k)' = Back(k - 1)
  <2>1. Back(k)' = (next + M - k) % M
    BY <1>3 DEF Back
  <2>2. next \in 0..(M - 1) /\ k \in 0..M
    BY <1>1, <1>4
  <2> HIDE DEF M
  <2>3. (next + M - k) % M = IF k <= next THEN next - k ELSE next + M - k
    BY <1>1, <2>2, Wraps
  <2>4. Back(k - 1) = IF k - 1 <= histIdx THEN histIdx - (k - 1) ELSE histIdx + M - (k - 1)
    BY <1>1, <1>5
  <2>5. QED
    BY <1>1, <1>4, <2>1, <2>3, <2>4
<1>7. Back(0) = histIdx /\ Back(M - 1) = next
  BY <1>1, <1>4, <1>5
<1>8. ASSUME NEW k \in 0..(M - 1)
      PROVE  history'[Back(k)] = IF k = M - 1 THEN <<>> ELSE IF k = 0 THEN Text
                                 ELSE history[Back(k)]
  <2>1. /\ k # 0 => Back(k) # histIdx
        /\ k # M - 1 => Back(k) # next
        /\ 0 \in 0..(M - 1) /\ M - 1 \in 0..(M - 1) /\ M - 1 # 0
    BY <1>1, <1>7, BackApart
  <2>2. Back(k) \in 0..(M - 1) /\ next \in 0..(M - 1) /\ histIdx \in 0..(M - 1)
    BY <1>1, <1>4, <1>5
  <2>3. history'[Back(k)] = IF Back(k) = next THEN <<>> ELSE IF Back(k) = histIdx THEN Text
                            ELSE history[Back(k)]
    BY <1>1, <1>3, <2>2
  <2>4. QED
    BY <1>7, <2>1, <2>3
<1> DEFINE m == IF n = M - 1 THEN n ELSE n + 1
<1>9. m \in 1..(M - 1)
  BY <1>1, <1>2
<1>10. ASSUME NEW k \in 1..M
       PROVE  /\ history'[Back(k)'] = IF k = M THEN <<>> ELSE IF k = 1 THEN Text
                                      ELSE history[Back(k - 1)]
  <2>1. Back(k)' = Back(k - 1) /\ k - 1 \in 0..(M - 1) /\ ((k = M) <=> (k - 1 = M - 1))
        /\ ((k = 1) <=> (k - 1 = 0))
    BY <1>1, <1>6
  <2>2. QED
    BY <1>8, <2>1
<1>11. Ring(m)'
  <2>1. ASSUME NEW k \in 1..m PROVE history'[Back(k)'] # <<>>
    <3>1. k \in 1..M /\ k # M /\ (k # 1 => k - 1 \in 1..n)
      BY <1>1, <1>2, <1>9
    <3>2. QED
      BY <1>2, <1>10, <3>1 DEF Ring, IsEmpty
  <2>2. ASSUME NEW k \in (m + 1)..M PROVE history'[Back(k)'] = <<>>
    <3>1. k \in 1..M /\ k # 1 /\ (k # M => k - 1 \in (n + 1)..M)
      BY <1>1, <1>2, <1>9
    <3>2. QED
      BY <1>2, <1>10, <3>1 DEF Ring, IsEmpty
  <2>3. QED
    BY <2>1, <2>2 DEF Ring, IsEmpty
<1>12. At' = 0
  <2>1. At' = (next + M - next) % M /\ next \in 0..(M - 1) /\ next \in 0..M
    BY <1>1, <1>3, <1>4 DEF At
  <2> HIDE DEF M
  <2>2. QED
    BY <1>1, <2>1, Wraps
<1>13. RingInv'
  <2>1. m \in 0..(M - 1) /\ 0 <= m
    BY <1>1, <1>9
  <2>2. QED
    BY <1>11, <1>12, <2>1 DEF RingInv
<1>14. /\ Past \in Seq(Lines) /\ Len(Past) = n
       /\ \A j \in 1..n : Past[j] = history[Back(n + 1 - j)]
  BY <1>2, PastIs
<1>15. /\ Past' \in Seq(Lines) /\ Len(Past') = m
       /\ \A j \in 1..m : Past'[j] = history'[Back(m + 1 - j)']
  <2>1. m \in 0..(M - 1)
    BY <1>1, <1>9
  <2> HIDE DEF m
  <2>2. Remembers(m)'
    BY <1>11, <2>1, RingRemembersNext
  <2>3. QED
    BY <2>2 DEF Remembers
<1>16. Text \in Lines /\ Text' = <<>>
  <2>1. TextOf(ed) \in Lines
    BY TextIs DEF EditInv
  <2>2. QED
    BY <1>3, <2>1, EmptyText, TextTextOf
<1> DEFINE all == Append(Past, Text)
           f == IF Len(all) > M - 1 THEN 2 ELSE 1
           s == SubSeq(all, f, Len(all))
<1>17. /\ all \in Seq(Lines) /\ Len(all) = n + 1
       /\ \A j \in 1..(n + 1) : all[j] = IF j <= n THEN Past[j] ELSE Text
  <2> HIDE DEF M
  <2>1. n \in Nat
    BY <1>1, <1>2
  <2>2. QED
    BY <1>14, <1>16, <2>1
<1>18. f = IF n = M - 1 THEN 2 ELSE 1
  BY <1>1, <1>2, <1>17
<1> HIDE DEF all, f
<1>19. /\ s \in Seq(Lines) /\ Len(s) = m
       /\ \A j \in 1..m : s[j] = all[f + j - 1]
  <2>1. f \in 1..2 /\ f <= n + 1 /\ (n + 1) - f + 1 = m /\ n + 1 \in Nat
    BY <1>1, <1>2, <1>18
  <2>2. \A j \in f..(n + 1) : all[j] \in Lines
    BY <1>17, <2>1
  <2> HIDE DEF m, M
  <2>3. /\ s \in Seq(Lines) /\ Len(s) = (n + 1) - f + 1
        /\ \A j \in 1..((n + 1) - f + 1) : s[j] = all[f + j - 1]
    BY <1>17, <2>1, <2>2, SubSeqProperties
  <2>4. QED
    BY <2>1, <2>3
<1>20. ASSUME NEW j \in 1..m PROVE Past'[j] = s[j]
  <2>1. m + 1 - j \in 1..M /\ m + 1 - j # M /\ m \in Nat
    BY <1>1, <1>9
  <2>2. Past'[j] = IF m + 1 - j = 1 THEN Text ELSE history[Back((m + 1 - j) - 1)]
    BY <1>10, <1>15, <2>1
  <2>3. CASE j = m
    <3>1. m + 1 - j = 1 /\ f + j - 1 = n + 1
      BY <1>1, <1>2, <1>18, <2>1, <2>3
    <3>2. s[j] = Text
      BY <1>1, <1>2, <1>17, <1>19, <3>1
    <3>3. QED
      BY <2>2, <3>1, <3>2
  <2>4. CASE j # m
    <3>1. /\ m + 1 - j # 1 /\ f + j - 1 \in 1..n
          /\ (m + 1 - j) - 1 = n + 1 - (f + j - 1)
      BY <1>1, <1>2, <1>18, <2>1, <2>4
    <3> DEFINE k == f + j - 1
    <3>2. s[j] = all[k]
      BY <1>19
    <3>3. k \in 1..n /\ k \in 1..(n + 1) /\ k <= n
      BY <1>1, <1>2, <3>1
    <3>4. (m + 1 - j) - 1 = n + 1 - k
      BY <3>1
    <3> HIDE DEF k
    <3>5. s[j] = Past[k]
      BY <1>17, <3>2, <3>3
    <3>6. Past[k] = history[Back(n + 1 - k)]
      BY <1>14, <3>3
    <3>7. QED
      BY <2>2, <3>1, <3>4, <3>5, <3>6
  <2>5. QED
    BY <2>3, <2>4
<1>21. Past' = s
  BY <1>15, <1>19, <1>20, SeqEqual
<1>22. QED
  BY <1>3, <1>12, <1>13, <1>16, <1>21 DEF E!Enter, At, s, all, f

\* The arrows walk through the lines remembered, and back to an empty one.
LEMMA ArrowRecalls ==
  ASSUME EditInv, RingInv, EditInv', ed.idx = ed.max,
         UNCHANGED <<history, histIdx>>,
         NEW k \in 0..(HistoryMax - 1), k = At + 1 \/ k = At - 1, arrowIdx' = Back(k),
         \/ k # 0 /\ ~IsEmpty(Back(k)) /\ Recall(Back(k))
         \/ k = 0 /\ ed' = EraseAll(ed)
  PROVE  RingInv' /\ E!Recall
<1>1. /\ HistoryMax \in Nat /\ HistoryMax >= 2 /\ At \in 0..(HistoryMax - 1)
      /\ history \in [0..(HistoryMax - 1) -> Lines]
  BY SizeAssumption, AtIs DEF EditInv
<1>2. PICK n \in 0..(HistoryMax - 1) : Ring(n) /\ At <= n
  BY DEF RingInv
<1>3. k \in 0..HistoryMax /\ Back(k) \in 0..(HistoryMax - 1)
  BY <1>1, BackIs
<1>4. k <= n
  <2>1. k # 0 => ~(k \in (n + 1)..HistoryMax)
    BY <1>2 DEF Ring
  <2>2. QED
    BY <1>1, <1>2, <2>1
<1>5. At' = k
  <2>1. At' = (histIdx + HistoryMax - Back(k)) % HistoryMax /\ histIdx \in 0..(HistoryMax - 1)
    BY DEF At, EditInv
  <2>2. Back(k) = IF k <= histIdx THEN histIdx - k ELSE histIdx + HistoryMax - k
    BY <1>3, BackIs
  <2>3. (histIdx + HistoryMax - Back(k)) % HistoryMax =
           IF Back(k) <= histIdx THEN histIdx - Back(k) ELSE histIdx + HistoryMax - Back(k)
    <3>1. Back(k) \in 0..HistoryMax
      BY <1>1, <1>3
    <3>2. QED
      BY <1>1, <2>1, <3>1, Wraps
  <2>4. QED
    BY <1>1, <1>3, <2>1, <2>2, <2>3
<1>6. Past' = Past /\ \A i : Back(i)' = Back(i) /\ IsEmpty(i)' = IsEmpty(i)
  BY DEF Past, Back, IsEmpty
<1>7. Ring(n)'
  BY <1>2, <1>6 DEF Ring
<1>8. RingInv'
  BY <1>4, <1>5, <1>7 DEF RingInv
<1>9. /\ Past \in Seq(Lines) /\ Len(Past) = n
      /\ \A j \in 1..n : Past[j] = history[Back(n + 1 - j)]
  BY <1>2, PastIs
<1>10. Text' = (IF k = 0 THEN <<>> ELSE Past[Len(Past) + 1 - k]) /\ ed'.idx = Len(Text')
  <2>1. CASE k = 0
    <3>1. ed'.max = 0 /\ ed'.idx = 0
      BY <2>1, EraseAllIs DEF EditInv
    <3>2. Text' = <<>>
      BY <3>1, EmptyText, TextTextOf
    <3>3. QED
      BY <2>1, <3>1, <3>2
  <2>2. CASE k # 0
    <3>1. Past[n + 1 - k] = history[Back(k)]
      <4>1. n + 1 - k \in 1..n /\ n + 1 - (n + 1 - k) = k
        BY <1>1, <1>2, <1>4, <2>2
      <4>2. QED
        BY <1>9, <4>1
    <3>2. history[Back(k)] \in Lines
      BY <1>1, <1>3
    <3>3. ed' = InsertAll(EraseAll(ed), history[Back(k)])
      BY <2>2 DEF Recall
    <3>4. Text' = history[Back(k)] /\ ed'.idx = Len(history[Back(k)])
      BY <3>2, <3>3, RecallText, TextTextOf DEF EditInv
    <3>5. QED
      BY <1>9, <2>2, <3>1, <3>4
  <2>3. QED
    BY <2>1, <2>2
<1>11. At # k /\ ((At < Len(Past) /\ k = At + 1) \/ (At > 0 /\ k = At - 1))
  BY <1>1, <1>2, <1>4, <1>9
<1>12. QED
  BY <1>5, <1>6, <1>8, <1>10, <1>11 DEF E!Recall, At

LEMMA HistUpRecalls ==
  ASSUME EditInv, RingInv, EditInv', HistUp, "key_in_line" \notin Exposed
  PROVE  RingInv' /\ E!Recall
<1>1. /\ HistoryMax \in Nat /\ HistoryMax >= 2 /\ At \in 0..(HistoryMax - 1)
      /\ Before(arrowIdx) = Back(At + 1)
  BY SizeAssumption, AtIs
<1>2. /\ ed.idx = ed.max /\ UNCHANGED <<history, histIdx>>
      /\ ~IsEmpty(Back(At + 1)) /\ arrowIdx' = Back(At + 1) /\ Recall(Back(At + 1))
  BY <1>1 DEF HistUp
<1>3. PICK n \in 0..(HistoryMax - 1) : Ring(n) /\ At <= n
  BY DEF RingInv
<1>4. At + 1 \in 0..(HistoryMax - 1) /\ At + 1 # 0
  <2>1. ~(At + 1 \in (n + 1)..HistoryMax)
    BY <1>2, <1>3 DEF Ring
  <2>2. QED
    BY <1>1, <1>3, <2>1
<1> DEFINE k == At + 1
<1>5. k \in 0..(HistoryMax - 1) /\ k # 0 /\ k = At + 1
  BY <1>4
<1>6. ~IsEmpty(Back(k)) /\ arrowIdx' = Back(k) /\ Recall(Back(k))
  BY <1>2
<1> HIDE DEF k
<1>7. QED
  BY <1>2, <1>5, <1>6, ArrowRecalls

LEMMA HistDownRecalls ==
  ASSUME EditInv, RingInv, EditInv', HistDown, "key_in_line" \notin Exposed
  PROVE  RingInv' /\ E!Recall
<1>1. /\ HistoryMax \in Nat /\ HistoryMax >= 2 /\ At \in 0..(HistoryMax - 1)
      /\ Back(At) = arrowIdx /\ ((At = 0) <=> (arrowIdx = histIdx))
      /\ At # 0 => After(arrowIdx) = Back(At - 1)
  BY SizeAssumption, AtIs
<1>2. /\ ed.idx = ed.max /\ UNCHANGED <<history, histIdx>> /\ arrowIdx # histIdx
  BY DEF HistDown
<1>3. PICK n \in 0..(HistoryMax - 1) : Ring(n) /\ At <= n
  BY DEF RingInv
<1>4. At \in 1..n /\ After(arrowIdx) = Back(At - 1) /\ ~IsEmpty(arrowIdx)
  <2>1. At \in 1..n
    BY <1>1, <1>2, <1>3
  <2>2. QED
    BY <1>1, <1>3, <2>1 DEF Ring
<1> DEFINE k == At - 1
<1>5. k \in 0..(HistoryMax - 1) /\ k = At - 1 /\ (k # 0 => k \in 1..n)
  BY <1>1, <1>3, <1>4
<1>6. After(arrowIdx) = Back(k)
  BY <1>4
<1> HIDE DEF k
<1>7. IsEmpty(Back(k)) <=> k = 0
  <2>1. Back(0) = Back(HistoryMax)
    BY <1>1, BackIs DEF EditInv
  <2>2. IsEmpty(Back(0))
    <3>1. HistoryMax \in (n + 1)..HistoryMax
      BY <1>1, <1>3
    <3>2. QED
      BY <1>3, <2>1, <3>1 DEF Ring
  <2>3. k # 0 => ~IsEmpty(Back(k))
    BY <1>3, <1>5 DEF Ring
  <2>4. QED
    BY <2>2, <2>3
<1>8. /\ arrowIdx' = Back(k)
      /\ \/ k # 0 /\ ~IsEmpty(Back(k)) /\ Recall(Back(k))
         \/ k = 0 /\ ed' = EraseAll(ed)
  BY <1>4, <1>6, <1>7 DEF HistDown
<1>9. QED
  BY <1>2, <1>5, <1>8, ArrowRecalls

\* One step of the prompt is one of LineEditor, or none.
LEMMA NextEdits ==
  ASSUME "key_in_line" \notin Exposed
  PROVE  EditInv /\ RingInv /\ EditInv' /\ [Next]_vars => RingInv' /\ [E!Next]_(E!vars)
<1> SUFFICES ASSUME EditInv, RingInv, EditInv', [Next]_vars
             PROVE  RingInv' /\ (E!Next \/ UNCHANGED E!vars)
  OBVIOUS
<1>1. ASSUME UNCHANGED <<ed, history, histIdx, arrowIdx>> PROVE RingInv' /\ UNCHANGED E!vars
  BY <1>1, RingStays, TextTextOf DEF E!vars, At
<1>2. ASSUME UNCHANGED <<history, histIdx, arrowIdx>>,
             \/ E!Discard \/ E!Move \/ E!Delete \/ (\E c \in Chars : E!Type(c)) \/ E!Complete
      PROVE  RingInv' /\ E!Next
  BY <1>2, RingStays DEF E!Next, E!Edit, At
<1>3. ASSUME NEW c \in Chars, Char(c) PROVE RingInv' /\ (E!Next \/ UNCHANGED E!vars)
  <2>1. UNCHANGED <<history, histIdx, arrowIdx>>
    BY <1>3 DEF Char
  <2>2. QED
    BY <1>1, <1>2, <1>3, <2>1, CharTypes
<1>4. CASE Backspace
  <2>1. UNCHANGED <<history, histIdx, arrowIdx>>
    BY <1>4 DEF Backspace
  <2>2. QED
    BY <1>1, <1>2, <1>4, <2>1, BackspaceDeletes
<1>5. CASE BufMove
  <2>1. UNCHANGED <<history, histIdx, arrowIdx>>
    BY <1>5 DEF BufMove
  <2>2. QED
    BY <1>2, <1>5, <2>1, BufMoveMoves
<1>6. CASE Clear
  <2>1. UNCHANGED <<history, histIdx, arrowIdx>>
    BY <1>6 DEF Clear
  <2>2. QED
    BY <1>2, <1>6, <2>1, ClearDiscards
<1>7. CASE TabComp
  <2>1. UNCHANGED <<history, histIdx, arrowIdx>>
    BY <1>7 DEF TabComp
  <2>2. QED
    BY <1>2, <1>7, <2>1, TabCompletes
<1>8. CASE Enter
  <2>1. CASE Text = <<>>
    <3>1. UNCHANGED <<history, histIdx, arrowIdx>> /\ ed'.max = 0 /\ ed'.idx = 0
      BY <1>8, <2>1 DEF Enter, Cleared
    <3>2. E!Discard
      BY <3>1, EmptyText, TextTextOf DEF E!Discard
    <3>3. QED
      BY <1>2, <3>1, <3>2
  <2>2. CASE Text # <<>>
    BY <1>8, <2>2, EnterRing DEF E!Next
  <2>3. QED
    BY <2>1, <2>2
<1>9. CASE HistUp
  BY <1>9, HistUpRecalls DEF E!Next
<1>10. CASE HistDown
  BY <1>10, HistDownRecalls DEF E!Next
<1>11. CASE ReadBegin \/ ReadWake \/ ReadCopy \/ ReadReturn \/ UNCHANGED vars
  <2>1. UNCHANGED <<ed, history, histIdx, arrowIdx>>
    BY <1>11 DEF ReadBegin, ReadWake, ReadCopy, ReadReturn, vars, editVars
  <2>2. QED
    BY <1>1, <2>1
<1>12. QED
  BY <1>3, <1>4, <1>5, <1>6, <1>7, <1>8, <1>9, <1>10, <1>11 DEF Next, Key

\* As long as the arrows and Tab are pressed at the end of the line, what the
\* keys do to key_buf and the history is what a user expects of a LineEditor,
\* whatever the lengths of a row and of the history (terminal.c: key_to_ter,
\* hist_access, tab_comp, buf_move, clear_buf).
THEOREM EditsCorrect ==
  ASSUME "key_in_line" \notin Exposed
  PROVE  Spec => Edits
<1>1. EditInv /\ RingInv /\ EditInv' /\ [Next]_vars => RingInv' /\ [E!Next]_(E!vars)
  BY NextEdits
<1>2. Init => RingInv /\ E!Init
  BY InitRing
<1>3. QED
  BY <1>1, <1>2, EditInvariance, PTL DEF Spec, Edits, E!Spec
=============================================================================
