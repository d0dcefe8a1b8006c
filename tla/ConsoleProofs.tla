---------------------------- MODULE ConsoleProofs ----------------------------
(***************************************************************************)
(* Proofs about Screen, for every size of screen and of line, about        *)
(* Keyboard, for every set of keys and every number of hands, and about    *)
(* Library, for every width of a number, memory and set of strings.        *)
(***************************************************************************)
EXTENDS Screen, Keyboard, Library, SequenceTheorems, WellFoundedInduction, TLAPS

(***************************************************************************)
(* The screen.                                                             *)
(***************************************************************************)
\* The characters a cell can show, and the last cell.
Glyphs == Keys \cup {Output, Blank}
Corner == Rows * Cols - 1

\* What the editor believes fits what is on the screen: the cursor has at
\* least as many cells before it as the line has characters left of the
\* cursor, so that no way back goes above row 0.
LineInv ==
  /\ cells \in [Cells -> Glyphs]
  /\ text \in Seq(Keys) /\ Len(text) <= LineMax
  /\ at \in 0..Len(text)
  /\ at <= Pos
  /\ Echoed

\* Where a program's output stands, and what cursor was passed.
PenInv ==
  /\ pen \in {"idle", "cell", "column", "page", "cursor"}
  /\ pen = "cursor" => args = <<sx, sy>>

ScreenInv == OnScreen /\ PenInv /\ LineInv

\* The cursor on a cell: where the handlers of keys and exceptions find it.
Within == sx \in 0..(Cols - 1) /\ sy \in 0..(Rows - 1)
AtRest == Within /\ LineInv

\* The rows of the page lie one after the other.
LEMMA Grid ==
  /\ Rows * Cols \in Nat /\ Corner \in Nat
  /\ (Rows - 1) * Cols = Rows * Cols - Cols
  /\ Cols * (Rows - 1) = Rows * Cols - Cols
  /\ \A y \in 0..(Rows - 1) :
       /\ Cols * y \in Nat
       /\ Cols * y <= Rows * Cols - Cols
       /\ Cols * (y + 1) = Cols * y + Cols
       /\ Cols * (y - 1) = Cols * y - Cols
       /\ y < Rows - 1 => Cols * y + Cols <= Rows * Cols - Cols
       /\ y > 0 => Cols * y >= Cols
<1> USE SizeAssumption DEF Corner
<1>1. Rows * Cols \in Nat /\ Corner \in Nat
  OBVIOUS
<1>2. (Rows - 1) * Cols = Rows * Cols - Cols /\ Cols * (Rows - 1) = Rows * Cols - Cols
  OBVIOUS
<1>3. ASSUME NEW y \in 0..(Rows - 1)
      PROVE  /\ Cols * y \in Nat
             /\ Cols * y <= Rows * Cols - Cols
             /\ Cols * (y + 1) = Cols * y + Cols
             /\ Cols * (y - 1) = Cols * y - Cols
             /\ y < Rows - 1 => Cols * y + Cols <= Rows * Cols - Cols
             /\ y > 0 => Cols * y >= Cols
  <2>1. Cols * (y + 1) = Cols * y + Cols /\ Cols * (y - 1) = Cols * y - Cols
    OBVIOUS
  <2>2. ASSUME NEW a \in Nat, NEW b \in Nat, a <= b PROVE Cols * a <= Cols * b
    BY <2>2
  <2>3. Cols * y \in Nat /\ Cols * y <= Cols * (Rows - 1)
    BY <2>2
  <2>4. y < Rows - 1 => Cols * (y + 1) <= Cols * (Rows - 1)
    BY <2>2
  <2>5. y > 0 => Cols * 1 <= Cols * y
    BY <2>2
  <2>6. QED
    BY <1>2, <2>1, <2>3, <2>4, <2>5
<1>4. QED
  BY <1>1, <1>2, <1>3

\* Where the cursor may be: on a cell, the last only at the end of its row
\* and of the page.
LEMMA Place ==
  ASSUME Within
  PROVE  /\ Pos \in Cells /\ Pos \in 0..Corner
         /\ sx = 0 /\ Pos > 0 => sy > 0
         /\ sx + 1 = Cols /\ sy = Rows - 1 <=> Pos = Corner
<1> USE SizeAssumption, Grid DEF Within, Pos, Cells, Corner
<1>1. Pos \in Nat /\ Pos <= Corner
  OBVIOUS
<1>2. sx = 0 /\ Pos > 0 => sy > 0
  BY Cols * 0 = 0
<1>3. sx + 1 = Cols /\ sy = Rows - 1 => Pos = Corner
  OBVIOUS
<1>4. sy < Rows - 1 => Pos < Corner
  OBVIOUS
<1>5. QED
  BY <1>1, <1>2, <1>3, <1>4

\* A character puts the cursor one cell on, or, from the last cell, at the
\* beginning of the last row of the scrolled page.
LEMMA AdvanceTo ==
  ASSUME Within, NEW page, Advance(page)
  PROVE  /\ Within'
         /\ \/ Pos # Corner /\ Pos' = Pos + 1 /\ cells' = page
            \/ Pos = Corner /\ Pos' = Rows * Cols - Cols /\ cells' = Scrolled(page)
<1> USE SizeAssumption, Grid, Place DEF Within
<1>1. CASE sx + 1 = Cols /\ sy + 1 = Rows
  <2>1. sx' = 0 /\ sy' = Rows - 1 /\ cells' = Scrolled(page)
    BY <1>1 DEF Advance, MoveTo
  <2>2. QED
    BY <1>1, <2>1 DEF Pos
<1>2. CASE sx + 1 = Cols /\ sy + 1 # Rows
  <2>1. sx' = 0 /\ sy' = sy + 1 /\ cells' = page
    BY <1>2 DEF Advance, MoveTo
  <2>2. Pos' = Pos + 1
    BY <1>2, <2>1 DEF Pos
  <2>3. QED
    BY <1>2, <2>1, <2>2
<1>3. CASE sx + 1 # Cols
  <2>1. sx' = sx + 1 /\ sy' = sy /\ cells' = page
    BY <1>3 DEF Advance, MoveTo
  <2>2. Pos' = Pos + 1
    BY <2>1 DEF Pos
  <2>3. QED
    BY <1>3, <2>1, <2>2
<1>4. QED
  BY <1>1, <1>2, <1>3

\* Back one cell: never above row 0 where there is a cell to go back to.
LEMMA BackTo ==
  ASSUME Within, Pos > 0, Back
  PROVE  Within' /\ Pos' = Pos - 1
<1> USE SizeAssumption, Grid, Place DEF Within, Back
<1>1. CASE sx # 0
  BY <1>1 DEF Pos
<1>2. CASE sx = 0
  <2>1. sy > 0 /\ sx' = Cols - 1 /\ sy' = sy - 1
    BY <1>2
  <2>2. Pos' = Cols * (sy - 1) + Cols - 1
    BY <2>1 DEF Pos
  <2>3. QED
    BY <1>2, <2>1, <2>2 DEF Pos
<1>3. QED
  BY <1>1, <1>2

\* A newline leaves at least as many cells before the cursor as there were,
\* or all rows but the last.
LEMMA NewLineTo ==
  ASSUME Within, MoveTo(cells, 0, sy + 1)
  PROVE  Within' /\ (Pos' >= Pos \/ Pos' = Rows * Cols - Cols)
<1> USE SizeAssumption, Grid, Place DEF Within, MoveTo
<1>1. CASE sy + 1 = Rows
  BY <1>1 DEF Pos
<1>2. CASE sy + 1 # Rows
  <2>1. sx' = 0 /\ sy' = sy + 1
    BY <1>2
  <2>2. QED
    BY <1>2, <2>1 DEF Pos
<1>3. QED
  BY <1>1, <1>2

\* A character inserted in a line, and one taken out.
Inserted(t, s, i, e) ==
  /\ Len(t) = Len(s) + 1
  /\ \A j \in 1..(Len(s) + 1) : t[j] = IF j < i THEN s[j] ELSE IF j = i THEN e ELSE s[j - 1]

LEMMA InsertAtProperties ==
  ASSUME NEW S, NEW s \in Seq(S), NEW i \in 1..(Len(s) + 1), NEW e \in S
  PROVE  InsertAt(s, i, e) \in Seq(S) /\ Inserted(InsertAt(s, i, e), s, i, e)
<1> DEFINE a == SubSeq(s, 1, i - 1)
           b == SubSeq(s, i, Len(s))
<1>1. /\ a \in Seq(S) /\ Len(a) = i - 1 /\ \A j \in 1..(i - 1) : a[j] = s[j]
      /\ b \in Seq(S) /\ Len(b) = Len(s) - i + 1
      /\ \A j \in 1..(Len(s) - i + 1) : b[j] = s[i + j - 1]
  BY SubSeqProperties
<1>2. <<e>> \in Seq(S) /\ Len(<<e>>) = 1 /\ <<e>>[1] = e
  OBVIOUS
<1> HIDE DEF a, b
<1> DEFINE c == a \o <<e>>
<1>3. /\ c \in Seq(S) /\ Len(c) = i
      /\ \A j \in 1..i : c[j] = IF j < i THEN s[j] ELSE e
  BY <1>1, <1>2, ConcatProperties
<1> HIDE DEF c
<1>4. /\ c \o b \in Seq(S) /\ Len(c \o b) = Len(s) + 1
      /\ \A j \in 1..(Len(s) + 1) : (c \o b)[j] = IF j <= i THEN c[j] ELSE b[j - i]
  <2>1. Len(c) + Len(b) = Len(s) + 1
    BY <1>1, <1>3
  <2>2. /\ c \o b \in Seq(S) /\ Len(c \o b) = Len(c) + Len(b)
        /\ \A j \in 1..(Len(c) + Len(b)) :
             (c \o b)[j] = IF j <= Len(c) THEN c[j] ELSE b[j - Len(c)]
    BY <1>1, <1>3, ConcatProperties
  <2>3. QED
    BY <1>3, <2>1, <2>2
<1>5. InsertAt(s, i, e) = c \o b
  BY DEF InsertAt, a, b, c
<1>6. ASSUME NEW j \in 1..(Len(s) + 1)
      PROVE  (c \o b)[j] = IF j < i THEN s[j] ELSE IF j = i THEN e ELSE s[j - 1]
  <2>1. (c \o b)[j] = IF j <= i THEN c[j] ELSE b[j - i]
    BY <1>4
  <2>2. CASE j <= i
    BY <1>3, <2>1, <2>2
  <2>3. CASE ~(j <= i)
    <3>1. j - i \in 1..(Len(s) - i + 1) /\ i + (j - i) - 1 = j - 1
      BY <2>3
    <3>2. b[j - i] = s[j - 1]
      BY <1>1, <3>1
    <3>3. QED
      BY <2>1, <2>3, <3>2
  <2>4. QED
    BY <2>2, <2>3, Zenon
<1>7. Inserted(c \o b, s, i, e)
  BY <1>4, <1>6, Zenon DEF Inserted
<1>8. QED
  BY <1>4, <1>5, <1>7, Zenon

\* And when one is taken out.
LEMMA RemoveAtProperties ==
  ASSUME NEW S, NEW s \in Seq(S), NEW i \in 1..Len(s)
  PROVE  /\ RemoveAt(s, i) \in Seq(S)
         /\ Len(RemoveAt(s, i)) = Len(s) - 1
         /\ \A j \in 1..(Len(s) - 1) :
              RemoveAt(s, i)[j] = IF j < i THEN s[j] ELSE s[j + 1]
<1> DEFINE a == SubSeq(s, 1, i - 1)
           b == SubSeq(s, i + 1, Len(s))
<1>1. /\ a \in Seq(S) /\ Len(a) = i - 1 /\ \A j \in 1..(i - 1) : a[j] = s[j]
      /\ b \in Seq(S) /\ Len(b) = Len(s) - i
      /\ \A j \in 1..(Len(s) - i) : b[j] = s[i + j]
  BY SubSeqProperties
<1> HIDE DEF a, b
<1>2. /\ a \o b \in Seq(S) /\ Len(a \o b) = Len(s) - 1
      /\ \A j \in 1..(Len(s) - 1) : (a \o b)[j] = IF j < i THEN a[j] ELSE b[j - (i - 1)]
  <2>1. Len(a) + Len(b) = Len(s) - 1
    BY <1>1
  <2>2. /\ a \o b \in Seq(S) /\ Len(a \o b) = Len(a) + Len(b)
        /\ \A j \in 1..(Len(a) + Len(b)) :
             (a \o b)[j] = IF j <= Len(a) THEN a[j] ELSE b[j - Len(a)]
    BY <1>1, ConcatProperties
  <2>3. QED
    BY <1>1, <2>1, <2>2
<1>3. RemoveAt(s, i) = a \o b
  BY DEF RemoveAt, a, b
<1>4. QED
  BY <1>1, <1>2, <1>3

\* It holds of the cleared screen.
LEMMA InitScreen == Init => ScreenInv
<1> SUFFICES ASSUME Init PROVE ScreenInv
  OBVIOUS
<1> USE SizeAssumption DEF Init
<1>1. OnScreen /\ text \in Seq(Keys) /\ Len(text) = 0 /\ at \in 0..Len(text)
  BY DEF OnScreen
<1>2. cells \in [Cells -> Glyphs]
  BY DEF Glyphs
<1>3. at <= Pos
  BY DEF Pos
<1>4. Echoed
  BY <1>1 DEF Echoed
<1>5. PenInv
  BY DEF PenInv
<1>6. QED
  BY <1>1, <1>2, <1>3, <1>4, <1>5 DEF ScreenInv, LineInv

\* A page scrolled shows each row where the next was.
LEMMA ScrolledShows ==
  ASSUME NEW page \in [Cells -> Glyphs]
  PROVE  /\ Scrolled(page) \in [Cells -> Glyphs]
         /\ \A c \in 0..(Rows * Cols - Cols - 1) : Shown(Scrolled(page), c) = page[c + Cols]
BY SizeAssumption, Grid DEF Scrolled, Shown, Cells, Glyphs

\* A key typed: the line and the cells that show it move on together.
LEMMA CharScreen ==
  ASSUME Exposed = {}, AtRest, NEW ch \in Keys, Char(ch)
  PROVE  AtRest'
<1> DEFINE page == [p \in Cells |->
                      IF p = Pos THEN ch
                      ELSE IF p \in (Pos + 1)..(Pos + Right) THEN cells[p - 1]
                      ELSE cells[p]]
           base == Pos - at
<1> USE SizeAssumption, Grid
<1>1. /\ Within /\ cells \in [Cells -> Glyphs] /\ text \in Seq(Keys)
      /\ at \in 0..Len(text) /\ at <= Pos /\ Len(text) \in Nat /\ Echoed
  BY DEF AtRest, LineInv
<1>2. Pos \in Cells /\ Pos \in 0..Corner /\ base \in 0..Corner
  BY <1>1, Place DEF Corner
<1>3. /\ Len(text) < LineMax /\ Advance(page)
      /\ Right > 0 => Pos + Right < Corner
      /\ text' = InsertAt(text, at + 1, ch) /\ at' = at + 1 /\ mixed' = mixed
  BY <1>1, <1>2 DEF Char, Right, Corner
<1>4. Right = Len(text) - at /\ Right \in Nat
  BY <1>1 DEF Right
<1>5. /\ text' \in Seq(Keys) /\ Len(text') = Len(text) + 1
      /\ \A j \in 1..(Len(text) + 1) :
           text'[j] = IF j < at + 1 THEN text[j] ELSE IF j = at + 1 THEN ch ELSE text[j - 1]
  <2> DEFINE i == at + 1
  <2>1. i \in 1..(Len(text) + 1) /\ text \in Seq(Keys) /\ text' = InsertAt(text, i, ch)
    BY <1>1, <1>3
  <2> HIDE DEF i
  <2>2. /\ text' \in Seq(Keys) /\ Len(text') = Len(text) + 1
        /\ \A j \in 1..(Len(text) + 1) :
             text'[j] = IF j < i THEN text[j] ELSE IF j = i THEN ch ELSE text[j - 1]
    <3>1. Inserted(text', text, i, ch) /\ text' \in Seq(Keys)
      BY <2>1, InsertAtProperties
    <3>2. QED
      BY <3>1 DEF Inserted
  <2>3. QED
    BY <2>2 DEF i
<1>6. page \in [Cells -> Glyphs]
  <2>1. \A p \in (Pos + 1)..(Pos + Right) : p - 1 \in Cells
    BY <1>2, <1>3, <1>4 DEF Cells, Corner
  <2>2. QED
    BY <1>1, <1>2, <2>1 DEF Glyphs
\* The line as the new page shows it, before the page is scrolled.
<1>7. ASSUME ~mixed, NEW i \in 1..(Len(text) + 1), base + i - 1 \in Cells
      PROVE  page[base + i - 1] = text'[i]
  <2>1. \A j \in 1..Len(text) : Shown(cells, base + j - 1) = text[j]
    BY <1>1, <1>7 DEF Echoed
  <2>2. CASE i = at + 1
    BY <1>1, <1>2, <1>5, <1>7, <2>2
  <2>3. CASE i < at + 1
    <3>1. page[base + i - 1] = cells[base + i - 1] /\ text'[i] = text[i]
      BY <1>1, <1>2, <1>5, <1>7, <2>3
    <3>2. QED
      BY <1>1, <1>7, <2>1, <2>3, <3>1 DEF Shown
  <2>4. CASE i > at + 1
    <3>1. base + i - 1 \in (Pos + 1)..(Pos + Right)
      BY <1>1, <1>2, <1>4, <1>7, <2>4
    <3>2. page[base + i - 1] = cells[base + i - 2] /\ text'[i] = text[i - 1]
      BY <1>1, <1>2, <1>5, <1>7, <2>4, <3>1
    <3>3. base + i - 2 \in Cells
      BY <1>1, <1>2, <1>7, <2>4 DEF Cells
    <3>4. i - 1 \in 1..Len(text) /\ base + (i - 1) - 1 = base + i - 2
      BY <1>1, <1>2, <2>4
    <3>5. QED
      BY <2>1, <3>2, <3>3, <3>4 DEF Shown
  <2>5. QED
    BY <1>1, <2>2, <2>3, <2>4
<1> HIDE DEF page
<1>8. Within'
  BY <1>1, <1>3, AdvanceTo
<1>9. CASE Pos # Corner
  <2>1. Pos' = Pos + 1 /\ cells' = page
    BY <1>1, <1>3, <1>9, AdvanceTo
  <2>2. Echoed'
    <3> SUFFICES ASSUME ~mixed', NEW i \in 1..Len(text')
                 PROVE  Shown(cells', Pos' - at' + i - 1) = text'[i]
      BY DEF Echoed
    <3>1. Pos' - at' + i - 1 = base + i - 1 /\ base + i - 1 \in Cells
      <4>1. base + i - 1 <= Pos + Right
        BY <1>1, <1>2, <1>4, <1>5
      <4>2. Pos + Right < Corner \/ Right = 0
        BY <1>3, <1>4
      <4>3. Pos + Right <= Corner
        BY <1>2, <1>4, <4>2
      <4>4. i \in Nat /\ i >= 1
        BY <1>5
      <4>5. base + i - 1 \in 0..Corner
        BY <1>2, <1>4, <4>1, <4>3, <4>4
      <4>6. Pos' - at' + i - 1 = base + i - 1
        BY <1>1, <1>2, <1>3, <2>1, <4>4
      <4>7. QED
        BY <4>5, <4>6 DEF Cells, Corner
    <3>2. QED
      BY <1>3, <1>5, <1>7, <2>1, <3>1 DEF Shown
  <2>3. QED
    BY <1>1, <1>2, <1>3, <1>5, <1>6, <1>8, <2>1, <2>2 DEF AtRest, LineInv
<1>10. CASE Pos = Corner
  <2>1. Pos' = Rows * Cols - Cols /\ cells' = Scrolled(page)
    BY <1>1, <1>3, <1>10, AdvanceTo
  <2>2. Right = 0 /\ at = Len(text)
    BY <1>1, <1>3, <1>4, <1>10
  <2>3. at' <= Pos'
    BY <1>1, <1>3, <2>1, <2>2
  <2>4. Echoed'
    <3> SUFFICES ASSUME ~mixed', NEW i \in 1..Len(text')
                 PROVE  Shown(cells', Pos' - at' + i - 1) = text'[i]
      BY DEF Echoed
    <3> DEFINE c == Pos' - at' + i - 1
    <3>1. c \in 0..(Rows * Cols - Cols - 1) /\ c + Cols = base + i - 1
      BY <1>1, <1>2, <1>3, <1>5, <1>10, <2>1, <2>2, <2>3 DEF Corner
    <3>2. base + i - 1 \in Cells
      BY <3>1 DEF Cells
    <3>3. Shown(cells', c) = page[base + i - 1]
      BY <1>6, <2>1, <3>1, ScrolledShows
    <3>4. QED
      BY <1>3, <1>5, <1>7, <3>2, <3>3
  <2>5. cells' \in [Cells -> Glyphs]
    BY <1>6, <2>1, ScrolledShows
  <2>6. at' \in 0..Len(text') /\ Len(text') <= LineMax
    BY <1>1, <1>3, <1>5
  <2>7. QED
    BY <1>5, <1>8, <2>3, <2>4, <2>5, <2>6, Zenon DEF AtRest, LineInv
<1>11. QED
  BY <1>9, <1>10

\* A backspace, anywhere in the line and over a row end.
LEMMA BackspaceScreen ==
  ASSUME AtRest, Backspace
  PROVE  AtRest'
<1> DEFINE base == Pos - at
<1> USE SizeAssumption, Grid
<1>1. /\ Within /\ cells \in [Cells -> Glyphs] /\ text \in Seq(Keys)
      /\ Len(text) <= LineMax
      /\ at \in 0..Len(text) /\ at <= Pos /\ Len(text) \in Nat /\ Echoed
  BY DEF AtRest, LineInv
<1>2. Pos \in 0..Corner /\ base \in 0..Corner
  BY <1>1, Place DEF Corner
<1>3. /\ at > 0 /\ at' = at - 1 /\ text' = RemoveAt(text, at)
      /\ cells' = [p \in Cells |->
           IF p \in (Pos - 1)..(Pos + Right - 1) THEN Shown(cells, p + 1) ELSE cells[p]]
      /\ mixed' = (mixed /\ Len(text) > 1)
  BY DEF Backspace
<1>4. Within' /\ Pos' = Pos - 1
  BY <1>1, <1>2, <1>3, BackTo DEF Backspace
<1>5. /\ text' \in Seq(Keys) /\ Len(text') = Len(text) - 1
      /\ \A j \in 1..(Len(text) - 1) : text'[j] = IF j < at THEN text[j] ELSE text[j + 1]
  <2>1. at \in 1..Len(text)
    BY <1>1, <1>3
  <2>2. QED
    BY <1>1, <1>3, <2>1, RemoveAtProperties
<1>6. cells' \in [Cells -> Glyphs]
  <2>1. \A c : Shown(cells, c) \in Glyphs
    BY <1>1 DEF Shown, Glyphs
  <2>2. QED
    BY <1>1, <1>3, <2>1
<1>7. Echoed'
  <2> SUFFICES ASSUME ~mixed', NEW i \in 1..Len(text')
               PROVE  Shown(cells', Pos' - at' + i - 1) = text'[i]
    BY DEF Echoed
  <2>1. ~mixed /\ i \in 1..(Len(text) - 1)
    <3>1. i \in 1..(Len(text) - 1) /\ Len(text) > 1
      BY <1>1, <1>5
    <3>2. ~(mixed /\ Len(text) > 1)
      BY <1>3, Zenon
    <3>3. QED
      BY <3>1, <3>2, Zenon
  <2>2. \A j \in 1..Len(text) : Shown(cells, base + j - 1) = text[j]
    BY <1>1, <2>1 DEF Echoed
  <2>3. Pos' - at' + i - 1 = base + i - 1 /\ base + i - 1 \in Nat
    BY <1>1, <1>2, <1>3, <1>4, <2>1
  <2>4. CASE i < at
    <3>1. text'[i] = text[i] /\ Shown(cells, base + i - 1) = text[i]
      BY <1>1, <1>5, <2>1, <2>2, <2>4
    <3>2. base + i - 1 \notin (Pos - 1)..(Pos + Right - 1)
      BY <1>1, <1>2, <2>1, <2>4 DEF Right
    <3>3. Shown(cells', base + i - 1) = Shown(cells, base + i - 1)
      BY <1>3, <3>2 DEF Shown
    <3>4. QED
      BY <2>3, <3>1, <3>3
  <2>5. CASE i >= at
    <3>1. text'[i] = text[i + 1] /\ Shown(cells, base + i) = text[i + 1]
      <4>1. i + 1 \in 1..Len(text) /\ base + (i + 1) - 1 = base + i
        BY <1>1, <1>2, <2>1
      <4>2. QED
        BY <1>1, <1>5, <2>1, <2>2, <2>5, <4>1
    <3>2. base + i - 1 \in (Pos - 1)..(Pos + Right - 1) /\ base + i - 1 + 1 = base + i
      BY <1>1, <1>2, <2>1, <2>5 DEF Right
    <3>3. CASE base + i - 1 \in Cells
      BY <1>3, <2>3, <3>1, <3>2, <3>3 DEF Shown
    <3>4. CASE base + i - 1 \notin Cells
      <4>1. base + i \notin Cells
        BY <1>1, <1>2, <2>1, <2>3, <3>4 DEF Cells
      <4>2. QED
        BY <2>3, <3>1, <3>4, <4>1 DEF Shown
    <3>5. QED
      BY <3>3, <3>4
  <2>6. QED
    BY <1>1, <2>1, <2>4, <2>5
<1>8. at' \in 0..Len(text') /\ at' <= Pos' /\ Len(text') <= LineMax
  BY <1>1, <1>2, <1>3, <1>4, <1>5
<1>9. QED
  BY <1>4, <1>5, <1>6, <1>7, <1>8 DEF AtRest, LineInv

\* The arrows move the cursor and the place in the line alike.
LEMMA ArrowScreen ==
  ASSUME Exposed = {}, AtRest, Left \/ RightArrow
  PROVE  AtRest'
<1> USE SizeAssumption, Grid
<1>1. /\ Within /\ text \in Seq(Keys) /\ at \in 0..Len(text) /\ at <= Pos
      /\ Len(text) \in Nat /\ Echoed /\ Pos \in 0..Corner
  BY Place DEF AtRest, LineInv
<1>2. UNCHANGED <<cells, text, mixed>>
  BY DEF Left, RightArrow
<1>3. Within' /\ at' \in 0..Len(text) /\ at' <= Pos' /\ Pos' - at' = Pos - at
  <2>1. CASE Left
    <3>1. at > 0 /\ at' = at - 1 /\ Within' /\ Pos' = Pos - 1
      BY <1>1, <2>1, BackTo DEF Left
    <3>2. QED
      BY <1>1, <3>1
  <2>2. CASE RightArrow
    <3>1. at < Len(text) /\ at' = at + 1 /\ Pos < Corner
      BY <1>1, <2>2 DEF RightArrow, Right, Corner
    <3>2. Within' /\ Pos' = Pos + 1
      <4>1. CASE sx # Cols - 1
        BY <1>1, <2>2, <4>1 DEF RightArrow, Within, Pos
      <4>2. CASE sx = Cols - 1
        <5>1. sx' = 0 /\ sy' = sy + 1 /\ sy < Rows - 1
          BY <1>1, <2>2, <3>1, <4>2, Place DEF RightArrow, Within
        <5>2. QED
          BY <1>1, <4>2, <5>1 DEF Within, Pos
      <4>3. QED
        BY <4>1, <4>2
    <3>3. QED
      BY <1>1, <3>1, <3>2
  <2>3. QED
    BY <2>1, <2>2
<1>4. Echoed'
  BY <1>1, <1>2, <1>3 DEF Echoed, Shown
<1>5. QED
  BY <1>1, <1>2, <1>3, <1>4 DEF AtRest, LineInv

\* Enter and Ctrl+L empty the line.
LEMMA EmptiedScreen ==
  ASSUME AtRest, Within', cells' \in [Cells -> Glyphs], text' = <<>>, at' = 0
  PROVE  AtRest'
<1> USE SizeAssumption, Grid
<1>1. Len(text') = 0 /\ text' \in Seq(Keys)
  OBVIOUS
<1>2. at' <= Pos'
  <2>1. Cols * sy' \in Nat /\ sx' \in Nat
    <3>1. sx' \in 0..(Cols - 1) /\ sy' \in 0..(Rows - 1)
      BY DEF Within
    <3>2. Cols * sy' \in Nat
      BY <3>1, Grid, Zenon
    <3>3. sx' \in Nat
      BY <3>1
    <3>4. QED
      BY <3>2, <3>3
  <2>2. QED
    BY <2>1 DEF Pos
<1>3. Echoed'
  BY <1>1 DEF Echoed
<1>4. QED
  BY <1>1, <1>2, <1>3 DEF AtRest, LineInv

\* Output moves the cursor on, or to the last row, which is longer from the
\* page's beginning than any line; what it writes among the line's cells it
\* disturbs.
LEMMA OutputScreen ==
  ASSUME LineInv, cells' \in [Cells -> Glyphs], Disturbs, Pos \in Int, Pos' \in Int,
         Pos' >= Pos \/ Pos' = Rows * Cols - Cols
  PROVE  LineInv'
<1> USE SizeAssumption, Grid
<1>1. /\ text \in Seq(Keys) /\ Len(text) <= LineMax /\ Len(text) \in Nat
      /\ at \in 0..Len(text) /\ at <= Pos
  BY DEF LineInv
<1>2. UNCHANGED <<text, at>> /\ mixed' = (mixed \/ text # <<>>)
  BY DEF Disturbs
<1>3. at' <= Pos'
  BY <1>1, <1>2
<1>4. Echoed'
  <2>1. ~mixed' => Len(text') = 0
    BY <1>1, <1>2
  <2>2. QED
    BY <1>1, <1>2, <2>1 DEF Echoed
<1>5. QED
  BY <1>1, <1>2, <1>3, <1>4 DEF LineInv

\* The steps of a program's output: the cursor passes the end of a row, or of
\* the page, and the next test brings it back.
LEMMA ProgramScreen ==
  ASSUME Exposed = {}, ScreenInv, Program \/ Writes
  PROVE  ScreenInv'
<1> USE SizeAssumption, Grid
<1>1. /\ cells \in [Cells -> Glyphs] /\ sx \in 0..Cols /\ sy \in 0..Rows
      /\ pen # "column" => sx \in 0..(Cols - 1)
      /\ pen # "page" => sy \in 0..(Rows - 1)
      /\ OnScreen /\ PenInv /\ LineInv
  BY DEF ScreenInv, LineInv, OnScreen
<1>2. Scrolled(cells) \in [Cells -> Glyphs]
  BY <1>1, ScrolledShows
<1>3. Cols * Rows = Rows * Cols /\ Cols * sy \in Nat /\ Cols * (sy + 1) = Cols * sy + Cols
  BY <1>1
<1>4. Pos \in Nat
  BY <1>1, <1>3 DEF Pos
<1>5. ASSUME OnScreen', PenInv', cells' \in [Cells -> Glyphs], Disturbs,
             Pos' \in Int, Pos' >= Pos \/ Pos' = Rows * Cols - Cols
      PROVE  ScreenInv'
  BY <1>1, <1>4, <1>5, OutputScreen DEF ScreenInv
<1>6. CASE ProgramNewLine
  <2>1. /\ pen = "idle" /\ pen' = "page" /\ Disturbs
        /\ sx' = 0 /\ sy' = sy + 1 /\ cells' = cells
    BY <1>6 DEF ProgramNewLine, Pen
  <2>2. OnScreen' /\ PenInv'
    BY <1>1, <2>1 DEF OnScreen, PenInv
  <2>3. Pos' \in Int /\ Pos' >= Pos
    BY <1>1, <1>3, <2>1 DEF Pos
  <2>4. QED
    BY <1>1, <1>5, <2>1, <2>2, <2>3
<1>7. CASE ProgramChar
  <2>1. /\ pen = "idle" /\ pen' = "cell" /\ Disturbs
        /\ cells' = Put(cells, Pos, Output) /\ UNCHANGED <<sx, sy>>
    BY <1>7 DEF ProgramChar, Pen
  <2>2. OnScreen' /\ PenInv' /\ Pos' = Pos
    BY <1>1, <2>1 DEF OnScreen, PenInv, Pos
  <2>3. cells' \in [Cells -> Glyphs]
    BY <1>1, <2>1 DEF Put, Glyphs
  <2>4. QED
    BY <1>4, <1>5, <2>1, <2>2, <2>3
<1>8. CASE ProgramBackspace
  BY <1>8 DEF ProgramBackspace
<1>9. CASE NextColumn
  <2>1. /\ pen = "cell" /\ pen' = "column" /\ Disturbs
        /\ sx' = sx + 1 /\ sy' = sy /\ cells' = cells
    BY <1>9 DEF NextColumn, Pen
  <2>2. OnScreen' /\ PenInv' /\ Pos' = Pos + 1
    BY <1>1, <1>3, <2>1 DEF OnScreen, PenInv, Pos
  <2>3. QED
    BY <1>1, <1>4, <1>5, <2>1, <2>2
<1>10. CASE EndOfRow
  <2>1. /\ pen = "column" /\ pen' = "page" /\ Disturbs /\ cells' = cells
        /\ sx = Cols => sx' = 0 /\ sy' = sy + 1
        /\ sx # Cols => sx' = sx /\ sy' = sy
    BY <1>10 DEF EndOfRow, Pen
  <2>2. OnScreen' /\ PenInv'
    BY <1>1, <2>1 DEF OnScreen, PenInv
  <2>3. Pos' = Pos
    BY <1>1, <1>3, <2>1 DEF Pos
  <2>4. QED
    BY <1>1, <1>4, <1>5, <2>1, <2>2, <2>3
<1>11. CASE EndOfPage
  <2>1. /\ pen = "page" /\ pen' = "cursor" /\ Disturbs /\ args' = <<sx', sy'>>
        /\ sy = Rows => cells' = Scrolled(cells) /\ sx' = 0 /\ sy' = sy - 1
        /\ sy # Rows => cells' = cells /\ sx' = sx /\ sy' = sy
    BY <1>11 DEF EndOfPage, Pen, MoveTo
  <2>2. OnScreen' /\ PenInv'
    BY <1>1, <2>1 DEF OnScreen, PenInv
  <2>3. cells' \in [Cells -> Glyphs]
    BY <1>1, <1>2, <2>1
  <2>4. Pos' \in Int /\ (Pos' >= Pos \/ Pos' = Rows * Cols - Cols)
    <3>1. CASE sy = Rows
      BY <2>1, <3>1 DEF Pos
    <3>2. CASE sy # Rows
      BY <1>4, <2>1, <3>2 DEF Pos
    <3>3. QED
      BY <3>1, <3>2
  <2>5. QED
    BY <1>5, <2>1, <2>2, <2>3, <2>4
<1>12. CASE SetCursor
  <2>1. /\ pen = "cursor" /\ pen' = "idle" /\ Disturbs /\ cells' = cells
        /\ sx' = sx /\ sy' = sy
    BY <1>1, <1>12 DEF SetCursor, Pen, PenInv
  <2>2. OnScreen' /\ PenInv' /\ Pos' = Pos
    BY <1>1, <2>1 DEF OnScreen, PenInv, Pos
  <2>3. QED
    BY <1>1, <1>4, <1>5, <2>1, <2>2
<1>13. QED
  BY <1>6, <1>7, <1>8, <1>9, <1>10, <1>11, <1>12 DEF Program, Writes

\* A handler comes between two characters of a program's, or before its
\* screen_x++, and finds the cursor on a cell.
LEMMA InterruptScreen ==
  ASSUME Exposed = {}, ScreenInv, Interrupts, Key \/ Kernel
  PROVE  ScreenInv'
<1> USE SizeAssumption, Grid
<1>1. pen \in {"idle", "cell"} /\ pen' = pen
  BY DEF Interrupts, penVars
<1>2. AtRest
  BY <1>1 DEF ScreenInv, AtRest, OnScreen, Within
<1>3. /\ Within /\ cells \in [Cells -> Glyphs] /\ text \in Seq(Keys)
      /\ at \in 0..Len(text) /\ Pos \in 0..Corner /\ LineInv
  BY <1>2, Place DEF AtRest, LineInv
<1>4. Scrolled(cells) \in [Cells -> Glyphs]
  BY <1>3, ScrolledShows
<1>5. ASSUME AtRest' PROVE ScreenInv'
  BY <1>1, <1>5 DEF ScreenInv, AtRest, OnScreen, Within, PenInv
<1>6. ASSUME NEW ch \in Keys, Char(ch) PROVE AtRest'
  BY <1>2, <1>6, CharScreen
<1>7. CASE Backspace
  BY <1>2, <1>5, <1>7, BackspaceScreen
<1>8. CASE Left \/ RightArrow
  BY <1>2, <1>5, <1>8, ArrowScreen
<1>9. CASE Enter
  <2>1. ~(Right > 0 /\ Len(text) > LongLine)
    BY <1>9 DEF Enter
  <2>2. MoveTo(cells, 0, sy + 1 + 0)
    BY <1>9, <2>1, Zenon DEF Enter
  <2>3. MoveTo(cells, 0, sy + 1)
    BY <1>3, <2>2 DEF Within
  <2>4. Within' /\ cells' \in [Cells -> Glyphs]
    BY <1>3, <1>4, <2>3, NewLineTo DEF MoveTo
  <2>5. QED
    BY <1>2, <1>5, <1>9, <2>4, EmptiedScreen DEF Enter
<1>10. CASE Clear
  <2>1. Within' /\ cells' \in [Cells -> Glyphs]
    BY <1>10 DEF Clear, Within, Glyphs
  <2>2. QED
    BY <1>2, <1>5, <1>10, <2>1, EmptiedScreen DEF Clear
<1>11. ASSUME Within', cells' \in [Cells -> Glyphs], Disturbs,
              Pos' >= Pos \/ Pos' = Rows * Cols - Cols
       PROVE  ScreenInv'
  <2>1. Pos \in Int /\ Pos' \in Int
    BY <1>3, <1>11 DEF Within, Pos
  <2>2. LineInv'
    BY <1>3, <1>11, <2>1, OutputScreen
  <2>3. QED
    BY <1>5, <1>11, <2>2 DEF AtRest
<1>12. CASE KernelChar
  <2> DEFINE page == Put(cells, Pos, Output)
  <2>1. page \in [Cells -> Glyphs]
    BY <1>3 DEF Put, Glyphs
  <2> HIDE DEF page
  <2>2. Advance(page) /\ Disturbs
    BY <1>12 DEF KernelChar, page
  <2>3. /\ Within' /\ (Pos' >= Pos \/ Pos' = Rows * Cols - Cols)
        /\ cells' \in {page, Scrolled(page)}
    BY <1>3, <2>2, AdvanceTo
  <2>4. QED
    BY <1>11, <2>1, <2>2, <2>3, ScrolledShows
<1>13. CASE KernelNewLine
  <2>1. sx' = 0 /\ sy' = sy + 1 /\ sy # Rows - 1 /\ cells' = cells /\ Disturbs
    BY <1>13 DEF KernelNewLine
  <2>2. Within' /\ Pos' >= Pos
    BY <1>3, <2>1 DEF Within, Pos
  <2>3. QED
    BY <1>3, <1>11, <2>1, <2>2
<1>14. QED
  BY <1>5, <1>6, <1>7, <1>8, <1>9, <1>10, <1>12, <1>13 DEF Key, Kernel

\* Every step of the screen keeps it.
LEMMA NextScreen ==
  ASSUME Exposed = {}, ScreenInv, [Next]_vars
  PROVE  ScreenInv'
<1>1. CASE UNCHANGED vars
  BY <1>1 DEF vars, penVars, ScreenInv, LineInv, PenInv, OnScreen, Echoed, Shown, Pos
<1>2. QED
  BY <1>1, ProgramScreen, InterruptScreen DEF Next

\* So it holds in every reachable state.
LEMMA ScreenInvariance == ASSUME Exposed = {} PROVE Init /\ [][Next]_vars => []ScreenInv
<1>1. Init => ScreenInv
  BY InitScreen
<1>2. ScreenInv /\ [Next]_vars => ScreenInv'
  BY NextScreen
<1>3. QED
  BY <1>1, <1>2, PTL

\* On a screen of any size the cursor stays on it, or is brought back by the
\* next test of the program's output that moved it, whatever the keys, the
\* programs and the kernel write between each other, as long as no key and no
\* exception falls between that output's increment and its end, and none of
\* the other Hazards is hit.
THEOREM OnScreenCorrect == ASSUME Exposed = {} PROVE Init /\ [][Next]_vars => []OnScreen
<1>1. ScreenInv => OnScreen
  BY DEF ScreenInv
<1>2. QED
  BY <1>1, ScreenInvariance, PTL

\* What the editor holds is what its cells show, over row ends and scrolls.
THEOREM EchoedCorrect == ASSUME Exposed = {} PROVE Init /\ [][Next]_vars => []Echoed
<1>1. ScreenInv => Echoed
  BY DEF ScreenInv, LineInv
<1>2. QED
  BY <1>1, ScreenInvariance, PTL

(***************************************************************************)
(* The keyboard.                                                           *)
(***************************************************************************)
\* Two rows side by side have the keys of both.
LEMMA BesideKeys == ASSUME NEW f, NEW g PROVE DOMAIN Beside(f, g) = DOMAIN f \cup DOMAIN g
BY DEF Beside

\* The keys of the tables: letters, keys with a second character above, and
\* keys whose character shift does not change.
LEMMA LowerKeys == DOMAIN Lower = 16..25 \cup 30..38 \cup 44..50
<1> DEFINE r1 == KeyRow(16, <<"q", "w", "e", "r", "t", "y", "u", "i", "o", "p">>)
           r2 == KeyRow(30, <<"a", "s", "d", "f", "g", "h", "j", "k", "l">>)
           r3 == KeyRow(44, <<"z", "x", "c", "v", "b", "n", "m">>)
<1>1. /\ DOMAIN r1 = 16..25
      /\ DOMAIN r2 = 30..38
      /\ DOMAIN r3 = 44..50
  BY DEF KeyRow
<1>2. Lower = Beside(r1, Beside(r2, r3))
  BY Zenon DEF Lower
<1> HIDE DEF r1, r2, r3
<1>3. DOMAIN Beside(r2, r3) = DOMAIN r2 \cup DOMAIN r3
  BY BesideKeys
<1>4. DOMAIN Beside(r1, Beside(r2, r3)) = DOMAIN r1 \cup DOMAIN Beside(r2, r3)
  BY BesideKeys
<1>5. QED
  BY <1>1, <1>2, <1>3, <1>4

\* The capitals are on the letters.
LEMMA UpperKeys == DOMAIN Upper = 16..25 \cup 30..38 \cup 44..50
<1> DEFINE r1 == KeyRow(16, <<"Q", "W", "E", "R", "T", "Y", "U", "I", "O", "P">>)
           r2 == KeyRow(30, <<"A", "S", "D", "F", "G", "H", "J", "K", "L">>)
           r3 == KeyRow(44, <<"Z", "X", "C", "V", "B", "N", "M">>)
<1>1. /\ DOMAIN r1 = 16..25
      /\ DOMAIN r2 = 30..38
      /\ DOMAIN r3 = 44..50
  BY DEF KeyRow
<1>2. Upper = Beside(r1, Beside(r2, r3))
  BY Zenon DEF Upper
<1> HIDE DEF r1, r2, r3
<1>3. DOMAIN Beside(r2, r3) = DOMAIN r2 \cup DOMAIN r3
  BY BesideKeys
<1>4. DOMAIN Beside(r1, Beside(r2, r3)) = DOMAIN r1 \cup DOMAIN Beside(r2, r3)
  BY BesideKeys
<1>5. QED
  BY <1>1, <1>2, <1>3, <1>4

\* The keys with two characters.
LEMMA BelowKeys == DOMAIN Below = 2..13 \cup 26..27 \cup 39..41 \cup 43..43 \cup 51..53
<1> DEFINE r1 == KeyRow(2, <<"1", "2", "3", "4", "5", "6", "7", "8", "9", "0", "-", "=">>)
           r2 == KeyRow(26, <<"[", "]">>)
           r3 == KeyRow(39, <<";", "'", "backquote">>)
           r4 == KeyRow(43, <<"\\">>)
           r5 == KeyRow(51, <<",", ".", "/">>)
<1>1. /\ DOMAIN r1 = 2..13
      /\ DOMAIN r2 = 26..27
      /\ DOMAIN r3 = 39..41
      /\ DOMAIN r4 = 43..43
      /\ DOMAIN r5 = 51..53
  BY DEF KeyRow
<1>2. Below = Beside(r1, Beside(r2, Beside(r3, Beside(r4, r5))))
  BY Zenon DEF Below
<1> HIDE DEF r1, r2, r3, r4, r5
<1>3. DOMAIN Beside(r4, r5) = DOMAIN r4 \cup DOMAIN r5
  BY BesideKeys
<1>4. DOMAIN Beside(r3, Beside(r4, r5)) = DOMAIN r3 \cup DOMAIN Beside(r4, r5)
  BY BesideKeys
<1>5. DOMAIN Beside(r2, Beside(r3, Beside(r4, r5)))
    = DOMAIN r2 \cup DOMAIN Beside(r3, Beside(r4, r5))
  BY BesideKeys
<1>6. DOMAIN Beside(r1, Beside(r2, Beside(r3, Beside(r4, r5))))
    = DOMAIN r1 \cup DOMAIN Beside(r2, Beside(r3, Beside(r4, r5)))
  BY BesideKeys
<1>7. QED
  BY <1>1, <1>2, <1>3, <1>4, <1>5, <1>6

\* The same keys, with shift.
LEMMA AboveKeys == DOMAIN Above = 2..13 \cup 26..27 \cup 39..41 \cup 43..43 \cup 51..53
<1> DEFINE r1 == KeyRow(2, <<"!", "@", "#", "$", "%", "^", "&", "*", "(", ")", "_", "+">>)
           r2 == KeyRow(26, <<"{", "}">>)
           r3 == KeyRow(39, <<":", "\"", "~">>)
           r4 == KeyRow(43, <<"|">>)
           r5 == KeyRow(51, <<"<", ">", "?">>)
<1>1. /\ DOMAIN r1 = 2..13
      /\ DOMAIN r2 = 26..27
      /\ DOMAIN r3 = 39..41
      /\ DOMAIN r4 = 43..43
      /\ DOMAIN r5 = 51..53
  BY DEF KeyRow
<1>2. Above = Beside(r1, Beside(r2, Beside(r3, Beside(r4, r5))))
  BY Zenon DEF Above
<1> HIDE DEF r1, r2, r3, r4, r5
<1>3. DOMAIN Beside(r4, r5) = DOMAIN r4 \cup DOMAIN r5
  BY BesideKeys
<1>4. DOMAIN Beside(r3, Beside(r4, r5)) = DOMAIN r3 \cup DOMAIN Beside(r4, r5)
  BY BesideKeys
<1>5. DOMAIN Beside(r2, Beside(r3, Beside(r4, r5)))
    = DOMAIN r2 \cup DOMAIN Beside(r3, Beside(r4, r5))
  BY BesideKeys
<1>6. DOMAIN Beside(r1, Beside(r2, Beside(r3, Beside(r4, r5))))
    = DOMAIN r1 \cup DOMAIN Beside(r2, Beside(r3, Beside(r4, r5)))
  BY BesideKeys
<1>7. QED
  BY <1>1, <1>2, <1>3, <1>4, <1>5, <1>6

\* The keys shift does not change.
LEMMA SameKeys == DOMAIN Same = {1, 14, 15, 28, 55, 57, 74, 78}
<1> DEFINE r1 == KeyRow(ESC, <<"\\e">>)
           r2 == KeyRow(BACKSPACE, <<"\\b", "\\t">>)
           r3 == KeyRow(ENTER, <<"\\n">>)
           r4 == KeyRow(55, <<"*">>)
           r5 == KeyRow(57, <<" ">>)
           r6 == KeyRow(74, <<"-">>)
           r7 == KeyRow(78, <<"+">>)
<1>1. /\ DOMAIN r1 = 1..1
      /\ DOMAIN r2 = 14..15
      /\ DOMAIN r3 = 28..28
      /\ DOMAIN r4 = 55..55
      /\ DOMAIN r5 = 57..57
      /\ DOMAIN r6 = 74..74
      /\ DOMAIN r7 = 78..78
  BY DEF KeyRow, ESC, BACKSPACE, ENTER
<1>2. Same = Beside(r1, Beside(r2, Beside(r3, Beside(r4, Beside(r5, Beside(r6, r7))))))
  BY Zenon DEF Same
<1> HIDE DEF r1, r2, r3, r4, r5, r6, r7
<1>3. DOMAIN Beside(r6, r7) = DOMAIN r6 \cup DOMAIN r7
  BY BesideKeys
<1>4. DOMAIN Beside(r5, Beside(r6, r7)) = DOMAIN r5 \cup DOMAIN Beside(r6, r7)
  BY BesideKeys
<1>5. DOMAIN Beside(r4, Beside(r5, Beside(r6, r7)))
    = DOMAIN r4 \cup DOMAIN Beside(r5, Beside(r6, r7))
  BY BesideKeys
<1>6. DOMAIN Beside(r3, Beside(r4, Beside(r5, Beside(r6, r7))))
    = DOMAIN r3 \cup DOMAIN Beside(r4, Beside(r5, Beside(r6, r7)))
  BY BesideKeys
<1>7. DOMAIN Beside(r2, Beside(r3, Beside(r4, Beside(r5, Beside(r6, r7)))))
    = DOMAIN r2 \cup DOMAIN Beside(r3, Beside(r4, Beside(r5, Beside(r6, r7))))
  BY BesideKeys
<1>8. DOMAIN Beside(r1, Beside(r2, Beside(r3, Beside(r4, Beside(r5, Beside(r6, r7))))))
    = DOMAIN r1 \cup DOMAIN Beside(r2, Beside(r3, Beside(r4, Beside(r5, Beside(r6, r7)))))
  BY BesideKeys
<1>9. QED
  BY <1>1, <1>2, <1>3, <1>4, <1>5, <1>6, <1>7, <1>8

\* Where a character is found in a table of three rows.
LEMMA CharOfRows ==
  ASSUME NEW f, NEW g, NEW h, NEW code
  PROVE  CharOf(Beside(f, Beside(g, h)), code) =
           IF code \in DOMAIN f THEN f[code]
           ELSE IF code \in DOMAIN g THEN g[code]
           ELSE IF code \in DOMAIN h THEN h[code] ELSE Nothing
<1>1. DOMAIN Beside(g, h) = DOMAIN g \cup DOMAIN h
  BY BesideKeys
<1>2. DOMAIN Beside(f, Beside(g, h)) = DOMAIN f \cup (DOMAIN g \cup DOMAIN h)
  BY <1>1, BesideKeys
<1>3. \A c \in DOMAIN g \cup DOMAIN h :
        Beside(g, h)[c] = IF c \in DOMAIN g THEN g[c] ELSE h[c]
  BY DEF Beside
<1>4. \A c \in DOMAIN f \cup (DOMAIN g \cup DOMAIN h) :
        Beside(f, Beside(g, h))[c] = IF c \in DOMAIN f THEN f[c] ELSE Beside(g, h)[c]
  BY <1>1 DEF Beside
<1>5. QED
  BY <1>2, <1>3, <1>4 DEF CharOf

\* The four tables choose: for letters shift or caps lock, not both, for the
\* keys with two characters shift alone.
LEMMA CharOfTable ==
  ASSUME NEW f, NEW code, f.shift \in BOOLEAN, f.caps \in BOOLEAN
  PROVE  CharOf(Table(f), code) =
           IF code \in DOMAIN Lower
             THEN IF f.shift # f.caps THEN Upper[code] ELSE Lower[code]
           ELSE IF code \in DOMAIN Below THEN IF f.shift THEN Above[code] ELSE Below[code]
           ELSE IF code \in DOMAIN Same THEN Same[code] ELSE Nothing
<1>1. DOMAIN Upper = DOMAIN Lower /\ DOMAIN Above = DOMAIN Below
  BY LowerKeys, UpperKeys, BelowKeys, AboveKeys
<1>2. CASE ~f.shift /\ ~f.caps
  <2>1. Table(f) = Beside(Lower, Beside(Below, Same))
    BY <1>2 DEF Table, kbdus
  <2>2. ~(f.shift # f.caps)
    BY <1>2, Zenon
  <2>3. QED
    BY <1>1, <1>2, <2>1, <2>2, CharOfRows
<1>3. CASE ~f.shift /\ f.caps
  <2>1. Table(f) = Beside(Upper, Beside(Below, Same))
    BY <1>3 DEF Table, kbdus_caps
  <2>2. f.shift # f.caps
    BY <1>3, Zenon
  <2>3. QED
    BY <1>1, <1>3, <2>1, <2>2, CharOfRows
<1>4. CASE f.shift /\ ~f.caps
  <2>1. Table(f) = Beside(Upper, Beside(Above, Same))
    BY <1>4 DEF Table, kbdus_shift
  <2>2. f.shift # f.caps
    BY <1>4, Zenon
  <2>3. QED
    BY <1>1, <1>4, <2>1, <2>2, CharOfRows
<1>5. CASE f.shift /\ f.caps
  <2>1. Table(f) = Beside(Lower, Beside(Above, Same))
    BY <1>5 DEF Table, kbdus_caps_shift
  <2>2. ~(f.shift # f.caps)
    BY <1>5, Zenon
  <2>3. QED
    BY <1>1, <1>5, <2>1, <2>2, CharOfRows
<1>6. QED
  BY <1>2, <1>3, <1>4, <1>5

Shifts   == {<<0, LSHIFT>>, <<0, RSHIFT>>}
Controls == {<<0, LCTRL>>, <<224, LCTRL>>}
Alts     == {<<0, LALT>>, <<224, LALT>>}
FakeShifts == {<<224, LSHIFT>>, <<224, RSHIFT>>}

\* The flags are the user's truth, and the key to repeat is one still held.
KeysTold ==
  /\ flags.shift <=> Holding(Shifts)
  /\ flags.ctrl <=> Holding(Controls)
  /\ flags.alt <=> Holding(Alts)
  /\ flags.caps <=> locked
  /\ struck.key \in held \cup {NoKey.key}

\* Only the shell's terminal has a line and a history, and the picture is the
\* displayed terminal's.
LinesInv ==
  /\ live \in 0..2 /\ picture = live
  /\ written \subseteq {1} /\ remembered \subseteq {1}

\* What the property Confined says of one step.
Kept == /\ ~Desk => UNCHANGED deskVars
        /\ live # 1 => UNCHANGED written
        /\ ~Game => UNCHANGED lastKey
        /\ picture' = live'

Flags == [shift : BOOLEAN, ctrl : BOOLEAN, alt : BOOLEAN, caps : BOOLEAN]

KeyboardInv ==
  /\ paint \in [color : Int, size : Int]
  /\ held \subseteq Board /\ locked \in BOOLEAN
  /\ flags \in Flags
  /\ KeysTold /\ LinesInv /\ Typed

\* It holds at boot.
LEMMA InitKeyboard == KbInit => KeyboardInv
<1> SUFFICES ASSUME KbInit PROVE KeyboardInv
  OBVIOUS
<1>1. ~Holding(Shifts) /\ ~Holding(Controls) /\ ~Holding(Alts)
  BY DEF KbInit, Holding
<1>2. KeysTold
  BY <1>1, Zenon DEF KbInit, KeysTold, NoKey
<1>3. LinesInv
  BY DEF KbInit, LinesInv
<1>4. Typed
  <2>1. ~NoKey.text
    BY DEF NoKey
  <2>2. QED
    BY <2>1, Zenon DEF KbInit, Typed
<1>5. /\ flags \in Flags
      /\ locked \in BOOLEAN
  BY Zenon DEF KbInit, Flags
<1>6. QED
  BY <1>2, <1>3, <1>4, <1>5 DEF KbInit, KeyboardInv

\* key_handler, whatever the code, leaves the line, the picture and what is
\* not displayed as KeyboardInv and Confined ask.
LEMMA HandlerLines ==
  ASSUME Allowed = {}, LinesInv, paint \in [color : Int, size : Int],
         NEW code \in Int, KeyHandler(code)
  PROVE  LinesInv' /\ Kept /\ paint' \in [color : Int, size : Int]
<1> DEFINE f == NewFlags(code)
           op == Operation(code, f)
           char == Typing(code, f)
<1>1. /\ paint' = PaintKey(code)
      /\ lastKey' = IF Game /\ char \in {"a", "d", "s", "w"} THEN char ELSE lastKey
      /\ \/ op = "end" /\ EndGame
         \/ op = "insert" /\ Insert
         \/ op = "tab" /\ TabKey
         \/ op = "history" /\ HistoryKey
         \/ op = "clear" /\ ClearKey
         \/ op = "copy" /\ CopyKey
         \/ op = "desk" /\ DeskKey
         \/ op = "shell" /\ ShellKey
         \/ op \in {"char", "move", "none"} /\ CharKey(char)
  BY DEF KeyHandler
<1>2. op = "end" => Game
  BY DEF Operation, Game
<1> HIDE DEF op, char, f
<1>3. paint' \in [color : Int, size : Int] /\ (~Desk => paint' = paint)
  BY <1>1 DEF PaintKey
<1>4. ~Game => lastKey' = lastKey
  BY <1>1
<1>5. SUFFICES /\ live' \in 0..2 /\ picture' = live'
               /\ written' \subseteq {1} /\ remembered' \subseteq {1}
               /\ ~Desk => UNCHANGED <<canvas, background>>
               /\ live # 1 => UNCHANGED written
  BY <1>3, <1>4 DEF LinesInv, Kept, deskVars
<1>6. CASE op = "end" /\ EndGame
  BY <1>2, <1>6 DEF EndGame, Displays, LinesInv, Game, Desk
<1>7. CASE Insert
  BY <1>7 DEF Insert, SameLines, LinesInv, Desk
<1>8. CASE TabKey
  BY <1>8 DEF TabKey, SameDisplay, LinesInv, Desk
<1>9. CASE HistoryKey
  BY <1>9 DEF HistoryKey, SameDisplay, LinesInv
<1>10. CASE ClearKey
  BY <1>10 DEF ClearKey, SameDisplay, LinesInv
<1>11. CASE CopyKey
  BY <1>11 DEF CopyKey, SameDisplay, SameLines, LinesInv
<1>12. CASE DeskKey
  BY <1>12 DEF DeskKey, SameDisplay, SameLines, Displays, LinesInv
<1>13. CASE ShellKey
  BY <1>13 DEF ShellKey, SameDisplay, SameLines, Displays, LinesInv
<1>14. CASE CharKey(char)
  <2>1. live = 1 => /\ written' \subseteq written \cup {live}
                    /\ remembered' \subseteq remembered \cup {live}
    BY <1>14 DEF CharKey, Edit, SameLines, LinesInv
  <2>2. live # 1 => SameLines
    BY <1>14 DEF CharKey
  <2>3. QED
    BY <1>14, <2>1, <2>2 DEF CharKey, SameDisplay, SameLines, LinesInv
<1>15. QED
  BY <1>1, <1>6, <1>7, <1>8, <1>9, <1>10, <1>11, <1>12, <1>13, <1>14

\* Without extended shifts, a key is a modifier by its code.
LEMMA BoardKeys ==
  ASSUME Board \cap FakeShifts = {}, NEW k \in Board
  PROVE  /\ k[2] \in 1..88
         /\ k # <<0, 0>>
         /\ k \in Shifts <=> k[2] \in {LSHIFT, RSHIFT}
         /\ k \in Controls <=> k[2] \in {LCTRL}
         /\ k \in Alts <=> k[2] \in {LALT}
<1>1. PICK p \in {0, 224}, c \in 1..88 : k = <<p, c>>
  BY BoardAssumption
<1>2. k \notin FakeShifts
  OBVIOUS
<1>3. k[1] = p /\ k[2] = c
  BY <1>1
<1>4. QED
  BY <1>1, <1>2, <1>3
    DEF FakeShifts, Shifts, Controls, Alts, LSHIFT, RSHIFT, LCTRL, LALT

\* After a press or a repeat the flags say what is held.
LEMMA FlagsDown ==
  ASSUME Board \cap FakeShifts = {}, KeyboardInv, NEW k \in Board,
         held' = held \cup {k}, locked' = (IF k[2] = CAPS THEN ~locked ELSE locked),
         flags' = NewFlags(k[2]), struck'.key = k
  PROVE  flags' \in Flags /\ locked' \in BOOLEAN /\ KeysTold'
<1> DEFINE code == k[2]
<1>1. code \in 1..88 
  BY BoardKeys
<1>2. ASSUME NEW flag \in BOOLEAN, NEW keys \in SUBSET (1..88), NEW kind,
             k \in kind <=> code \in keys, flag <=> Holding(kind)
      PROVE  Stays(flag, keys, code) <=> Holding(kind)'
  <2>1. code - 128 \notin keys
    BY <1>1, <1>2
  <2>2. Holding(kind)' <=> Holding(kind) \/ k \in kind
    BY DEF Holding
  <2>3. QED
    BY <1>2, <2>1, <2>2 DEF Stays
<1>3. /\ flags.shift \in BOOLEAN /\ flags.ctrl \in BOOLEAN
      /\ flags.alt \in BOOLEAN /\ flags.caps \in BOOLEAN
      /\ flags.shift <=> Holding(Shifts)
      /\ flags.ctrl <=> Holding(Controls)
      /\ flags.alt <=> Holding(Alts)
      /\ flags.caps <=> locked
      /\ locked \in BOOLEAN
  BY Zenon DEF KeyboardInv, KeysTold, Flags
<1>4. /\ {LSHIFT, RSHIFT} \in SUBSET (1..88)
      /\ {LCTRL} \in SUBSET (1..88)
      /\ {LALT} \in SUBSET (1..88)
  BY DEF LSHIFT, RSHIFT, LCTRL, LALT
<1>5. /\ Stays(flags.shift, {LSHIFT, RSHIFT}, code) <=> Holding(Shifts)'
      /\ Stays(flags.ctrl, {LCTRL}, code) <=> Holding(Controls)'
      /\ Stays(flags.alt, {LALT}, code) <=> Holding(Alts)'
  BY <1>2, <1>3, <1>4, BoardKeys
<1>6. \A flag, keys : Stays(flag, keys, code) \in BOOLEAN
  BY Zenon DEF Stays
<1>7. (IF code = CAPS THEN ~flags.caps ELSE flags.caps) \in BOOLEAN
  BY <1>3, Zenon
<1>8. locked' \in BOOLEAN
  BY <1>3, Zenon
<1>9. flags' \in Flags
  BY <1>6, <1>7, Zenon DEF Flags, NewFlags
<1>10. /\ flags'.shift = Stays(flags.shift, {LSHIFT, RSHIFT}, code)
       /\ flags'.ctrl = Stays(flags.ctrl, {LCTRL}, code)
       /\ flags'.alt = Stays(flags.alt, {LALT}, code)
       /\ flags'.caps = (IF code = CAPS THEN ~flags.caps ELSE flags.caps)
  BY Zenon DEF NewFlags
<1>11. flags'.caps <=> locked'
  BY <1>3, <1>10, Zenon
<1>12. struck'.key \in held' \cup {NoKey.key}
  BY Zenon
<1>13. QED
  BY <1>5, <1>8, <1>9, <1>10, <1>11, <1>12, Zenon DEF KeysTold

\* After a release too, unless the other of two alike is still held.
LEMMA FlagsUp ==
  ASSUME Board \cap FakeShifts = {}, KeyboardInv, NEW k \in held,
         ~\E kind \in Kinds : kind \subseteq held /\ k \in kind,
         held' = held \ {k}, locked' = locked,
         flags' = NewFlags(k[2] + 128), struck' = NoKey
  PROVE  flags' \in Flags /\ KeysTold'
<1> DEFINE code == k[2] + 128
<1>1. k \in Board /\ k[2] \in 1..88 /\ code - 128 = k[2] /\ code # CAPS
  BY BoardKeys DEF KeyboardInv, CAPS
<1>2. ASSUME NEW kind \in Kinds
      PROVE  Holding(kind)' <=> Holding(kind) /\ k \notin kind
  <2>1. kind = Shifts \/ kind = Controls \/ kind = Alts
    BY Zenon DEF Kinds, Shifts, Controls, Alts
  <2>2. PICK a, b : kind = {a, b}
    BY <2>1, Zenon DEF Shifts, Controls, Alts
  <2>3. k \in kind => a \notin held \/ b \notin held
    BY <2>2
  <2>4. QED
    BY <2>2, <2>3 DEF Holding
<1>3. /\ Holding(Shifts)' <=> Holding(Shifts) /\ k \notin Shifts
      /\ Holding(Controls)' <=> Holding(Controls) /\ k \notin Controls
      /\ Holding(Alts)' <=> Holding(Alts) /\ k \notin Alts
  <2>1. Shifts \in Kinds /\ Controls \in Kinds /\ Alts \in Kinds
    BY Zenon DEF Kinds, Shifts, Controls, Alts
  <2>2. QED
    BY <1>2, <2>1, Zenon
<1>4. ASSUME NEW flag, NEW keys \in SUBSET (1..88)
      PROVE  Stays(flag, keys, code) <=> flag /\ k[2] \notin keys
  <2>1. code \notin keys /\ code - 128 = k[2]
    BY <1>1, <1>4
  <2>2. QED
    BY <2>1 DEF Stays
<1>5. /\ flags.shift \in BOOLEAN /\ flags.ctrl \in BOOLEAN
      /\ flags.alt \in BOOLEAN /\ flags.caps \in BOOLEAN
      /\ flags.shift <=> Holding(Shifts)
      /\ flags.ctrl <=> Holding(Controls)
      /\ flags.alt <=> Holding(Alts)
      /\ flags.caps <=> locked
      /\ locked \in BOOLEAN
  BY Zenon DEF KeyboardInv, KeysTold, Flags
<1>6. /\ {LSHIFT, RSHIFT} \in SUBSET (1..88)
      /\ {LCTRL} \in SUBSET (1..88)
      /\ {LALT} \in SUBSET (1..88)
  BY DEF LSHIFT, RSHIFT, LCTRL, LALT
<1>7. /\ Stays(flags.shift, {LSHIFT, RSHIFT}, code) <=> Holding(Shifts)'
      /\ Stays(flags.ctrl, {LCTRL}, code) <=> Holding(Controls)'
      /\ Stays(flags.alt, {LALT}, code) <=> Holding(Alts)'
  BY <1>1, <1>3, <1>4, <1>5, <1>6, BoardKeys
<1>8. \A flag, keys : Stays(flag, keys, code) \in BOOLEAN
  BY Zenon DEF Stays
<1>9. (IF code = CAPS THEN ~flags.caps ELSE flags.caps) \in BOOLEAN
  BY <1>5, Zenon
<1>10. flags' \in Flags
  BY <1>8, <1>9, Zenon DEF Flags, NewFlags
<1>11. /\ flags'.shift = Stays(flags.shift, {LSHIFT, RSHIFT}, code)
       /\ flags'.ctrl = Stays(flags.ctrl, {LCTRL}, code)
       /\ flags'.alt = Stays(flags.alt, {LALT}, code)
       /\ flags'.caps = (IF code = CAPS THEN ~flags.caps ELSE flags.caps)
  BY Zenon DEF NewFlags
<1>12. flags'.caps <=> locked'
  BY <1>1, <1>5, <1>11, Zenon
<1>13. struck'.key \in held' \cup {NoKey.key}
  BY Zenon
<1>14. QED
  BY <1>7, <1>10, <1>11, <1>12, <1>13, Zenon DEF KeysTold

\* Under such flags the character typed is the one the legend says.
LEMMA TypedDown ==
  ASSUME NEW code \in 1..88, flags' \in Flags, locked' \in BOOLEAN, KeysTold',
         struck'.text => live = 1,
         struck'.key[2] = code, struck'.typed = Typing(code, flags')
  PROVE  Typed'
<1> SUFFICES ASSUME live = 1
             PROVE  Typing(code, flags') = Legend(code)'
  BY Zenon DEF Typed
<1> DEFINE f == flags'
<1>1. /\ f.shift \in BOOLEAN /\ f.ctrl \in BOOLEAN /\ f.alt \in BOOLEAN /\ f.caps \in BOOLEAN
      /\ f.shift <=> Holding(Shifts)'
      /\ f.ctrl <=> Holding(Controls)'
      /\ f.alt <=> Holding(Alts)'
      /\ f.caps <=> locked'
  BY Zenon DEF KeysTold, Flags
<1>7. f.shift = Holding(Shifts)' /\ f.caps = locked'
  <2>1. Holding(Shifts)' \in BOOLEAN
    BY Zenon DEF Holding
  <2>2. QED
    BY <1>1, <2>1, Zenon
<1>2. (Holding(Shifts)' # locked') <=> (f.shift # f.caps)
  BY <1>7, Zenon
<1> HIDE DEF f
<1>3. CASE f.ctrl \/ f.alt
  <2>1. Operation(code, f) # "char"
    BY <1>3 DEF Operation
  <2>2. Typing(code, f) = Nothing
    BY <2>1 DEF Typing
  <2>3. Legend(code)' = Nothing
    BY <1>1, <1>3, Zenon DEF Legend, Controls, Alts
  <2>4. QED
    BY <2>2, <2>3 DEF f
<1>4. CASE ~f.ctrl /\ ~f.alt /\ code \in {INSERT, TAB, UP, DOWN, LEFT, RIGHT}
  <2>1. Operation(code, f) # "char"
    BY <1>4 DEF Operation, Game
  <2>2. Typing(code, f) = Nothing
    BY <2>1 DEF Typing
  <2>3. /\ code \notin DOMAIN Lower /\ code \notin DOMAIN Below
        /\ code \notin DOMAIN Same \ {TAB}
    BY <1>4, LowerKeys, BelowKeys, SameKeys DEF INSERT, TAB, UP, DOWN, LEFT, RIGHT
  <2>4. Legend(code)' = Nothing
    BY <2>3, Zenon DEF Legend
  <2>5. QED
    BY <2>2, <2>4 DEF f
<1>5. CASE ~f.ctrl /\ ~f.alt /\ code \notin {INSERT, TAB, UP, DOWN, LEFT, RIGHT}
  <2>1. Operation(code, f) = "char"
    BY <1>5 DEF Operation, Game
  <2>2. Typing(code, f) = CharOf(Table(f), code)
    BY <2>1 DEF Typing
  <2>3. Typing(code, f) =
          IF code \in DOMAIN Lower
            THEN IF f.shift # f.caps THEN Upper[code] ELSE Lower[code]
          ELSE IF code \in DOMAIN Below THEN IF f.shift THEN Above[code] ELSE Below[code]
          ELSE IF code \in DOMAIN Same THEN Same[code] ELSE Nothing
    BY <1>1, <2>2, CharOfTable
  <2>4. Legend(code)' =
          CASE code \in DOMAIN Lower ->
                   IF Holding(Shifts)' # locked' THEN Upper[code] ELSE Lower[code]
            [] code \in DOMAIN Below -> IF Holding(Shifts)' THEN Above[code] ELSE Below[code]
            [] code \in DOMAIN Same \ {TAB} -> Same[code]
            [] OTHER -> Nothing
    BY <1>1, <1>5, Zenon DEF Legend, Controls, Alts, Shifts
  <2>5. /\ code \in DOMAIN Lower => code \notin DOMAIN Below /\ code \notin DOMAIN Same
        /\ code \in DOMAIN Below => code \notin DOMAIN Same
        /\ code # TAB
    BY <1>5, LowerKeys, BelowKeys, SameKeys
  <2>6. CASE code \in DOMAIN Lower
    BY <1>1, <1>2, <2>3, <2>4, <2>5, <2>6, Zenon DEF f
  <2>7. CASE code \in DOMAIN Below
    BY <1>1, <2>3, <2>4, <2>5, <2>7, Zenon DEF f
  <2>8. CASE code \in DOMAIN Same
    BY <2>3, <2>4, <2>5, <2>8, Zenon DEF f
  <2>9. CASE code \notin DOMAIN Lower \cup DOMAIN Below \cup DOMAIN Same
    BY <2>3, <2>4, <2>9, Zenon DEF f
  <2>10. QED
    BY <2>6, <2>7, <2>8, <2>9
<1>6. QED
  BY <1>3, <1>4, <1>5

\* Presses and repeats.
LEMMA StrikeKeyboard ==
  ASSUME Allowed = {}, Board \cap FakeShifts = {}, KeyboardInv, NEW k \in Board, Strike(k),
         held' = held \cup {k}, locked' = (IF k[2] = CAPS THEN ~locked ELSE locked)
  PROVE  KeyboardInv' /\ Kept
<1>1. /\ KeyHandler(k[2])
      /\ struck' = [key |-> k, text |-> live = 1, typed |-> Typing(k[2], NewFlags(k[2]))]
      /\ flags' = NewFlags(k[2])
  BY DEF Strike, KeyHandler
<1>2. k[2] \in 1..88
  BY BoardKeys
<1>3. flags' \in Flags /\ locked' \in BOOLEAN /\ KeysTold'
  <2>1. struck'.key = k
    BY <1>1
  <2>2. QED
    BY <1>1, <2>1, FlagsDown
<1>4. Typed'
  <2>1. /\ struck'.text => live = 1
        /\ struck'.key[2] = k[2]
        /\ struck'.typed = Typing(k[2], flags')
    BY <1>1, Zenon
  <2>2. QED
    BY <1>2, <1>3, <2>1, TypedDown
<1>5. LinesInv' /\ Kept /\ paint' \in [color : Int, size : Int]
  BY <1>1, <1>2, HandlerLines DEF KeyboardInv
<1>6. held' \subseteq Board
  BY DEF KeyboardInv
<1>7. QED
  BY <1>3, <1>4, <1>5, <1>6, Zenon DEF KeyboardInv

\* What is not a key leaves the keys and flags alone.
LEMMA ElsewhereKeyboard ==
  ASSUME KeyboardInv, Elsewhere
  PROVE  /\ paint' \in [color : Int, size : Int] /\ held' \subseteq Board
         /\ locked' \in BOOLEAN /\ flags' \in Flags /\ KeysTold' /\ Typed'
<1>1. /\ paint' \in [color : Int, size : Int] /\ held' \subseteq Board
      /\ locked' \in BOOLEAN /\ flags' \in Flags
  BY Zenon DEF KeyboardInv, Elsewhere
<1>2. Holding(Shifts)' = Holding(Shifts) /\ Holding(Controls)' = Holding(Controls)
      /\ Holding(Alts)' = Holding(Alts)
  BY Zenon DEF Holding, Elsewhere
<1>3. KeysTold'
  BY <1>2, Zenon DEF KeyboardInv, KeysTold, Elsewhere
<1>4. Typed'
  <2>1. ~NoKey.text
    BY DEF NoKey
  <2>2. QED
    BY <2>1, Zenon DEF Typed, Elsewhere
<1>5. QED
  BY <1>1, <1>3, <1>4

\* Every step.
LEMMA NextKeyboard ==
  ASSUME Allowed = {}, Board \cap FakeShifts = {}, KeyboardInv, [KbNext]_kbVars
  PROVE  KeyboardInv' /\ (kbVars' # kbVars => Kept)
<1>1. ASSUME NEW k \in Board, Press(k) PROVE KeyboardInv' /\ Kept
  BY <1>1, StrikeKeyboard DEF Press
<1>2. ASSUME NEW k \in Board, Repeat(k) PROVE KeyboardInv' /\ Kept
  <2>1. k \in held
    BY <1>2, BoardKeys DEF Repeat, KeyboardInv, KeysTold, NoKey
  <2>2. held' = held \cup {k} /\ locked' = (IF k[2] = CAPS THEN ~locked ELSE locked)
    BY <1>2, <2>1 DEF Repeat
  <2>3. QED
    BY <1>2, <2>2, StrikeKeyboard DEF Repeat
<1>3. ASSUME NEW k \in Board, Release(k) PROVE KeyboardInv' /\ Kept
  <2>1. /\ k \in held
        /\ ~\E kind \in Kinds : kind \subseteq held /\ k \in kind
        /\ held' = held \ {k} /\ locked' = locked
        /\ KeyHandler(k[2] + 128) /\ struck' = NoKey
    BY <1>3 DEF Release
  <2>2. flags' \in Flags /\ KeysTold'
    <3>1. flags' = NewFlags(k[2] + 128)
      BY <2>1 DEF KeyHandler
    <3>2. QED
      BY <2>1, <3>1, FlagsUp
  <2>3. LinesInv' /\ Kept /\ paint' \in [color : Int, size : Int]
    <3>1. k[2] + 128 \in Int
      BY BoardKeys
    <3>2. QED
      BY <2>1, <3>1, HandlerLines DEF KeyboardInv
  <2>4. Typed'
    <3>1. ~NoKey.text
      BY DEF NoKey
    <3>2. QED
      BY <2>1, <3>1, Zenon DEF Typed
  <2>5. held' \subseteq Board /\ locked' \in BOOLEAN
    BY <2>1, Zenon DEF KeyboardInv
  <2>6. QED
    BY <2>2, <2>3, <2>4, <2>5, Zenon DEF KeyboardInv
<1>4. ASSUME Tick \/ Icon(1) \/ Icon(2) \/ DrawPaint \/ ShellExits
      PROVE  KeyboardInv' /\ Kept
  <2>1. Elsewhere
    BY <1>4 DEF Tick, Icon, DrawPaint, ShellExits
  <2>2. LinesInv' /\ Kept
    <3>1. LinesInv
      BY DEF KeyboardInv
    <3>2. CASE Tick
      BY <3>1, <3>2 DEF Tick, Elsewhere, LinesInv, Kept, deskVars
    <3>3. ASSUME NEW t \in {1, 2}, Icon(t) PROVE LinesInv' /\ Kept
      BY <3>1, <3>3 DEF Icon, Displays, Desk, Elsewhere, LinesInv, Kept, deskVars
    <3>4. CASE DrawPaint
      BY <3>1, <3>4 DEF DrawPaint, SameDisplay, Desk, Elsewhere, LinesInv, Kept, deskVars
    <3>5. CASE ShellExits
      BY <3>1, <3>5 DEF ShellExits, Displays, Elsewhere, LinesInv, Kept, deskVars
    <3>6. QED
      BY <1>4, <3>2, <3>3, <3>4, <3>5
  <2>3. QED
    BY <2>1, <2>2, ElsewhereKeyboard, Zenon DEF KeyboardInv
<1>5. ASSUME UNCHANGED kbVars PROVE KeyboardInv'
  <2>1. /\ UNCHANGED <<held, locked, flags, live, written, remembered, struck, paint, picture>>
    BY <1>5 DEF kbVars, deskVars
  <2>2. Holding(Shifts)' = Holding(Shifts) /\ Holding(Controls)' = Holding(Controls)
        /\ Holding(Alts)' = Holding(Alts)
    BY <2>1, Zenon DEF Holding
  <2>3. KeysTold' /\ LinesInv'
    BY <2>1, <2>2, Zenon DEF KeyboardInv, KeysTold, LinesInv
  <2>4. Typed'
    BY <2>1, Zenon DEF KeyboardInv, Typed, Legend, Holding
  <2>5. QED
    BY <2>1, <2>3, <2>4, Zenon DEF KeyboardInv
<1>6. QED
  BY <1>1, <1>2, <1>3, <1>4, <1>5 DEF KbNext

\* In every reachable state the handler's flags are the user's hands.
THEOREM KeyboardInvariance ==
  ASSUME Allowed = {}, Board \cap FakeShifts = {}
  PROVE  KbInit /\ [][KbNext]_kbVars => []KeyboardInv
<1>1. KeyboardInv /\ [KbNext]_kbVars => KeyboardInv'
  BY NextKeyboard
<1>2. QED
  BY InitKeyboard, <1>1, PTL

\* Whatever the keys and the number held at once, no modifier is stuck and
\* none forgotten: what is typed is what the keys say (key.c:250-271,
\* 350-358).  Boards whose extended keys send a shift of their own are left
\* out: key_handler takes it for the user's.
THEOREM TypedCorrect ==
  ASSUME Allowed = {}, Board \cap FakeShifts = {}
  PROVE  KbInit /\ [][KbNext]_kbVars => []Typed
<1>1. KeyboardInv => Typed
  BY DEF KeyboardInv
<1>2. QED
  BY KeyboardInvariance, <1>1, PTL

\* A key acts only on the program displayed, and the picture is the displayed
\* terminal's (key.c:210-249, 274-343).
THEOREM ConfinedCorrect ==
  ASSUME Allowed = {}, Board \cap FakeShifts = {}
  PROVE  KbInit /\ [][KbNext]_kbVars => Confined
<1>1. KeyboardInv /\ [KbNext]_kbVars
      => [ /\ ~Desk => UNCHANGED deskVars
           /\ live # 1 => UNCHANGED written
           /\ ~Game => UNCHANGED lastKey
           /\ picture' = live' ]_kbVars
  BY NextKeyboard DEF Kept
<1>2. QED
  BY KeyboardInvariance, <1>1, PTL DEF Confined

(***************************************************************************)
(* The library.  printf is read from what it prints: itoa's rounds leave   *)
(* the digits of the value (Reads), strrev turns them into a numeral       *)
(* (Reading), and a round at a piece of the format appends the piece's     *)
(* text.  A block of memory is followed chunk by chunk (Divides, Written). *)
(***************************************************************************)

(***************************************************************************)
(* Numbers, and what is done so many times.                                *)
(***************************************************************************)
\* The least number of a nonempty set.
LEMMA MinIsLeast ==
  ASSUME NEW S \in SUBSET Nat, S # {}
  PROVE  Min(S) \in S /\ \A y \in S : Min(S) <= y
<1>1. PICK x \in S : \A y \in S : ~(<<y, x>> \in OpToRel(<, Nat))
  BY NatLessThanWellFounded, WFMin
<1>2. \A y \in S : x <= y
  <2> SUFFICES ASSUME NEW y \in S PROVE x <= y
    OBVIOUS
  <2>1. x \in Nat /\ y \in Nat
    BY <1>1
  <2>2. ~(y < x)
    BY <1>1, <2>1 DEF OpToRel
  <2>3. QED
    BY <2>1, <2>2
<1>3. \E z \in S : \A y \in S : z <= y
  BY <1>1, <1>2
<1>4. QED
  BY <1>3 DEF Min

\* What holds of 0 and of each number after one it holds of, holds up to n.
LEMMA Reaches ==
  ASSUME NEW n \in Nat, NEW G, 0 \in G, \A k \in 1..n : k - 1 \in G => k \in G
  PROVE  \A k \in 0..n : k \in G
<1> DEFINE bad == {k \in 0..n : k \notin G}
<1>1. SUFFICES ASSUME bad # {} PROVE FALSE
  OBVIOUS
<1>2. bad \in SUBSET Nat
  OBVIOUS
<1>3. PICK m : m \in bad /\ \A y \in bad : m <= y
  BY <1>1, <1>2, MinIsLeast
<1>4. m \in 1..n /\ m - 1 \in 0..n /\ ~(m <= m - 1)
  BY <1>3
<1>5. m - 1 \in G
  BY <1>3, <1>4
<1>6. QED
  BY <1>3, <1>4, <1>5

\* What a step of a loop says of its states, and that it has such states.
Iterates(g, f, x, n) == g = [k \in 0..n |-> IF k = 0 THEN x ELSE f[k][g[k - 1]]]

LEMMA IterationExists ==
  ASSUME NEW S, NEW x \in S, NEW n \in Nat, NEW f \in [1..n -> [S -> S]]
  PROVE  \E g \in [0..n -> S] : Iterates(g, f, x, n)
<1> DEFINE G == {k \in 0..n : \E g \in [0..k -> S] : Iterates(g, f, x, k)}
<1>1. 0 \in G
  <2> DEFINE g == [k \in 0..0 |-> x]
  <2>1. g \in [0..0 -> S] /\ \A k \in 0..0 : k = 0
    OBVIOUS
  <2>2. Iterates(g, f, x, 0)
    BY <2>1 DEF Iterates
  <2>3. QED
    BY <2>1, <2>2
<1>2. ASSUME NEW k \in 1..n, k - 1 \in G PROVE k \in G
  <2>1. PICK g \in [0..(k - 1) -> S] : Iterates(g, f, x, k - 1)
    BY <1>2
  <2> DEFINE last == f[k][g[k - 1]]
             h == [i \in 0..k |-> IF i = k THEN last ELSE g[i]]
  <2>2. k - 1 \in 0..(k - 1) /\ last \in S
    <3>1. k - 1 \in 0..(k - 1)
      OBVIOUS
    <3>2. QED
      BY <3>1
  <2>8. last = f[k][g[k - 1]]
    OBVIOUS
  <2> HIDE DEF last
  <2>3. /\ h \in [0..k -> S] /\ h[k] = last
        /\ \A i \in 0..(k - 1) : h[i] = g[i]
    <3>1. \A i \in 0..k : i = k \/ i \in 0..(k - 1)
      OBVIOUS
    <3>2. k \in 0..k /\ \A i \in 0..(k - 1) : i # k /\ i \in 0..k
      OBVIOUS
    <3>3. QED
      BY <2>2, <3>1, <3>2
  <2> HIDE DEF h
  <2>4. ASSUME NEW i \in 0..k
        PROVE  h[i] = IF i = 0 THEN x ELSE f[i][h[i - 1]]
    <3>1. CASE i = k
      BY <2>2, <2>3, <2>8, <3>1
    <3>2. CASE i # k
      <4>1. i \in 0..(k - 1) /\ (i # 0 => i - 1 \in 0..(k - 1))
        BY <3>2
      <4>2. g[i] = IF i = 0 THEN x ELSE f[i][g[i - 1]]
        BY <2>1, <4>1 DEF Iterates
      <4>3. QED
        BY <2>3, <4>1, <4>2
    <3>3. QED
      BY <3>1, <3>2
  <2>5. h = [i \in 0..k |-> h[i]]
    BY <2>3
  <2>6. Iterates(h, f, x, k)
    BY <2>4, <2>5, Zenon DEF Iterates
  <2>7. QED
    BY <2>3, <2>6
<1>3. \A k \in 0..n : k \in G
  <2> HIDE DEF G
  <2>1. QED
    BY <1>1, <1>2, Reaches
<1>4. n \in 0..n
  OBVIOUS
<1>5. QED
  BY <1>3, <1>4

\* Two functions that go on alike from alike beginnings.
Alike(f, g, n) == f[0] = g[0] /\ \A k \in 1..n : f[k - 1] = g[k - 1] => f[k] = g[k]
Agree(f, g, n) == \A k \in 0..n : f[k] = g[k]

LEMMA Follows ==
  ASSUME NEW n \in Nat, NEW f, NEW g, Alike(f, g, n)
  PROVE  Agree(f, g, n)
<1> DEFINE G == {k \in 0..n : f[k] = g[k]}
<1>1. 0 \in G
  BY DEF Alike
<1>2. \A k \in 1..n : k - 1 \in G => k \in G
  BY DEF Alike
<1>3. \A k \in 0..n : k \in G
  <2> HIDE DEF G
  <2>1. QED
    BY <1>1, <1>2, Reaches
<1>4. QED
  BY <1>3 DEF Agree

\* The powers of two.
LEMMA TwoToIs ==
  /\ Bits \in Nat /\ Bits >= 4 /\ TwoTo[0] = 1
  /\ \A k \in 0..Bits : TwoTo[k] \in Nat /\ TwoTo[k] >= 1
  /\ \A k \in 1..Bits : TwoTo[k] = 2 * TwoTo[k - 1]
<1>1. Bits \in Nat /\ Bits >= 4
  BY BitsAssumption
<1> DEFINE P == Nat \ {0}
           double == [m \in P |-> 2 * m]
           f == [k \in 1..Bits |-> double]
<1>2. 1 \in P /\ f \in [1..Bits -> [P -> P]]
  OBVIOUS
<1>3. PICK g \in [0..Bits -> P] : Iterates(g, f, 1, Bits)
  <2> HIDE DEF P, f
  <2>1. QED
    BY <1>1, <1>2, IterationExists
<1>4. g = [k \in 0..Bits |-> IF k = 0 THEN 1 ELSE f[k][g[k - 1]]]
  BY <1>3 DEF Iterates
<1>5. ASSUME NEW k \in 1..Bits PROVE f[k][g[k - 1]] = 2 * g[k - 1]
  <2>1. k - 1 \in 0..Bits
    BY <1>1
  <2>2. g[k - 1] \in P
    BY <1>3, <2>1
  <2>3. QED
    BY <2>2
<1> HIDE DEF f, P
<1>6. \A k \in 0..Bits : (IF k = 0 THEN 1 ELSE f[k][g[k - 1]]) = IF k = 0 THEN 1 ELSE 2 * g[k - 1]
  BY <1>1, <1>5
<1>7. g = [k \in 0..Bits |-> IF k = 0 THEN 1 ELSE 2 * g[k - 1]]
  BY <1>4, <1>6, Zenon
<1>8. TwoTo = [k \in 0..Bits |-> IF k = 0 THEN 1 ELSE 2 * TwoTo[k - 1]]
  <2>1. \E h : h = [k \in 0..Bits |-> IF k = 0 THEN 1 ELSE 2 * h[k - 1]]
    BY <1>7
  <2>2. QED
    BY <2>1 DEF TwoTo
<1>9. TwoTo[0] = 1 /\ \A k \in 1..Bits : TwoTo[k] = 2 * TwoTo[k - 1]
  <2>1. 0 \in 0..Bits /\ \A k \in 1..Bits : k \in 0..Bits /\ k # 0
    BY <1>1
  <2>2. QED
    BY <1>8, <2>1
<1>10. g[0] = 1 /\ \A k \in 1..Bits : g[k] = 2 * g[k - 1]
  <2>1. 0 \in 0..Bits /\ \A k \in 1..Bits : k \in 0..Bits /\ k # 0
    BY <1>1
  <2>2. QED
    BY <1>7, <2>1
<1>11. \A k \in 0..Bits : TwoTo[k] = g[k]
  <2>1. \A k \in 1..Bits : TwoTo[k - 1] = g[k - 1] => TwoTo[k] = g[k]
    BY <1>9, <1>10
  <2>2. Alike(TwoTo, g, Bits)
    BY <1>9, <1>10, <2>1 DEF Alike
  <2>3. Agree(TwoTo, g, Bits)
    BY <1>1, <2>2, Follows
  <2>4. QED
    BY <2>3 DEF Agree
<1>12. \A k \in 0..Bits : g[k] \in P
  BY <1>3
<1>13. \A k \in 0..Bits : g[k] \in Nat /\ g[k] >= 1
  BY <1>12 DEF P
<1>14. QED
  BY <1>1, <1>9, <1>11, <1>13

(***************************************************************************)
(* strrev and itoa.                                                        *)
(***************************************************************************)
LEMMA StrrevIs ==
  ASSUME NEW S, NEW s \in Seq(S)
  PROVE  /\ Strrev(s) \in Seq(S) /\ Len(Strrev(s)) = Len(s)
         /\ \A i \in 1..Len(s) : Strrev(s)[i] = s[Len(s) + 1 - i]
<1> DEFINE n == Len(s)
           h == n \div 2
<1>1. n \in Nat /\ h \in Nat /\ 2 * h <= n /\ n <= 2 * h + 1
  OBVIOUS
<1>2. \A i \in 1..n : s[i] \in S /\ n + 1 - i \in 1..n /\ s[n + 1 - i] \in S
  <2>1. \A i \in 1..n : n + 1 - i \in 1..n
    BY <1>1
  <2>2. QED
    BY <2>1, ElementOfSeq
<1>3. s = [i \in 1..n |-> s[i]]
  OBVIOUS
<1> DEFINE Row(k) == [i \in 1..n |-> IF i <= k \/ i >= n + 1 - k THEN s[n + 1 - i] ELSE s[i]]
           g == [k \in 0..h |-> Row(k)]
<1>4. Row(0) = s
  <2> HIDE DEF n
  <2>1. \A i \in 1..n : ~(i <= 0 \/ i >= n + 1 - 0)
    BY <1>1
  <2>2. QED
    BY <1>3, <2>1
<1>5. ASSUME NEW k \in 1..h PROVE Row(k) = Swap(Row(k - 1), k, n + 1 - k)
  <2> DEFINE t == Row(k - 1)
             m == n + 1 - k
  <2> HIDE DEF n, h
  <2>1. k \in 1..n /\ m \in 1..n /\ k < m /\ m = n + 1 - k /\ n + 1 - m = k
    BY <1>1
  <2>2. t[k] = s[k] /\ t[m] = s[m]
    <3>1. /\ ~(k <= k - 1 \/ k >= n + 1 - (k - 1))
          /\ ~(m <= k - 1 \/ m >= n + 1 - (k - 1))
      BY <1>1, <2>1
    <3>2. QED
      BY <2>1, <3>1
  <2>3. Swap(t, k, m) = [i \in 1..n |-> IF i = m THEN t[k] ELSE IF i = k THEN t[m] ELSE t[i]]
    <3>1. DOMAIN t = 1..n /\ t = [i \in 1..n |-> t[i]]
      OBVIOUS
    <3> HIDE DEF t, m
    <3>2. QED
      BY <2>1, <3>1 DEF Swap
  <2>4. ASSUME NEW i \in 1..n
        PROVE  Row(k)[i] = IF i = m THEN t[k] ELSE IF i = k THEN t[m] ELSE t[i]
    <3>1. Row(k)[i] = IF i <= k \/ i >= m THEN s[n + 1 - i] ELSE s[i]
      OBVIOUS
    <3>2. t[i] = IF i <= k - 1 \/ i >= n + 1 - (k - 1) THEN s[n + 1 - i] ELSE s[i]
      OBVIOUS
    <3> HIDE DEF t, m
    <3>3. CASE i = m \/ i = k
      BY <2>1, <2>2, <3>1, <3>3
    <3>4. CASE i # m /\ i # k
      <4>1. (i <= k \/ i >= m) <=> (i <= k - 1 \/ i >= n + 1 - (k - 1))
        BY <1>1, <2>1, <3>4
      <4>2. QED
        BY <3>1, <3>2, <3>4, <4>1
    <3>5. QED
      BY <3>3, <3>4
  <2>5. Row(k) = [i \in 1..n |-> Row(k)[i]]
    OBVIOUS
  <2> HIDE DEF Row, t
  <2>6. Row(k) = [i \in 1..n |-> IF i = m THEN t[k] ELSE IF i = k THEN t[m] ELSE t[i]]
    BY <2>4, <2>5, Zenon
  <2>7. QED
    BY <2>3, <2>6, Zenon DEF t, m
<1> DEFINE Rec(x, k) == IF k = 0 THEN s ELSE Swap(x[k - 1], k, n + 1 - k)
<1>6. g = [k \in 0..h |-> Rec(g, k)]
  <2>1. ASSUME NEW k \in 0..h PROVE Row(k) = Rec(g, k)
    <3>1. CASE k = 0
      BY <1>4, <3>1
    <3>2. CASE k # 0
      <4>1. k - 1 \in 0..h /\ k \in 1..h
        BY <1>1, <3>2
      <4>2. g[k - 1] = Row(k - 1)
        BY <4>1
      <4> HIDE DEF g, Row
      <4>3. QED
        BY <1>5, <3>2, <4>1, <4>2
    <3>3. QED
      BY <3>1, <3>2
  <2>2. QED
    BY <2>1, Zenon
<1> DEFINE f == CHOOSE f : f = [k \in 0..h |-> Rec(f, k)]
<1>7. f = [k \in 0..h |-> Rec(f, k)]
  BY <1>6
<1>8. Strrev(s) = f[h]
  BY DEF Strrev
<1> HIDE DEF f
<1>9. \A k \in 0..h : f[k] = g[k]
  <2>1. 0 \in 0..h /\ f[0] = g[0]
    BY <1>1, <1>4, <1>7
  <2>2. ASSUME NEW k \in 1..h, f[k - 1] = g[k - 1] PROVE f[k] = g[k]
    <3>1. k \in 0..h /\ k # 0
      BY <1>1
    <3>2. f[k] = Rec(f, k) /\ g[k] = Rec(g, k)
      <4> HIDE DEF Rec
      <4>1. QED
        BY <1>6, <1>7, <3>1
    <3>3. QED
      BY <2>2, <3>1, <3>2
  <2> HIDE DEF g, h
  <2>3. \A k \in 1..h : f[k - 1] = g[k - 1] => f[k] = g[k]
    BY <2>2
  <2>4. Alike(f, g, h)
    BY <2>1, <2>3 DEF Alike
  <2>5. Agree(f, g, h)
    BY <1>1, <2>4, Follows
  <2>6. QED
    BY <2>5 DEF Agree
<1>10. Strrev(s) = Row(h)
  BY <1>1, <1>8, <1>9
<1>11. ASSUME NEW i \in 1..n PROVE Row(h)[i] = s[n + 1 - i]
  <2> HIDE DEF n, h
  <2>1. ~(i <= h \/ i >= n + 1 - h) => n + 1 - i = i
    BY <1>1
  <2>2. QED
    BY <2>1
<1>12. Row(h) \in Seq(S) /\ Len(Row(h)) = n
  <2> HIDE DEF n, h
  <2>1. \A i \in 1..n : Row(h)[i] \in S
    BY <1>2, <1>1
  <2>2. QED
    BY <1>1, <2>1
<1>13. QED
  BY <1>10, <1>11, <1>12

\* The figures stand for different numbers.
Figures == {Digit[i] : i \in 1..16}

LEMMA FigureIs ==
  \A i \in 1..16 : /\ Digit[i] \in Figures /\ Figure(Digit[i]) = i - 1
                   /\ Digit[i] = "0" <=> i = 1
<1>1. \A i, j \in 1..16 : Digit[i] = Digit[j] => i = j
  BY DEF Digit
<1>2. Digit[1] = "0"
  BY DEF Digit
<1>3. ASSUME NEW i \in 1..16 PROVE (CHOOSE j \in 1..16 : Digit[j] = Digit[i]) = i
  BY <1>1
<1>4. QED
  BY <1>1, <1>2, <1>3 DEF Figures, Figure

\* What itoa has left and the digits it has, lowest first, in a round.
Rest == [left : Unsigned, out : Seq(Figures)]

\* The digits, from the highest, go on from what is left to the value.
Reads(x, value, radix) ==
  \E w \in [0..Len(x.out) -> Nat] :
    /\ w[0] = x.left /\ w[Len(x.out)] = value
    /\ \A i \in 1..Len(x.out) : w[i] = w[i - 1] * radix + Figure(x.out[Len(x.out) + 1 - i])

\* The highest digit, once nothing is left, is not 0.
Sound(x) == x.left = 0 => x.out # <<>> /\ x.out[Len(x.out)] # "0"

LEMMA Division ==
  ASSUME NEW a \in Nat, NEW radix \in {10, 16}
  PROVE  /\ a \div radix \in Nat /\ a % radix \in 0..15
         /\ a = (a \div radix) * radix + (a % radix) /\ a \div radix <= a
         /\ a \div radix = 0 => a % radix = a
<1>1. CASE radix = 10
  BY <1>1
<1>2. CASE radix = 16
  BY <1>2
<1>3. QED
  BY <1>1, <1>2

LEMMA DivideIs ==
  ASSUME NEW radix \in {10, 16}, NEW x \in Rest, x.left # 0
  PROVE  /\ Divide(x, radix) \in Rest
         /\ Divide(x, radix).left = x.left \div radix
         /\ (x.left % radix) + 1 \in 1..16
         /\ Divide(x, radix).out = Append(x.out, Digit[(x.left % radix) + 1])
<1>1. x.left \in Nat /\ x.left \in Unsigned /\ x.out \in Seq(Figures)
  BY DEF Rest, Unsigned
<1>2. x.left \div radix \in Unsigned /\ (x.left % radix) + 1 \in 1..16
  <2> DEFINE a == x.left
             q == a \div radix
  <2>1. a \in Nat /\ q \in Nat /\ q <= a /\ a % radix \in 0..15
    BY <1>1, Division
  <2>2. a < TwoTo[Bits] /\ TwoTo[Bits] \in Nat
    BY <1>1, TwoToIs DEF Unsigned
  <2> HIDE DEF a, q
  <2>3. q \in Unsigned /\ (a % radix) + 1 \in 1..16
    BY <2>1, <2>2 DEF Unsigned
  <2>4. QED
    BY <2>3 DEF a, q
<1>3. Digit[(x.left % radix) + 1] \in Figures
  BY <1>2, FigureIs
<1> DEFINE d == Digit[(x.left % radix) + 1]
           o == Append(x.out, d)
<1>4. o \in Seq(Figures)
  BY <1>1, <1>3, AppendProperties
<1>5. Divide(x, radix) = [left |-> x.left \div radix, out |-> o]
  BY DEF Divide
<1> HIDE DEF o
<1>6. QED
  BY <1>2, <1>4, <1>5 DEF Rest, o

LEMMA DivideType ==
  ASSUME NEW radix \in {10, 16}, NEW x \in Rest
  PROVE  Divide(x, radix) \in Rest
<1>1. x.left = 0 => Divide(x, radix) = x
  BY DEF Divide
<1>2. QED
  BY <1>1, DivideIs

LEMMA DivideReads ==
  ASSUME NEW radix \in {10, 16}, NEW x \in Rest, NEW value, Reads(x, value, radix)
  PROVE  Reads(Divide(x, radix), value, radix)
<1> DEFINE y == Divide(x, radix)
           n == Len(x.out)
<1>1. CASE x.left = 0
  BY <1>1 DEF Divide
<1>2. CASE x.left # 0
  <2> DEFINE a == x.left
             d == Digit[(a % radix) + 1]
  <2>1. /\ y \in Rest /\ y.left = a \div radix /\ y.out = Append(x.out, d)
        /\ (a % radix) + 1 \in 1..16
    BY <1>2, DivideIs
  <2>2. a \in Nat /\ a = (a \div radix) * radix + (a % radix) /\ a \div radix \in Nat
    <3>1. x.left \in Nat
      BY DEF Rest, Unsigned
    <3>2. QED
      BY <3>1, Division
  <2>3. Figure(d) = a % radix /\ d \in Figures
    <3> DEFINE j == (a % radix) + 1
    <3>1. j \in 1..16 /\ a % radix = j - 1
      BY <2>1, <2>2
    <3> HIDE DEF j
    <3>2. Figure(Digit[j]) = j - 1 /\ Digit[j] \in Figures
      BY <3>1, FigureIs
    <3>3. QED
      BY <3>1, <3>2 DEF j
  <2>4. PICK w \in [0..n -> Nat] :
          /\ w[0] = a /\ w[n] = value
          /\ \A i \in 1..n : w[i] = w[i - 1] * radix + Figure(x.out[n + 1 - i])
    BY DEF Reads
  <2>5. n \in Nat /\ x.out \in Seq(Figures)
    BY DEF Rest
  <2>6. /\ Len(y.out) = n + 1 /\ y.out[n + 1] = d
        /\ \A i \in 1..n : y.out[i] = x.out[i]
    <3> DEFINE o == x.out
    <3>1. o \in Seq(Figures) /\ Len(o) = n
      BY <2>5
    <3> HIDE DEF o, d
    <3>2. /\ Len(Append(o, d)) = Len(o) + 1 /\ Append(o, d)[Len(o) + 1] = d
          /\ \A i \in 1..Len(o) : Append(o, d)[i] = o[i]
      BY <2>3, <3>1, AppendProperties
    <3>3. QED
      BY <2>1, <3>1, <3>2 DEF o
  <2> DEFINE v == [i \in 0..(n + 1) |-> IF i = 0 THEN a \div radix ELSE w[i - 1]]
  <2> HIDE DEF y, n, d
  <2>7. v \in [0..(n + 1) -> Nat]
    <3>1. \A i \in 0..(n + 1) : i # 0 => i - 1 \in 0..n
      BY <2>5
    <3>2. QED
      BY <2>2, <2>4, <3>1
  <2>8. v[0] = a \div radix /\ \A i \in 1..(n + 1) : v[i] = w[i - 1]
    <3>1. 0 \in 0..(n + 1) /\ \A i \in 1..(n + 1) : i \in 0..(n + 1) /\ i # 0
      BY <2>5
    <3>2. QED
      BY <3>1
  <2> HIDE DEF v
  <2>9. v[n + 1] = value
    <3> DEFINE j == n + 1
    <3>1. j \in 1..(n + 1) /\ j - 1 = n
      BY <2>5
    <3> HIDE DEF j
    <3>2. v[j] = value
      BY <2>4, <2>8, <3>1
    <3>3. QED
      BY <3>2 DEF j
  <2>10. ASSUME NEW i \in 1..(n + 1)
         PROVE  v[i] = v[i - 1] * radix + Figure(y.out[n + 1 + 1 - i])
    <3>1. CASE i = 1
      <4>1. v[1] = a /\ v[0] = a \div radix
        BY <2>4, <2>5, <2>8
      <4>2. y.out[n + 1 + 1 - 1] = d
        <5>1. n + 1 + 1 - 1 = n + 1
          BY <2>5
        <5>2. QED
          BY <2>6, <5>1
      <4>3. v[1] = v[0] * radix + Figure(d)
        BY <2>2, <2>3, <4>1
      <4>4. i - 1 = 0 /\ n + 1 + 1 - i = n + 1 + 1 - 1
        BY <3>1
      <4>5. QED
        BY <3>1, <4>2, <4>3, <4>4
    <3>2. CASE i # 1
      <4> DEFINE j == i - 1
                 m == n + 1 - j
      <4>1. /\ j \in 1..n /\ j \in 1..(n + 1) /\ m \in 1..n /\ i - 1 = j /\ n + 1 + 1 - i = m
        BY <2>5, <3>2
      <4>2. v[i] = w[j] /\ v[j] = w[j - 1]
        BY <2>8, <4>1
      <4>3. w[j] = w[j - 1] * radix + Figure(x.out[m])
        BY <2>4, <4>1
      <4>4. y.out[m] = x.out[m]
        BY <2>6, <4>1
      <4> HIDE DEF j, m
      <4>5. QED
        BY <4>1, <4>2, <4>3, <4>4
    <3>3. QED
      BY <3>1, <3>2
  <2>11. Reads(y, value, radix)
    <3> DEFINE m == n + 1
               Fits(u) == /\ u[0] = y.left /\ u[m] = value
                          /\ \A i \in 1..m : u[i] = u[i - 1] * radix + Figure(y.out[m + 1 - i])
    <3>1. Fits(v)
      BY <2>1, <2>8, <2>9, <2>10
    <3>2. v \in [0..m -> Nat] /\ m = Len(y.out)
      BY <2>6, <2>7
    <3> HIDE DEF m, Fits
    <3>3. \E u \in [0..m -> Nat] : Fits(u)
      BY <3>1, <3>2
    <3>4. QED
      BY <3>2, <3>3 DEF Reads, Fits
  <2>12. QED
    BY <2>11 DEF y
<1>3. QED
  BY <1>1, <1>2

LEMMA DivideSound ==
  ASSUME NEW radix \in {10, 16}, NEW x \in Rest, Sound(x)
  PROVE  Sound(Divide(x, radix))
<1> DEFINE y == Divide(x, radix)
<1>1. CASE x.left = 0
  BY <1>1 DEF Divide
<1>2. CASE x.left # 0
  <2> DEFINE a == x.left
             j == (a % radix) + 1
             d == Digit[j]
             o == x.out
  <2>1. /\ y.left = a \div radix /\ y.out = Append(o, d) /\ j \in 1..16
    BY <1>2, DivideIs
  <2>2. a \in Nat /\ a # 0 /\ o \in Seq(Figures)
    BY <1>2 DEF Rest, Unsigned
  <2>3. a \div radix = 0 => a % radix = a
    BY <2>2, Division
  <2>4. a \div radix = 0 => j # 1
    BY <2>2, <2>3
  <2> HIDE DEF a, j
  <2>5. a \div radix = 0 => d # "0"
    BY <2>1, <2>4, FigureIs
  <2>6. d \in Figures
    BY <2>1, FigureIs
  <2> HIDE DEF d, o, y
  <2>7. Append(o, d) # <<>> /\ Len(Append(o, d)) = Len(o) + 1 /\ Append(o, d)[Len(o) + 1] = d
    BY <2>2, <2>6, AppendProperties
  <2>8. y.out # <<>> /\ y.out[Len(y.out)] = d
    BY <2>1, <2>7
  <2>9. y.left = 0 => d # "0"
    BY <2>1, <2>5
  <2>10. Sound(y)
    BY <2>8, <2>9, Zenon DEF Sound
  <2>11. QED
    BY <2>10 DEF y
<1>3. QED
  BY <1>1, <1>2

\* The rounds of itoa.
LEMMA DigitsRun ==
  ASSUME NEW value \in Unsigned, NEW radix \in {10, 16}
  PROVE  \E f \in [0..Bits -> Rest] :
           /\ f[0] = [left |-> value, out |-> <<>>]
           /\ \A k \in 1..Bits : f[k] = Divide(f[k - 1], radix)
           /\ Digits(value, radix) = f[Bits].out
<1> DEFINE start == [left |-> value, out |-> <<>>]
           round == [x \in Rest |-> Divide(x, radix)]
           loop == [k \in 1..Bits |-> round]
<1>1. start \in Rest /\ Bits \in Nat
  BY TwoToIs DEF Rest
<1>2. loop \in [1..Bits -> [Rest -> Rest]]
  BY DivideType
<1>3. PICK g \in [0..Bits -> Rest] : Iterates(g, loop, start, Bits)
  <2> HIDE DEF loop, start
  <2>1. QED
    BY <1>1, <1>2, IterationExists
<1>4. g = [k \in 0..Bits |-> IF k = 0 THEN start ELSE loop[k][g[k - 1]]]
  BY <1>3 DEF Iterates
<1>5. ASSUME NEW k \in 0..Bits, k # 0 PROVE loop[k][g[k - 1]] = Divide(g[k - 1], radix)
  <2>1. k - 1 \in 0..Bits /\ k \in 1..Bits
    BY <1>1, <1>5
  <2>2. g[k - 1] \in Rest
    BY <1>3, <2>1
  <2>3. QED
    BY <2>1, <2>2
<1> HIDE DEF loop, start, round
<1> DEFINE Rec(x, k) == IF k = 0 THEN start ELSE Divide(x[k - 1], radix)
<1>6. g = [k \in 0..Bits |-> Rec(g, k)]
  <2>1. \A k \in 0..Bits : (IF k = 0 THEN start ELSE loop[k][g[k - 1]]) = Rec(g, k)
    BY <1>5
  <2>2. QED
    BY <1>4, <2>1, Zenon
<1> DEFINE f == CHOOSE f : f = [k \in 0..Bits |-> Rec(f, k)]
<1>7. f = [k \in 0..Bits |-> Rec(f, k)]
  BY <1>6
<1>8. Digits(value, radix) = f[Bits].out
  BY DEF Digits, start
<1> HIDE DEF f
<1>9. 0 \in 0..Bits /\ Bits \in 0..Bits /\ \A k \in 1..Bits : k \in 0..Bits /\ k # 0
  BY <1>1
<1>10. /\ f[0] = start /\ \A k \in 1..Bits : f[k] = Divide(f[k - 1], radix)
  BY <1>7, <1>9
<1>11. /\ g[0] = start /\ \A k \in 1..Bits : g[k] = Divide(g[k - 1], radix)
  BY <1>6, <1>9
<1>12. Alike(f, g, Bits)
  BY <1>10, <1>11 DEF Alike
<1>13. Agree(f, g, Bits)
  BY <1>1, <1>12, Follows
<1>14. f[Bits] = g[Bits]
  BY <1>9, <1>13 DEF Agree
<1>15. QED
  BY <1>3, <1>8, <1>11, <1>14 DEF start

LEMMA Quartered == /\ Bits \div 4 \in Nat /\ Bits = 4 * (Bits \div 4) /\ Bits \div 4 >= 1
                   /\ Bits \div 4 <= Bits
<1>1. PICK k \in 1..8 : Bits = 4 * k
  BY BitsAssumption
<1>2. (4 * k) \div 4 = k
  OBVIOUS
<1>3. QED
  BY <1>1, <1>2

\* What itoa has when it is done.
LEMMA DigitsAre ==
  ASSUME NEW value \in Unsigned, value # 0, NEW radix \in {10, 16}
  PROVE  \E x \in Rest :
           /\ Digits(value, radix) = x.out /\ x.left = 0
           /\ Reads(x, value, radix) /\ Sound(x)
           /\ radix = 16 => Len(x.out) <= Bits \div 4
<1>1. PICK f \in [0..Bits -> Rest] :
        /\ f[0] = [left |-> value, out |-> <<>>]
        /\ \A k \in 1..Bits : f[k] = Divide(f[k - 1], radix)
        /\ Digits(value, radix) = f[Bits].out
  BY DigitsRun
<1>2. Bits \in Nat /\ \A k \in 1..Bits : k - 1 \in 0..Bits /\ k \in 0..Bits
  BY TwoToIs
<1>3. \A k \in 0..Bits : f[k] \in Rest
  BY <1>1
<1>4. value \in Nat
  BY DEF Unsigned
<1>5. \A k \in 0..Bits : Reads(f[k], value, radix) /\ Sound(f[k])
  <2> DEFINE G == {k \in 0..Bits : Reads(f[k], value, radix) /\ Sound(f[k])}
  <2>1. 0 \in G
    <3> DEFINE x == [left |-> value, out |-> <<>>]
               w == [i \in 0..0 |-> value]
    <3>1. w \in [0..0 -> Nat] /\ w[0] = value /\ Len(x.out) = 0 /\ x.left = value
      BY <1>4
    <3> HIDE DEF w, x
    <3>2. Reads(x, value, radix)
      BY <3>1 DEF Reads
    <3>3. Sound(x)
      BY <3>1 DEF Sound
    <3>4. 0 \in 0..Bits
      BY <1>2
    <3>5. QED
      BY <1>1, <3>2, <3>3, <3>4 DEF x
  <2>2. ASSUME NEW k \in 1..Bits, k - 1 \in G PROVE k \in G
    <3> DEFINE x == f[k - 1]
    <3>1. x \in Rest /\ Reads(x, value, radix) /\ Sound(x) /\ f[k] = Divide(x, radix)
      BY <1>1, <1>2, <1>3, <2>2
    <3> HIDE DEF x
    <3>2. Reads(f[k], value, radix) /\ Sound(f[k])
      BY <3>1, DivideReads, DivideSound
    <3>3. QED
      BY <1>2, <3>2
  <2>3. \A k \in 0..Bits : k \in G
    <3> HIDE DEF G
    <3>1. QED
      BY <1>2, <2>1, <2>2, Reaches
  <2>4. QED
    BY <2>3
<1>6. ASSUME NEW k \in 1..Bits
      PROVE  /\ f[k - 1].left \in Nat /\ f[k].left = f[k - 1].left \div radix
             /\ f[k].left \in Nat
             /\ Len(f[k].out) \in Nat /\ Len(f[k].out) <= Len(f[k - 1].out) + 1
             /\ f[k - 1].left = 0 => f[k] = f[k - 1]
  <2> DEFINE x == f[k - 1]
             y == f[k]
             o == x.out
             d == Digit[(x.left % radix) + 1]
  <2>1. x \in Rest /\ y \in Rest /\ y = Divide(x, radix)
    BY <1>1, <1>2, <1>3
  <2> HIDE DEF x, y
  <2>2. x.left \in Nat /\ y.left \in Nat /\ o \in Seq(Figures) /\ y.out \in Seq(Figures)
    BY <2>1 DEF Rest, Unsigned
  <2>3. Len(o) \in Nat /\ Len(y.out) \in Nat
    <3> HIDE DEF o
    <3>1. QED
      BY <2>2
  <2>4. CASE x.left = 0
    <3>1. y = x /\ 0 \div radix = 0
      BY <2>1, <2>4 DEF Divide
    <3>2. QED
      BY <2>2, <2>3, <2>4, <3>1 DEF x, y
  <2>5. CASE x.left # 0
    <3>1. y.left = x.left \div radix /\ (x.left % radix) + 1 \in 1..16 /\ y.out = Append(o, d)
      BY <2>1, <2>5, DivideIs
    <3>2. d \in Figures
      BY <3>1, FigureIs
    <3> HIDE DEF d, o
    <3>3. Len(y.out) = Len(o) + 1
      BY <2>2, <3>1, <3>2, AppendProperties
    <3>4. QED
      BY <2>2, <2>3, <2>5, <3>1, <3>3 DEF x, y, o
  <2>6. QED
    BY <2>4, <2>5
<1>7. f[Bits].left = 0
  <2> DEFINE G == {k \in 0..Bits : f[k].left < TwoTo[Bits - k]}
  <2>1. 0 \in G
    <3>1. value < TwoTo[Bits] /\ 0 \in 0..Bits /\ Bits - 0 = Bits
      BY TwoToIs DEF Unsigned
    <3>2. QED
      BY <1>1, <3>1
  <2>2. ASSUME NEW k \in 1..Bits, k - 1 \in G PROVE k \in G
    <3> DEFINE a == f[k - 1].left
               t == TwoTo[Bits - k]
    <3>1. TwoTo[Bits - (k - 1)] = 2 * t /\ t \in Nat
      <4> DEFINE m == Bits - (k - 1)
      <4>1. m \in 1..Bits /\ m - 1 = Bits - k /\ Bits - k \in 0..Bits
        BY <1>2
      <4> HIDE DEF m
      <4>2. TwoTo[m] = 2 * TwoTo[m - 1] /\ TwoTo[Bits - k] \in Nat
        BY <4>1, TwoToIs
      <4>3. QED
        BY <4>1, <4>2 DEF m
    <3>2. a \in Nat /\ a < 2 * t /\ f[k].left = a \div radix
      BY <1>6, <2>2, <3>1
    <3> HIDE DEF a, t
    <3>3. a = (a \div radix) * radix + (a % radix) /\ a % radix \in 0..15 /\ a \div radix \in Nat
      BY <3>2, Division
    <3>4. a \div radix < t
      <4> DEFINE q == a \div radix
                 r == a % radix
      <4>0. \A b \in 0..15 : b \in Nat
        OBVIOUS
      <4>1. a = q * radix + r /\ r \in Nat /\ q \in Nat
        BY <3>3, <4>0, Zenon
      <4> HIDE DEF q, r
      <4>2. q * radix >= 2 * q
        <5>1. CASE radix = 10
          BY <4>1, <5>1
        <5>2. CASE radix = 16
          BY <4>1, <5>2
        <5>3. QED
          BY <5>1, <5>2
      <4>3. q * radix \in Nat
        BY <4>1
      <4>4. 2 * q < 2 * t
        BY <3>1, <3>2, <4>1, <4>2, <4>3
      <4>5. q < t
        BY <3>1, <4>1, <4>4
      <4>6. QED
        BY <4>5 DEF q
    <3>5. QED
      BY <1>2, <3>2, <3>4 DEF t
  <2>3. \A k \in 0..Bits : k \in G
    <3> HIDE DEF G
    <3>1. QED
      BY <1>2, <2>1, <2>2, Reaches
  <2>4. Bits \in 0..Bits /\ Bits - Bits = 0
    BY <1>2
  <2>5. f[Bits].left < 1
    BY <2>3, <2>4, TwoToIs
  <2>6. f[Bits].left \in Nat
    BY <1>3, <2>4 DEF Rest, Unsigned
  <2>7. QED
    BY <2>5, <2>6
<1>8. ASSUME radix = 16 PROVE Len(f[Bits].out) <= Bits \div 4
  <2> DEFINE q == Bits \div 4
             G == {k \in 0..q : Len(f[k].out) <= k /\ f[k].left < TwoTo[Bits - 4 * k]}
  <2>1. q \in Nat /\ Bits = 4 * q /\ q <= Bits /\ q \in 0..Bits
    BY <1>2, Quartered
  <2> HIDE DEF q
  <2>2. 0 \in G
    <3>1. value < TwoTo[Bits] /\ Bits - 4 * 0 = Bits
      BY TwoToIs DEF Unsigned
    <3>2. Len(f[0].out) = 0
      BY <1>1
    <3>3. QED
      BY <1>1, <2>1, <3>1, <3>2
  <2>3. ASSUME NEW k \in 1..q, k - 1 \in G PROVE k \in G
    <3> DEFINE a == f[k - 1].left
               m == Bits - 4 * k
               t == TwoTo[m]
    <3>1. TwoTo[Bits - 4 * (k - 1)] = 16 * t /\ t \in Nat
      <4>1. m \in 0..Bits /\ {m + 1, m + 2, m + 3, m + 4} \subseteq 1..Bits
            /\ Bits - 4 * (k - 1) = m + 4
        BY <1>2, <2>1
      <4> HIDE DEF m
      <4>2. \A j \in 1..Bits : TwoTo[j] = 2 * TwoTo[j - 1]
        BY TwoToIs
      <4>3. TwoTo[m] \in Nat
        BY <4>1, TwoToIs
      <4>4. m + 1 - 1 = m /\ m + 2 - 1 = m + 1 /\ m + 3 - 1 = m + 2 /\ m + 4 - 1 = m + 3
        BY <4>1
      <4>5. /\ TwoTo[m + 1] = 2 * TwoTo[m] /\ TwoTo[m + 2] = 2 * TwoTo[m + 1]
            /\ TwoTo[m + 3] = 2 * TwoTo[m + 2] /\ TwoTo[m + 4] = 2 * TwoTo[m + 3]
        BY <4>1, <4>2, <4>4
      <4>6. TwoTo[m + 4] = 16 * TwoTo[m]
        BY <4>3, <4>5
      <4>7. QED
        BY <4>1, <4>3, <4>6
    <3>2. k \in 1..Bits
      BY <2>1
    <3>3. /\ a \in Nat /\ f[k].left = a \div 16
          /\ Len(f[k].out) \in Nat /\ Len(f[k].out) <= Len(f[k - 1].out) + 1
      BY <1>6, <1>8, <3>2
    <3>4. a < 16 * t /\ Len(f[k - 1].out) <= k - 1
      BY <2>3, <3>1
    <3>5. Len(f[k - 1].out) \in Nat
      <4>1. f[k - 1] \in Rest
        BY <1>2, <1>3, <3>2
      <4>2. f[k - 1].out \in Seq(Figures)
        BY <4>1 DEF Rest
      <4>3. QED
        BY <4>2, LenProperties
    <3>6. Len(f[k].out) <= k
      <4> HIDE DEF a, m, t
      <4>1. QED
        BY <3>3, <3>4, <3>5
    <3> HIDE DEF a, t
    <3>7. a \div 16 < t
      BY <3>1, <3>3, <3>4
    <3>8. QED
      BY <2>1, <3>3, <3>6, <3>7 DEF t, m
  <2>4. \A k \in 0..q : k \in G
    <3> HIDE DEF G
    <3>1. QED
      BY <2>1, <2>2, <2>3, Reaches
  <2>5. Len(f[q].out) <= q /\ f[q].left = 0
    <3>1. q \in 0..q /\ Bits - 4 * q = 0
      BY <2>1
    <3>2. Len(f[q].out) <= q /\ f[q].left < 1
      BY <2>4, <3>1, TwoToIs
    <3>3. f[q].left \in Nat
      BY <1>3, <2>1 DEF Rest, Unsigned
    <3>4. QED
      BY <3>2, <3>3
  <2> DEFINE r == Bits - q
             H == {k \in 0..r : f[q + k] = f[q]}
  <2>6. \A k \in 0..r : k \in H
    <3>1. r \in Nat /\ 0 \in H
      BY <2>1
    <3>2. ASSUME NEW k \in 1..r, k - 1 \in H PROVE k \in H
      <4> DEFINE m == q + k
      <4>1. m \in 1..Bits /\ m - 1 = q + (k - 1) /\ k \in 0..r
        BY <2>1
      <4>2. f[m - 1] = f[q]
        BY <3>2, <4>1
      <4> HIDE DEF m
      <4>3. f[m] = f[q]
        BY <1>6, <2>5, <4>1, <4>2
      <4>4. QED
        BY <4>1, <4>3 DEF m
    <3> HIDE DEF H, r
    <3>3. QED
      BY <3>1, <3>2, Reaches
  <2>7. r \in 0..r /\ q + r = Bits
    BY <2>1
  <2>8. QED
    BY <2>5, <2>6, <2>7 DEF q
<1>9. Bits \in 0..Bits
  BY <1>2
<1>10. QED
  BY <1>1, <1>3, <1>5, <1>7, <1>8, <1>9

(***************************************************************************)
(* What a text of figures is the number of.                                *)
(***************************************************************************)
Reading(w, s, radix, value) ==
  /\ w \in [0..Len(s) -> Nat] /\ w[0] = 0 /\ w[Len(s)] = value
  /\ \A i \in 1..Len(s) : w[i] = w[i - 1] * radix + Figure(s[i])

Numeral(s, radix, value) == s \in Seq(Figures) /\ \E w : Reading(w, s, radix, value)

LEMMA ValueIs ==
  ASSUME NEW s, NEW radix, NEW value, Numeral(s, radix, value)
  PROVE  Value(s, radix) = value
<1> DEFINE n == Len(s)
<1>1. n \in Nat
  BY LenProperties DEF Numeral
<1>2. PICK w : Reading(w, s, radix, value)
  BY DEF Numeral
<1>3. /\ w \in [0..n -> Nat] /\ w[0] = 0 /\ w[n] = value
      /\ \A i \in 1..n : w[i] = w[i - 1] * radix + Figure(s[i])
  BY <1>2 DEF Reading
<1> DEFINE Rec(x, i) == IF i = 0 THEN 0 ELSE x[i - 1] * radix + Figure(s[i])
           f == CHOOSE f : f = [i \in 0..n |-> Rec(f, i)]
<1>4. Value(s, radix) = f[n]
  BY DEF Value
<1> HIDE DEF n
<1>5. w = [i \in 0..n |-> Rec(w, i)]
  <2>1. w = [i \in 0..n |-> w[i]]
    BY <1>3
  <2>2. \A i \in 0..n : i # 0 => i \in 1..n
    BY <1>1
  <2>3. \A i \in 0..n : w[i] = Rec(w, i)
    BY <1>3, <2>2
  <2> HIDE DEF Rec
  <2>4. QED
    BY <2>1, <2>3, Zenon
<1>6. f = [i \in 0..n |-> Rec(f, i)]
  BY <1>5
<1> HIDE DEF f
<1>7. 0 \in 0..n /\ n \in 0..n /\ \A i \in 1..n : i \in 0..n /\ i # 0
  BY <1>1
<1>8. f[0] = 0 /\ \A i \in 1..n : f[i] = f[i - 1] * radix + Figure(s[i])
  <2>1. \A i \in 0..n : f[i] = Rec(f, i)
    <3> HIDE DEF Rec
    <3>1. QED
      BY <1>6
  <2>2. QED
    BY <1>7, <2>1, Zenon
<1>9. Alike(f, w, n)
  BY <1>3, <1>8 DEF Alike
<1>10. Agree(f, w, n)
  BY <1>1, <1>9, Follows
<1>11. QED
  BY <1>3, <1>4, <1>7, <1>10 DEF Agree, n

\* The number of a zero.
LEMMA ZeroIs == ASSUME NEW radix \in Nat PROVE Numeral(<<"0">>, radix, 0)
<1> DEFINE z == Digit[1]
           s == <<z>>
           w == [i \in 0..1 |-> 0]
<1>1. z = "0"
  BY DEF Digit
<1>2. z \in Figures /\ Figure(z) = 0
  BY FigureIs
<1> HIDE DEF z
<1>3. s \in Seq(Figures) /\ Len(s) = 1 /\ s[1] = z
  BY <1>2
<1> HIDE DEF s
<1>4. /\ w \in [0..1 -> Nat] /\ w[0] = 0 /\ w[1] = 0
      /\ \A i \in 1..1 : i = 1 /\ i - 1 = 0
  OBVIOUS
<1> HIDE DEF w
<1>5. 0 * radix + 0 = 0
  OBVIOUS
<1>6. \A i \in 1..1 : w[i] = w[i - 1] * radix + Figure(s[i])
  BY <1>2, <1>3, <1>4, <1>5
<1>7. Reading(w, s, radix, 0)
  BY <1>3, <1>4, <1>6 DEF Reading
<1>8. Numeral(s, radix, 0)
  BY <1>3, <1>7 DEF Numeral
<1>9. QED
  BY <1>1, <1>8 DEF s

\* itoa writes the number, without zeros before it, and a hexadecimal one in
\* no more figures than an int has.
LEMMA ItoaIs ==
  ASSUME NEW value \in Unsigned, NEW radix \in {10, 16}
  PROVE  LET s == Itoa(value, radix)
         IN  /\ Numeral(s, radix, value) /\ s \in Seq(Figures)
             /\ Plain(s, value, radix)
             /\ radix = 16 => Len(s) <= Bits \div 4
<1>1. CASE value = 0
  <2>1. Itoa(value, radix) = <<"0">>
    BY <1>1 DEF Itoa
  <2> DEFINE z == "0"
             s == <<z>>
  <2>2. Numeral(s, radix, 0) /\ s \in Seq(Figures)
    BY ZeroIs DEF Numeral
  <2> HIDE DEF z
  <2>3. Len(s) = 1 /\ s # <<>> /\ 1 <= Bits \div 4
    BY Quartered
  <2> HIDE DEF s
  <2>4. Value(s, radix) = 0
    BY <2>2, ValueIs
  <2>5. Plain(s, 0, radix)
    BY <2>3, <2>4 DEF Plain
  <2>6. Itoa(value, radix) = s
    BY <2>1 DEF s, z
  <2>7. QED
    BY <1>1, <2>2, <2>3, <2>5, <2>6
<1>2. CASE value # 0
  <2>1. PICK x \in Rest :
          /\ Digits(value, radix) = x.out /\ x.left = 0
          /\ Reads(x, value, radix) /\ Sound(x)
          /\ radix = 16 => Len(x.out) <= Bits \div 4
    BY <1>2, DigitsAre
  <2> DEFINE d == x.out
             n == Len(d)
             s == Strrev(d)
  <2>2. d \in Seq(Figures) /\ n \in Nat /\ d # <<>> /\ d[n] # "0" /\ n >= 1
    <3>1. d \in Seq(Figures)
      BY DEF Rest
    <3>2. d # <<>> /\ d[Len(d)] # "0"
      BY <2>1 DEF Sound
    <3> HIDE DEF d
    <3>3. QED
      BY <3>1, <3>2, EmptySeq
  <2>3. PICK w \in [0..n -> Nat] :
          /\ w[0] = 0 /\ w[n] = value
          /\ \A i \in 1..n : w[i] = w[i - 1] * radix + Figure(d[n + 1 - i])
    BY <2>1 DEF Reads
  <2> HIDE DEF d
  <2>4. s \in Seq(Figures) /\ Len(s) = n /\ \A i \in 1..n : s[i] = d[n + 1 - i]
    BY <2>2, StrrevIs
  <2>5. Itoa(value, radix) = s
    BY <1>2, <2>1 DEF Itoa, d
  <2> HIDE DEF s, n
  <2>6. Reading(w, s, radix, value)
    BY <2>3, <2>4 DEF Reading
  <2>7. Numeral(s, radix, value)
    BY <2>4, <2>6 DEF Numeral
  <2>8. Value(s, radix) = value
    BY <2>7, ValueIs
  <2>9. s[1] # "0"
    <3>1. n + 1 - 1 = n /\ 1 \in 1..n
      BY <2>2
    <3>2. s[1] = d[n]
      BY <2>4, <3>1
    <3>3. QED
      BY <2>2, <3>2
  <2>10. s # <<>>
    BY <2>2, <2>4
  <2>11. Plain(s, value, radix)
    BY <2>8, <2>9, <2>10, Zenon DEF Plain
  <2>12. radix = 16 => Len(s) <= Bits \div 4
    BY <2>1, <2>4 DEF n, d
  <2>13. QED
    BY <2>4, <2>5, <2>7, <2>11, <2>12
<1>3. QED
  BY <1>1, <1>2

\* Zeros before a number do not change it.
LEMMA PaddedIs ==
  ASSUME NEW value, NEW s, Numeral(s, 16, value), Len(s) <= Bits \div 4
  PROVE  /\ Padded(s) \in Seq(Figures) /\ Len(Padded(s)) = Bits \div 4
         /\ Value(Padded(s), 16) = value
<1> DEFINE n == Len(s)
           m == Bits \div 4 - n
           Zero == Digit[1]
           z == [i \in 1..m |-> Zero]
           p == z \o s
<1>1. s \in Seq(Figures) /\ n \in Nat /\ m \in Nat /\ n + m = Bits \div 4
  BY Quartered, LenProperties DEF Numeral
<1>2. PICK w : Reading(w, s, 16, value)
  BY DEF Numeral
<1>3. /\ w \in [0..n -> Nat] /\ w[0] = 0 /\ w[n] = value
      /\ \A i \in 1..n : w[i] = w[i - 1] * 16 + Figure(s[i])
  BY <1>2 DEF Reading
<1>4. Zero = "0" /\ Zero \in Figures /\ Figure(Zero) = 0
  BY FigureIs DEF Digit
<1>5. Padded(s) = p
  BY <1>4 DEF Padded
<1> HIDE DEF m, n, Zero
<1>6. z \in Seq(Figures) /\ Len(z) = m /\ \A i \in 1..m : z[i] = Zero
  BY <1>1, <1>4
<1> HIDE DEF z
<1>7. /\ p \in Seq(Figures) /\ Len(p) = m + n
      /\ \A i \in 1..(m + n) : p[i] = IF i <= m THEN z[i] ELSE s[i - m]
  BY <1>1, <1>6, ConcatProperties DEF n
<1> HIDE DEF p
<1> DEFINE u == [i \in 0..(m + n) |-> IF i <= m THEN 0 ELSE w[i - m]]
<1>8. u \in [0..(m + n) -> Nat] /\ u[0] = 0
  <2>1. \A i \in 0..(m + n) : ~(i <= m) => i - m \in 0..n
    BY <1>1
  <2>2. 0 \in 0..(m + n) /\ 0 <= m
    BY <1>1
  <2>3. QED
    BY <1>3, <2>1, <2>2
<1>9. \A i \in 0..(m + n) : u[i] = IF i <= m THEN 0 ELSE w[i - m]
  OBVIOUS
<1> HIDE DEF u
<1>10. \A i \in m..(m + n) : u[i] = w[i - m]
  <2> SUFFICES ASSUME NEW i \in m..(m + n) PROVE u[i] = w[i - m]
    OBVIOUS
  <2>1. i \in 0..(m + n) /\ (i <= m => i - m = 0)
    BY <1>1
  <2>2. QED
    BY <1>3, <1>9, <2>1
<1>11. u[m + n] = value
  <2>1. m + n \in m..(m + n) /\ (m + n) - m = n
    BY <1>1
  <2>2. QED
    BY <1>3, <1>10, <2>1
<1>12. ASSUME NEW i \in 1..(m + n)
       PROVE  u[i] = u[i - 1] * 16 + Figure(p[i])
  <2>1. CASE i <= m
    <3>1. i \in 0..(m + n) /\ i - 1 \in 0..(m + n) /\ i - 1 <= m /\ i \in 1..m
      BY <1>1, <2>1
    <3>2. u[i] = 0 /\ u[i - 1] = 0 /\ p[i] = Zero
      BY <1>6, <1>7, <1>9, <2>1, <3>1
    <3>3. 0 * 16 + 0 = 0
      OBVIOUS
    <3>4. QED
      BY <1>4, <3>2, <3>3
  <2>2. CASE ~(i <= m)
    <3> DEFINE j == i - m
    <3>1. i \in m..(m + n) /\ i - 1 \in m..(m + n) /\ j \in 1..n /\ (i - 1) - m = j - 1
      BY <1>1, <2>2
    <3>2. p[i] = s[j]
      BY <1>7, <2>2
    <3>3. u[i] = w[j] /\ u[i - 1] = w[j - 1]
      BY <1>10, <3>1
    <3> HIDE DEF j
    <3>4. QED
      BY <1>3, <3>1, <3>2, <3>3
  <2>3. QED
    BY <2>1, <2>2
<1>13. Reading(u, p, 16, value)
  BY <1>7, <1>8, <1>11, <1>12 DEF Reading
<1>14. Numeral(p, 16, value)
  BY <1>7, <1>13 DEF Numeral
<1>15. Value(p, 16) = value
  BY <1>14, ValueIs
<1>16. QED
  BY <1>1, <1>5, <1>7, <1>15

(***************************************************************************)
(* "%d".                                                                   *)
(***************************************************************************)
LEMMA SmallRemainder ==
  ASSUME NEW m \in Nat \ {0}, NEW a \in 0..(m - 1)
  PROVE  a % m = a
<1>1. a = m * 0 + a
  OBVIOUS
<1>2. QED
  BY <1>1

LEMMA NegIs ==
  ASSUME NEW v \in Unsigned
  PROVE  Neg(v) \in Unsigned /\ (v # 0 => Neg(v) = TwoTo[Bits] - v)
<1> DEFINE m == TwoTo[Bits]
<1>1. m \in Nat \ {0} /\ v \in 0..(m - 1)
  BY TwoToIs DEF Unsigned
<1>2. Neg(v) = (m - v) % m /\ Unsigned = 0..(m - 1)
  BY DEF Neg, Unsigned
<1> HIDE DEF m
<1>3. (m - v) % m \in 0..(m - 1)
  BY <1>1
<1>4. CASE v # 0
  <2>1. m - v \in 0..(m - 1)
    BY <1>1, <1>4
  <2>2. (m - v) % m = m - v
    BY <1>1, <2>1, SmallRemainder
  <2>3. QED
    BY <1>2, <1>3, <2>2 DEF m
<1>5. QED
  BY <1>2, <1>3, <1>4

LEMMA DecimalIs ==
  ASSUME NEW v \in Unsigned
  PROVE  IF Signed(v) >= 0 THEN Decimal(v) \in Seq(Figures) /\ Plain(Decimal(v), v, 10)
         ELSE \E t \in Seq(Figures) : Decimal(v) = <<"-">> \o t /\ Plain(t, -Signed(v), 10)
<1> DEFINE m == TwoTo[Bits]
           h == TwoTo[Bits - 1]
<1>1. m \in Nat /\ h \in Nat /\ v \in 0..(m - 1) /\ h >= 1
  <2>1. Bits - 1 \in 0..Bits /\ Bits \in 0..Bits
    BY TwoToIs
  <2>2. QED
    BY <2>1, TwoToIs DEF Unsigned
<1>2. Signed(v) = IF v >= h THEN v - m ELSE v
  BY DEF Signed
<1> HIDE DEF m, h
<1>3. CASE v >= h
  <2>1. Signed(v) < 0 /\ ~(Signed(v) >= 0) /\ -Signed(v) = m - v /\ v # 0
    BY <1>1, <1>2, <1>3
  <2>2. Neg(v) \in Unsigned /\ Neg(v) = -Signed(v)
    BY <2>1, NegIs DEF m
  <2> DEFINE t == Itoa(Neg(v), 10)
  <2>3. t \in Seq(Figures) /\ Plain(t, Neg(v), 10)
    BY <2>2, ItoaIs
  <2>4. Decimal(v) = <<"-">> \o t
    BY <2>1 DEF Decimal
  <2> HIDE DEF t
  <2>5. Plain(t, -Signed(v), 10)
    BY <2>2, <2>3
  <2>6. QED
    BY <2>1, <2>3, <2>4, <2>5
<1>4. CASE ~(v >= h)
  <2>1. Signed(v) >= 0 /\ ~(Signed(v) < 0)
    BY <1>1, <1>2, <1>4
  <2>2. Decimal(v) = Itoa(v, 10)
    BY <2>1 DEF Decimal
  <2>3. Itoa(v, 10) \in Seq(Figures) /\ Plain(Itoa(v, 10), v, 10)
    BY ItoaIs
  <2>4. QED
    BY <2>1, <2>2, <2>3
<1>5. QED
  BY <1>3, <1>4

(***************************************************************************)
(* printf.                                                                 *)
(***************************************************************************)
Marks == Figures \cup {"-", "%", "a"}

\* What printf prints for a piece.
Text(piece, v) ==
  CASE piece = <<"a">> -> <<"a">>
    [] piece = <<"%", "%">> -> <<"%">>
    [] piece = <<"%", "x">> -> Itoa(v, 16)
    [] piece = <<"%", "#", "x">> -> Padded(Itoa(v, 16))
    [] piece = <<"%", "u">> -> Itoa(v, 10)
    [] piece = <<"%", "d">> -> Decimal(v)

\* The pieces, told apart.
LEMMA PiecesApart ==
  ASSUME NEW p \in Pieces
  PROVE  \/ /\ p = <<"a">> /\ Len(p) = 1 /\ p[1] = "a" /\ ~Takes(p)
            /\ p \notin {<<"%", "%">>, <<"%", "x">>, <<"%", "#", "x">>, <<"%", "u">>, <<"%", "d">>}
         \/ /\ p = <<"%", "%">> /\ Len(p) = 2 /\ p[1] = "%" /\ p[2] = "%" /\ ~Takes(p)
            /\ p \notin {<<"a">>, <<"%", "x">>, <<"%", "#", "x">>, <<"%", "u">>, <<"%", "d">>}
         \/ /\ p = <<"%", "x">> /\ Len(p) = 2 /\ p[1] = "%" /\ p[2] = "x" /\ Takes(p)
            /\ p \notin {<<"a">>, <<"%", "%">>, <<"%", "#", "x">>, <<"%", "u">>, <<"%", "d">>}
         \/ /\ p = <<"%", "#", "x">> /\ Len(p) = 3 /\ p[1] = "%" /\ p[2] = "#" /\ p[3] = "x"
            /\ Takes(p)
            /\ p \notin {<<"a">>, <<"%", "%">>, <<"%", "x">>, <<"%", "u">>, <<"%", "d">>}
         \/ /\ p = <<"%", "u">> /\ Len(p) = 2 /\ p[1] = "%" /\ p[2] = "u" /\ Takes(p)
            /\ p \notin {<<"a">>, <<"%", "%">>, <<"%", "x">>, <<"%", "#", "x">>, <<"%", "d">>}
         \/ /\ p = <<"%", "d">> /\ Len(p) = 2 /\ p[1] = "%" /\ p[2] = "d" /\ Takes(p)
            /\ p \notin {<<"a">>, <<"%", "%">>, <<"%", "x">>, <<"%", "#", "x">>, <<"%", "u">>}
<1>1. CASE p = <<"a">>
  BY <1>1 DEF Takes
<1>2. CASE p = <<"%", "%">>
  BY <1>2 DEF Takes
<1>3. CASE p = <<"%", "x">>
  BY <1>3 DEF Takes
<1>4. CASE p = <<"%", "#", "x">>
  BY <1>4 DEF Takes
<1>5. CASE p = <<"%", "u">>
  BY <1>5 DEF Takes
<1>6. CASE p = <<"%", "d">>
  BY <1>6 DEF Takes
<1>7. QED
  BY <1>1, <1>2, <1>3, <1>4, <1>5, <1>6 DEF Pieces

LEMMA Marked == ASSUME NEW s \in Seq(Figures) PROVE s \in Seq(Marks)
BY SeqMonotonic DEF Marks

\* It is a text of the piece.
LEMMA TextMeans ==
  ASSUME NEW p \in Pieces, NEW v \in Unsigned
  PROVE  Text(p, v) \in Seq(Marks) /\ Means(p, v, Text(p, v))
<1> DEFINE hex == Itoa(v, 16)
           dec == Itoa(v, 10)
<1>1. /\ hex \in Seq(Figures) /\ Plain(hex, v, 16) /\ Numeral(hex, 16, v) /\ Len(hex) <= Bits \div 4
      /\ dec \in Seq(Figures) /\ Plain(dec, v, 10)
  BY ItoaIs
<1>2. Padded(hex) \in Seq(Figures) /\ Len(Padded(hex)) = Bits \div 4 /\ Value(Padded(hex), 16) = v
  BY <1>1, PaddedIs
<1> HIDE DEF hex, dec
<1>3. CASE p = <<"a">>
  <2>1. Text(p, v) = p /\ Means(p, v, p)
    BY <1>3, PiecesApart DEF Text, Means
  <2> DEFINE c == "a"
  <2>2. c \in Marks
    BY DEF Marks
  <2>3. p = <<c>>
    BY <1>3
  <2> HIDE DEF c
  <2>4. p \in Seq(Marks)
    BY <2>2, <2>3
  <2>5. QED
    BY <2>1, <2>4
<1>4. CASE p = <<"%", "%">>
  <2>1. Text(p, v) = <<"%">> /\ Means(p, v, <<"%">>)
    BY <1>4, PiecesApart DEF Text, Means
  <2>2. "%" \in Marks
    BY DEF Marks
  <2>3. QED
    BY <2>1, <2>2
<1>5. CASE p = <<"%", "x">>
  <2>1. Text(p, v) = hex /\ Means(p, v, hex) = Plain(hex, v, 16)
    BY <1>5, PiecesApart DEF Text, Means, hex
  <2>2. QED
    BY <1>1, <2>1, Marked
<1>6. CASE p = <<"%", "#", "x">>
  <2>1. Text(p, v) = Padded(hex)
    BY <1>6, PiecesApart DEF Text, hex
  <2> DEFINE s == Padded(hex)
  <2>2. Means(p, v, s) = (Len(s) = Bits \div 4 /\ Value(s, 16) = v)
    BY <1>6, PiecesApart DEF Means
  <2>3. s \in Seq(Figures) /\ Len(s) = Bits \div 4 /\ Value(s, 16) = v
    BY <1>2
  <2> HIDE DEF s
  <2>4. s \in Seq(Marks)
    BY <2>3, Marked
  <2>5. Means(p, v, s)
    BY <2>2, <2>3
  <2>6. QED
    BY <2>1, <2>4, <2>5 DEF s
<1>7. CASE p = <<"%", "u">>
  <2>1. Text(p, v) = dec /\ Means(p, v, dec) = Plain(dec, v, 10)
    BY <1>7, PiecesApart DEF Text, Means, dec
  <2>2. QED
    BY <1>1, <2>1, Marked
<1>8. CASE p = <<"%", "d">>
  <2> DEFINE s == Decimal(v)
  <2>1. Text(p, v) = s
    BY <1>8, PiecesApart DEF Text
  <2>2. Means(p, v, s) = IF Signed(v) >= 0 THEN Plain(s, v, 10)
                         ELSE s # <<>> /\ Head(s) = "-" /\ Plain(Tail(s), -Signed(v), 10)
    BY <1>8, PiecesApart DEF Means
  <2> HIDE DEF s
  <2>3. CASE Signed(v) >= 0
    <3>1. s \in Seq(Figures) /\ Plain(s, v, 10)
      BY <2>3, DecimalIs DEF s
    <3>2. QED
      BY <2>1, <2>2, <2>3, <3>1, Marked
  <2>4. CASE ~(Signed(v) >= 0)
    <3>1. PICK t \in Seq(Figures) : s = <<"-">> \o t /\ Plain(t, -Signed(v), 10)
      BY <2>4, DecimalIs DEF s
    <3> DEFINE minus == "-"
               h == <<minus>>
    <3>2. minus \in Marks
      BY DEF Marks
    <3> HIDE DEF minus
    <3>3. h \in Seq(Marks) /\ Len(h) = 1 /\ h[1] = minus
      BY <3>2
    <3> HIDE DEF h
    <3>4. t \in Seq(Marks) /\ Len(t) \in Nat
      BY Marked, LenProperties
    <3>5. s = h \o t
      BY <3>1 DEF h, minus
    <3> DEFINE c == h \o t
    <3>6a. /\ c \in Seq(Marks) /\ Len(c) = Len(h) + Len(t)
          /\ \A i \in 1..(Len(h) + Len(t)) : c[i] = IF i <= Len(h) THEN h[i] ELSE t[i - Len(h)]
      BY <3>3, <3>4, ConcatProperties
    <3>6b. s = c
      BY <3>5
    <3> HIDE DEF c
    <3>6. /\ s \in Seq(Marks) /\ Len(s) = 1 + Len(t)
          /\ \A i \in 1..(1 + Len(t)) : s[i] = IF i <= 1 THEN h[i] ELSE t[i - 1]
      BY <3>3, <3>6a, <3>6b
    <3>7. s # <<>> /\ s[1] = minus
      BY <3>3, <3>4, <3>6
    <3>8. Head(s) = minus
      BY <3>7
    <3>9. Tail(s) = t
      <4>1. /\ Tail(s) \in Seq(Marks) /\ Len(Tail(s)) = Len(s) - 1
            /\ \A i \in 1..Len(Tail(s)) : Tail(s)[i] = s[i + 1]
        BY <3>6, <3>7, HeadTailProperties
      <4>2. Len(Tail(s)) = Len(t)
        BY <3>4, <3>6, <4>1
      <4>3. \A i \in 1..Len(t) : s[i + 1] = t[i]
        <5> SUFFICES ASSUME NEW i \in 1..Len(t) PROVE s[i + 1] = t[i]
          OBVIOUS
        <5> DEFINE j == i + 1
        <5>1. j \in 1..(1 + Len(t)) /\ ~(j <= 1) /\ j - 1 = i
          BY <3>4
        <5> HIDE DEF j
        <5>2. s[j] = t[i]
          BY <3>6, <5>1
        <5>3. QED
          BY <5>2 DEF j
      <4>4. QED
        BY <3>4, <4>1, <4>2, <4>3, SeqEqual
    <3>10. QED
      BY <2>1, <2>2, <2>4, <3>1, <3>6, <3>7, <3>8, <3>9 DEF minus
  <2>5. QED
    BY <2>3, <2>4
<1>9. QED
  BY <1>3, <1>4, <1>5, <1>6, <1>7, <1>8 DEF Pieces

\* A round of the loop prints the piece it is at.
AtPiece(format, i, p) ==
  /\ Len(format) \in Nat /\ i \in Nat /\ i >= 1 /\ i + Len(p) - 1 <= Len(format)
  /\ \A j \in 1..Len(p) : format[i + j - 1] = p[j]

LEMMA RoundIs ==
  ASSUME NEW p \in Pieces, NEW format, NEW given, NEW x, AtPiece(format, x.i, p)
  PROVE  Round(format, given, x) =
           Puts(x, x.i + Len(p), IF Takes(p) THEN 1 ELSE 0, Text(p, given[x.k + 1]))
<1> DEFINE i == x.i
           arg == given[x.k + 1]
<1>1. /\ Len(format) \in Nat /\ i \in Nat /\ i >= 1 /\ i + Len(p) - 1 <= Len(format)
      /\ \A j \in 1..Len(p) : format[i + j - 1] = p[j]
  BY DEF AtPiece
<1>2. CASE p = <<"a">>
  <2>1. Len(p) = 1 /\ p[1] = "a" /\ ~Takes(p) /\ Text(p, arg) = <<"a">>
    BY <1>2, PiecesApart DEF Text
  <2>2. ~(i > Len(format)) /\ format[i] = "a"
    <3>1. i + 1 - 1 = i /\ 1 \in 1..1
      BY <1>1
    <3>2. QED
      BY <1>1, <2>1, <3>1
  <2>3. Round(format, given, x) = Puts(x, i + 1, 0, <<"a">>)
    BY <2>2 DEF Round
  <2>4. QED
    BY <2>1, <2>3
<1>3. CASE p # <<"a">> /\ p # <<"%", "#", "x">>
  <2>1. Len(p) = 2 /\ p[1] = "%" /\ p[2] \in {"%", "x", "u", "d"}
    BY <1>3, PiecesApart
  <2>2. ~(i > Len(format)) /\ i < Len(format) /\ format[i] = "%" /\ format[i + 1] = p[2]
    <3>1. i + 1 - 1 = i /\ i + 2 - 1 = i + 1 /\ 1 \in 1..2 /\ 2 \in 1..2
      BY <1>1
    <3>2. QED
      BY <1>1, <2>1, <3>1
  <2> DEFINE c == p[2]
  <2>3. format[i + 1] = c /\ c # "#" /\ i + 1 + 1 = i + 2
    BY <1>1, <2>1, <2>2
  <2>4. Round(format, given, x) =
          CASE c = "x" -> Puts(x, i + 2, 1, Itoa(arg, 16))
            [] c = "u" -> Puts(x, i + 2, 1, Itoa(arg, 10))
            [] c = "d" -> Puts(x, i + 2, 1, Decimal(arg))
            [] c = "%" -> Puts(x, i + 2, 0, <<"%">>)
            [] OTHER -> Puts(x, i + 2, 0, <<>>)
    BY <2>2, <2>3 DEF Round
  <2>5. /\ c = "x" => Text(p, arg) = Itoa(arg, 16) /\ Takes(p)
        /\ c = "u" => Text(p, arg) = Itoa(arg, 10) /\ Takes(p)
        /\ c = "d" => Text(p, arg) = Decimal(arg) /\ Takes(p)
        /\ c = "%" => Text(p, arg) = <<"%">> /\ ~Takes(p)
    BY <1>3, PiecesApart DEF Text
  <2> HIDE DEF c, i, arg
  <2>6. Round(format, given, x) = Puts(x, i + 2, IF Takes(p) THEN 1 ELSE 0, Text(p, arg))
    BY <2>1, <2>4, <2>5 DEF c
  <2>7. QED
    BY <2>1, <2>6 DEF i, arg
<1>4. CASE p = <<"%", "#", "x">>
  <2>1. /\ Len(p) = 3 /\ p[1] = "%" /\ p[2] = "#" /\ p[3] = "x" /\ Takes(p)
        /\ Text(p, arg) = Padded(Itoa(arg, 16))
    BY <1>4, PiecesApart DEF Text
  <2>2. /\ ~(i > Len(format)) /\ i < Len(format) /\ format[i] = "%" /\ format[i + 1] = "#"
        /\ format[i + 2] = "x"
    <3>1. i + 1 - 1 = i /\ i + 2 - 1 = i + 1 /\ i + 3 - 1 = i + 2
          /\ 1 \in 1..3 /\ 2 \in 1..3 /\ 3 \in 1..3
      BY <1>1
    <3>2. QED
      BY <1>1, <2>1, <3>1
  <2>3. i + 2 + 1 = i + 3
    BY <1>1
  <2>4. Round(format, given, x) = Puts(x, i + 3, 1, Padded(Itoa(arg, 16)))
    BY <2>2, <2>3 DEF Round
  <2>5. QED
    BY <2>1, <2>4
<1>5. QED
  BY <1>2, <1>3, <1>4

LEMMA ConcatSplits ==
  ASSUME NEW S, NEW a \in Seq(S), NEW b \in Seq(S)
  PROVE  /\ SubSeq(a \o b, 1, Len(a)) = a
         /\ SubSeq(a \o b, Len(a) + 1, Len(a \o b)) = b
         /\ Len(a) \in 0..Len(a \o b)
<1> DEFINE c == a \o b
           m == Len(a)
           n == Len(b)
           s == SubSeq(c, 1, m)
           t == SubSeq(c, m + 1, m + n)
<1>1. m \in Nat /\ n \in Nat
  BY LenProperties
<1>2. /\ c \in Seq(S) /\ Len(c) = m + n
      /\ \A i \in 1..(m + n) : c[i] = IF i <= m THEN a[i] ELSE b[i - m]
  BY ConcatProperties
<1>3. \A i \in 1..(m + n) : c[i] \in S
  BY <1>2, ElementOfSeq
<1> HIDE DEF c
<1>4. s = a
  <2> HIDE DEF m, n
  <2>1. \A i \in 1..m : c[i] \in S /\ c[i] = a[i]
    <3>1. \A i \in 1..m : i \in 1..(m + n) /\ i <= m
      BY <1>1
    <3>2. QED
      BY <1>2, <1>3, <3>1
  <2>2. /\ s \in Seq(S) /\ Len(s) = IF 1 <= m THEN m - 1 + 1 ELSE 0
        /\ \A i \in 1..(m - 1 + 1) : s[i] = c[1 + i - 1]
    BY <1>1, <2>1, SubSeqProperties
  <2> HIDE DEF s
  <2>3. Len(s) = m /\ \A i \in 1..m : s[i] = c[i]
    <3>1. m - 1 + 1 = m /\ (~(1 <= m) => m = 0) /\ \A i \in 1..m : 1 + i - 1 = i
      BY <1>1
    <3>2. QED
      BY <2>2, <3>1
  <2>4. Len(s) = Len(a) /\ \A i \in 1..Len(s) : s[i] = a[i]
    BY <2>1, <2>3 DEF m
  <2>5. QED
    BY <2>2, <2>4, SeqEqual
<1>5. t = b
  <2> HIDE DEF m, n
  <2>1. \A i \in (m + 1)..(m + n) : c[i] \in S
    <3>1. \A i \in (m + 1)..(m + n) : i \in 1..(m + n)
      BY <1>1
    <3>2. QED
      BY <1>3, <3>1
  <2>2. /\ t \in Seq(S) /\ Len(t) = IF m + 1 <= m + n THEN (m + n) - (m + 1) + 1 ELSE 0
        /\ \A i \in 1..((m + n) - (m + 1) + 1) : t[i] = c[(m + 1) + i - 1]
    <3>1. m + 1 \in Int /\ m + n \in Int
      BY <1>1
    <3>2. QED
      BY <2>1, <3>1, SubSeqProperties
  <2> HIDE DEF t
  <2>3. Len(t) = n /\ \A i \in 1..n : t[i] = b[i]
    <3>1. (m + n) - (m + 1) + 1 = n /\ (~(m + 1 <= m + n) => n = 0)
      BY <1>1
    <3>2. \A i \in 1..n : /\ (m + 1) + i - 1 = m + i /\ m + i \in 1..(m + n)
                          /\ ~(m + i <= m) /\ (m + i) - m = i
      BY <1>1
    <3>3. \A i \in 1..n : c[m + i] = b[i]
      BY <1>2, <3>2
    <3>4. QED
      BY <2>2, <3>1, <3>2, <3>3
  <2>4. Len(t) = Len(b) /\ \A i \in 1..Len(t) : t[i] = b[i]
    BY <2>3 DEF n
  <2>5. QED
    BY <2>2, <2>4, SeqEqual
<1>6. m \in 0..(m + n)
  <2> HIDE DEF m, n
  <2>1. QED
    BY <1>1
<1>7. QED
  BY <1>2, <1>4, <1>5, <1>6 DEF c

LEMMA FlattenIs ==
  ASSUME NEW s, NEW n \in 1..2, Len(s) = n
  PROVE  FlattenSeq(s) = IF n = 1 THEN s[1] ELSE s[1] \o s[2]
<1> DEFINE flatten == CHOOSE f : f = [i \in 1..n |-> IF i = 1 THEN s[i] ELSE f[i - 1] \o s[i]]
           g == [i \in 1..n |-> IF i = 1 THEN s[1] ELSE s[1] \o s[2]]
<1>1. Len(s) # 0
  OBVIOUS
<1>2. FlattenSeq(s) = flatten[n]
  BY <1>1, Zenon DEF FlattenSeq
<1>3. g = [i \in 1..n |-> IF i = 1 THEN s[i] ELSE g[i - 1] \o s[i]]
  <2> SUFFICES ASSUME NEW i \in 1..n
               PROVE  g[i] = IF i = 1 THEN s[i] ELSE g[i - 1] \o s[i]
    OBVIOUS
  <2>1. CASE i = 1
    BY <2>1
  <2>2. CASE i # 1
    <3>1. i = 2 /\ i - 1 = 1 /\ 1 \in 1..n
      BY <2>2
    <3>2. g[i - 1] = s[1] /\ g[i] = s[1] \o s[2]
      BY <2>2, <3>1
    <3> HIDE DEF g
    <3>3. QED
      BY <2>2, <3>1, <3>2
  <2>3. QED
    BY <2>1, <2>2
<1>4. flatten = [i \in 1..n |-> IF i = 1 THEN s[i] ELSE flatten[i - 1] \o s[i]]
  <2> HIDE DEF g
  <2>1. QED
    BY <1>3
<1> HIDE DEF flatten, g
<1>5. 1 \in 1..n /\ flatten[1] = s[1]
  BY <1>4
<1>6. CASE n = 1
  BY <1>2, <1>5, <1>6
<1>7. CASE n # 1
  <2>1. 2 \in 1..n /\ n = 2 /\ 2 - 1 = 1
    BY <1>7
  <2>2. flatten[2] = flatten[2 - 1] \o s[2]
    BY <1>4, <2>1
  <2>3. QED
    BY <1>2, <1>5, <1>7, <2>1, <2>2
<1>8. QED
  BY <1>6, <1>7

\* printf ends where a round changes nothing any more.
Start == [i |-> 1, k |-> 0, out |-> <<>>]

TwoRounds(format, given, x, y) ==
  /\ Len(format) \in Nat /\ Len(format) >= 1
  /\ x = Round(format, given, Start)
  /\ y = Round(format, given, x)
  /\ y = Round(format, given, y)
  /\ x = y \/ Len(format) >= 2

LEMMA PrintfIs ==
  ASSUME NEW format, NEW given, NEW x, NEW y, TwoRounds(format, given, x, y)
  PROVE  Printf(format, given) = y.out
<1> DEFINE n == Len(format)
           R(z) == Round(format, given, z)
           after == CHOOSE f : f = [j \in 0..n |-> IF j = 0 THEN Start ELSE R(f[j - 1])]
           g == [j \in 0..n |-> IF j = 0 THEN Start ELSE IF j = 1 THEN x ELSE y]
<1>1. n \in Nat /\ n >= 1
  BY DEF TwoRounds
<1>2. x = R(Start) /\ y = R(x) /\ y = R(y) /\ (x = y \/ n >= 2)
  BY DEF TwoRounds
<1>3. Printf(format, given) = after[n].out
  BY Zenon DEF Printf, Start
<1> HIDE DEF n, R
<1>4. g = [j \in 0..n |-> IF j = 0 THEN Start ELSE R(g[j - 1])]
  <2> SUFFICES ASSUME NEW j \in 0..n
               PROVE  g[j] = IF j = 0 THEN Start ELSE R(g[j - 1])
    OBVIOUS
  <2>1. CASE j = 0
    BY <1>1, <2>1
  <2>2. CASE j = 1
    BY <1>1, <1>2, <2>2
  <2>3. CASE j # 0 /\ j # 1
    <3>1. j - 1 \in 0..n /\ j - 1 # 0
      BY <1>1, <2>3
    <3>2. g[j - 1] \in {x, y} /\ (j - 1 # 1 => g[j - 1] = y) /\ g[j] = y
      BY <2>3, <3>1
    <3> HIDE DEF g
    <3>3. QED
      BY <1>2, <2>3, <3>2
  <2>4. QED
    BY <2>1, <2>2, <2>3
<1>5. after = [j \in 0..n |-> IF j = 0 THEN Start ELSE R(after[j - 1])]
  <2> HIDE DEF g
  <2>1. QED
    BY <1>4
<1> HIDE DEF after
<1>6. Alike(after, g, n)
  <2>1. after[0] = g[0]
    BY <1>1, <1>5
  <2>2. ASSUME NEW k \in 1..n, after[k - 1] = g[k - 1] PROVE after[k] = g[k]
    <3>1. k \in 0..n /\ k # 0
      BY <1>1
    <3>2. after[k] = R(after[k - 1])
      BY <1>5, <3>1
    <3>3. g[k] = R(g[k - 1])
      <4> HIDE DEF g
      <4>1. QED
        BY <1>4, <3>1
    <3>4. QED
      BY <2>2, <3>2, <3>3
  <2>3. QED
    BY <2>1, <2>2 DEF Alike
<1>7. Agree(after, g, n)
  BY <1>1, <1>6, Follows
<1>8. n \in 0..n
  BY <1>1
<1>9. after[n] = g[n]
  BY <1>7, <1>8 DEF Agree
<1>10. g[n] = y
  BY <1>1, <1>2
<1>11. QED
  BY <1>3, <1>9, <1>10

Alphabet == {"a", "%", "x", "#", "u", "d"}

LEMMA PieceIs ==
  ASSUME NEW p \in Pieces
  PROVE  p \in Seq(Alphabet) /\ Len(p) \in 1..3
<1> DEFINE a == "a"
           m == "%"
           x == "x"
           h == "#"
           u == "u"
           d == "d"
<1>1. /\ a \in Alphabet /\ m \in Alphabet /\ x \in Alphabet /\ h \in Alphabet
      /\ u \in Alphabet /\ d \in Alphabet
  BY DEF Alphabet
<1>2. p \in {<<a>>, <<m, m>>, <<m, x>>, <<m, h, x>>, <<m, u>>, <<m, d>>}
  BY DEF Pieces
<1> HIDE DEF a, m, x, h, u, d
<1>3. CASE p = <<a>>
  BY <1>1, <1>3
<1>4. CASE p \in {<<m, m>>, <<m, x>>, <<m, u>>, <<m, d>>}
  <2>1. PICK c \in Alphabet : p = <<m, c>>
    BY <1>1, <1>4
  <2>2. QED
    BY <1>1, <2>1
<1>5. CASE p = <<m, h, x>>
  BY <1>1, <1>5
<1>6. QED
  BY <1>2, <1>3, <1>4, <1>5

\* The state after a round at a piece.
Past(x, p, given) ==
  Puts(x, x.i + Len(p), IF Takes(p) THEN 1 ELSE 0, Text(p, given[x.k + 1]))

LEMMA Ended ==
  ASSUME NEW format, NEW given, NEW x, x.i > Len(format)
  PROVE  Round(format, given, x) = x
BY Zenon DEF Round

LEMMA PrintfOne ==
  ASSUME NEW p \in Pieces, NEW v \in Unsigned
  PROVE  Printf(p, Args(v)) = Text(p, v)
<1> DEFINE n == Len(p)
           given == Args(v)
           y == Past(Start, p, given)
<1>1. n \in Nat /\ n >= 1
  <2>1. n \in 1..3
    BY PieceIs
  <2> HIDE DEF n
  <2>2. QED
    BY <2>1
<1>2. Start.i = 1 /\ Start.k = 0 /\ Start.out = <<>>
  BY DEF Start
<1>3. AtPiece(p, Start.i, p)
  <2>1. 1 + n - 1 <= n /\ \A j \in 1..n : 1 + j - 1 = j
    BY <1>1
  <2>2. QED
    BY <1>1, <1>2, <2>1 DEF AtPiece
<1>4. given[1] = v
  BY DEF Args
<1> HIDE DEF given
<1>5. Round(p, given, Start) = y
  BY <1>3, RoundIs DEF Past
<1>6. y.i = 1 + n /\ y.out = <<>> \o Text(p, v)
  <2>1. y.i = Start.i + Len(p) /\ y.out = Start.out \o Text(p, given[Start.k + 1])
    BY Zenon DEF Past, Puts
  <2> HIDE DEF y
  <2>2. Start.k + 1 = 1
    BY <1>2
  <2>3. QED
    BY <1>2, <1>4, <2>1, <2>2
<1> HIDE DEF y
<1>7. y.out = Text(p, v)
  <2>1. Text(p, v) \in Seq(Marks)
    BY TextMeans
  <2>2. <<>> \o Text(p, v) = Text(p, v)
    BY <2>1, ConcatEmptySeq
  <2>3. QED
    BY <1>6, <2>2
<1>8. y.i > Len(p)
  BY <1>1, <1>6
<1>9. Round(p, given, y) = y
  BY <1>8, Ended
<1>10. TwoRounds(p, given, y, y)
  BY <1>1, <1>5, <1>9 DEF TwoRounds
<1>11. QED
  BY <1>7, <1>10, PrintfIs DEF given

LEMMA PrintfTwo ==
  ASSUME NEW p \in Pieces, NEW q \in Pieces, NEW v \in Unsigned
  PROVE  Printf(p \o q, Args(v)) =
           Text(p, v) \o Text(q, Args(v)[IF Takes(p) THEN 2 ELSE 1])
<1> DEFINE m == Len(p)
           n == Len(q)
           f == p \o q
           given == Args(v)
           x == Past(Start, p, given)
           y == Past(x, q, given)
<1>1. m \in Nat /\ m >= 1 /\ n \in Nat /\ n >= 1
  <2>1. m \in 1..3 /\ n \in 1..3
    BY PieceIs
  <2> HIDE DEF m, n
  <2>2. QED
    BY <2>1
<1>2. /\ f \in Seq(Alphabet) /\ Len(f) = m + n
      /\ \A i \in 1..(m + n) : f[i] = IF i <= m THEN p[i] ELSE q[i - m]
  BY PieceIs, ConcatProperties
<1>3. given[1] = v
  BY DEF Args
<1> HIDE DEF f, given
<1>4. Start.i = 1 /\ Start.k = 0 /\ Start.out = <<>>
  BY DEF Start
<1>5. x.i = 1 + m /\ x.k = (IF Takes(p) THEN 1 ELSE 0) /\ x.out = <<>> \o Text(p, v)
  <2>1. /\ x.i = Start.i + Len(p) /\ x.k = Start.k + (IF Takes(p) THEN 1 ELSE 0)
        /\ x.out = Start.out \o Text(p, given[Start.k + 1])
    BY Zenon DEF Past, Puts
  <2> HIDE DEF x
  <2>2. Start.k + 1 = 1 /\ 0 + (IF Takes(p) THEN 1 ELSE 0) = IF Takes(p) THEN 1 ELSE 0
    BY <1>4
  <2>3. QED
    BY <1>3, <1>4, <2>1, <2>2
<1>6. AtPiece(f, Start.i, p)
  <2> HIDE DEF m, n
  <2>1. Len(f) \in Nat /\ 1 + m - 1 <= Len(f)
    BY <1>1, <1>2
  <2>2. \A j \in 1..m : 1 + j - 1 = j /\ j \in 1..(m + n) /\ j <= m
    BY <1>1
  <2>3. \A j \in 1..m : f[1 + j - 1] = p[j]
    BY <1>2, <2>2
  <2>4. QED
    BY <1>4, <2>1, <2>3 DEF AtPiece, m
<1>7. Round(f, given, Start) = x
  BY <1>6, RoundIs DEF Past
<1> HIDE DEF x
<1>8. AtPiece(f, x.i, q)
  <2> HIDE DEF m, n
  <2>1. Len(f) \in Nat /\ (1 + m) + n - 1 <= Len(f) /\ 1 + m \in Nat /\ 1 + m >= 1
    BY <1>1, <1>2
  <2>2. \A j \in 1..n : /\ (1 + m) + j - 1 = m + j /\ m + j \in 1..(m + n)
                        /\ ~(m + j <= m) /\ (m + j) - m = j
    BY <1>1
  <2>3. \A j \in 1..n : f[(1 + m) + j - 1] = q[j]
    BY <1>2, <2>2
  <2>4. QED
    BY <1>5, <2>1, <2>3 DEF AtPiece, n
<1>9. Round(f, given, x) = y
  BY <1>8, RoundIs DEF Past
<1>10. /\ y.i = (1 + m) + n
       /\ y.out = Text(p, v) \o Text(q, given[IF Takes(p) THEN 2 ELSE 1])
  <2>1. y.i = x.i + Len(q) /\ y.out = x.out \o Text(q, given[x.k + 1])
    BY Zenon DEF Past, Puts
  <2> HIDE DEF y
  <2>2. x.k + 1 = IF Takes(p) THEN 2 ELSE 1
    BY <1>5
  <2>3. Text(p, v) \in Seq(Marks)
    BY TextMeans
  <2>4. <<>> \o Text(p, v) = Text(p, v)
    BY <2>3, ConcatEmptySeq
  <2>5. QED
    BY <1>5, <2>1, <2>2, <2>4
<1> HIDE DEF y
<1>11. y.i > Len(f)
  BY <1>1, <1>2, <1>10
<1>12. Round(f, given, y) = y
  BY <1>11, Ended
<1>13. Len(f) >= 2 /\ Len(f) \in Nat /\ Len(f) >= 1
  BY <1>1, <1>2
<1>14. TwoRounds(f, given, x, y)
  BY <1>7, <1>9, <1>12, <1>13 DEF TwoRounds
<1>15. Printf(f, given) = y.out
  BY <1>14, PrintfIs
<1>16. QED
  BY <1>10, <1>15 DEF f, given

\* What CallsRight says of printf.
Printed(c, r) ==
  \E cut \in 0..Len(r) :
    /\ Means(c.format[1], c.v, SubSeq(r, 1, cut))
    /\ IF Len(c.format) = 1 THEN cut = Len(r)
       ELSE Means(c.format[2], Args(c.v)[IF Takes(c.format[1]) THEN 2 ELSE 1],
                  SubSeq(r, cut + 1, Len(r)))

LEMMA PrintfRight ==
  ASSUME NEW c, c.format \in Formats, c.v \in Unsigned
  PROVE  Printed(c, Printf(FlattenSeq(c.format), Args(c.v)))
<1> DEFINE f == c.format
           v == c.v
           n == Len(f)
           p == f[1]
           q == f[2]
           arg == Args(v)[IF Takes(p) THEN 2 ELSE 1]
           r == Printf(FlattenSeq(f), Args(v))
           s == Text(p, v)
           t == Text(q, arg)
<1>1. f \in Seq(Pieces) /\ n \in 1..2 /\ v \in Unsigned
  BY FormatAssumption
<1>2. p \in Pieces
  <2> HIDE DEF f
  <2>1. 1 \in 1..Len(f)
    BY <1>1
  <2>2. QED
    BY <1>1, <2>1, ElementOfSeq
<1>3. s \in Seq(Marks) /\ Means(p, v, s)
  <2> HIDE DEF p, v
  <2>1. QED
    BY <1>1, <1>2, TextMeans
<1>4. CASE n = 1
  <2>1. FlattenSeq(f) = p
    <3> HIDE DEF f
    <3>1. QED
      BY <1>1, <1>4, FlattenIs
  <2>2. r = s
    <3> HIDE DEF p, v
    <3>1. QED
      BY <1>1, <1>2, <2>1, PrintfOne
  <2> HIDE DEF r, s
  <2>3. Len(r) \in Nat /\ SubSeq(r, 1, Len(r)) = r
    BY <1>3, <2>2, LenProperties, SubSeqFull
  <2>4. Len(r) \in 0..Len(r)
    BY <2>3
  <2>5. Printed(c, r)
    BY <1>3, <1>4, <2>2, <2>3, <2>4 DEF Printed
  <2>6. QED
    BY <2>5 DEF r
<1>5. CASE n # 1
  <2>1. n = 2
    BY <1>1, <1>5
  <2>2. q \in Pieces
    <3> HIDE DEF f
    <3>1. 2 \in 1..Len(f)
      BY <1>1, <2>1
    <3>2. QED
      BY <1>1, <3>1, ElementOfSeq
  <2>3. arg \in Unsigned
    <3>1. Neg(v) \in Unsigned
      <4> HIDE DEF v
      <4>1. QED
        BY <1>1, NegIs
    <3>2. QED
      BY <1>1, <3>1 DEF Args
  <2>4. t \in Seq(Marks) /\ Means(q, arg, t)
    <3> HIDE DEF q, arg
    <3>1. QED
      BY <2>2, <2>3, TextMeans
  <2>5. FlattenSeq(f) = p \o q
    <3> HIDE DEF f
    <3>1. 2 \in 1..2 /\ Len(f) = 2
      BY <2>1
    <3>2. FlattenSeq(f) = IF 2 = 1 THEN f[1] ELSE f[1] \o f[2]
      <4>1. \A i \in 1..2 : Len(f) = i =>
              FlattenSeq(f) = IF i = 1 THEN f[1] ELSE f[1] \o f[2]
        BY FlattenIs
      <4>2. QED
        BY <3>1, <4>1
    <3>3. QED
      BY <3>2
  <2>6. r = s \o t
    <3> HIDE DEF p, q, v
    <3>1. QED
      BY <1>1, <1>2, <2>2, <2>5, PrintfTwo
  <2> HIDE DEF r, s, t
  <2>7. /\ SubSeq(r, 1, Len(s)) = s /\ SubSeq(r, Len(s) + 1, Len(r)) = t
        /\ Len(s) \in 0..Len(r)
    BY <1>3, <2>4, <2>6, ConcatSplits
  <2>8. Printed(c, r)
    BY <1>3, <1>5, <2>4, <2>7 DEF Printed
  <2>9. QED
    BY <2>8 DEF r
<1>6. QED
  BY <1>4, <1>5

(***************************************************************************)
(* Memory.                                                                 *)
(***************************************************************************)
\* The chunks of a block of n bytes: done[j] of them after j chunks.
Divides(chunks, done, n) ==
  /\ Len(chunks) \in Nat /\ done \in [0..Len(chunks) -> 0..n]
  /\ done[0] = 0 /\ done[Len(chunks)] = n
  /\ \A j \in 1..Len(chunks) : chunks[j] \in Nat /\ done[j] = done[j - 1] + chunks[j]

LEMMA ChunksDivide ==
  ASSUME NEW to \in Nat, NEW n \in Nat
  PROVE  \E done : Divides(Chunks(to, n), done, n)
<1> DEFINE gap == (4 - (to % 4)) % 4
           h == Min({n, gap})
           w == (n - h) \div 4
           t == (n - h) % 4
           a == [i \in 1..h |-> 1]
           b == [i \in 1..w |-> 4]
           d == [i \in 1..t |-> 1]
           l == (h + w) + t
           chunks == a \o b \o d
           done == [j \in 0..l |-> IF j <= h THEN j ELSE IF j <= h + w THEN h + 4 * (j - h)
                                   ELSE (h + 4 * w) + (j - (h + w))]
<1>1. h \in Nat /\ h <= n
  <2>1. gap \in Nat
    <3> DEFINE r == to % 4
    <3>1. r \in 0..3
      OBVIOUS
    <3> HIDE DEF r
    <3>2. QED
      BY <3>1
  <2> HIDE DEF gap
  <2>2. h \in {n, gap} /\ \A x \in {n, gap} : h <= x
    <3> DEFINE S == {n, gap}
    <3>1. S \in SUBSET Nat /\ S # {}
      BY <2>1
    <3> HIDE DEF S
    <3>2. Min(S) \in S /\ \A x \in S : Min(S) <= x
      BY <3>1, MinIsLeast
    <3>3. QED
      BY <3>2 DEF S
  <2> HIDE DEF h
  <2>3. QED
    BY <2>1, <2>2
<1> HIDE DEF h
<1>2. w \in Nat /\ t \in 0..3 /\ (h + 4 * w) + t = n
  <2> DEFINE m == n - h
  <2>1. m \in Nat
    BY <1>1
  <2> HIDE DEF m
  <2>2. m \div 4 \in Nat /\ m % 4 \in 0..3 /\ m = (4 * (m \div 4)) + (m % 4)
    BY <2>1
  <2>3. w = m \div 4 /\ t = m % 4
    BY DEF m
  <2> HIDE DEF w, t
  <2>4. QED
    BY <1>1, <2>1, <2>2, <2>3 DEF m
<1>3. Chunks(to, n) = chunks
  BY DEF Chunks, h
<1> HIDE DEF w, t
<1>4. /\ a \in Seq(Nat) /\ Len(a) = h /\ b \in Seq(Nat) /\ Len(b) = w
      /\ d \in Seq(Nat) /\ Len(d) = t
  BY <1>1, <1>2
<1>5. /\ \A i \in 1..h : a[i] = 1
      /\ \A i \in 1..w : b[i] = 4
      /\ \A i \in 1..t : d[i] = 1
  OBVIOUS
<1> HIDE DEF a, b, d
<1>6. /\ a \o b \in Seq(Nat) /\ Len(a \o b) = h + w
      /\ \A i \in 1..(h + w) : (a \o b)[i] = IF i <= h THEN a[i] ELSE b[i - h]
  BY <1>4, ConcatProperties
<1>7. /\ chunks \in Seq(Nat) /\ Len(chunks) = l
      /\ \A i \in 1..l : chunks[i] = IF i <= h + w THEN (a \o b)[i] ELSE d[i - (h + w)]
  <2> DEFINE ab == a \o b
  <2>1. ab \in Seq(Nat) /\ Len(ab) = h + w /\ chunks = ab \o d
    BY <1>6
  <2> HIDE DEF ab, chunks
  <2>2. QED
    BY <1>4, <2>1, ConcatProperties DEF ab
<1> HIDE DEF chunks
<1>8. \A i \in 1..l : chunks[i] = IF i <= h THEN 1 ELSE IF i <= h + w THEN 4 ELSE 1
  <2> SUFFICES ASSUME NEW i \in 1..l
               PROVE  chunks[i] = IF i <= h THEN 1 ELSE IF i <= h + w THEN 4 ELSE 1
    OBVIOUS
  <2>1. CASE i <= h
    <3>1. i \in 1..h /\ i \in 1..(h + w) /\ i <= h + w
      BY <1>1, <1>2, <2>1
    <3>2. QED
      BY <1>5, <1>6, <1>7, <2>1, <3>1
  <2>2. CASE ~(i <= h) /\ i <= h + w
    <3>1. i - h \in 1..w /\ i \in 1..(h + w)
      BY <1>1, <1>2, <2>2
    <3>2. QED
      BY <1>5, <1>6, <1>7, <2>2, <3>1
  <2>3. CASE ~(i <= h + w)
    <3>1. i - (h + w) \in 1..t /\ ~(i <= h)
      BY <1>1, <1>2, <2>3
    <3>2. QED
      BY <1>5, <1>7, <2>3, <3>1
  <2>4. QED
    BY <2>1, <2>2, <2>3
<1>9. l \in Nat
  BY <1>1, <1>2
<1>10. done \in [0..l -> 0..n] /\ done[0] = 0 /\ done[l] = n
  <2>1. ASSUME NEW j \in 0..l PROVE done[j] \in 0..n
    BY <1>1, <1>2
  <2>2. done \in [0..l -> 0..n]
    BY <2>1
  <2>3. 0 \in 0..l /\ l \in 0..l
    BY <1>9
  <2>4. QED
    BY <1>1, <1>2, <2>2, <2>3
<1>11. \A j \in 1..l : chunks[j] \in Nat /\ done[j] = done[j - 1] + chunks[j]
  <2> SUFFICES ASSUME NEW j \in 1..l
               PROVE  chunks[j] \in Nat /\ done[j] = done[j - 1] + chunks[j]
    OBVIOUS
  <2>1. j \in 0..l /\ j - 1 \in 0..l
    BY <1>9
  <2>2. QED
    BY <1>1, <1>2, <1>8, <2>1
<1> HIDE DEF done, l
<1>12. Divides(chunks, done, n)
  BY <1>7, <1>9, <1>10, <1>11 DEF Divides
<1>13. QED
  BY <1>3, <1>12

\* Memory once k bytes of a call are done: those from to on are new.
Written(mem, to, k, new) ==
  [a \in DOMAIN mem |-> IF a - to \in 0..(k - 1) THEN new[a - to] ELSE mem[a]]

\* The m bytes that go on with new from k on.
Feeds(bytes, m, new, k) == Len(bytes) = m /\ \A i \in 1..m : bytes[i] = new[k + i - 1]

LEMMA StoreMore ==
  ASSUME NEW S \in Nat, NEW mem \in [0..(S - 1) -> Int], NEW to \in Nat, NEW k \in Nat,
         NEW m \in Nat, NEW new, NEW bytes, Feeds(bytes, m, new, k)
  PROVE  Store(Written(mem, to, k, new), to + k, bytes) = Written(mem, to, k + m, new)
<1> DEFINE w == Written(mem, to, k, new)
           x == Written(mem, to, k + m, new)
           y == Store(w, to + k, bytes)
<1>1. DOMAIN mem = 0..(S - 1) /\ Len(bytes) = m /\ \A i \in 1..m : bytes[i] = new[k + i - 1]
  BY DEF Feeds
<1>2. /\ DOMAIN w = 0..(S - 1)
      /\ \A a \in 0..(S - 1) : w[a] = IF a - to \in 0..(k - 1) THEN new[a - to] ELSE mem[a]
  BY <1>1 DEF Written
<1>3. x = [a \in 0..(S - 1) |-> IF a - to \in 0..((k + m) - 1) THEN new[a - to] ELSE mem[a]]
  BY <1>1 DEF Written
<1> HIDE DEF w, x
<1>4. y = [a \in 0..(S - 1) |-> IF a - (to + k) \in 0..(m - 1) THEN bytes[a - (to + k) + 1] ELSE w[a]]
  BY <1>1, <1>2 DEF Store
<1> HIDE DEF y
<1>5. ASSUME NEW a \in 0..(S - 1)
      PROVE  (IF a - (to + k) \in 0..(m - 1) THEN bytes[a - (to + k) + 1] ELSE w[a])
               = IF a - to \in 0..((k + m) - 1) THEN new[a - to] ELSE mem[a]
  <2>1. CASE a - (to + k) \in 0..(m - 1)
    <3> DEFINE i == a - (to + k) + 1
    <3>1. i \in 1..m /\ k + i - 1 = a - to /\ a - to \in 0..((k + m) - 1)
      BY <2>1
    <3> HIDE DEF i
    <3>2. bytes[i] = new[a - to]
      BY <1>1, <3>1
    <3>3. QED
      BY <2>1, <3>1, <3>2 DEF i
  <2>2. CASE ~(a - (to + k) \in 0..(m - 1))
    <3>1. (a - to \in 0..(k - 1)) = (a - to \in 0..((k + m) - 1))
      BY <2>2
    <3>2. QED
      BY <1>2, <2>2, <3>1
  <2>3. QED
    BY <2>1, <2>2
<1>6. y = x
  BY <1>3, <1>4, <1>5
<1>7. QED
  BY <1>6 DEF w, x, y

LEMMA NothingWritten ==
  ASSUME NEW S, NEW mem \in [0..(S - 1) -> Int], NEW to, NEW new
  PROVE  Written(mem, to, 0, new) = mem
<1>1. \A i : i \notin 0..(0 - 1)
  OBVIOUS
<1>2. QED
  BY <1>1 DEF Written

\* What a call sets: the same byte everywhere.
Uniform(c) == [i \in Nat |-> c]

LEMMA MemsetIs ==
  ASSUME NEW S \in Nat, NEW mem \in [0..(S - 1) -> Int], NEW to \in Nat, NEW c, NEW n \in Nat
  PROVE  Memset(mem, to, c, n) = Written(mem, to, n, Uniform(c))
<1> DEFINE chunks == Chunks(to, n)
           l == Len(chunks)
           new == Uniform(c)
           Set(x, k) == [mem |-> Store(x.mem, x.to, [i \in 1..k |-> c]), to |-> x.to + k]
           first == [mem |-> mem, to |-> to]
           after == CHOOSE f : f = [j \in 0..l |-> IF j = 0 THEN first
                                                   ELSE Set(f[j - 1], chunks[j])]
<1>1. PICK done : Divides(chunks, done, n)
  BY ChunksDivide
<1>2. /\ l \in Nat /\ done \in [0..l -> 0..n] /\ done[0] = 0 /\ done[l] = n
      /\ \A j \in 1..l : chunks[j] \in Nat /\ done[j] = done[j - 1] + chunks[j]
  BY <1>1 DEF Divides
<1>3. Memset(mem, to, c, n) = after[l].mem
  BY Zenon DEF Memset
<1> HIDE DEF l
<1> HIDE DEF chunks
<1> DEFINE At(j) == [mem |-> Written(mem, to, done[j], new), to |-> to + done[j]]
           g == [j \in 0..l |-> At(j)]
<1>4. At(0) = first
  <2>1. Written(mem, to, 0, new) = mem
    BY NothingWritten
  <2> HIDE DEF new
  <2>2. to + 0 = to
    OBVIOUS
  <2>3. QED
    BY <1>2, <2>1, <2>2
<1>5. ASSUME NEW j \in 1..l PROVE At(j) = Set(At(j - 1), chunks[j])
  <2> DEFINE k == done[j - 1]
             m == chunks[j]
             bytes == [i \in 1..m |-> c]
  <2>1. k \in Nat /\ m \in Nat /\ done[j] = k + m
    <3>1. j - 1 \in 0..l
      BY <1>2
    <3>2. QED
      BY <1>2, <3>1
  <2> HIDE DEF k, m
  <2>2. Feeds(bytes, m, new, k)
    <3>1. \A i \in 1..m : k + i - 1 \in Nat
      BY <2>1
    <3>2. QED
      BY <2>1, <3>1 DEF Feeds, Uniform
  <2>3. Store(Written(mem, to, k, new), to + k, bytes) = Written(mem, to, k + m, new)
    <3> HIDE DEF new, bytes
    <3>1. QED
      BY <2>1, <2>2, StoreMore
  <2>4. to + (k + m) = (to + k) + m
    BY <2>1
  <2> HIDE DEF new
  <2>5. Set(At(j - 1), m) = [mem |-> Store(Written(mem, to, k, new), to + k, bytes),
                             to |-> (to + k) + m]
    BY DEF k
  <2>6. At(j) = [mem |-> Written(mem, to, k + m, new), to |-> to + (k + m)]
    BY <2>1
  <2>7. QED
    BY <2>3, <2>4, <2>5, <2>6 DEF m
<1> HIDE DEF At, Set, first, new
<1>6. g = [j \in 0..l |-> IF j = 0 THEN first ELSE Set(g[j - 1], chunks[j])]
  <2> SUFFICES ASSUME NEW j \in 0..l
               PROVE  g[j] = IF j = 0 THEN first ELSE Set(g[j - 1], chunks[j])
    OBVIOUS
  <2>1. CASE j = 0
    BY <1>4, <2>1
  <2>2. CASE j # 0
    <3>1. j \in 1..l /\ j - 1 \in 0..l
      BY <1>2, <2>2
    <3>2. QED
      BY <1>5, <2>2, <3>1
  <2>3. QED
    BY <2>1, <2>2
<1>7. after = [j \in 0..l |-> IF j = 0 THEN first ELSE Set(after[j - 1], chunks[j])]
  <2> HIDE DEF g
  <2>1. QED
    BY <1>6
<1> HIDE DEF after, g
<1>8. 0 \in 0..l /\ l \in 0..l /\ \A k \in 1..l : k \in 0..l /\ k # 0
  BY <1>2
<1>9. Alike(after, g, l)
  <2>1. after[0] = first /\ g[0] = first
    BY <1>6, <1>7, <1>8
  <2>2. \A k \in 1..l : /\ after[k] = Set(after[k - 1], chunks[k])
                        /\ g[k] = Set(g[k - 1], chunks[k])
    BY <1>6, <1>7, <1>8
  <2>3. QED
    BY <2>1, <2>2 DEF Alike
<1>10. Agree(after, g, l)
  BY <1>2, <1>9, Follows
<1>11. after[l] = At(l)
  <2>1. after[l] = g[l]
    BY <1>8, <1>10 DEF Agree
  <2>2. g[l] = At(l)
    BY <1>8 DEF g
  <2>3. QED
    BY <2>1, <2>2
<1>12. At(l).mem = Written(mem, to, n, new)
  BY <1>2 DEF At
<1>13. QED
  BY <1>3, <1>11, <1>12 DEF new

\* What a call copies: the byte i of its source.
Source(mem, src) == [i \in Nat |-> mem[src + i]]

\* The bytes a copy goes on with are those of the source, if what is written
\* already is not among them.
LEMMA LoadFeeds ==
  ASSUME NEW S \in Nat, NEW mem \in [0..(S - 1) -> Int], NEW to \in Nat, NEW src \in Nat,
         NEW k \in Nat, NEW m \in Nat, src + (k + m) <= S,
         to <= src \/ to >= src + (k + m)
  PROVE  Feeds(Load(Written(mem, to, k, Source(mem, src)), src + k, m), m, Source(mem, src), k)
<1> DEFINE new == Source(mem, src)
           w == Written(mem, to, k, new)
           bytes == Load(w, src + k, m)
<1>1. \A a \in 0..(S - 1) : w[a] = IF a - to \in 0..(k - 1) THEN new[a - to] ELSE mem[a]
  BY DEF Written
<1>2. \A i \in Nat : new[i] = mem[src + i]
  BY DEF Source
<1> HIDE DEF new, w
<1>3. bytes = [i \in 1..m |-> w[(src + k) + i - 1]]
  BY DEF Load
<1> HIDE DEF bytes
<1>4. Len(bytes) = m /\ \A i \in 1..m : bytes[i] = w[(src + k) + i - 1]
  BY <1>3
<1>5. ASSUME NEW i \in 1..m PROVE bytes[i] = new[k + i - 1]
  <2> DEFINE a == (src + k) + i - 1
             q == k + i - 1
  <2>1. /\ a \in 0..(S - 1) /\ a - to \notin 0..(k - 1)
        /\ q \in Nat /\ src + q = a
    OBVIOUS
  <2>2. bytes[i] = w[a]
    BY <1>4
  <2> HIDE DEF a, q
  <2>3. w[a] = mem[a] /\ new[q] = mem[a]
    BY <1>1, <1>2, <2>1
  <2>4. QED
    BY <2>2, <2>3 DEF q
<1>6. Feeds(bytes, m, new, k)
  BY <1>4, <1>5 DEF Feeds
<1>7. QED
  BY <1>6 DEF bytes, w, new

LEMMA MemcpyIs ==
  ASSUME NEW S \in Nat, NEW mem \in [0..(S - 1) -> Int], NEW to \in Nat, NEW src \in Nat,
         NEW n \in Nat, src + n <= S, to <= src \/ to >= src + n
  PROVE  Memcpy(mem, to, src, n) = Written(mem, to, n, Source(mem, src))
<1> DEFINE chunks == Chunks(to, n)
           l == Len(chunks)
           new == Source(mem, src)
           Copy(x, k) == [mem |-> Store(x.mem, x.to, Load(x.mem, x.src, k)),
                          to |-> x.to + k, src |-> x.src + k]
           first == [mem |-> mem, to |-> to, src |-> src]
           after == CHOOSE f : f = [j \in 0..l |-> IF j = 0 THEN first
                                                   ELSE Copy(f[j - 1], chunks[j])]
<1>1. PICK done : Divides(chunks, done, n)
  BY ChunksDivide
<1>2. /\ l \in Nat /\ done \in [0..l -> 0..n] /\ done[0] = 0 /\ done[l] = n
      /\ \A j \in 1..l : chunks[j] \in Nat /\ done[j] = done[j - 1] + chunks[j]
  BY <1>1 DEF Divides
<1>3. Memcpy(mem, to, src, n) = after[l].mem
  BY Zenon DEF Memcpy
<1> HIDE DEF l
<1> HIDE DEF chunks
<1> DEFINE At(j) == [mem |-> Written(mem, to, done[j], new), to |-> to + done[j],
                    src |-> src + done[j]]
           g == [j \in 0..l |-> At(j)]
<1>4. At(0) = first
  <2>1. Written(mem, to, 0, new) = mem
    BY NothingWritten
  <2> HIDE DEF new
  <2>2. to + 0 = to /\ src + 0 = src
    OBVIOUS
  <2>3. QED
    BY <1>2, <2>1, <2>2
<1>5. ASSUME NEW j \in 1..l PROVE At(j) = Copy(At(j - 1), chunks[j])
  <2> DEFINE k == done[j - 1]
             m == chunks[j]
             w == Written(mem, to, k, new)
             bytes == Load(w, src + k, m)
  <2>1. k \in Nat /\ m \in Nat /\ done[j] = k + m /\ k + m <= n
    <3>1. j - 1 \in 0..l /\ j \in 0..l
      BY <1>2
    <3>2. QED
      BY <1>2, <3>1
  <2> HIDE DEF k, m
  <2>2. Feeds(bytes, m, new, k)
    <3>1. src + (k + m) <= S /\ (to <= src \/ to >= src + (k + m))
      BY <2>1
    <3>2. QED
      BY <2>1, <3>1, LoadFeeds
  <2>3. Store(w, to + k, bytes) = Written(mem, to, k + m, new)
    <3> HIDE DEF new, bytes
    <3>1. k \in Nat /\ m \in Nat
      BY <2>1
    <3>2. Store(Written(mem, to, k, new), to + k, bytes) = Written(mem, to, k + m, new)
      BY <2>2, <3>1, StoreMore
    <3>3. QED
      BY <3>2
  <2>4. to + (k + m) = (to + k) + m /\ src + (k + m) = (src + k) + m
    BY <2>1
  <2> HIDE DEF new
  <2>5. Copy(At(j - 1), m) = [mem |-> Store(w, to + k, bytes),
                              to |-> (to + k) + m, src |-> (src + k) + m]
    BY DEF k
  <2>6. At(j) = [mem |-> Written(mem, to, k + m, new), to |-> to + (k + m), src |-> src + (k + m)]
    BY <2>1
  <2>7. QED
    BY <2>3, <2>4, <2>5, <2>6 DEF m
<1> HIDE DEF At, Copy, first, new
<1>6. g = [j \in 0..l |-> IF j = 0 THEN first ELSE Copy(g[j - 1], chunks[j])]
  <2> SUFFICES ASSUME NEW j \in 0..l
               PROVE  g[j] = IF j = 0 THEN first ELSE Copy(g[j - 1], chunks[j])
    OBVIOUS
  <2>1. CASE j = 0
    BY <1>4, <2>1
  <2>2. CASE j # 0
    <3>1. j \in 1..l /\ j - 1 \in 0..l
      BY <1>2, <2>2
    <3>2. QED
      BY <1>5, <2>2, <3>1
  <2>3. QED
    BY <2>1, <2>2
<1>7. after = [j \in 0..l |-> IF j = 0 THEN first ELSE Copy(after[j - 1], chunks[j])]
  <2> HIDE DEF g
  <2>1. QED
    BY <1>6
<1> HIDE DEF after, g
<1>8. 0 \in 0..l /\ l \in 0..l /\ \A k \in 1..l : k \in 0..l /\ k # 0
  BY <1>2
<1>9. Alike(after, g, l)
  <2>1. after[0] = first /\ g[0] = first
    BY <1>6, <1>7, <1>8
  <2>2. \A k \in 1..l : /\ after[k] = Copy(after[k - 1], chunks[k])
                        /\ g[k] = Copy(g[k - 1], chunks[k])
    BY <1>6, <1>7, <1>8
  <2>3. QED
    BY <2>1, <2>2 DEF Alike
<1>10. Agree(after, g, l)
  BY <1>2, <1>9, Follows
<1>11. after[l] = At(l)
  <2>1. after[l] = g[l]
    BY <1>8, <1>10 DEF Agree
  <2>2. g[l] = At(l)
    BY <1>8 DEF g
  <2>3. QED
    BY <2>1, <2>2
<1>12. At(l).mem = Written(mem, to, n, new)
  BY <1>2 DEF At
<1>13. QED
  BY <1>3, <1>11, <1>12 DEF new

\* Memory once the last k bytes of n are moved.
MovedBack(mem, to, n, k, new) ==
  [a \in DOMAIN mem |-> IF a - to \in (n - k)..(n - 1) THEN new[a - to] ELSE mem[a]]

LEMMA MemmoveIs ==
  ASSUME NEW S \in Nat, NEW mem \in [0..(S - 1) -> Int], NEW to \in Nat, NEW src \in Nat,
         NEW n \in Nat, src + n <= S
  PROVE  Memmove(mem, to, src, n) = Written(mem, to, n, Source(mem, src))
<1> DEFINE new == Source(mem, src)
           Move(m, k) == Store(m, to + k, <<m[src + k]>>)
           R(m, i) == Move(m, IF src < to THEN n - i ELSE i - 1)
           after == CHOOSE f : f = [i \in 0..n |-> IF i = 0 THEN mem ELSE R(f[i - 1], i)]
           At(i) == IF src < to THEN MovedBack(mem, to, n, i, new) ELSE Written(mem, to, i, new)
           g == [i \in 0..n |-> At(i)]
<1>1. Memmove(mem, to, src, n) = after[n]
  BY Zenon DEF Memmove
<1>2. \A i \in Nat : new[i] = mem[src + i]
  BY DEF Source
<1>3. At(0) = mem
  <2>1. CASE src < to
    <3>1. \A i : i \notin (n - 0)..(n - 1)
      OBVIOUS
    <3> HIDE DEF new
    <3>2. MovedBack(mem, to, n, 0, new) = mem
      BY <3>1 DEF MovedBack
    <3>3. QED
      BY <2>1, <3>2
  <2>2. CASE ~(src < to)
    <3> HIDE DEF new
    <3>1. Written(mem, to, 0, new) = mem
      BY NothingWritten
    <3>2. QED
      BY <2>2, <3>1
  <2>3. QED
    BY <2>1, <2>2
<1> HIDE DEF new
<1>4. ASSUME NEW i \in 1..n PROVE At(i) = R(At(i - 1), i)
  <2>1. CASE src < to
    <3> DEFINE w == MovedBack(mem, to, n, i - 1, new)
               k == n - i
               b == <<w[src + k]>>
               y == Store(w, to + k, b)
    <3>1. /\ DOMAIN w = 0..(S - 1)
          /\ \A a \in 0..(S - 1) :
               w[a] = IF a - to \in (n - (i - 1))..(n - 1) THEN new[a - to] ELSE mem[a]
      BY DEF MovedBack
    <3>2. At(i) = [a \in 0..(S - 1) |-> IF a - to \in (n - i)..(n - 1) THEN new[a - to] ELSE mem[a]]
      BY <2>1 DEF MovedBack
    <3>3. R(At(i - 1), i) = y
      BY <2>1
    <3> HIDE DEF w, At, R
    <3>4. k \in Nat /\ k \in 0..(n - 1) /\ src + k \in 0..(S - 1)
          /\ (src + k) - to \notin (n - (i - 1))..(n - 1)
      BY <2>1
    <3>5. Len(b) = 1 /\ b[1] = new[k]
      <4>1. w[src + k] = mem[src + k] /\ new[k] = mem[src + k]
        BY <1>2, <3>1, <3>4
      <4>2. QED
        BY <4>1
    <3> HIDE DEF b
    <3>6. y = [a \in 0..(S - 1) |-> IF a - (to + k) \in 0..(1 - 1) THEN b[a - (to + k) + 1] ELSE w[a]]
      BY <3>1, <3>5 DEF Store
    <3> HIDE DEF y
    <3>7. ASSUME NEW a \in 0..(S - 1)
          PROVE  (IF a - (to + k) \in 0..(1 - 1) THEN b[a - (to + k) + 1] ELSE w[a])
                   = IF a - to \in (n - i)..(n - 1) THEN new[a - to] ELSE mem[a]
      <4>1. CASE a = to + k
        <5>1. /\ a - (to + k) \in 0..(1 - 1) /\ a - (to + k) + 1 = 1
              /\ a - to \in (n - i)..(n - 1) /\ a - to = k
          BY <3>4, <4>1
        <5>2. QED
          BY <3>5, <5>1
      <4>2. CASE a # to + k
        <5>1. /\ a - (to + k) \notin 0..(1 - 1)
              /\ (a - to \in (n - i)..(n - 1)) = (a - to \in (n - (i - 1))..(n - 1))
          BY <3>4, <4>2
        <5>2. QED
          BY <3>1, <5>1
      <4>3. QED
        BY <4>1, <4>2
    <3>8. At(i) = y
      BY <3>2, <3>6, <3>7
    <3>9. QED
      BY <3>3, <3>8
  <2>2. CASE ~(src < to)
    <3> DEFINE k == i - 1
               w == Written(mem, to, k, new)
               b == <<w[src + k]>>
    <3>1. R(At(i - 1), i) = Store(w, to + k, b) /\ At(i) = Written(mem, to, i, new)
      BY <2>2
    <3>2. k \in Nat /\ src + k \in 0..(S - 1) /\ (src + k) - to \notin 0..(k - 1) /\ k + 1 = i
      BY <2>2
    <3>3. \A a \in 0..(S - 1) : w[a] = IF a - to \in 0..(k - 1) THEN new[a - to] ELSE mem[a]
      BY DEF Written
    <3> HIDE DEF w, At, R, k
    <3>4. Feeds(b, 1, new, k)
      <4>1. w[src + k] = mem[src + k] /\ new[k] = mem[src + k]
        BY <1>2, <3>2, <3>3
      <4>2. Len(b) = 1 /\ \A j \in 1..1 : b[j] = w[src + k] /\ k + j - 1 = k
        BY <3>2
      <4> HIDE DEF b
      <4>3. QED
        BY <4>1, <4>2 DEF Feeds
    <3> HIDE DEF b
    <3>5. Store(w, to + k, b) = Written(mem, to, k + 1, new)
      BY <3>2, <3>4, StoreMore DEF w
    <3>6. QED
      BY <3>1, <3>2, <3>5
  <2>3. QED
    BY <2>1, <2>2
<1> HIDE DEF At, R
<1>5. g = [i \in 0..n |-> IF i = 0 THEN mem ELSE R(g[i - 1], i)]
  <2> SUFFICES ASSUME NEW i \in 0..n
               PROVE  g[i] = IF i = 0 THEN mem ELSE R(g[i - 1], i)
    OBVIOUS
  <2>1. CASE i = 0
    BY <1>3, <2>1
  <2>2. CASE i # 0
    <3>1. i \in 1..n /\ i - 1 \in 0..n
      BY <2>2
    <3>2. QED
      BY <1>4, <2>2, <3>1
  <2>3. QED
    BY <2>1, <2>2
<1>6. after = [i \in 0..n |-> IF i = 0 THEN mem ELSE R(after[i - 1], i)]
  <2> HIDE DEF g
  <2>1. QED
    BY <1>5
<1> HIDE DEF after, g
<1>7. 0 \in 0..n /\ n \in 0..n /\ \A k \in 1..n : k \in 0..n /\ k # 0
  OBVIOUS
<1>8. Alike(after, g, n)
  <2>1. after[0] = mem /\ g[0] = mem
    BY <1>5, <1>6, <1>7
  <2>2. \A k \in 1..n : after[k] = R(after[k - 1], k) /\ g[k] = R(g[k - 1], k)
    BY <1>5, <1>6, <1>7
  <2>3. QED
    BY <2>1, <2>2 DEF Alike
<1>9. Agree(after, g, n)
  BY <1>8, Follows
<1>10. after[n] = At(n)
  <2>1. after[n] = g[n]
    BY <1>7, <1>9 DEF Agree
  <2>2. g[n] = At(n)
    BY <1>7 DEF g
  <2>3. QED
    BY <2>1, <2>2
<1>11. At(n) = Written(mem, to, n, new)
  <2>1. n - n = 0
    OBVIOUS
  <2>2. QED
    BY <2>1 DEF At, MovedBack, Written
<1>12. QED
  BY <1>1, <1>10, <1>11 DEF new

(***************************************************************************)
(* Strings.                                                                *)
(***************************************************************************)
Chars == (-128..127) \ {0}

LEMMA CharsOf ==
  ASSUME NEW s \in Seq(Chars)
  PROVE  \A i \in Nat \ {0} : /\ CharAt(s, i) \in Int
                              /\ (CharAt(s, i) = 0) = (i > Len(s))
<1>1. Len(s) \in Nat
  BY LenProperties
<1>2. SUFFICES ASSUME NEW i \in Nat \ {0}
               PROVE  CharAt(s, i) \in Int /\ (CharAt(s, i) = 0) = (i > Len(s))
  OBVIOUS
<1>3. CASE i <= Len(s)
  <2> DEFINE c == s[i]
  <2>1. c \in Chars
    <3>1. i \in 1..Len(s)
      BY <1>1, <1>3
    <3>2. QED
      BY <3>1, ElementOfSeq
  <2>2. CharAt(s, i) = c
    BY <1>3 DEF CharAt
  <2> HIDE DEF c
  <2>3. c \in Int /\ c # 0
    BY <2>1 DEF Chars
  <2>4. ~(i > Len(s))
    BY <1>1, <1>3
  <2>5. QED
    BY <2>2, <2>3, <2>4
<1>4. CASE ~(i <= Len(s))
  <2>1. CharAt(s, i) = 0
    BY <1>4 DEF CharAt
  <2>2. i > Len(s)
    BY <1>1, <1>4
  <2>3. QED
    BY <2>1, <2>2
<1>5. QED
  BY <1>3, <1>4

\* What CallsRight says of strncmp.
Compared(r, s, t, n) ==
  /\ (r = 0) = (s = t)
  /\ s # t => LET i == Min({k \in 1..n : s[k] # t[k]})
              IN (r < 0) = (s[i] < t[i])

LEMMA StrncmpRight ==
  ASSUME NEW a \in Seq(Chars), NEW b \in Seq(Chars), NEW n \in Nat
  PROVE  Compared(Strncmp(a, b, n), Strncpy(a, n), Strncpy(b, n), n)
<1> DEFINE s == Strncpy(a, n)
           t == Strncpy(b, n)
           r == Strncmp(a, b, n)
           stops == {i \in 1..n : s[i] # t[i] \/ s[i] = 0}
           apart == {k \in 1..n : s[k] # t[k]}
           m == Min(stops)
<1>1. /\ s = [i \in 1..n |-> CharAt(a, i)] /\ t = [i \in 1..n |-> CharAt(b, i)]
      /\ \A i \in 1..n : s[i] = CharAt(a, i) /\ t[i] = CharAt(b, i)
  BY DEF Strncpy
<1> HIDE DEF s, t
<1>2. s \in [1..n -> Int] /\ t \in [1..n -> Int]
  <2>1. \A i \in 1..n : CharAt(a, i) \in Int /\ CharAt(b, i) \in Int
    BY CharsOf
  <2>2. QED
    BY <1>1, <2>1
<1>3. r = IF stops = {} THEN 0 ELSE s[m] - t[m]
  <2> DEFINE S == {i \in 1..n : CharAt(a, i) # CharAt(b, i) \/ CharAt(a, i) = 0}
  <2>1. r = IF S = {} THEN 0 ELSE CharAt(a, Min(S)) - CharAt(b, Min(S))
    BY DEF Strncmp
  <2>2. S = stops
    BY <1>1
  <2>3. ASSUME stops # {} PROVE m \in 1..n
    <3>1. stops \in SUBSET Nat
      OBVIOUS
    <3>2. m \in stops
      <4> HIDE DEF stops
      <4>1. QED
        BY <2>3, <3>1, MinIsLeast
    <3>3. QED
      BY <3>2
  <2> HIDE DEF S, r, stops
  <2>4. CASE stops = {}
    BY <2>1, <2>2, <2>4
  <2>5. CASE stops # {}
    <3>1. s[m] = CharAt(a, m) /\ t[m] = CharAt(b, m)
      BY <1>1, <2>3, <2>5
    <3>2. QED
      BY <2>1, <2>2, <2>5, <3>1
  <2>6. QED
    BY <2>4, <2>5
<1> HIDE DEF r
<1>4. CASE stops = {}
  <2>1. \A i \in 1..n : s[i] = t[i]
    BY <1>4
  <2>2. s = t
    BY <1>2, <2>1
  <2>3. QED
    BY <1>3, <1>4, <2>2 DEF Compared, r, s, t
<1>5. CASE stops # {}
  <2>1. stops \in SUBSET Nat /\ apart \in SUBSET Nat
    OBVIOUS
  <2>2. m \in stops /\ \A y \in stops : m <= y
    <3> HIDE DEF stops
    <3>1. QED
      BY <1>5, <2>1, MinIsLeast
  <2> HIDE DEF m
  <2>3. m \in 1..n /\ (s[m] # t[m] \/ s[m] = 0)
    BY <2>2
  <2>4. r = s[m] - t[m]
    BY <1>3, <1>5 DEF m
  <2>5. s[m] \in Int /\ t[m] \in Int
    BY <1>2, <2>3
  <2>6. CASE s[m] # t[m]
    <3>1. r # 0 /\ s # t
      BY <2>4, <2>5, <2>6
    <3>2. m \in apart
      BY <2>3, <2>6
    <3> DEFINE i == Min(apart)
    <3>3. i \in apart /\ i <= m
      <4> HIDE DEF apart
      <4>1. QED
        BY <2>1, <3>2, MinIsLeast
    <3> HIDE DEF i
    <3>4. i \in stops
      BY <3>3
    <3>5. i = m
      BY <2>1, <2>2, <3>3, <3>4
    <3>6. (r < 0) = (s[i] < t[i])
      BY <2>4, <2>5, <3>5
    <3>7. QED
      BY <3>1, <3>6, Zenon DEF Compared, r, s, t, i
  <2>7. CASE s[m] = t[m]
    <3>1. r = 0 /\ s[m] = 0 /\ t[m] = 0
      BY <2>3, <2>4, <2>5, <2>7
    <3>2. ASSUME NEW k \in 1..n PROVE s[k] = t[k]
      <4>1. CASE k < m
        <5>1. k \notin stops
          BY <2>2, <2>3, <4>1
        <5>2. QED
          BY <5>1
      <4>2. CASE ~(k < m)
        <5>1. Len(a) \in Nat /\ Len(b) \in Nat /\ k \in Nat \ {0} /\ m \in Nat \ {0}
          BY <2>3, LenProperties
        <5>2. CharAt(a, m) = 0 /\ CharAt(b, m) = 0
          BY <1>1, <2>3, <3>1
        <5>3. m > Len(a) /\ m > Len(b)
          BY <5>1, <5>2, CharsOf
        <5>4. k > Len(a) /\ k > Len(b)
          BY <4>2, <5>1, <5>3
        <5>5. CharAt(a, k) = 0 /\ CharAt(b, k) = 0
          BY <5>1, <5>4, CharsOf
        <5>6. QED
          BY <1>1, <5>5
      <4>3. QED
        BY <4>1, <4>2
    <3>3. s = t
      BY <1>2, <3>2
    <3>4. QED
      BY <3>1, <3>3 DEF Compared, r, s, t
  <2>8. QED
    BY <2>6, <2>7
<1>6. QED
  BY <1>4, <1>5

LEMMA StrncpyRight ==
  ASSUME NEW s, NEW n \in Nat
  PROVE  /\ Len(Strncpy(s, n)) = n
         /\ \A i \in 1..n : Strncpy(s, n)[i] = IF i <= Len(s) THEN s[i] ELSE 0
BY DEF Strncpy, CharAt

(***************************************************************************)
(* The calls.                                                              *)
(***************************************************************************)
\* Memory after a call, where every byte told where it was.
LEMMA FreshIs == Fresh \in [0..(Size - 1) -> Int] /\ \A a \in 0..(Size - 1) : Fresh[a] = a
BY MemoryAssumption DEF Fresh

LEMMA CopiedRight ==
  ASSUME NEW to \in Nat, NEW src \in Nat, NEW n \in Nat, src + n <= Size,
         NEW r, r = Written(Fresh, to, n, Source(Fresh, src))
  PROVE  \A a \in DOMAIN r :
           r[a] = IF a - to \in 0..(n - 1) THEN (a - to) + src ELSE a
<1>1. Size \in Nat
  BY MemoryAssumption
<1>2. /\ DOMAIN r = 0..(Size - 1)
      /\ \A a \in 0..(Size - 1) :
           r[a] = IF a - to \in 0..(n - 1) THEN Source(Fresh, src)[a - to] ELSE Fresh[a]
  BY FreshIs DEF Written
<1>3. ASSUME NEW i \in 0..(n - 1) PROVE Source(Fresh, src)[i] = i + src
  <2>1. i \in Nat /\ src + i \in 0..(Size - 1) /\ src + i = i + src
    BY <1>1
  <2>2. Source(Fresh, src)[i] = Fresh[src + i]
    BY <2>1 DEF Source
  <2>3. QED
    BY <2>1, <2>2, FreshIs
<1>4. ASSUME NEW a \in 0..(Size - 1)
      PROVE  r[a] = IF a - to \in 0..(n - 1) THEN (a - to) + src ELSE a
  <2> DEFINE i == a - to
  <2>1. r[a] = IF i \in 0..(n - 1) THEN Source(Fresh, src)[i] ELSE a
    BY <1>2, FreshIs
  <2> HIDE DEF i
  <2>2. r[a] = IF i \in 0..(n - 1) THEN i + src ELSE a
    BY <1>3, <2>1
  <2>3. QED
    BY <2>2 DEF i
<1>5. QED
  BY <1>2, <1>4

LEMMA SetRight ==
  ASSUME NEW to \in Nat, NEW n \in Nat,
         NEW r, r = Written(Fresh, to, n, Uniform(Fill))
  PROVE  \A a \in DOMAIN r : r[a] = IF a - to \in 0..(n - 1) THEN Fill ELSE a
<1>1. /\ DOMAIN r = 0..(Size - 1)
      /\ \A a \in 0..(Size - 1) :
           r[a] = IF a - to \in 0..(n - 1) THEN Uniform(Fill)[a - to] ELSE Fresh[a]
  BY FreshIs DEF Written
<1>2. \A i \in 0..(n - 1) : Uniform(Fill)[i] = Fill
  BY DEF Uniform
<1>3. QED
  BY <1>1, <1>2, FreshIs

LEMMA CallKinds ==
  ASSUME NEW c \in Calls
  PROVE  \/ c.op = "printf" /\ c.format \in Formats /\ c.v \in Unsigned
         \/ /\ c.op \in {"memset", "memcpy", "memmove"}
            /\ c.to \in 0..Size /\ c.src \in 0..Size /\ c.n \in 0..Size
            /\ c.to + c.n <= Size /\ c.src + c.n <= Size
         \/ c.op = "strncmp" /\ c.s \in Strings /\ c.t \in Strings /\ c.n \in 0..Size
         \/ c.op = "strncpy" /\ c.s \in Strings /\ c.n \in 0..Size
BY DEF Calls

Answered == call = None \/ (call \in Calls /\ result = Answer(call))

LEMMA AnsweredRight == Answered => CallsRight
<1> SUFFICES ASSUME Answered PROVE CallsRight
  OBVIOUS
<1>1. CASE call = None
  <2>1. call.op = "none"
    BY <1>1 DEF None
  <2>2. QED
    BY <2>1 DEF CallsRight
<1>2. CASE call \in Calls /\ result = Answer(call)
  <2>1. CASE call.op = "printf" /\ call.format \in Formats /\ call.v \in Unsigned
    <3>1. result = Printf(FlattenSeq(call.format), Args(call.v))
      BY <1>2, <2>1 DEF Answer
    <3>2. Printed(call, result)
      BY <2>1, <3>1, PrintfRight
    <3>3. CallsRight = Printed(call, result)
      BY <2>1 DEF CallsRight, Printed
    <3>4. QED
      BY <3>2, <3>3
  <2>2. CASE /\ call.op \in {"memset", "memcpy", "memmove"}
             /\ call.to \in 0..Size /\ call.src \in 0..Size /\ call.n \in 0..Size
             /\ call.to + call.n <= Size /\ call.src + call.n <= Size
    <3> DEFINE to == call.to
               src == call.src
               n == call.n
    <3>1. /\ Size \in Nat /\ to \in Nat /\ src \in Nat /\ n \in Nat
          /\ src + n <= Size
      BY <2>2, MemoryAssumption
    <3> DEFINE Copied == \A a \in DOMAIN result :
                           result[a] = IF a - to \in 0..(n - 1) THEN (a - to) + src ELSE a
    <3>2. CASE call.op = "memset"
      <4>1. result = Memset(Fresh, to, Fill, n)
        BY <1>2, <3>2 DEF Answer
      <4>2. CallsRight = \A a \in DOMAIN result :
                           result[a] = IF a - to \in 0..(n - 1) THEN Fill ELSE a
        BY <3>2 DEF CallsRight
      <4> HIDE DEF to, n
      <4>3. result = Written(Fresh, to, n, Uniform(Fill))
        BY <3>1, <4>1, FreshIs, MemsetIs
      <4>4. QED
        BY <3>1, <4>2, <4>3, SetRight
    <3>3. CASE call.op = "memmove"
      <4>1. result = Memmove(Fresh, to, src, n)
        BY <1>2, <3>3 DEF Answer
      <4>2. Copied => CallsRight
        BY <3>3 DEF CallsRight
      <4> HIDE DEF to, src, n
      <4>3. result = Written(Fresh, to, n, Source(Fresh, src))
        BY <3>1, <4>1, FreshIs, MemmoveIs
      <4>4. Copied
        BY <3>1, <4>3, CopiedRight
      <4>5. QED
        BY <4>2, <4>4
    <3>4. CASE call.op = "memcpy"
      <4>1. result = Memcpy(Fresh, to, src, n)
        BY <1>2, <3>4 DEF Answer
      <4>2. Copied \/ to \in (src + 1)..(src + n - 1) => CallsRight
        BY <3>4 DEF CallsRight
      <4> HIDE DEF to, src, n
      <4>3. CASE to \in (src + 1)..(src + n - 1)
        BY <4>2, <4>3
      <4>4. CASE to \notin (src + 1)..(src + n - 1)
        <5>1. to <= src \/ to >= src + n
          BY <3>1, <4>4
        <5>2. result = Written(Fresh, to, n, Source(Fresh, src))
          BY <3>1, <4>1, <5>1, FreshIs, MemcpyIs
        <5>3. Copied
          BY <3>1, <5>2, CopiedRight
        <5>4. QED
          BY <4>2, <5>3
      <4>5. QED
        BY <4>3, <4>4
    <3>5. QED
      BY <2>2, <3>2, <3>3, <3>4
  <2>3. CASE call.op = "strncmp" /\ call.s \in Strings /\ call.t \in Strings /\ call.n \in 0..Size
    <3> DEFINE s == Strncpy(call.s, call.n)
               t == Strncpy(call.t, call.n)
    <3>1. result = Strncmp(call.s, call.t, call.n)
      BY <1>2, <2>3 DEF Answer
    <3>2. call.s \in Seq(Chars) /\ call.t \in Seq(Chars) /\ call.n \in Nat
      BY <2>3, StringAssumption, MemoryAssumption DEF Chars
    <3>3. Compared(result, s, t, call.n)
      BY <3>1, <3>2, StrncmpRight
    <3>4. CallsRight = Compared(result, s, t, call.n)
      BY <2>3 DEF CallsRight, Compared
    <3>5. QED
      BY <3>3, <3>4
  <2>4. CASE call.op = "strncpy" /\ call.s \in Strings /\ call.n \in 0..Size
    <3>1. result = Strncpy(call.s, call.n) /\ call.n \in Nat
      BY <1>2, <2>4, MemoryAssumption DEF Answer
    <3>2. /\ Len(result) = call.n
          /\ \A i \in 1..call.n : result[i] = IF i <= Len(call.s) THEN call.s[i] ELSE 0
      BY <3>1, StrncpyRight
    <3>3. QED
      BY <2>4, <3>2 DEF CallsRight
  <2>5. QED
    BY <1>2, <2>1, <2>2, <2>3, <2>4, CallKinds
<1>3. QED
  BY <1>1, <1>2 DEF Answered

\* Every call does what it is for: printf prints its pieces one after the
\* other, a number so that it reads as the number, the memory functions leave
\* each byte what it should be for every alignment and length, strncmp orders
\* and strncpy cuts and fills (lib.c:55-163, 453-489, 554-626, 643-707).
THEOREM CallsRightCorrect ==
  LibInit /\ [][LibNext]_libVars => []CallsRight
<1>1. LibInit => Answered
  BY DEF LibInit, Answered
<1>2. Answered /\ [LibNext]_libVars => Answered'
  <2>1. CASE LibNext
    BY <2>1 DEF LibNext, Answered
  <2>2. CASE UNCHANGED libVars
    BY <2>2 DEF libVars, Answered
  <2>3. QED
    BY <2>1, <2>2
<1>3. QED
  BY <1>1, <1>2, AnsweredRight, PTL
=============================================================================
