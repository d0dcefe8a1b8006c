------------------------------- MODULE Screen -------------------------------
(***************************************************************************)
(* Screen: the text screens and their cursors: ter_write, the echo of the  *)
(* keyboard's line editor (terminal.c), ter_write_pit, a program's output, *)
(* and putc, the kernel's own (lib.c).                                     *)
(*                                                                         *)
(* The echo runs in the keyboard's handler and putc in an exception's,     *)
(* both with interrupts off: each is one step.  A program's output runs    *)
(* with interrupts on, step by step, and keys and exceptions come between. *)
(*                                                                         *)
(* One terminal, the live one, whose program may be the one that runs; the *)
(* other terminals' output goes by the same operations to pages of their   *)
(* own.  Where the pages are mapped is module Kernel's business, and the   *)
(* line under edit, here text and at, is module Terminal's.                *)
(***************************************************************************)
EXTENDS Integers, Sequences, FiniteSets, SequencesExt, FiniteSetsExt

CONSTANTS
  Rows, Cols,  (* NUM_ROWS and NUM_COLS (25 and 80)                          *)
  Keys,        (* characters typed                                           *)
  Output,      (* the character programs write, the prompt too               *)
  LineMax,     (* characters key_to_ter accepts in a line (129)              *)
  LongLine,    (* the 72 of key_to_ter: what fits beside the prompt          *)
  Exposed      (* what the user and the programs are allowed to do           *)

Hazards ==
  { "insert_at_bottom",  \* a character inserted in a line that fills the screen
                         \* to its last cell: the rest of the line is pushed off
    "arrow_at_bottom",   \* a right arrow on the screen's last cell, where other
                         \* output has left the cursor
    "enter_inside",      \* Enter inside a line longer than LongLine
    "kernel_newline",    \* a newline printed by the kernel on the last row
    "program_backspace", \* a backspace written by a program
    "key_in_output" }    \* a key, or a line the kernel prints, between a
                         \* program's screen_x++ or screen_y++ and the end of
                         \* the cursor() that follows (lib.c:263-301)

ASSUME SizeAssumption ==
  /\ Rows \in Nat /\ Rows >= 2 /\ Cols \in Nat /\ Cols >= 2
  /\ LineMax \in Nat /\ LineMax < (Rows - 1) * Cols
  /\ LongLine \in Nat
ASSUME ExposedAssumption == Exposed \subseteq Hazards

Blank == " "
Cells == 0..(Rows * Cols - 1)

VARIABLES
  cells,     \* the characters on the screen
  sx, sy,    \* screen_x and screen_y
  text, at,  \* the terminal's line, and the place in it
  mixed,     \* something else was written to the live screen since the line
             \* was empty
  pen,       \* how far ter_write_pit has come with a program's character
  args       \* what it has passed to cursor, while cursor runs

penVars == <<pen, args>>
vars == <<cells, sx, sy, text, at, mixed, penVars>>

Init ==
  /\ cells = [c \in Cells |-> Blank]
  /\ sx = 0 /\ sy = 0
  /\ text = <<>> /\ at = 0
  /\ mixed = FALSE
  /\ pen = "idle" /\ args = <<0, 0>>

Pos == Cols * sy + sx

\* A cell of the page, past whose end nothing is seen.
Shown(page, c) == IF c \in Cells THEN page[c] ELSE Blank
Put(page, c, ch) == IF c \in Cells THEN [page EXCEPT ![c] = ch] ELSE page

\* scroll_up, scroll_up_pit.
Scrolled(page) == [c \in Cells |-> IF c + Cols \in Cells THEN page[c + Cols] ELSE Blank]

(***************************************************************************)
(* Where a character leaves the cursor: to a new row, and, where the row   *)
(* is one past the last, to the last row of the scrolled page.             *)
(***************************************************************************)
MoveTo(page, x, y) ==
  IF y = Rows
  THEN cells' = Scrolled(page) /\ sx' = 0 /\ sy' = y - 1
  ELSE cells' = page /\ sx' = x /\ sy' = y

Advance(page) ==
  IF sx + 1 = Cols THEN MoveTo(page, 0, sy + 1) ELSE MoveTo(page, sx + 1, sy)

\* One cell back on the screen: from column 0 to the row above.
Back ==
  IF sx # 0 THEN sx' = sx - 1 /\ sy' = sy
            ELSE sx' = Cols - 1 /\ sy' = sy - 1

(***************************************************************************)
(* Keys: the editor's change of the line and its echo.                     *)
(***************************************************************************)
Right == Len(text) - at      \* characters right of the cursor

\* The characters right of the cursor move one cell on.
Char(c) ==
  /\ Len(text) < LineMax
  /\ Right > 0 /\ Pos + Right >= Rows * Cols - 1 => "insert_at_bottom" \in Exposed
  /\ Advance([p \in Cells |->
       IF p = Pos THEN c
       ELSE IF p \in (Pos + 1)..(Pos + Right) THEN cells[p - 1]
       ELSE cells[p]])
  /\ text' = InsertAt(text, at + 1, c)
  /\ at' = at + 1
  /\ UNCHANGED mixed

\* Mutant: the character next to the cursor stays where it is.
Backspace_FromOne ==
  /\ at > 0
  /\ Back
  /\ cells' = [p \in Cells |->
       IF p \in Pos..(Pos + Right - 1) THEN Shown(cells, p + 1) ELSE cells[p]]
  /\ text' = RemoveAt(text, at)
  /\ at' = at - 1
  /\ mixed' = (mixed /\ Len(text) > 1)

\* They move back, and the cell after the line's end with them.
Backspace ==
  /\ at > 0
  /\ Back
  /\ cells' = [p \in Cells |->
       IF p \in (Pos - 1)..(Pos + Right - 1) THEN Shown(cells, p + 1) ELSE cells[p]]
  /\ text' = RemoveAt(text, at)
  /\ at' = at - 1
  /\ mixed' = (mixed /\ Len(text) > 1)

\* buf_move.
Left ==
  /\ at > 0
  /\ at' = at - 1
  /\ Back
  /\ UNCHANGED <<cells, text, mixed>>

RightArrow ==
  /\ Right > 0
  /\ Pos = Rows * Cols - 1 => "arrow_at_bottom" \in Exposed
  /\ at' = at + 1
  /\ IF sx # Cols - 1
     THEN sx' = sx + 1 /\ sy' = sy
     ELSE sx' = 0 /\ sy' = sy + 1
  /\ UNCHANGED <<cells, text, mixed>>

\* Inside a line the column is moved to the line's end, and a long line is
\* taken to end on the next row, wherever in it the cursor is.
Enter ==
  /\ Right > 0 /\ Len(text) > LongLine => "enter_inside" \in Exposed
  /\ MoveTo(cells, 0,
            sy + 1 + (IF Right > 0 /\ Len(text) > LongLine THEN 1 ELSE 0))
  /\ text' = <<>> /\ at' = 0 /\ mixed' = FALSE

\* Ctrl+L: clear and cursor(0,0).
Clear ==
  /\ cells' = [c \in Cells |-> Blank]
  /\ sx' = 0 /\ sy' = 0
  /\ text' = <<>> /\ at' = 0 /\ mixed' = FALSE

(***************************************************************************)
(* Output.  A program's backspace at column 0 changes only the cell under  *)
(* the cursor: the row it takes one from is not the terminal's.            *)
(***************************************************************************)
Disturbs == mixed' = (mixed \/ text # <<>>) /\ UNCHANGED <<text, at>>

\* ter_write_pit: the character's cell, screen_x++, the test for the end of
\* the row, the test for the end of the page, and cursor, which stores back
\* what it was passed.
Pen(from, to) == pen = from /\ pen' = to /\ Disturbs

ProgramNewLine ==
  /\ Pen("idle", "page")
  /\ sx' = 0 /\ sy' = sy + 1
  /\ UNCHANGED <<cells, args>>

ProgramChar ==
  /\ Pen("idle", "cell")
  /\ cells' = Put(cells, Pos, Output)
  /\ UNCHANGED <<sx, sy, args>>

NextColumn ==
  /\ Pen("cell", "column")
  /\ sx' = sx + 1
  /\ UNCHANGED <<cells, sy, args>>

EndOfRow ==
  /\ Pen("column", "page")
  /\ IF sx = Cols THEN sx' = 0 /\ sy' = sy + 1 ELSE UNCHANGED <<sx, sy>>
  /\ UNCHANGED <<cells, args>>

\* Mutant: the screen is scrolled a row too late.
EndOfPage_Late ==
  /\ Pen("page", "cursor")
  /\ IF sy = Rows + 1 THEN MoveTo(cells, sx, Rows) ELSE UNCHANGED <<cells, sx, sy>>
  /\ args' = <<sx', sy'>>

EndOfPage ==
  /\ Pen("page", "cursor")
  /\ MoveTo(cells, sx, sy)
  /\ args' = <<sx', sy'>>

SetCursor ==
  /\ Pen("cursor", "idle")
  /\ sx' = args[1] /\ sy' = args[2]
  /\ args' = <<0, 0>>
  /\ UNCHANGED cells

ProgramBackspace ==
  /\ "program_backspace" \in Exposed
  /\ Pen("idle", "cursor")
  /\ sx' = IF sx # 0 THEN sx - 1 ELSE 0
  /\ sy' = sy
  /\ cells' = Put(cells, Cols * sy + sx', Blank)
  /\ args' = <<sx', sy'>>

Program == ProgramNewLine \/ ProgramChar \/ ProgramBackspace
Writes  == NextColumn \/ EndOfRow \/ EndOfPage \/ SetCursor

\* putc: its newline never scrolls.
KernelNewLine ==
  /\ sy = Rows - 1 => "kernel_newline" \in Exposed
  /\ sx' = 0 /\ sy' = sy + 1
  /\ Disturbs /\ UNCHANGED cells

KernelChar == Advance(Put(cells, Pos, Output)) /\ Disturbs

Key    == (\E c \in Keys : Char(c)) \/ Backspace \/ Left \/ RightArrow \/ Enter \/ Clear
Kernel == KernelNewLine \/ KernelChar

\* Where a handler may come between a program's steps.
Interrupts ==
  /\ pen \in {"idle", "cell"} \/ "key_in_output" \in Exposed
  /\ UNCHANGED penVars

Next == (Interrupts /\ (Key \/ Kernel)) \/ Program \/ Writes

(***************************************************************************)
(* Properties.                                                             *)
(***************************************************************************)
\* The cursor does not leave the screen but between the increment of a
\* program's output and the test that brings it back: a backspace or an arrow at
\* column 0 never goes above row 0, though the keys move the cursor over what
\* programs and the kernel write meanwhile, and no row is reached from which
\* the screen would never scroll again (lib.c:231, lib.c:246, lib.c:287,
\* terminal.c:221).
OnScreen ==
  /\ sx \in 0..(IF pen = "column" THEN Cols ELSE Cols - 1)
  /\ sy \in 0..(IF pen = "page" THEN Rows ELSE Rows - 1)

\* Until something else is written, the cells around the cursor show the line
\* the editor holds, over row ends and scrolls (lib.c:208-253).
Echoed ==
  ~mixed => \A i \in 1..Len(text) : Shown(cells, Pos - at + i - 1) = text[i]
=============================================================================
