------------------------------ MODULE Terminal ------------------------------
(***************************************************************************)
(* The prompt of terminal 1: the line editor and command history that the  *)
(* keyboard handler drives (terminal.c: key_to_ter, clear_buf, hist_access,*)
(* buf_move), and terminal_read, which runs for the process and can be     *)
(* interrupted by any key.  A key is one step: its handler runs with       *)
(* interrupts off.                                                         *)
(***************************************************************************)
EXTENDS Integers, Sequences, FiniteSets, FiniteSetsExt, SequencesExt

CONSTANTS
  Chars,       (* the characters that can be typed                           *)
  Space,       (* the one between words                                      *)
  Nul, Newline,
  Files,       (* the names of the directory, in its order                   *)
  BufMax,      (* BUF_MAX: cells of a row of key_buf (129); BUF_MAX_V is one *)
               (* less                                                       *)
  HistoryMax,  (* rows of history (32)                                       *)
  Exposed      (* what the user is allowed to do                             *)

Hazards ==
  { "enter_in_read",   \* Enter between the reader's wake-up and its return
    "key_in_line" }    \* an arrow or Tab with the cursor inside the line

ASSUME CharsAssumption   == /\ Space \in Chars /\ Nul \notin Chars
                            /\ Newline \notin Chars \cup {Nul}
ASSUME FilesAssumption   == Files \in Seq(Seq(Chars \ {Space}))
ASSUME SizeAssumption    == /\ BufMax \in Nat /\ BufMax >= 2
                            /\ HistoryMax \in Nat /\ HistoryMax >= 2
ASSUME ExposedAssumption == Exposed \subseteq Hazards

\* Each row is followed in memory by the first cell of terminal 2's row,
\* index BufMax here.
Cells == 0..BufMax

VARIABLES
  ed,         \* buf_index, buf_index_max and key_buf
  store,      \* store_buf
  enterFlag,  \* enter_flag
  history,    \* the text in each row of history; an unused row is <<>>
  histIdx, arrowIdx,
  pc,         \* terminal_read: "user", "wait", "copy", "return"
  copied,     \* what terminal_read has put into the caller's buffer
  typed       \* the line whose Enter woke the reader, as the user typed it

editVars == <<ed, history, histIdx, arrowIdx>>
readVars == <<pc, copied>>
vars == <<editVars, store, enterFlag, readVars, typed>>

\* clear_buf, with or without a line in the buffer.
Cleared(e) ==
  [idx |-> 0, max |-> 0,
   key |-> [k \in Cells |-> IF k < BufMax - 1 THEN Nul
                            ELSE IF k = BufMax - 1 THEN Newline ELSE e.key[k]]]

\* A row of key_buf is all zeros until the first Enter or halt clears it.
Init ==
  /\ ed = [idx |-> 0, max |-> 0, key |-> [k \in Cells |-> Nul]]
  /\ store = [k \in Cells |-> Nul]
  /\ enterFlag = 0
  /\ history = [h \in 0..(HistoryMax - 1) |-> <<>>]
  /\ histIdx = 0 /\ arrowIdx = 0
  /\ pc = "user" /\ copied = <<>> /\ typed = <<>>

(***************************************************************************)
(* key_to_ter on the editor, as functions of it: a character, a backspace. *)
(***************************************************************************)
Insert(e, c) ==
  IF e.max > BufMax - 1 THEN e
  ELSE [idx |-> e.idx + 1, max |-> e.max + 1,
        key |-> [k \in Cells |-> IF k = e.idx THEN c
                                 ELSE IF k \in (e.idx + 1)..(e.max + 1) THEN e.key[k - 1]
                                 ELSE e.key[k]]]

\* Mutant: the characters right of the cursor are not moved up.
Erase_LeavesHole(e) ==
  IF e.idx = 0 THEN e
  ELSE [e EXCEPT !.idx = @ - 1, !.max = @ - 1, !.key[e.max - 1] = Nul]

Erase(e) ==
  IF e.idx = 0 THEN e
  ELSE [idx |-> e.idx - 1, max |-> e.max - 1,
        key |-> [k \in Cells |-> IF k = e.max - 1 THEN Nul
                                 ELSE IF k \in (e.idx - 1)..(e.max - 2) THEN e.key[k + 1]
                                 ELSE e.key[k]]]

\* BUF_MAX backspaces, and the characters of s one after the other.
EraseAll(e) ==
  LET after[n \in 0..BufMax] == IF n = 0 THEN e ELSE Erase(after[n - 1])
  IN after[BufMax]

InsertAll(e, s) ==
  LET after[n \in 0..Len(s)] == IF n = 0 THEN e ELSE Insert(after[n - 1], s[n])
  IN after[Len(s)]

\* The line, which is what a row of history gives back: its characters up to a
\* zero, a newline or the end of the row.
Text == [i \in 1..ed.max |-> ed.key[i - 1]]

Char(c) ==
  /\ ed' = Insert(ed, c)
  /\ UNCHANGED <<store, enterFlag, history, histIdx, arrowIdx, readVars, typed>>

Backspace ==
  /\ ed' = Erase(ed)
  /\ UNCHANGED <<store, enterFlag, history, histIdx, arrowIdx, readVars, typed>>

\* buf_move.
BufMove ==
  /\ \/ ed.idx > 0 /\ ed' = [ed EXCEPT !.idx = @ - 1]
     \/ ed.idx < ed.max /\ ed' = [ed EXCEPT !.idx = @ + 1]
  /\ UNCHANGED <<store, enterFlag, history, histIdx, arrowIdx, readVars, typed>>

\* Ctrl+L in text mode (clear), and halt when a shell ends.
Clear ==
  /\ ed' = Cleared(ed)
  /\ UNCHANGED <<store, enterFlag, history, histIdx, arrowIdx, readVars, typed>>

\* tab_comp: the cells after the last space are compared with the names up to
\* a zero, and the rest of the first name they begin is typed at the cursor.
TabComp ==
  LET first == Max({0} \cup {k \in 1..ed.max : ed.key[k - 1] = Space})
      stop  == {k \in first..BufMax : ed.key[k] = Nul}
      word  == [i \in 1..(Min(stop) - first) |-> ed.key[first + i - 1]]
      hits  == {i \in DOMAIN Files : IsPrefix(word, Files[i])}
      name  == Files[Min(hits)]
  IN /\ ed.idx # ed.max => "key_in_line" \in Exposed
     /\ stop # {} /\ hits # {}
     /\ ed' = InsertAll(ed, SubSeq(name, Len(word) + 1, Len(name)))
     /\ UNCHANGED <<store, enterFlag, history, histIdx, arrowIdx, readVars, typed>>

InRead == pc \in {"copy", "return"} \/ (pc = "wait" /\ enterFlag # 0)

\* Mutant: clear_buf before the line is stored for the reader.
Enter_ClearsFirst ==
  /\ InRead => "enter_in_read" \in Exposed
  /\ store' = [Cleared(ed).key EXCEPT ![BufMax] = store[BufMax]]
  /\ enterFlag' = ed.max + 1
  /\ ed' = Cleared(ed)
  /\ typed' = IF pc = "wait" /\ ~InRead THEN Append(Text, Newline) ELSE typed
  /\ UNCHANGED <<history, histIdx, arrowIdx, readVars>>

Enter ==
  LET full == [ed.key EXCEPT ![ed.max] = Newline]
      next == (histIdx + 1) % HistoryMax
  IN /\ InRead => "enter_in_read" \in Exposed
     /\ store' = [k \in Cells |-> IF k < BufMax THEN full[k] ELSE store[k]]
     /\ IF Text = <<>> THEN UNCHANGED <<history, histIdx, arrowIdx>>
        ELSE /\ history' = [history EXCEPT ![histIdx] = Text, ![next] = <<>>]
             /\ histIdx' = next
             /\ arrowIdx' = next
     /\ enterFlag' = ed.max + 1
     /\ ed' = Cleared([ed EXCEPT !.key = full])
     /\ typed' = IF pc = "wait" /\ ~InRead THEN Append(Text, Newline) ELSE typed
     /\ UNCHANGED readVars

\* hist_access: up and down.
Before(i) == (i + HistoryMax - 1) % HistoryMax
After(i)  == (i + 1) % HistoryMax
IsEmpty(i) == history[i] = <<>>

Recall(i) == ed' = InsertAll(EraseAll(ed), history[i])

HistUp ==
  /\ ed.idx # ed.max => "key_in_line" \in Exposed
  /\ ~IsEmpty(Before(arrowIdx))
  /\ arrowIdx' = Before(arrowIdx)
  /\ Recall(Before(arrowIdx))
  /\ UNCHANGED <<store, enterFlag, history, histIdx, readVars, typed>>

HistDown ==
  /\ ed.idx # ed.max => "key_in_line" \in Exposed
  /\ arrowIdx # histIdx
  /\ IF IsEmpty(After(arrowIdx))
       THEN /\ arrowIdx' = IF IsEmpty(arrowIdx) THEN arrowIdx ELSE After(arrowIdx)
            /\ ed' = EraseAll(ed)
       ELSE arrowIdx' = After(arrowIdx) /\ Recall(After(arrowIdx))
  /\ UNCHANGED <<store, enterFlag, history, histIdx, readVars, typed>>

(***************************************************************************)
(* terminal_read, interrupts on: enter_flag is read three times.           *)
(***************************************************************************)
ReadBegin ==
  /\ pc = "user"
  /\ enterFlag' = 0
  /\ pc' = "wait"
  /\ typed' = <<>>
  /\ UNCHANGED <<editVars, store, copied>>

ReadWake ==
  /\ pc = "wait" /\ enterFlag # 0
  /\ pc' = "copy"
  /\ UNCHANGED <<editVars, store, enterFlag, copied, typed>>

ReadCopy ==
  /\ pc = "copy"
  /\ copied' = [i \in 1..enterFlag |-> store[i - 1]]
  /\ pc' = "return"
  /\ UNCHANGED <<editVars, store, enterFlag, typed>>

\* The caller gets enter_flag as the number of characters.
ReadReturn ==
  /\ pc = "return"
  /\ pc' = "user"
  /\ copied' = <<>> /\ typed' = <<>>
  /\ UNCHANGED <<editVars, store, enterFlag>>

Key  == (\E c \in Chars : Char(c)) \/ Backspace \/ BufMove \/ Enter
        \/ Clear \/ TabComp \/ HistUp \/ HistDown
Next == Key \/ ReadBegin \/ ReadWake \/ ReadCopy \/ ReadReturn
Spec == Init /\ [][Next]_vars
-----------------------------------------------------------------------------
\* "return the keyboard buffer and number of chars when we hit enter"
\* (terminal_read): the caller gets the line the user entered while it
\* waited, newline included, and its length.  A line that fills the row has
\* no room for its newline and is let off.
LineDelivered ==
  [][pc = "return" /\ pc' = "user" /\ Len(typed) <= BufMax =>
       copied = typed /\ enterFlag = Len(typed)]_vars

\* The lines the ring of histories holds, oldest first.
Past ==
  LET back(k) == (histIdx + HistoryMax - k) % HistoryMax
      n       == Cardinality({k \in 1..(HistoryMax - 1) : ~IsEmpty(back(k))})
  IN [j \in 1..n |-> history[back(n + 1 - j)]]

\* The prompt behaves like LineEditor: what is typed, moved over, deleted and
\* recalled is what the user sees and what Enter hands on.
E == INSTANCE LineEditor WITH
       Width <- BufMax, Keep <- HistoryMax - 1, text <- Text, cursor <- ed.idx,
       past <- Past, at <- (histIdx + HistoryMax - arrowIdx) % HistoryMax
Edits == E!Spec
=============================================================================
