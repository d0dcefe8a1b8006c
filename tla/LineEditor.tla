----------------------------- MODULE LineEditor -----------------------------
(***************************************************************************)
(* What a user expects of the prompt: a line of text with a cursor, and a  *)
(* list of the lines entered before, the newest last, that the arrows walk *)
(* through.                                                                *)
(***************************************************************************)
EXTENDS Integers, Sequences, FiniteSetsExt, SequencesExt

CONSTANTS Chars, Space,
          Files,   (* the names that Tab completes, a sequence               *)
          Width,   (* the most characters a line holds                       *)
          Keep     (* the most lines remembered                              *)

VARIABLES text, cursor, past,
          at       \* how far back in past the arrows are; 0 is the new line

vars == <<text, cursor, past, at>>

Init == text = <<>> /\ cursor = 0 /\ past = <<>> /\ at = 0

Type(c) ==
  /\ Len(text) < Width
  /\ text' = InsertAt(text, cursor + 1, c)
  /\ cursor' = cursor + 1

Delete ==
  /\ cursor > 0
  /\ text' = RemoveAt(text, cursor)
  /\ cursor' = cursor - 1

Move ==
  /\ \/ cursor > 0 /\ cursor' = cursor - 1
     \/ cursor < Len(text) /\ cursor' = cursor + 1
  /\ UNCHANGED text

Discard == text' = <<>> /\ cursor' = 0

\* Tab: a name that the last word begins is completed, as far as it fits.
Complete ==
  LET first == Max({0} \cup {k \in DOMAIN text : text[k] = Space})
      word  == SubSeq(text, first + 1, Len(text))
  IN \E i \in DOMAIN Files :
       LET all == SubSeq(text, 1, first) \o Files[i]
       IN /\ IsPrefix(word, Files[i])
          /\ text' = SubSeq(all, 1, IF Len(all) < Width THEN Len(all) ELSE Width)
          /\ cursor' = Len(text')

Edit ==
  /\ Discard \/ Move \/ Delete \/ (\E c \in Chars : Type(c)) \/ Complete
  /\ UNCHANGED <<at, past>>

\* The newest Keep lines are remembered; an empty one is not, and leaves the
\* arrows where they were, as Discard does.
Enter ==
  /\ text # <<>> /\ text' = <<>> /\ cursor' = 0 /\ at' = 0
  /\ LET all == Append(past, text)
     IN past' = SubSeq(all, IF Len(all) > Keep THEN 2 ELSE 1, Len(all))

\* The arrows replace the line and put the cursor at its end.
Recall ==
  /\ at # at' /\ cursor' = Len(text')
  /\ \/ at < Len(past) /\ at' = at + 1
     \/ at > 0 /\ at' = at - 1
  /\ text' = IF at' = 0 THEN <<>> ELSE past[Len(past) + 1 - at']
  /\ UNCHANGED past

Next == Edit \/ Enter \/ Recall
Spec == Init /\ [][Next]_vars
=============================================================================
