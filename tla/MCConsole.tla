----------------------------- MODULE MCConsole -----------------------------
(* The screen, the keyboard and the library, one at a time: what a key does  *)
(* to the screen is the screen's own steps, and a call of the library        *)
(* touches nothing of either.                                                *)
EXTENDS Screen, Library, Keyboard

MCStrings == {<<>>, <<1>>, <<-1>>, <<1, 1>>, <<1, -1>>, <<1, 1, 1, 1>>}
MCFormats == {<<p>> : p \in Pieces} \cup {<<p, q>> : p \in Pieces, q \in Pieces}

\* Two boards: to type and play, with both shifts, control, alt, caps lock and
\* a key of every kind but those for the desktop's pictures, and to copy and
\* switch these.
MCTyping == {0} \X {LSHIFT, RSHIFT, LCTRL, LALT, CAPS, ESC, TAB, ENTER, F1, F2, UP, L_KEY, 2, 30}
MCDesk   == {0} \X {LSHIFT, LCTRL, LALT, ESC, ENTER, F1, F2, INSERT, C_KEY, L_KEY}
MCBoard  == MCTyping \cup MCDesk

VARIABLE part   \* the one explored

ConsoleInit ==
  /\ Init /\ LibInit /\ KbInit
  /\ part \in {"screen", "library", "typing", "desk"}
ConsoleNext ==
  /\ \/ part = "screen" /\ Next /\ UNCHANGED <<libVars, kbVars>>
     \/ part = "library" /\ LibNext /\ UNCHANGED <<vars, kbVars>>
     \/ part = "typing" /\ KbNext /\ held' \subseteq MCTyping /\ UNCHANGED <<vars, libVars>>
     \/ part = "desk" /\ KbNext /\ held' \subseteq MCDesk /\ UNCHANGED <<vars, libVars>>
  /\ UNCHANGED part
ConsoleSpec == ConsoleInit /\ [][ConsoleNext]_<<vars, libVars, kbVars, part>>
=============================================================================
