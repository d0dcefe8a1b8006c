----------------------------- MODULE MCTerminal -----------------------------
(***************************************************************************)
(* Terminal for TLC: one character besides the space, and a directory of   *)
(* one name, which fits the row only when there is nothing else on it.     *)
(***************************************************************************)
EXTENDS Terminal

CONSTANTS a

MCChars == {a, Space}
MCFiles == <<<<a, a>>>>
=============================================================================
