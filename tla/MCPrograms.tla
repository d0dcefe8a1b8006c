----------------------------- MODULE MCPrograms -----------------------------
(* The programs for TLC, one at a time: chat, tx and rx on two machines, and *)
(* the game.                                                                 *)
(*                                                                           *)
(* Names begin alike and apart, one is empty; lines have up to two letters.  *)
(* The maze, of four by three cells, is a ring of corridors around a wall,   *)
(* open to the right into what is left of the screen: the column next to it  *)
(* is, in memory, the first of the next row, so that the bean of row 2 lies  *)
(* there too, and beside row 2 both matrices have ended.                     *)
EXTENDS Chat, Pacman

MCExit  == <<2>>
MCNames == {<<>>, <<2, 1>>}
MCLines == {<<>>, <<1, 2>>, MCExit}

MCMaze == << <<7, 0, 0, 2>>,
             <<0, 1, 0, 0>>,
             <<7, 0, 0, 2>> >>
MCPacStart   == <<8, 16>>
MCGhostStart == <<14, 0>>

VARIABLE part   \* the one explored

ProgramsInit == Init /\ GameInit /\ part \in {"chat", "pacman"}
ProgramsNext ==
  /\ \/ part = "chat" /\ Next /\ UNCHANGED gameVars
     \/ part = "pacman" /\ GameNext /\ UNCHANGED vars
  /\ UNCHANGED part

\* The fairness is Chat's; where the game is explored no step of it is enabled.
ProgramsSpec ==
  /\ ProgramsInit /\ [][ProgramsNext]_<<vars, gameVars, part>>
  /\ \A p \in Machines : WF_vars(Step(p))
=============================================================================
