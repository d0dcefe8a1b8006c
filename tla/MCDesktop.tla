------------------------------ MODULE MCDesktop ------------------------------
(***************************************************************************)
(* Windows and Desktop for TLC.  The list is explored under clicks that    *)
(* hit any image, or under the packets of a mouse on a screen of 5 by 9    *)
(* pixels, of which the pointer reaches 15; these hit the icon of the      *)
(* folder and what it and its file open, and never the icon of the easel,  *)
(* one pixel large, which lies between them.                               *)
(***************************************************************************)
EXTENDS Desktop

MCIcons == <<"folder", "paint">>

MCSize ==
  [w \in Images |-> CASE w = "folder" -> <<2, 2>> [] w = "file" -> <<2, 2>>
                      [] w = "img1" -> <<6, 7>>   [] w = "paint" -> <<1, 1>>
                      [] OTHER -> <<4, 5>>]

MCPlace ==
  [w \in Images |-> CASE w = "folder" -> <<3, 3>> [] w = "file" -> <<1, 5>>
                      [] w = "img1" -> <<0, 1>>   [] w = "paint" -> <<1, 7>>
                      [] OTHER -> <<1, 2>>]

\* The file's icon shows its window through, the folder the background, and a
\* window's last row is empty.
MCHoles ==
  [w \in Images |-> CASE w = "folder" -> {<<0, 1>>} [] w = "file" -> {<<1, 1>>}
                      [] w = "img1" -> {<<x, 6>> : x \in 0..5} [] OTHER -> {}]

\* The background's corner, a window's edge, the icon of the file, the folder.
MCWatched == {<<0, 0>>, <<4, 2>>, <<2, 6>>, <<4, 4>>}

MCArrow  == {<<0, 0>>, <<1, 0>>, <<0, 1>>}
MCDeltas == {-3, 0, 2}

VARIABLE by   \* what moves the list

DesktopInit == DInit /\ by \in {"clicks", "packets"}
DesktopNext ==
  /\ \/ by = "clicks" /\ Next /\ UNCHANGED mouseVars
     \/ by = "packets" /\ DNext
  /\ UNCHANGED by
DesktopSpec == DesktopInit /\ [][DesktopNext]_<<vars, mouseVars, by>>
=============================================================================
