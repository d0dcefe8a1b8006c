------------------------------- MODULE Windows -------------------------------
(***************************************************************************)
(* The desktop's list of images: add_img, start_gif, start_paint,          *)
(* bring_to_front and close_window of modex.c, as the mouse handler        *)
(* (draw_mouse in mouse.c) calls them.  The list is drawn along next, from *)
(* the background to the mouse pointer, and searched for the window under  *)
(* the pointer along prev, from the pointer down.                          *)
(*                                                                         *)
(* Where windows lie is left out: a click hits any image.  The background, *)
(* the status bar and the clock, which never move and ignore clicks, are   *)
(* one node, "desk".                                                       *)
(***************************************************************************)
EXTENDS Integers, Sequences, FiniteSets, SequencesExt

CONSTANTS
  Icons,     (* the icons on the desk, in the order init_modex links them    *)
  Exposed

Hazards == { "reopen" }   \* the viewer or the easel opened while it is open

Opens  == {"img1", "file", "img2", "gif", "easel"}   \* ids 4, 7, 5, 8, 10
Images == Range(Icons) \cup Opens
Nodes  == Images \cup {"desk", "mouse"}
Null   == "null"

ASSUME IconsAssumption   == /\ Icons \in Seq({"term", "folder", "pacman", "paint"})
                            /\ IsInjective(Icons)
ASSUME ExposedAssumption == Exposed \subseteq Hazards

VARIABLES
  list,   \* [next, prev]
  clk,    \* left_clk_flag: the button is down
  drag    \* left_drag_flag: a window has moved since it went down

vars == <<list, clk, drag>>

\* init_modex.
Init ==
  /\ LET s == <<Null, "desk">> \o Icons \o <<"mouse", Null>>
         Beside(w, d) == IF w \notin Range(s) THEN Null
                         ELSE s[(CHOOSE i \in 2..(Len(s) - 1) : s[i] = w) + d]
     IN list = [next |-> [w \in Nodes |-> Beside(w, 1)],
                prev |-> [w \in Nodes |-> Beside(w, -1)]]
  /\ clk = FALSE /\ drag = FALSE

(***************************************************************************)
(* The pointer operations the functions below are made of.                 *)
(***************************************************************************)
\* Mutant: only the next pointers are mended.
Unlink_OneWay(l, w) == [l EXCEPT !.next[l.prev[w]] = l.next[w]]

Unlink(l, w) ==
  [l EXCEPT !.next[l.prev[w]] = l.next[w], !.prev[l.next[w]] = l.prev[w]]

\* In front of everything but the pointer.
LinkLast(l, w) ==
  LET last == l.prev["mouse"]
  IN [l EXCEPT !.next[w] = "mouse", !.prev[w] = last,
               !.next[last] = w, !.prev["mouse"] = w]

Dropped(l, w) == [Unlink(l, w) EXCEPT !.next[w] = Null, !.prev[w] = Null]

\* The nodes met from w along one of the pointers, as many as there can be.
Walk(pointer, w) ==
  LET most == Cardinality(Nodes)
      from[n \in 0..most] ==
        [v \in Nodes \cup {Null} |->
           IF v = Null \/ n = 0 THEN <<v>> ELSE <<v>> \o from[n - 1][pointer[v]]]
  IN from[most][w]
Drawn  == Walk(list.next, "desk")
Behind == Walk(list.prev, "mouse")

(***************************************************************************)
(* modex.c.                                                                *)
(***************************************************************************)
\* Mutant: the file's icon stays where it is when its window is raised.
BringToFront_WindowOnly(w) == IF w \in Range(Drawn) THEN LinkLast(Unlink(list, w), w) ELSE list

BringToFront(w) ==
  IF list.prev["mouse"] = w \/ w \notin Range(Drawn) THEN list
  ELSE LET l == LinkLast(Unlink(list, w), w)
       IN IF w = "img1" THEN LinkLast(Unlink(l, "file"), "file") ELSE l

CloseWindow(w) ==
  IF w \notin Range(Drawn) THEN list
  ELSE IF w = "img1" THEN Dropped(Dropped(list, w), "file") ELSE Dropped(list, w)

AddImg ==
  IF list.prev["img1"] = Null THEN LinkLast(LinkLast(list, "img1"), "file")
  ELSE IF list.prev["img2"] = Null THEN LinkLast(list, "img2")
  ELSE list

\* start_gif and start_paint.
Start(w) == LinkLast(list, w)

(***************************************************************************)
(* draw_mouse, one packet at a time, with w the image under the pointer.   *)
(***************************************************************************)
Hit == Range(Behind) \cap (Images \cup {"desk"})

\* The button is down: the image is raised, and moved if the pointer moved;
\* inside the easel the pointer paints and nothing else happens.
Hold(w) ==
  /\ w \in Hit
  /\ \/ /\ w # "desk"
        /\ list' = BringToFront(w)
        /\ drag' \in {drag, TRUE}
     \/ w \in {"desk", "easel"} /\ UNCHANGED <<list, drag>>
  /\ clk' = TRUE

\* The button comes up after a click: icons start things, and windows close
\* where they have their close button.
Click(w) ==
  /\ clk /\ ~drag /\ w \in Hit
  /\ w = "file" /\ list.prev["gif"] # Null    => "reopen" \in Exposed
  /\ w = "paint" /\ list.prev["easel"] # Null => "reopen" \in Exposed
  /\ \/ w = "folder" /\ list' = AddImg
     \/ w = "file"   /\ list' = Start("gif")
     \/ w = "paint"  /\ list' = Start("easel")
     \/ w \in {"img1", "img2", "gif", "easel"} /\ list' \in {list, CloseWindow(w)}
     \/ w \in {"desk", "term", "pacman"} /\ UNCHANGED list
  /\ clk' = FALSE
  /\ UNCHANGED drag

\* It comes up after a drag.
Drop ==
  /\ clk /\ drag
  /\ clk' = FALSE /\ drag' = FALSE
  /\ UNCHANGED list

Next == (\E w \in Images \cup {"desk"} : Hold(w) \/ Click(w)) \/ Drop
Spec == Init /\ [][Next]_vars
-----------------------------------------------------------------------------
\* What is drawn on top is what a click finds first: the list read along next,
\* from the background, is the list read along prev, from the pointer (the two
\* loops of draw_mouse).
Linked == Drawn = Append(Tail(Reverse(Behind)), Null)

\* All but the desk, the pointer and the end of the walk.
Between(walk) == SubSeq(walk, 2, Len(walk) - 2)

\* What lies between the desk and the pointer is a stack of windows, the file's icon coming and going
\* with its window, and always in front of it, where it can be clicked.
Z == INSTANCE ZOrder WITH
       Initial <- Icons,
       Groups <- {<<w>> : w \in Images \ {"img1"}} \cup {<<"img1", "file">>},
       stack <- Between(Drawn)
Stacks == Z!Spec
=============================================================================
