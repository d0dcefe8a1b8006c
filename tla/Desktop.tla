------------------------------- MODULE Desktop -------------------------------
(***************************************************************************)
(* Desktop: the mouse (mouse_handler and draw_mouse of mouse.c) on the     *)
(* desktop of module Windows, with the places of the images (move_window), *)
(* and what is drawn of them into the build buffer (draw_full_block,       *)
(* draw_save_full_block and clock of modex.c).                             *)
(*                                                                         *)
(* The mouse sends a packet of three bytes, an interrupt each: status, dx, *)
(* dy.  One byte, the acknowledgement mouse_init leaves unread, has come   *)
(* before the first packet, so the handler's second byte is the status,    *)
(* its third dx, and its first the dy of the packet before.                *)
(* A step is an interrupt's; coordinates are pixels, mouse_y from below.   *)
(***************************************************************************)
EXTENDS Windows

CONSTANTS
  W, H,       (* the screen, 320 and 200                                     *)
  Watched,    (* the pixels modelled: none depends on another                *)
  Size,       (* the width and height of each image                          *)
  Place,      (* where init_modex puts it                                    *)
  Holes,      (* the offsets of the pixels of each image that are 0: what    *)
              (* lies below is seen there; the background has none           *)
  Arrow,      (* the offsets of the pixels of mouse_img that are not 0       *)
  Margin, Title,  (* a window's frame and title bar, 2 and 10                *)
  MaxStep,    (* what a movement is cut to (20)                              *)
  Deltas,     (* movements the mouse reports                                 *)
  MaxMoves,   (* bound: times an image is moved                              *)
  EdgeDrags   (* whether the first window may be dragged from the screen's   *)
              (* edge: the icon of the file then moves and the window does   *)
              (* not (modex.c:473)                                           *)

ASSUME ScreenAssumption == /\ W \in Nat \ {0} /\ H \in Nat \ {0}
                           /\ Watched \subseteq (0..(W - 1)) \X (0..(H - 1))
ASSUME SizesAssumption  == Size \in [Images -> Nat \X Nat] /\ Place \in [Images -> Int \X Int]
ASSUME HolesAssumption  == Holes \in [Images -> SUBSET (Nat \X Nat)]
ASSUME FrameAssumption  == Margin \in Nat /\ Title \in Nat
\* The icon of the file is put inside the frame of its window.
ASSUME FileAssumption   ==
  \A i \in 1..2 :
    /\ Place["file"][i] > Place["img1"][i] + (IF i = 1 THEN Margin ELSE Title)
    /\ Place["file"][i] + Size["file"][i] < Place["img1"][i] + Size["img1"][i] - Margin
ASSUME DeltaAssumption  == Deltas \subseteq Int /\ MaxStep \in Nat
ASSUME EdgeAssumption   == EdgeDrags \in BOOLEAN

VARIABLES
  sent,     \* the byte of its packet the mouse sends next
  cycle,    \* mouse_cycle
  byte,     \* mouse_byte: what each byte is, and its value, until it is used
  mx, my,   \* mouse_x, mouse_y
  at,       \* start_x and start_y of each image
  build,    \* the build buffer: whose pixel each of the watched is
  mode,     \* "desk", "text" (isModex = 0) or "game" (isPacman = 1)
  moves
mouseVars == <<sent, cycle, byte, mx, my, at, build, mode, moves>>

Blank == [p \in Watched |-> "desk"]

Used   == [i \in 0..2 |-> <<"none", 0>>]

DInit ==
  /\ Init
  /\ sent = "status" /\ cycle = 1
  /\ byte = [Used EXCEPT ![0] = <<"ack", -6>>]
  /\ mx = W \div 2 /\ my = H \div 2
  /\ at = Place
  /\ build = Blank
  /\ mode = "desk"
  /\ moves = 0

(***************************************************************************)
(* Drawing, pixel by pixel: over is what the build buffer holds at p.      *)
(***************************************************************************)
\* A block is cut at the screen's edges, in columns and rows of its own.
Clipped(first, size, limit) ==
  LET from == IF first < 0 THEN 0 - first ELSE 0
      to   == IF limit - first > size THEN size ELSE limit - first
  IN (first + from)..(first + to - 1)

\* A pixel of an image that lies at a that is not 0.
Opaque(w, a, p) == <<p[1] - a[1], p[2] - a[2]>> \notin Holes[w]

\* What draw_full_block draws of an image where the step leaves it.
Draws(w, p) == /\ p[1] \in Clipped(at'[w][1], Size[w][1], W)
               /\ p[2] \in Clipped(at'[w][2], Size[w][2], H)
               /\ Opaque(w, at'[w], p)

\* draw_save_full_block: under the pointer what was there is kept, and once the
\* pointer has been shown put back; 0, which none of them is, would not be.
Tip(p) == <<p[1] - mx, p[2] - (H - 1 - my)>> \in Arrow
Kept(over, p)        == IF Tip(p) THEN over ELSE "none"
WithPointer(over, p) == IF Tip(p) THEN "mouse" ELSE over

\* Mutant: only the background is put back.
Restored_Desk(over, kept) == IF kept = "desk" THEN kept ELSE over

Restored(over, kept) == IF kept = "none" THEN over ELSE kept

\* A redraw, in a loop of draw_mouse, from head_img, or of clock, from
\* status_bar_img, or without one.
Redraw(b, loop) ==
  \E order \in {Drawn'} :
    LET Drawing(p) ==
          LET on == {i \in DOMAIN order : order[i] \in Images /\ Draws(order[i], p)}
          IN IF loop /\ on # {} THEN order[Max(on)] ELSE b[p]
    IN build' = [p \in Watched |-> LET over == Drawing(p)
                                  IN Restored(WithPointer(over, p), Kept(over, p))]

(***************************************************************************)
(* The image under the pointer.  start_x + width is unsigned: beyond it is *)
(* every pointer when the image lies wholly left of the screen.            *)
(***************************************************************************)
Below(v, end) == end < 0 \/ v < end

Inside(w) ==
  LET y == H - 1 - my IN
  /\ mx > at[w][1] /\ Below(mx, at[w][1] + Size[w][1])
  /\ y > at[w][2] /\ Below(y, at[w][2] + Size[w][2])

InClose(w) ==
  LET y == H - 1 - my
      right == at[w][1] + Size[w][1]
  IN /\ Below(mx, right - Margin) /\ right - Title \in 0..(mx - 1)
     /\ y \in (at[w][2] + Margin + 1)..(at[w][2] + Title - 1)

InEasel ==
  LET y == H - 1 - my
      a == at["easel"]
  IN /\ mx > a[1] + Margin /\ Below(mx, a[1] + Size["easel"][1] - Margin)
     /\ y > a[2] + Title /\ Below(y, a[2] + Size["easel"][2] - Margin)

\* The first of some images found from the pointer down; the desk where there
\* is none.
Topmost(images) ==
  LET order == Behind
      met   == {i \in DOMAIN order : order[i] \in images}
  IN IF met = {} THEN "desk" ELSE order[Min(met)]

Under == Topmost({w \in Images : Inside(w)})

(***************************************************************************)
(* move_window.                                                            *)
(***************************************************************************)
FreeX == mx > 0 /\ mx < W - 1
FreeY == my > 0 /\ my < H - 1

\* Mutant: the icon of the file stays where it is.
MoveWindow_Alone(w, dx, dy) ==
  LET x == IF FreeX THEN dx ELSE 0
      y == IF FreeY THEN dy ELSE 0
  IN [at EXCEPT ![w] = <<@[1] + x, @[2] - y>>]

\* The file's icon goes with its window, from the screen's edge even without
\* it, and on its own only inside the window's frame; 319 stands for 199.
MoveWindow(w, dx, dy) ==
  LET x == IF FreeX THEN dx ELSE 0
      y == IF FreeY THEN dy ELSE 0
      f == at["file"]
      a == at["img1"]
      fitsX == f[1] + dx > a[1] + Margin
               /\ f[1] + Size["file"][1] + dx < a[1] + Size["img1"][1] - Margin
      fitsY == f[2] - dy > a[2] + Title
               /\ f[2] + Size["file"][2] - dy < a[2] + Size["img1"][2] - Margin
  IN CASE w = "img1" -> [at EXCEPT ![w] = <<@[1] + x, @[2] - y>>,
                                   !["file"] = <<@[1] + dx, @[2] - dy>>]
       [] w = "file" -> [at EXCEPT ![w] = << IF FreeX /\ fitsX THEN @[1] + dx ELSE @[1],
                                             IF my > 0 /\ fitsY THEN @[2] - dy ELSE @[2] >>]
       [] OTHER      -> [at EXCEPT ![w] = <<@[1] + x, @[2] - y>>]

(***************************************************************************)
(* draw_mouse, by what the button does.                                    *)
(***************************************************************************)
Holds(dx, dy) ==
  LET w == Under
      moved == w # "desk" /\ ~(w = "easel" /\ InEasel)
  IN /\ clk' = TRUE
     /\ IF moved
        THEN /\ dx # 0 \/ dy # 0 => moves < MaxMoves
             /\ w = "img1" /\ ((dx # 0 /\ ~FreeX) \/ (dy # 0 /\ ~FreeY)) => EdgeDrags
             /\ list' = BringToFront(w)
             /\ at' = MoveWindow(w, dx, dy)
             /\ drag' = (drag \/ dx # 0 \/ dy # 0)
             /\ moves' = IF dx # 0 \/ dy # 0 THEN moves + 1 ELSE moves
        ELSE UNCHANGED <<list, at, drag, moves>>
     /\ Redraw(Blank, TRUE)
     /\ UNCHANGED mode

Clicks ==
  LET w == Under IN
  /\ w = "file" /\ list.prev["gif"] # Null    => "reopen" \in Exposed
  /\ w = "paint" /\ list.prev["easel"] # Null => "reopen" \in Exposed
  /\ list' = CASE w = "folder" -> AddImg
               [] w = "file"   -> Start("gif")
               [] w = "paint"  -> Start("easel")
               [] w \in {"img1", "img2", "gif", "easel"} /\ InClose(w) -> CloseWindow(w)
               [] OTHER -> list
  /\ mode' = CASE w = "term" -> "text" [] w = "pacman" -> "game" [] OTHER -> mode
  /\ UNCHANGED at
  /\ IF mode' = "desk" THEN Redraw(Blank, TRUE) ELSE UNCHANGED build
  /\ clk' = FALSE
  /\ UNCHANGED <<drag, moves>>

Drops ==
  /\ clk' = FALSE /\ drag' = FALSE
  /\ UNCHANGED <<list, at, mode, moves>>
  /\ Redraw(Blank, TRUE)

Idles ==
  /\ clk' = FALSE
  /\ UNCHANGED <<list, drag, at, mode, moves>>
  /\ Redraw(build, FALSE)

\* Mutant: a release is seen whether or not the button was down.
DrawMouse_AnyRelease(button, dx, dy) ==
  IF button THEN Holds(dx, dy) ELSE IF drag THEN Drops ELSE Clicks

DrawMouse(button, dx, dy) ==
  CASE button -> Holds(dx, dy)
    [] ~button /\ clk /\ drag  -> Drops
    [] ~button /\ clk /\ ~drag -> Clicks
    [] ~button /\ ~clk -> Idles

(***************************************************************************)
(* mouse_handler.                                                          *)
(***************************************************************************)
Cut(d) == IF d > MaxStep THEN MaxStep ELSE IF d < 0 - MaxStep THEN 0 - MaxStep ELSE d
Within(v, limit) == IF v < 0 THEN 0 ELSE IF v > limit - 1 THEN limit - 1 ELSE v

\* What the mouse says next.
Next3 == [status |-> "dx", dx |-> "dy", dy |-> "status"]
Values(what) == IF what = "status" THEN {0, 1} ELSE Deltas

\* The pointer moves at the end, which a terminal started by draw_mouse delays
\* until the desktop's process has its turn, if it does.
Moves(dx, dy) ==
  \/ mx' = Within(mx + dx, W) /\ my' = Within(my + dy, H)
  \/ mode' # "desk" /\ UNCHANGED <<mx, my>>

\* Mutant: outside the desktop bytes are not counted.
Byte_Unseen(v) ==
  LET new == [byte EXCEPT ![cycle] = <<sent, v>>]
      dx  == Cut(new[2][2])
      dy  == Cut(new[0][2])
  IN /\ byte' = IF mode # "desk" THEN byte ELSE IF cycle = 2 THEN Used ELSE new
     /\ cycle' = IF mode = "desk" THEN (cycle + 1) % 3 ELSE cycle
     /\ sent' = Next3[sent]
     /\ IF mode = "desk" /\ cycle = 2
        THEN /\ DrawMouse(new[1][2] % 2 = 1, dx, dy)
             /\ Moves(dx, dy)
        ELSE UNCHANGED <<list, clk, drag, mx, my, at, build, mode, moves>>

\* The button and the images are looked at where the pointer was.
Byte(v) ==
  LET new == [byte EXCEPT ![cycle] = <<sent, v>>]
      dx  == Cut(new[2][2])
      dy  == Cut(new[0][2])
  IN /\ byte' = IF cycle = 2 THEN Used ELSE new
     /\ cycle' = (cycle + 1) % 3
     /\ sent' = Next3[sent]
     /\ IF mode = "desk" /\ cycle = 2
        THEN /\ DrawMouse(new[1][2] % 2 = 1, dx, dy)
             /\ Moves(dx, dy)
        ELSE UNCHANGED <<list, clk, drag, mx, my, at, build, mode, moves>>

(***************************************************************************)
(* The rest of the system: the clock redraws all but the background; the   *)
(* keys and the end of the game change the mode, and who returns to the    *)
(* desktop draws the background (set_modex, draw_background).              *)
(***************************************************************************)
Clock ==
  /\ mode = "desk"
  /\ UNCHANGED <<list, clk, drag, sent, cycle, byte, mx, my, at, mode, moves>>
  /\ Redraw(build, TRUE)

Mode(m) ==
  /\ mode # m /\ (m # "desk" => mode = "desk")
  /\ mode' = m
  /\ build' = IF m = "desk" THEN Blank ELSE build
  /\ UNCHANGED <<list, clk, drag, sent, cycle, byte, mx, my, at, moves>>

DNext ==
  \/ \E v \in Values(sent) : Byte(v)
  \/ Clock
  \/ \E m \in {"desk", "text"} : Mode(m)

DSpec == DInit /\ [][DNext]_<<vars, mouseVars>>

(***************************************************************************)
(* Properties.                                                             *)
(***************************************************************************)
\* The handler takes no byte for another: its second is always a status and
\* its third a dx, however the mode changes between the bytes of a packet
\* (mouse.c:48-85).
Framed ==
  /\ cycle = 2 => byte[0][1] \in {"ack", "dy"} /\ byte[1][1] = "status" /\ sent = "dx"
  /\ cycle = 1 => sent = "status"

\* The packets, with the hit test and the drags, do to the list of windows what
\* module Windows says clicks and drags may do (draw_mouse).
Clicked == Spec

\* The icon of the file never leaves the window it lies in, whichever of them
\* is dragged, wherever, and however often the window is closed and opened
\* (modex.c:473-496).
IconInside ==
  \A i \in 1..2 :
    LET edge == IF i = 1 THEN Margin ELSE Title
    IN /\ at["file"][i] > at["img1"][i] + edge
       /\ at["file"][i] + Size["file"][i] < at["img1"][i] + Size["img1"][i] - Margin

\* The desktop in the build buffer is the images in their order, each where it
\* lies, cut at the screen's edges and seen through at its pixels that are 0,
\* without a trace of the pointer or of
\* where an image was; or, after a return to it and until the next packet
\* with the button or tick of the clock, the background (mouse.c:244-264).
Covers(w, p) ==
  /\ p[1] - at[w][1] \in 0..(Size[w][1] - 1)
  /\ p[2] - at[w][2] \in 0..(Size[w][2] - 1)
  /\ Opaque(w, at[w], p)
Picture == [p \in Watched |-> Topmost({w \in Images : Covers(w, p)})]
Painted == mode = "desk" => build = Blank \/ build = Picture
=============================================================================
