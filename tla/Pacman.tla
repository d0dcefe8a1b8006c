------------------------------- MODULE Pacman -------------------------------
(***************************************************************************)
(* Pacman: the game (ece391pacman.c).  A step is a move, every sixteenth   *)
(* tick of the clock, with the key that the keyboard handler has left in   *)
(* last_key; positions are in pixels, a cell of the maze is eight wide.    *)
(* A move puts both figures one old step on and chooses their next step:   *)
(* what they do at a corner is decided one step before it.                 *)
(***************************************************************************)
EXTENDS Integers, Sequences, FiniteSets, FiniteSetsExt

CONSTANTS
  Maze,        (* maze_matrix, as a sequence of rows: 0 free, 7 a bean, the  *)
               (* others walls                                               *)
  Beyond,      (* what follows maze_matrix in memory                         *)
  StrayBeans,  (* whether what follows bean_matrix in memory may read as a   *)
               (* bean, a set of Booleans: a pacman past the last row reads  *)
               (* there, and counts and clears what it reads as 1            *)
  ScreenW, ScreenH,      (* 320 and 200, the bounds canMove knows            *)
  PacStart, GhostStart,  (* where they begin: <<110, 144>>, <<110, 72>>      *)
  CountWin,    (* COUNT_WIN (232)                                            *)
  StopMax      (* COUNT_STOP_MAX (96)                                        *)

STEP   == 2
MinDis == 6
KEY_UP    == 1
KEY_DOWN  == 2
KEY_RIGHT == 3
KEY_LEFT  == 4
Keys == {KEY_UP, KEY_DOWN, KEY_RIGHT, KEY_LEFT}

Width  == Len(Maze[1])
Height == Len(Maze)
CellsOf(kind) == {cell \in (0..(Height - 1)) \X (0..(Width - 1)) :
                    Maze[cell[1] + 1][cell[2] + 1] = kind}

ASSUME MazeAssumption == /\ Maze \in Seq(Seq(0..7)) \ {<<>>}
                         /\ \A r \in 1..Height : Len(Maze[r]) = Width
ASSUME StrayAssumption == StrayBeans \in SUBSET BOOLEAN \ {{}}
ASSUME StartsAssumption == {PacStart, GhostStart} \subseteq Nat \X Nat
\* The beans of bean_matrix lie where the maze has a 7.
ASSUME BeansAssumption == CountWin = Cardinality(CellsOf(7))

VARIABLES
  pac, ghost,   \* [x, y, sx, sy]: pos_x, pos_y, step_x, step_y
  direction,    \* pacman.direction, the way it is drawn
  beans,        \* the cells of bean_matrix still 1
  count,        \* beans counted
  stopped,      \* counter_stop
  game          \* "on", "lost", "won"
gameVars == <<pac, ghost, direction, beans, count, stopped, game>>

Figure(at) == [x |-> at[1], y |-> at[2], sx |-> 0, sy |-> 0]

GameInit ==
  /\ pac = Figure(PacStart) /\ ghost = Figure(GhostStart)
  /\ direction = KEY_UP
  /\ beans = CellsOf(7) /\ count = 0
  /\ stopped = 0
  /\ game = "on"

(***************************************************************************)
(* The maze.  C rounds a quotient towards zero, and a column past the      *)
(* maze's is one of the next row's.                                        *)
(***************************************************************************)
Cell(v) == IF v < 0 THEN 0 - ((0 - v) \div 8) ELSE v \div 8

At(row, col) ==
  LET i == row * Width + col
  IN IF i < Width * Height THEN Maze[(i \div Width) + 1][(i % Width) + 1] ELSE Beyond

\* The pixel beyond the figure that canMove looks at.
Ahead(x, y, key) ==
  CASE key = KEY_UP    -> <<x, y - 4>>
    [] key = KEY_DOWN  -> <<x, y + 10>>
    [] key = KEY_LEFT  -> <<x - 4, y>>
    [] key = KEY_RIGHT -> <<x + 10, y>>

CanMove(f, key) ==
  LET p == Ahead(f.x, f.y, key)
  IN /\ p[1] \in 0..ScreenW
     /\ p[2] >= 0 /\ p[2] + 2 <= ScreenH
     /\ At(p[2] \div 8, p[1] \div 8) \in {0, 7}

(***************************************************************************)
(* find_pacman_next_position: a figure that moves along the other axis     *)
(* turns only where its next position is on a cell's edge, and goes on     *)
(* until then without a look ahead; one that may not turn goes on if it    *)
(* can.  The right key turns it left.                                      *)
(***************************************************************************)
AtEdge(pos, step) == step # 0 /\ (pos + step) % 8 = 0

OnX(f) == IF \/ f.sx = STEP /\ CanMove(f, KEY_RIGHT)
             \/ f.sx = 0 - STEP /\ CanMove(f, KEY_LEFT)
          THEN <<f.sx, 0>> ELSE <<0, 0>>
OnY(f) == IF \/ f.sy = STEP /\ CanMove(f, KEY_DOWN)
             \/ f.sy = 0 - STEP /\ CanMove(f, KEY_UP)
          THEN <<0, f.sy>> ELSE <<0, 0>>

\* Mutant: the vertical step goes on beside the horizontal one.
PacStep_Diagonal(key) ==
  LET way == IF key \in {KEY_UP, KEY_LEFT} THEN 0 - STEP ELSE STEP IN
  IF key \in {KEY_UP, KEY_DOWN}
  THEN IF ~CanMove(pac, key) THEN OnX(pac)
       ELSE IF pac.sx = 0 \/ AtEdge(pac.x, pac.sx) THEN <<0, way>>
       ELSE <<pac.sx, 0>>
  ELSE IF ~CanMove(pac, key) THEN OnY(pac)
       ELSE IF pac.sy = 0 THEN <<way, 0>>
       ELSE IF AtEdge(pac.y, pac.sy) THEN <<0 - STEP, pac.sy>>
       ELSE <<0, pac.sy>>

PacStep(key) ==
  LET way == IF key \in {KEY_UP, KEY_LEFT} THEN 0 - STEP ELSE STEP IN
  IF key \in {KEY_UP, KEY_DOWN}
  THEN IF ~CanMove(pac, key) THEN OnX(pac)
       ELSE IF pac.sx = 0 \/ AtEdge(pac.x, pac.sx) THEN <<0, way>>
       ELSE <<pac.sx, 0>>
  ELSE IF ~CanMove(pac, key) THEN OnY(pac)
       ELSE IF pac.sy = 0 THEN <<way, 0>>
       ELSE IF AtEdge(pac.y, pac.sy) THEN <<0 - STEP, 0>>
       ELSE <<0, pac.sy>>

Facing(step) ==
  CASE step[2] = STEP -> KEY_DOWN
    [] step[2] \notin {0, STEP} -> KEY_UP
    [] step[2] = 0 /\ step[1] = STEP -> KEY_RIGHT
    [] step[2] = 0 /\ step[1] = 0 - STEP -> KEY_LEFT
    [] OTHER -> direction

(***************************************************************************)
(* find_ghost_next_position: of the ways it can go, but back, the one that *)
(* ends nearest to pacman; among equals the last of left, right, up, down. *)
(***************************************************************************)
Square(v) == v * v
Ways == << [key |-> KEY_LEFT, sx |-> 0 - STEP, sy |-> 0], [key |-> KEY_RIGHT, sx |-> STEP, sy |-> 0],
           [key |-> KEY_UP, sx |-> 0, sy |-> 0 - STEP], [key |-> KEY_DOWN, sx |-> 0, sy |-> STEP] >>

Distance(w) == Square(ghost.x + w.sx - pac.x) + Square(ghost.y + w.sy - pac.y)

Open == {i \in 1..4 :
           LET w == Ways[i]
               back == IF w.sx # 0 THEN ghost.sx = 0 - w.sx ELSE ghost.sy = 0 - w.sy
           IN ~back /\ CanMove(ghost, w.key) /\ Distance(w) <= 320 * 200}

GhostStep ==
  IF Open = {} THEN <<0, 0>>
  ELSE LET nearest == {i \in Open : \A j \in Open : Distance(Ways[i]) <= Distance(Ways[j])}
           w == Ways[Max(nearest)]
       IN <<w.sx, w.sy>>

(***************************************************************************)
(* start_pacman.                                                           *)
(***************************************************************************)
Near(p, g) == p.x - g.x \in (1 - MinDis)..(MinDis - 1) /\ p.y - g.y \in (1 - MinDis)..(MinDis - 1)

\* Mutant: they meet only where one is on the other.
Caught_Exact == pac.x = ghost.x /\ pac.y = ghost.y

Caught == Near(pac, ghost)

Lose == game = "on" /\ Caught /\ game' = "lost"
        /\ UNCHANGED <<pac, ghost, direction, beans, count, stopped>>

Win == game = "on" /\ ~Caught /\ count = CountWin /\ game' = "won"
       /\ UNCHANGED <<pac, ghost, direction, beans, count, stopped>>

Moved(f, step) == [x |-> f.x + f.sx, y |-> f.y + f.sy, sx |-> step[1], sy |-> step[2]]

\* The cell of bean_matrix under pacman: no bound is checked, so a column
\* past the last is one of the next row's.
Under ==
  LET i == Cell(pac.y) * Width + Cell(pac.x)
  IN <<i \div Width, i % Width>>

Past == Under[1] \notin 0..(Height - 1)

\* last_key is KEY_UP before the first key (modex.c:7).
Move(key) ==
  LET still == pac.sx = 0 /\ pac.sy = 0
      idle  == IF still THEN stopped + 1 ELSE 0
  IN /\ game = "on" /\ ~Caught /\ count # CountWin
     /\ \E stray \in StrayBeans :
          IF Under \in beans \/ (Past /\ stray)
          THEN beans' = beans \ {Under} /\ count' = count + 1
          ELSE UNCHANGED <<beans, count>>
     /\ ghost' = Moved(ghost, GhostStep)
     /\ IF idle > StopMax        \* a pacman that has not moved begins anew
        THEN pac' = Figure(PacStart) /\ direction' = KEY_UP /\ stopped' = 0
        ELSE /\ pac' = Moved(pac, PacStep(key))
             /\ direction' = Facing(PacStep(key))
             /\ stopped' = idle
     /\ UNCHANGED game

GameNext == Lose \/ Win \/ \E key \in Keys : Move(key)

GameSpec == GameInit /\ [][GameNext]_gameVars

(***************************************************************************)
(* Properties.                                                             *)
(***************************************************************************)
\* The two never pass each other unseen: of two that are level in one
\* coordinate, who is ahead in the other changes only by a meeting or by
\* pacman's return to its start (ece391pacman.c:410-415, 433-536).
NotPassed ==
  [][ game' = "on" /\ pac' # Figure(PacStart) =>
        /\ ~(Square(pac.y - ghost.y) < Square(MinDis) /\ Square(pac'.y - ghost'.y) < Square(MinDis)
             /\ (pac.x - ghost.x) * (pac'.x - ghost'.x) < 0)
        /\ ~(Square(pac.x - ghost.x) < Square(MinDis) /\ Square(pac'.x - ghost'.x) < Square(MinDis)
             /\ (pac.y - ghost.y) * (pac'.y - ghost'.y) < 0) ]_gameVars

\* Pacman moves along one axis, the way it is drawn, whatever keys are
\* pressed and wherever they take it, through walls and out of the maze too;
\* and the game is won with no bean left and no ghost near, however the beans
\* were come by (ece391pacman.c:166-322, 412-418, 486-489).
Straight ==
  /\ LET way == CASE direction = KEY_UP    -> <<0, 0 - STEP>>
                  [] direction = KEY_DOWN  -> <<0, STEP>>
                  [] direction = KEY_RIGHT -> <<STEP, 0>>
                  [] direction = KEY_LEFT  -> <<0 - STEP, 0>>
     IN <<pac.sx, pac.sy>> \in {<<0, 0>>, way}
  /\ game = "won" => beans = {} /\ ~Near(pac, ghost)
=============================================================================
