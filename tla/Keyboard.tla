------------------------------ MODULE Keyboard ------------------------------
(***************************************************************************)
(* Keyboard: the whole of key_handler (key.c), with its tables of          *)
(* characters, and the paint program's canvas, which keys and mouse share  *)
(* (modex.c).  A step is an interrupt: a scan code of one of the keys the  *)
(* user's fingers are on.  Who is displayed and scheduled, and what the    *)
(* editor does with a character, are the business of modules Kernel and    *)
(* Terminal; here live and pit, and which terminals have a line begun.     *)
(***************************************************************************)
EXTENDS Integers, Sequences, FiniteSets

CONSTANTS
  Board,   (* the keys used, as <<prefix, code>>: a key with the prefix 0xE0 *)
           (* sends it, and key_handler does nothing, before its code        *)
  Hands,   (* bound: keys held at once                                       *)
  Allowed  (* the risks the user takes                                       *)

Risks ==
  { "two_of_a_kind",    \* both shifts held, or both controls, or both alts,
                        \* and one let go: key_handler forgets the other
    "caps_held",        \* caps lock held until it repeats
    "tab_elsewhere",    \* Tab where no text is shown: a file's name is typed
                        \* there
    "copy_elsewhere",   \* Ctrl+C where the desktop is not shown: its
                        \* background is replaced
    "insert_elsewhere", \* Insert there: the desktop is drawn over the screen
    "exit_elsewhere" }  \* the shell ends where it is not displayed: the
                        \* display is the desktop's, the picture what it was

ASSUME BoardAssumption   == Board \subseteq {0, 224} \X (1..88)
ASSUME HandsAssumption   == Hands \in Nat
ASSUME AllowedAssumption == Allowed \subseteq Risks

LCTRL == 29  LSHIFT == 42  RSHIFT == 54  LALT == 56  CAPS == 58
ESC == 1  BACKSPACE == 14  TAB == 15  ENTER == 28  F1 == 59  F2 == 60
UP == 72  LEFT == 75  RIGHT == 77  DOWN == 80  INSERT == 82
L_KEY == 38  C_KEY == 46

VARIABLES
  held, locked,   \* the user's truth: the keys held, and caps lock
  flags,          \* shift_flag, ctrl_flag, alt_flag, caps_flag
  live, pit,      \* term_live, term_pit
  shellUp,        \* term[1].pcb_live # NULL
  written,        \* the terminals with a line begun in key_buf
  remembered,     \* those with a line in their history
  struck,         \* the key just pressed, and, where text was shown, what was
                  \* typed (anything where it was not)
  paint,          \* paint_color, by its key, and paint_size
  canvas,         \* paint_window: "blank" or "drawn"
  background,     \* bg_flag, and background_img: a file's or a canvas
  picture,        \* the terminal whose picture was drawn last
  lastKey         \* last_key, by its character
deskVars == <<paint, canvas, background>>
kbVars == <<held, locked, flags, live, pit, shellUp, written, remembered, struck,
            deskVars, picture, lastKey>>

Nothing == "nothing"
NoKey   == [key |-> <<0, 0>>, text |-> FALSE, typed |-> Nothing]

KbInit ==
  /\ held = {} /\ locked = FALSE
  /\ flags = [shift |-> FALSE, ctrl |-> FALSE, alt |-> FALSE, caps |-> FALSE]
  /\ live = 0 /\ pit = 0 /\ shellUp = FALSE
  /\ written = {} /\ remembered = {}
  /\ struck = NoKey
  /\ paint = [color |-> 9, size |-> 3]
  /\ canvas = "blank"
  /\ background = [flag |-> 0, image |-> "boot"]
  /\ picture = 0 /\ lastKey = "w"

(***************************************************************************)
(* The tables, by the rows of keys: the codes of a row are consecutive.    *)
(***************************************************************************)
KeyRow(first, row) == [code \in first..(first + Len(row) - 1) |-> row[code - first + 1]]
Beside(f, g) == [code \in DOMAIN f \cup DOMAIN g |-> IF code \in DOMAIN f THEN f[code] ELSE g[code]]

Lower == Beside(KeyRow(16, <<"q", "w", "e", "r", "t", "y", "u", "i", "o", "p">>),
         Beside(KeyRow(30, <<"a", "s", "d", "f", "g", "h", "j", "k", "l">>),
                KeyRow(44, <<"z", "x", "c", "v", "b", "n", "m">>)))
Upper == Beside(KeyRow(16, <<"Q", "W", "E", "R", "T", "Y", "U", "I", "O", "P">>),
         Beside(KeyRow(30, <<"A", "S", "D", "F", "G", "H", "J", "K", "L">>),
                KeyRow(44, <<"Z", "X", "C", "V", "B", "N", "M">>)))
Below == Beside(KeyRow(2, <<"1", "2", "3", "4", "5", "6", "7", "8", "9", "0", "-", "=">>),
         Beside(KeyRow(26, <<"[", "]">>), Beside(KeyRow(39, <<";", "'", "backquote">>),
         Beside(KeyRow(43, <<"\\">>), KeyRow(51, <<",", ".", "/">>)))))
Above == Beside(KeyRow(2, <<"!", "@", "#", "$", "%", "^", "&", "*", "(", ")", "_", "+">>),
         Beside(KeyRow(26, <<"{", "}">>), Beside(KeyRow(39, <<":", "\"", "~">>),
         Beside(KeyRow(43, <<"|">>), KeyRow(51, <<"<", ">", "?">>)))))
Same  == Beside(KeyRow(ESC, <<"\\e">>), Beside(KeyRow(BACKSPACE, <<"\\b", "\\t">>),
         Beside(KeyRow(ENTER, <<"\\n">>), Beside(KeyRow(55, <<"*">>), Beside(KeyRow(57, <<" ">>),
         Beside(KeyRow(74, <<"-">>), KeyRow(78, <<"+">>)))))))

kbdus            == Beside(Lower, Beside(Below, Same))
kbdus_shift      == Beside(Upper, Beside(Above, Same))
kbdus_caps       == Beside(Upper, Beside(Below, Same))
kbdus_caps_shift == Beside(Lower, Beside(Above, Same))

\* Mutant: caps lock is not looked at beside shift.
Table_ShiftOnly(f) ==
  CASE ~f.shift /\ ~f.caps -> kbdus
    [] ~f.shift /\ f.caps  -> kbdus_caps
    [] f.shift -> kbdus_shift

Table(f) ==
  CASE ~f.shift /\ ~f.caps -> kbdus
    [] ~f.shift /\ f.caps  -> kbdus_caps
    [] f.shift /\ ~f.caps  -> kbdus_shift
    [] f.shift /\ f.caps   -> kbdus_caps_shift

CharOf(table, code) == IF code \in DOMAIN table THEN table[code] ELSE Nothing

(***************************************************************************)
(* key_handler.  A release is the code plus 128.                           *)
(***************************************************************************)
Stays(flag, keys, code) == code \in keys \/ (flag /\ code - 128 \notin keys)

NewFlags(code) ==
  [shift |-> Stays(flags.shift, {LSHIFT, RSHIFT}, code),
   ctrl  |-> Stays(flags.ctrl, {LCTRL}, code),
   alt   |-> Stays(flags.alt, {LALT}, code),
   caps  |-> IF code = CAPS THEN ~flags.caps ELSE flags.caps]

\* isModex and isPacman go with the terminal displayed: module Kernel's
\* ModeMatches and PacmanEscapable.
Desk == live = 0
Game == live = 2

\* Mutant: whatever is displayed.
PaintKey_Anywhere(code) ==
  [color |-> IF code \in 2..11 THEN code ELSE paint.color,
   size  |-> IF code \in 16..21 THEN code - 15 ELSE paint.size]

\* The digits choose the colour, q to y the size.
PaintKey(code) ==
  [color |-> IF Desk /\ code \in 2..11 THEN code ELSE paint.color,
   size  |-> IF Desk /\ code \in 16..21 THEN code - 15 ELSE paint.size]

\* What the code asks for, f being the flags it leaves.
Operation(code, f) ==
  CASE code = ESC /\ Game /\ pit = 2 -> "end"
    [] code = INSERT -> "insert"
    [] code > 128 -> "none"
    [] code = TAB -> "tab"
    [] code \in {UP, DOWN} -> "history"
    [] code \in {LEFT, RIGHT} -> "move"
    [] OTHER ->
         IF f.ctrl THEN CASE code = L_KEY -> "clear" [] code = C_KEY -> "copy" [] OTHER -> "none"
         ELSE IF f.alt THEN CASE code = F1 -> "desk" [] code = F2 -> "shell" [] OTHER -> "none"
         ELSE "char"

Displays(t) == live' = t /\ picture' = t
SameDisplay == UNCHANGED <<live, pit, shellUp, picture>>
SameLines   == UNCHANGED <<written, remembered>>

\* key_to_ter, by what is left of the line.
Edit(char) ==
  /\ CASE char = "\\n" -> /\ written' = written \ {live}
                         /\ remembered' = remembered \cup (written \cap {live})
       [] char = "\\b" -> /\ written' \in {written, written \ {live}}
                         /\ UNCHANGED remembered
       [] OTHER -> written' = written \cup {live} /\ UNCHANGED remembered

\* halt of the game from the handler, which does not come back.
EndGame == /\ Displays(0) /\ written' = written \ {live}
           /\ UNCHANGED <<pit, shellUp, remembered, canvas, background>>

Insert ==
  /\ ~Desk => "insert_elsewhere" \in Allowed
  /\ background' = IF Desk THEN [flag |-> 1 - background.flag,
                                 image |-> IF background.flag = 0 THEN "img.raw" ELSE "img1.raw"]
                   ELSE background
  /\ picture' = 0
  /\ UNCHANGED <<live, pit, shellUp, canvas>> /\ SameLines

\* tab_comp: the first file's name completes an empty word.
TabKey ==
  /\ live # 1 => "tab_elsewhere" \in Allowed
  /\ written' = written \cup {live}
  /\ UNCHANGED <<remembered, canvas, background>> /\ SameDisplay

\* hist_access, where there is a history.
HistoryKey ==
  /\ written' \in {written} \cup
       (IF live \in remembered THEN {written \cup {live}, written \ {live}} ELSE {})
  /\ UNCHANGED <<remembered, canvas, background>> /\ SameDisplay

ClearKey ==
  /\ written' = IF live = 1 THEN written \ {1} ELSE written
  /\ canvas'  = IF Desk THEN "blank" ELSE canvas
  /\ UNCHANGED <<remembered, background>> /\ SameDisplay

\* paint_background.
CopyKey ==
  /\ ~Desk => "copy_elsewhere" \in Allowed
  /\ background' = [background EXCEPT !.image = canvas]
  /\ UNCHANGED canvas /\ SameDisplay /\ SameLines

DeskKey ==
  /\ IF Game THEN SameDisplay ELSE Displays(0) /\ UNCHANGED <<pit, shellUp>>
  /\ UNCHANGED <<canvas, background>> /\ SameLines

ShellKey ==
  /\ IF Game THEN SameDisplay
     ELSE /\ Displays(1)
          /\ shellUp' = TRUE
          /\ pit' = IF shellUp THEN pit ELSE 1
  /\ UNCHANGED <<canvas, background>> /\ SameLines

CharKey(char) ==
  /\ IF live = 1 /\ char # Nothing THEN Edit(char) ELSE SameLines
  /\ UNCHANGED <<canvas, background>> /\ SameDisplay

\* The character the code stands for, if it is one to type.
Typing(code, f) == IF Operation(code, f) = "char" THEN CharOf(Table(f), code) ELSE Nothing

KeyHandler(code) ==
  LET f  == NewFlags(code)
      op == Operation(code, f)
  IN /\ flags' = f
     /\ paint' = PaintKey(code)
     /\ lastKey' = IF Game /\ Typing(code, f) \in {"a", "d", "s", "w"} THEN Typing(code, f)
                   ELSE lastKey
     /\ \/ op = "end" /\ EndGame
        \/ op = "insert" /\ Insert
        \/ op = "tab" /\ TabKey
        \/ op = "history" /\ HistoryKey
        \/ op = "clear" /\ ClearKey
        \/ op = "copy" /\ CopyKey
        \/ op = "desk" /\ DeskKey
        \/ op = "shell" /\ ShellKey
        \/ op \in {"char", "move", "none"} /\ CharKey(Typing(code, f))

(***************************************************************************)
(* The user's hands, and what else happens.                                *)
(***************************************************************************)
Kinds == { {<<0, LSHIFT>>, <<0, RSHIFT>>}, {<<0, LCTRL>>, <<224, LCTRL>>},
           {<<0, LALT>>, <<224, LALT>>} }
Holding(kind) == kind \cap held # {}

Strike(k) ==
  /\ KeyHandler(k[2])
  /\ struck' = [key |-> k, text |-> live = 1, typed |-> Typing(k[2], NewFlags(k[2]))]

Press(k) ==
  /\ k \notin held /\ Cardinality(held) < Hands
  /\ held' = held \cup {k}
  /\ locked' = IF k[2] = CAPS THEN ~locked ELSE locked
  /\ Strike(k)

\* The keyboard repeats the key last pressed.
Repeat(k) ==
  /\ struck.key = k
  /\ k[2] = CAPS => "caps_held" \in Allowed
  /\ Strike(k)
  /\ UNCHANGED <<held, locked>>

Release(k) ==
  /\ k \in held
  /\ (\E kind \in Kinds : kind \subseteq held /\ k \in kind) => "two_of_a_kind" \in Allowed
  /\ held' = held \ {k}
  /\ KeyHandler(k[2] + 128)
  /\ struck' = NoKey
  /\ UNCHANGED locked

Elsewhere == struck' = NoKey /\ UNCHANGED <<held, locked, flags, remembered, paint, background, lastKey>>

\* The scheduler; a click on the terminal's or the game's icon; a stroke of
\* the brush; the end of the shell.
Tick == /\ pit' \in {0} \cup {t \in {1} : shellUp} \cup {t \in {2} : Game}
        /\ Elsewhere /\ UNCHANGED <<live, shellUp, written, canvas, picture>>

Icon(t) == /\ Desk /\ Displays(t)
           /\ shellUp' = (shellUp \/ t = 1)
           /\ pit' = IF t = 1 /\ shellUp THEN pit ELSE t
           /\ Elsewhere /\ UNCHANGED <<written, canvas>>

DrawPaint == /\ Desk /\ canvas' = "drawn"
             /\ Elsewhere /\ SameDisplay /\ UNCHANGED written

ShellExits == /\ pit = 1 /\ shellUp
              /\ live # 1 => "exit_elsewhere" \in Allowed
              /\ live' = 0 /\ picture' = IF live = 1 THEN 0 ELSE picture
              /\ shellUp' = FALSE /\ written' = written \ {live}
              /\ Elsewhere /\ UNCHANGED <<pit, canvas>>

KbNext ==
  \/ \E k \in Board : Press(k) \/ Repeat(k) \/ Release(k)
  \/ Tick \/ Icon(1) \/ Icon(2) \/ DrawPaint \/ ShellExits

(***************************************************************************)
(* Properties.                                                             *)
(***************************************************************************)
\* What is typed is what the keys say that the fingers are on: whatever was
\* pressed and let go before, in whatever order, on the desktop and in the
\* game too, no modifier is stuck and none forgotten (key.c:250-271,
\* 350-358).
Legend(code) ==
  LET shift == Holding({<<0, LSHIFT>>, <<0, RSHIFT>>}) IN
  IF Holding({<<0, LCTRL>>, <<224, LCTRL>>}) \/ Holding({<<0, LALT>>, <<224, LALT>>}) THEN Nothing
  ELSE CASE code \in DOMAIN Lower -> IF shift # locked THEN Upper[code] ELSE Lower[code]
         [] code \in DOMAIN Below -> IF shift THEN Above[code] ELSE Below[code]
         [] code \in DOMAIN Same \ {TAB} -> Same[code]
         [] OTHER -> Nothing
Typed == struck.text => struck.typed = Legend(struck.key[2])

\* Keys act on what is displayed: those of the editor on the shell's line, of
\* the paint program on the desktop and of the game on the game, also the
\* arrows, which ask for no mode but find no line and no history elsewhere;
\* and the picture is the displayed terminal's (key.c:210-249, 274-343).
Confined ==
  [][ /\ ~Desk => UNCHANGED deskVars
      /\ live # 1 => UNCHANGED written
      /\ ~Game => UNCHANGED lastKey
      /\ picture' = live' ]_kbVars
=============================================================================
