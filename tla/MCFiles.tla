------------------------------- MODULE MCFiles -------------------------------
(***************************************************************************)
(* Files for TLC: a program that ends with its last block, a text that     *)
(* ends inside one, an empty file, on a disk whose blocks are not in the   *)
(* files' order.  Three letters stand for a name, four for one that fills  *)
(* its field of the directory.                                             *)
(***************************************************************************)
EXTENDS Syserr

MCDentries == <<".", "rtc", "prog", "text", "empty">>

\* Blocks past a file's end number block 0, as on the disk.
MCBlocks(s) == [k \in 0..2 |-> IF k < Len(s) THEN s[k + 1] ELSE 0]

MCInode ==
  [name \in {".", "rtc", "prog", "text", "empty"} |->
     CASE name = "prog" -> [length |-> 4, block |-> MCBlocks(<<3, 1>>)]
       [] name = "text" -> [length |-> 3, block |-> MCBlocks(<<2, 0>>)]
       [] OTHER         -> [length |-> 0, block |-> MCBlocks(<<>>)]]

MCData == [b \in 0..3 |->
             [o \in 0..1 |-> <<"a", "b", "c", "d", "e", "f", "g", "h">>[2 * b + o + 1]]]

MCSpell ==
  [name \in {".", "rtc", "prog", "text", "empty"} |->
     CASE name = "."    -> <<".">>
       [] name = "rtc"  -> <<"r", "t", "c">>
       [] name = "prog" -> <<"p", "r", "o">>
       [] name = "text" -> <<"t", "e", "x", "t">>
       [] OTHER         -> <<"e", "m", "p">>]
=============================================================================
