-------------------------------- MODULE Heap --------------------------------
(***************************************************************************)
(* malloc and free: student-distrib/paging.c.  Blocks are taken downwards  *)
(* from the bottom (the highest address) of the heap and kept in a list in *)
(* that order.  A block's mem_end is one above the block's last byte plus  *)
(* one, so that a block that follows another directly has                  *)
(* mem_end = the other's mem_start + 1.                                    *)
(*                                                                         *)
(* The programs malloc, free and pmap call these, one command at a time,   *)
(* from the only terminal that runs commands; the blocks outlive them.     *)
(***************************************************************************)
EXTENDS Integers, Sequences, FiniteSets, FiniteSetsExt, SequencesExt

CONSTANTS
  Bottom, Top,  (* mem_cache*FOURMEG-1 and (mem_cache-20)*FOURMEG-1          *)
  Word,         (* addresses are 0 .. Word - 1 and wrap (2^32)               *)
  Sizes,        (* the sizes asked for; malloc(0) is NULL and changes nothing*)
  NodeMax,      (* bound: nodes taken from the array at list_addr            *)
  Exposed       (* what the callers are allowed to run into                  *)

Hazards ==
  { "refusal",        \* a request for more than is left below the last block
    "wrap",           \* one so large that mem_start passes address 0
    "head_gap" }      \* one too large for the gap above the first block

ASSUME LayoutAssumption  == /\ Bottom \in Nat /\ Top \in Nat /\ Word \in Nat
                            /\ 0 < Top /\ Top < Bottom /\ Bottom < Word
ASSUME SizesAssumption   == Sizes \subseteq 1..(Word - 1)
ASSUME BoundAssumption   == NodeMax \in Nat
ASSUME ExposedAssumption == Exposed \subseteq Hazards

VARIABLES
  list,      \* from mem_head on: <<[start, end], ...>>
  listIdx,   \* list_idx: nodes are never given back
  granted    \* the callers' view: what malloc returned and nobody has freed

vars == <<list, listIdx, granted>>

Address == 0..(Word - 1)

Init == list = <<>> /\ listIdx = 0 /\ granted = {}

Wrap(a) == a % Word

\* Mutant: a block takes no more than its size off the list's free end.
NewNode_NoSlack(end, n) == [start |-> Wrap(end - n), end |-> end]

NewNode(end, n) == [start |-> Wrap(end - n - 1), end |-> end]

\* Mutant: the comparison that finds a gap is off by one.
GapAfter_OneMore(i) == Wrap(list[i].start + 2 - list[i + 1].end)

\* Free bytes between two neighbours of the list, counted in 32 bits.
GapAfter(i) == Wrap(list[i].start + 1 - list[i + 1].end)

HeadGap == list # <<>> /\ list[1].end # Bottom

\* Mutant: the gap below the first block is not looked at.
Fits_SkipsFirst(n) == {i \in 2..(Len(list) - 1) : GapAfter(i) >= n}

Fits(n) == {i \in 1..(Len(list) - 1) : GapAfter(i) >= n}

\* The gap above the first block is too small: nothing else is looked at.
Lost(n) == HeadGap /\ Bottom - list[1].end < n

\* How many nodes stay in front of the new one.
Place(n) ==
  IF list = <<>> \/ HeadGap THEN 0
  ELSE IF Fits(n) = {} THEN Len(list) ELSE Min(Fits(n))

\* mem_end: unassigned, hence anything, when the request is lost.
Ends(n) ==
  IF Lost(n) THEN Address
  ELSE IF Place(n) = 0 THEN {Bottom} ELSE {list[Place(n)].start + 1}

\* A node is used up and, unless the request is lost, linked, even when its
\* mem_start turns out to be above the top of the heap and NULL is returned;
\* otherwise its bytes are cleared and handed out.
Malloc(n) ==
  /\ listIdx < NodeMax
  /\ Lost(n) => "head_gap" \in Exposed
  /\ \E end \in Ends(n) :
       LET node == NewNode(end, n)
       IN /\ ~Lost(n) /\ end - n - 1 < Top => "refusal" \in Exposed
          /\ ~Lost(n) /\ end - n - 1 < 0   => "wrap" \in Exposed
          /\ list' = IF Lost(n) THEN list ELSE InsertAt(list, Place(n) + 1, node)
          /\ granted' = IF node.start < Top THEN granted
                        ELSE granted \cup {[at |-> node.start, size |-> n]}
  /\ listIdx' = listIdx + 1

\* free takes whatever address it is given; one in no node changes nothing.
Free(a) ==
  /\ \/ \E i \in 1..Len(list) : list[i].start = a /\ list' = RemoveAt(list, i)
     \/ (\A i \in 1..Len(list) : list[i].start # a) /\ UNCHANGED list
  /\ granted' = {b \in granted : b.at # a}
  /\ UNCHANGED listIdx

Next == \/ \E n \in Sizes : Malloc(n)
        \/ \E a \in Address : Free(a)

Spec == Init /\ [][Next]_vars
-----------------------------------------------------------------------------
\* The list is what free and pmap see: it runs from the bottom down without
\* overlap, and holds every block a caller holds, with its size.
Accounted ==
  /\ \A i \in 1..(Len(list) - 1) : list[i + 1].end <= list[i].start + 1
  /\ \A b \in granted : \E i \in 1..Len(list) :
       list[i].start = b.at /\ list[i].end = b.at + b.size + 1

\* "chekc space between every block" (malloc): a request for which the gap
\* above the first block, or one between two blocks, has room inside the heap
\* is granted there.
RoomFor(n) ==
  \/ HeadGap /\ Bottom - list[1].end >= n /\ Bottom - n - 1 >= Top
  \/ \E i \in 1..(Len(list) - 1) :
       list[i].start - n >= Top /\ list[i].start - n >= list[i + 1].end - 1

FitFound ==
  [][\A n \in Sizes : Malloc(n) /\ RoomFor(n) =>
       \E b \in granted' \ granted : b.at >= Top /\ b.at + b.size < Bottom]_vars

\* malloc and free keep the promise of Allocator.
A == INSTANCE Allocator WITH Low <- Top, High <- Bottom
Allocates == A!Spec
=============================================================================
