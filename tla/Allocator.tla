------------------------------ MODULE Allocator ------------------------------
(***************************************************************************)
(* What malloc and free promise their callers: a granted block lies inside *)
(* the heap, shares no byte with another granted block, and stays granted  *)
(* until its holder frees it.  Nothing is promised to a request refused.   *)
(***************************************************************************)
EXTENDS Integers

CONSTANTS Low, High,   (* the heap's bytes are Low .. High - 1               *)
          Sizes        (* the sizes callers ask for                          *)

VARIABLE granted       \* the blocks callers hold

Bytes(b) == b.at .. (b.at + b.size - 1)
Blocks   == [at : Low..(High - 1), size : Sizes]

Init == granted = {}

Grant ==
  \E b \in Blocks :
    /\ Bytes(b) \subseteq Low..(High - 1)
    /\ \A g \in granted : Bytes(g) \cap Bytes(b) = {}
    /\ granted' = granted \cup {b}

Release == \E b \in granted : granted' = granted \ {b}

Next == Grant \/ Release
Spec == Init /\ [][Next]_granted
=============================================================================
