------------------------------- MODULE ZOrder -------------------------------
(***************************************************************************)
(* What a desktop of overlapping windows is: a stack, the topmost last,    *)
(* each window on it once.  A window may come with others that are laid on *)
(* it, raised with it and closed with it.                                  *)
(***************************************************************************)
EXTENDS Integers, Sequences, SequencesExt

CONSTANTS Initial,  (* the stack at first                                    *)
          Groups    (* sequences: a window and what comes with it            *)

VARIABLE stack

Init == stack = Initial

\* r has the windows of s but those of g, once each and in the same order: who
\* comes next in r comes later in s.
Without(s, g, r) ==
  /\ Range(r) = Range(s) \ Range(g)
  /\ \A i \in 1..(Len(r) - 1) : \A k, l \in DOMAIN s :
       r[i] = s[k] /\ r[i + 1] = s[l] => k < l

\* A step from the stack s to the stack t, on the windows of g.
Open(s, t, g)  == Range(g) \cap Range(s) = {} /\ t = s \o g
Raise(s, t, g) == LET r == SubSeq(t, 1, Len(t) - Len(g))
                  IN Range(g) \subseteq Range(s) /\ t = r \o g /\ Without(s, g, r)
Close(s, t, g) == Range(g) \subseteq Range(s) /\ Without(s, g, t)

Next ==
  \E s \in {stack}, t \in {stack'}, g \in Groups :
    Open(s, t, g) \/ Raise(s, t, g) \/ Close(s, t, g)

Spec == Init /\ [][Next]_stack
=============================================================================
