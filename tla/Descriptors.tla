----------------------------- MODULE Descriptors -----------------------------
(***************************************************************************)
(* What a program expects of open, read and close: a file is named once,   *)
(* when it is opened; from then on its descriptor hands out its contents   *)
(* in order, whatever happens to the other descriptors.                    *)
(***************************************************************************)
EXTENDS Integers, Sequences, FiniteSetsExt

CONSTANTS Contents,   (* file name -> its contents                           *)
          Fds, Sizes,
          ByItem      (* the files of which a read hands out one item        *)

VARIABLES table,      \* descriptor -> [file, pos], or Closed
          asked,      \* the file being opened, or nothing
          ret         \* the last call's answer: [val, data]

vars == <<table, asked, ret>>

Closed  == [file |-> "", pos |-> 0]
Nothing == ""
Error   == [val |-> -1, data |-> <<>>]
Free    == {fd \in Fds : table[fd] = Closed}

Init == table = [fd \in Fds |-> Closed] /\ asked = Nothing /\ ret = Error

Ask(name) ==
  /\ asked = Nothing /\ Free # {}
  /\ asked' = name
  /\ UNCHANGED <<table, ret>>

\* The lowest free descriptor, at the beginning of the file.
Open(name) ==
  /\ Free # {} /\ asked \in {Nothing, name}
  /\ table' = [table EXCEPT ![Min(Free)] = [file |-> name, pos |-> 0]]
  /\ ret' = [val |-> Min(Free), data |-> <<>>]
  /\ asked' = Nothing

Read(fd, n) ==
  LET f    == table[fd]
      want == IF f.file \in ByItem THEN 1 ELSE n
      data == SubSeq(Contents[f.file], f.pos + 1,
                     Min({f.pos + want, Len(Contents[f.file])}))
  IN /\ asked = Nothing /\ f # Closed
     /\ ret' = [val |-> Len(data), data |-> data]
     /\ table' = [table EXCEPT ![fd].pos = @ + Len(data)]
     /\ UNCHANGED asked

Close(fd) ==
  /\ asked = Nothing /\ table[fd] # Closed
  /\ table' = [table EXCEPT ![fd] = Closed]
  /\ ret' = [val |-> 0, data |-> <<>>]
  /\ UNCHANGED asked

\* No such file, no descriptor left, or a descriptor that is not open.
Fail == ret' = Error /\ asked = Nothing /\ UNCHANGED <<table, asked>>

Exit ==
  /\ asked = Nothing
  /\ table' = [fd \in Fds |-> Closed]
  /\ UNCHANGED <<asked, ret>>

Next ==
  \/ \E name \in DOMAIN Contents : Ask(name) \/ Open(name)
  \/ \E fd \in Fds : Close(fd) \/ \E n \in Sizes : Read(fd, n)
  \/ Fail \/ Exit

Spec == Init /\ [][Next]_vars
=============================================================================
