-------------------------------- MODULE Chat --------------------------------
(***************************************************************************)
(* Chat: the programs that talk over the serial line (ece391chat.c,        *)
(* ece391tx.c and ece391rx.c) on two machines, and the calls read_serial   *)
(* and write_serial of tux.c they are made of.                             *)
(*                                                                         *)
(* A step of a program ends at its next read_serial or read of the         *)
(* keyboard.  A byte is a letter (a small number, 0 the end of a string)   *)
(* or one of the five codes; a program may be run again after it has       *)
(* ended, and finds in its receiver what was sent to the run before it.    *)
(***************************************************************************)
EXTENDS Integers, Sequences, SequencesExt

CONSTANTS
  Names,     (* what users answer to "what's your name?", without newline   *)
  Lines,     (* what they type afterwards, or give tx as its argument       *)
  Exit,      (* the line that says exit                                     *)
  Counts,    (* the arguments of rx                                         *)
  Fifo,      (* bytes the receiver of the serial port holds (16)            *)
  Buffer,    (* letters a buffer holds (1024); no name or line fills it      *)
  MaxRuns    (* bound: programs run in all                                   *)

Machines == {1, 2}
Other(p) == 3 - p
BYE   == 253      \* 0xFD
ACK   == 250      \* 0xFA
HELLO == 252      \* 0xFC
DONE  == 254      \* 0xFE
NONE  == 255      \* 0xFF, read_serial's answer when nothing came
Unsaid == <<0>>   \* a buffer nothing was read into

\* What the keyboard types: no letter is one of the codes, or the end of a
\* string.
Letters == 1..127

ASSUME LettersAssumption == Names \cup Lines \subseteq Seq(Letters)
ASSUME LinesAssumption == Exit \in Lines
ASSUME CountsAssumption == Counts \subseteq Nat
ASSUME BufferAssumption == Buffer \in Nat /\ \A l \in Names \cup Lines : Len(l) < Buffer
ASSUME FifoAssumption == Fifo \in Nat \ 0..1

VARIABLES
  line,      \* line[p]: bytes on the way to p or in its receiver
  prog, pc,  \* the program p runs, and the call it is in
  turn,      \* turn
  told,      \* com_flag: names exchanged
  name,      \* buf
  their,     \* buf2
  said,      \* buf3, tx's buf: the line being sent
  last,      \* buf4: the message heard last
  rest,      \* what is left to send, or (in rx) the bytes still to count
  runs       \* programs begun on p

vars == <<line, prog, pc, turn, told, name, their, said, last, rest, runs>>

Init ==
  /\ line = [p \in Machines |-> <<>>]         \* serial_init clears the FIFOs
  /\ prog = [p \in Machines |-> "none"]
  /\ pc   = [p \in Machines |-> "ended"]
  /\ turn = [p \in Machines |-> FALSE]
  /\ told = [p \in Machines |-> 0]
  /\ name = [p \in Machines |-> Unsaid]
  /\ their = [p \in Machines |-> <<>>]
  /\ said = [p \in Machines |-> Unsaid]
  /\ last = [p \in Machines |-> <<>>]
  /\ rest = [p \in Machines |-> <<>>]
  /\ runs = [p \in Machines |-> 0]

Reading == {"first", "hello", "ack", "hear", "take"}
Talking(p) == prog[p] = "chat" /\ told[p] = 2

(***************************************************************************)
(* The line: write_serial waits only for the transmitter, so a full        *)
(* receiver loses the byte; read_serial takes a byte, or gives up after    *)
(* 10241 polls with a clock tick between them.                             *)
(***************************************************************************)
Send(p, b) ==
  line' = [line EXCEPT ![Other(p)] = IF Len(@) < Fifo THEN Append(@, b) ELSE @]

Read(p) == IF line[p] = <<>> THEN NONE ELSE Head(line[p])
Took(p) == line' = [line EXCEPT ![p] = IF @ = <<>> THEN @ ELSE Tail(@)]
Answer(p, b) ==       \* a byte read and another sent
  line' = [line EXCEPT ![p] = Tail(@),
                       ![Other(p)] = IF Len(@) < Fifo THEN Append(@, b) ELSE @]

\* Mutant: read_serial without its limit on polls.
Waits_Forever(p) == pc[p] \in Reading /\ line[p] # <<>>

Waits(p) == pc[p] \in Reading

End(p) == pc' = [pc EXCEPT ![p] = "ended"]
\* The BYE that chat sends as it ends.
Leave(p) == pc' = [pc EXCEPT ![p] = "left"]

(***************************************************************************)
(* chat.                                                                   *)
(***************************************************************************)
First(s) == IF s = <<>> THEN 0 ELSE Head(s)

\* Where the loops of chat go on, t being turn and k com_flag; buf4 is zeroed
\* before a message is heard.
Continue(p, t, k) ==
  /\ turn' = [turn EXCEPT ![p] = t]
  /\ told' = [told EXCEPT ![p] = k]
  /\ pc'   = [pc EXCEPT ![p] = IF ~t THEN "hear" ELSE IF k < 2 THEN "send" ELSE "type"]
  /\ rest' = [rest EXCEPT ![p] = IF t /\ k < 2 THEN name[p] ELSE <<>>]
  /\ last' = [last EXCEPT ![p] = IF ~t /\ k = 2 THEN <<>> ELSE @]

\* A program begun: its variables are new.
Begin(p, program, at, n, l, r, junk) ==
  /\ prog' = [prog EXCEPT ![p] = program]
  /\ pc'   = [pc EXCEPT ![p] = at]
  /\ name' = [name EXCEPT ![p] = n]
  /\ said' = [said EXCEPT ![p] = l]
  /\ rest' = [rest EXCEPT ![p] = r]
  /\ last' = [last EXCEPT ![p] = junk]
  /\ their' = [their EXCEPT ![p] = <<>>]
  /\ turn' = [turn EXCEPT ![p] = FALSE]
  /\ told' = [told EXCEPT ![p] = 0]

\* buf4 begins as what the stack held: possibly an earlier run's "exit".
StartChat(p) ==
  \E n \in Names, junk \in {<<>>, Exit} :
    Begin(p, "chat", "first", n, Unsaid, <<>>, junk) /\ Send(p, First(n))

\* Mutant: equal first letters let both begin.
Greet_Equal(p) ==
  /\ pc[p] = "first" /\ Waits(p) /\ Took(p)
  /\ IF Read(p) = NONE
     THEN End(p) /\ UNCHANGED <<turn, told, rest, last>>
     ELSE Continue(p, Read(p) >= First(name[p]), 0)
  /\ UNCHANGED <<prog, name, their, said, runs>>

\* The first letters decide who begins.
Greet(p) ==
  /\ pc[p] = "first" /\ Waits(p) /\ Took(p)
  /\ IF Read(p) = NONE
     THEN End(p) /\ UNCHANGED <<turn, told, rest, last>>
     ELSE Continue(p, Read(p) > First(name[p]), 0)
  /\ UNCHANGED <<prog, name, their, said, runs>>

\* Mutant: letters are sent without waiting for their acknowledgement.
SendLetter_Streams(p) ==
  /\ pc[p] = "send" /\ rest[p] # <<>>
  /\ Send(p, Head(rest[p]))
  /\ rest' = [rest EXCEPT ![p] = Tail(@)]
  /\ UNCHANGED <<pc, prog, turn, told, name, their, said, last, runs>>

SendLetter(p) ==
  /\ pc[p] = "send" /\ rest[p] # <<>>
  /\ Send(p, Head(rest[p]))
  /\ rest' = [rest EXCEPT ![p] = Tail(@)]
  /\ pc' = [pc EXCEPT ![p] = "ack"]
  /\ UNCHANGED <<prog, turn, told, name, their, said, last, runs>>

Acknowledged(p) ==
  /\ pc[p] \in {"ack", "hello"} /\ Waits(p) /\ Took(p)
  /\ pc' = [pc EXCEPT ![p] = IF Read(p) = ACK THEN "send" ELSE "ended"]
  /\ UNCHANGED <<prog, turn, told, name, their, said, last, rest, runs>>

\* Mutant: the line typed is compared with "exit".
ChatSent_Typed(p) ==
  /\ pc[p] = "send" /\ rest[p] = <<>> /\ prog[p] = "chat"
  /\ IF told[p] = 2 /\ said[p] = Exit
     THEN Send(p, BYE) /\ Leave(p) /\ UNCHANGED <<turn, told, rest, last>>
     ELSE Send(p, DONE) /\ Continue(p, FALSE, IF told[p] < 2 THEN told[p] + 1 ELSE 2)
  /\ UNCHANGED <<prog, name, their, said, runs>>

\* What chat compares with "exit" is what it has heard, not what was typed.
ChatSent(p) ==
  /\ pc[p] = "send" /\ rest[p] = <<>> /\ prog[p] = "chat"
  /\ IF told[p] = 2 /\ last[p] = Exit
     THEN Send(p, BYE) /\ Leave(p) /\ UNCHANGED <<turn, told, rest, last>>
     ELSE Send(p, DONE) /\ Continue(p, FALSE, IF told[p] < 2 THEN told[p] + 1 ELSE 2)
  /\ UNCHANGED <<prog, name, their, said, runs>>

Types(p) ==
  /\ pc[p] = "type"
  /\ \E l \in Lines :
       /\ said' = [said EXCEPT ![p] = l]
       /\ rest' = [rest EXCEPT ![p] = l]
  /\ pc' = [pc EXCEPT ![p] = "send"]
  /\ UNCHANGED <<line, prog, turn, told, name, their, last, runs>>

\* A letter is stored and acknowledged; the end of a name or message passes
\* the turn; only a message can end with BYE, in a name it is a letter.  Nothing
\* keeps a letter inside the buffer: the first one past it overwrites the
\* program's stack, and what it does then is undefined.
Hear(p) ==
  /\ pc[p] = "hear" /\ Waits(p)
  /\ CASE Read(p) = NONE -> Took(p) /\ End(p) /\ UNCHANGED <<turn, told, rest, their, last>>
       [] Read(p) = BYE /\ told[p] = 2 ->
            Took(p) /\ End(p) /\ UNCHANGED <<turn, told, rest, their, last>>
       [] Read(p) = DONE -> /\ Took(p) /\ UNCHANGED their
                            /\ Continue(p, TRUE, IF told[p] < 2 THEN told[p] + 1 ELSE 2)
       [] OTHER -> LET heard == IF told[p] < 2 THEN their[p] ELSE last[p] IN
                   /\ Answer(p, ACK)
                   /\ IF told[p] < 2
                      THEN their' = [their EXCEPT ![p] = Append(@, Read(p))] /\ UNCHANGED last
                      ELSE last' = [last EXCEPT ![p] = Append(@, Read(p))] /\ UNCHANGED their
                   /\ pc' = [pc EXCEPT ![p] = IF Len(heard) = Buffer THEN "overrun" ELSE @]
                   /\ UNCHANGED <<turn, told, rest>>
  /\ UNCHANGED <<prog, name, said, runs>>

(***************************************************************************)
(* tx and rx.                                                              *)
(***************************************************************************)
StartTx(p) ==
  \E l \in Lines : Begin(p, "tx", "hello", Unsaid, l, l, <<>>) /\ Send(p, HELLO)

TxSent(p) ==
  /\ pc[p] = "send" /\ rest[p] = <<>> /\ prog[p] = "tx"
  /\ Send(p, DONE) /\ End(p)
  /\ UNCHANGED <<prog, turn, told, name, their, said, last, rest, runs>>

StartRx(p) ==
  \E n \in Counts :
    /\ Begin(p, "rx", IF n = 0 THEN "ended" ELSE "take", Unsaid, Unsaid,
             [i \in 1..n |-> NONE], <<>>)
    /\ UNCHANGED line

\* The greeting counts as one of the bytes rx was asked for; last is what it
\* has printed.
Take(p) ==
  /\ pc[p] = "take" /\ Waits(p)
  /\ IF Read(p) \in {NONE, DONE}
     THEN Took(p) /\ End(p) /\ UNCHANGED <<rest, last>>
     ELSE /\ Answer(p, ACK)
          /\ rest' = [rest EXCEPT ![p] = Tail(@)]
          /\ last' = [last EXCEPT ![p] = IF Read(p) = HELLO THEN @ ELSE Append(@, Read(p))]
          /\ pc' = [pc EXCEPT ![p] = IF Len(rest[p]) = 1 THEN "ended" ELSE @]
  /\ UNCHANGED <<prog, turn, told, name, their, said, runs>>

Start(p) ==
  /\ pc[p] \in {"ended", "left"} /\ runs[1] + runs[2] < MaxRuns
  /\ runs' = [runs EXCEPT ![p] = @ + 1]
  /\ StartChat(p) \/ StartTx(p) \/ StartRx(p)

\* What a program does without its user.
Step(p) ==
  \/ Greet(p) \/ SendLetter(p) \/ Acknowledged(p) \/ ChatSent(p) \/ Hear(p)
  \/ TxSent(p) \/ Take(p)

Next == \E p \in Machines : Start(p) \/ Types(p) \/ Step(p)

Spec == Init /\ [][Next]_vars
\* Programs run; users may never answer.
FairSpec == Spec /\ \A p \in Machines : WF_vars(Step(p))

(***************************************************************************)
(* Properties.  A first session is one no earlier run has left bytes for.  *)
(***************************************************************************)
Chatting == \A p \in Machines : runs[p] = 1 /\ prog[p] = "chat"
Sending  == runs = [p \in Machines |-> 1] /\ \E p \in Machines : prog[p] = "tx" /\ prog[Other(p)] = "rx"

\* What a program has heard is what the other sent: a prefix of the other's
\* name until the names are exchanged and the name itself after, a message
\* shown before the next is asked for is the one the other typed, no buffer
\* overflows, and rx prints a prefix of tx's argument; whoever timed out in between
\* (ece391chat.c:37-119, ece391tx.c:32-40, ece391rx.c:28-43).
Heard ==
  /\ Chatting => \A p \in Machines :
       /\ IsPrefix(their[p], name[Other(p)])
       /\ Talking(p) => their[p] = name[Other(p)]
       /\ pc[p] = "type" /\ said[Other(p)] # Unsaid => last[p] = said[Other(p)]
       /\ pc[p] # "overrun"
  /\ Sending => \A p \in Machines : prog[p] = "rx" => IsPrefix(last[p], said[Other(p)])

\* At most one of two chatting programs has the turn once both know the
\* names, and at most one byte is then under way: no two users are asked for
\* a message at once, no acknowledgement meets a letter, no receiver
\* overruns (ece391chat.c:34,71-119).
OneSpeaks ==
  Chatting /\ Talking(1) /\ Talking(2) =>
    /\ ~(turn[1] /\ turn[2] /\ pc[1] \in {"type", "send", "ack"} /\ pc[2] \in {"type", "send", "ack"})
    /\ Len(line[1]) + Len(line[2]) <= 1

\* A program that leaves with BYE has heard "exit" from the other, or has
\* heard no message at all and compared what its stack held before
\* (ece391chat.c:87).
ExitMeant ==
  Chatting => \A p \in Machines : pc[p] = "left" => said[Other(p)] \in {Exit, Unsaid}

\* Nobody waits for the line for ever: neither two users with the same first
\* letter, who both wait for the other to begin, nor one whose peer has
\* ended, nor a program run again in the middle of the other's session; two
\* that then hear, and acknowledge, only each other's acknowledgements stop
\* when a buffer is overrun (ece391chat.c:34,94-115, tux.c:18).
NoneStuck == \A p \in Machines : Waits(p) ~> pc[p] \notin Reading
=============================================================================
