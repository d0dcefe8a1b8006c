--------------------------- MODULE ProgramsProofs ---------------------------
(***************************************************************************)
(* Proofs about the programs with a protocol or a state of their own:      *)
(* Chat, for all names and lines, in a first session of two chats or of tx *)
(* and rx, whenever either of them gives up; and Pacman, for every maze and*)
(* every two places to start from.                                         *)
(***************************************************************************)
EXTENDS Chat, Pacman, SequenceTheorems, FiniteSetTheorems, TLAPS

(***************************************************************************)
(* Chat.                                                                   *)
(***************************************************************************)
\* The variables are arrays with a place for each machine.
Arrays == /\ DOMAIN line = Machines /\ DOMAIN prog = Machines /\ DOMAIN pc = Machines
          /\ DOMAIN turn = Machines /\ DOMAIN told = Machines /\ DOMAIN name = Machines
          /\ DOMAIN their = Machines /\ DOMAIN said = Machines /\ DOMAIN last = Machines
          /\ DOMAIN rest = Machines /\ runs \in [Machines -> Nat]

\* What has been said and what is still to be said make up the whole.
Parts(a, b, whole) == a \in Seq(Letters) /\ b \in Seq(Letters) /\ a \o b = whole

Mates(p, q) == /\ p \in Machines /\ q \in Machines /\ p # q
               /\ Other(p) = q /\ Other(q) = p

(***************************************************************************)
(* The phases of a chat between s, who speaks or has just spoken, and h,   *)
(* who hears.  A program that gives up while it waits stays in its phase.  *)
(***************************************************************************)
Ready(p)  == pc[p] \in {"hear", "ended"}
Unused(p) == ~turn[p] /\ told[p] = 0 /\ their[p] = <<>> /\ said[p] = Unsaid

Words(s)   == IF told[s] < 2 THEN name[s] ELSE said[s]
HeardBy(h) == IF told[h] < 2 THEN their[h] ELSE last[h]

\* Nobody has read the other's first letter.
Greeting(s, h) ==
  /\ pc[s] \in {"first", "ended"}
  /\ pc[h] \in {"first", "ended"}
  /\ Unused(s) /\ Unused(h)
  /\ line[s] = <<First(name[h])>> /\ line[h] = <<First(name[s])>>

\* Both have the same first letter.
Silent(s, h) ==
  /\ Ready(s) /\ Unused(s) /\ line[s] = <<>>
  /\ Ready(h) /\ Unused(h) /\ line[h] = <<>>

\* s alone has read the other's first letter: it waits for the other to begin,
\* or begins itself, sends a letter, or has a name with no letters.
Opens(s, h) ==
  /\ pc[h] \in {"first", "ended"}
  /\ Unused(h) /\ line[s] = <<>> /\ their[s] = <<>> /\ said[s] = Unsaid

Yields(s, h) ==
  /\ Opens(s, h) /\ ~turn[s] /\ told[s] = 0 /\ Ready(s)
  /\ line[h] = <<First(name[s])>> /\ First(name[s]) >= First(name[h])

Leads(s, h) ==
  /\ Opens(s, h) /\ turn[s] /\ told[s] = 0 /\ pc[s] = "send"
  /\ line[h] = <<First(name[s])>> /\ First(name[h]) > First(name[s])
  /\ rest[s] = name[s]

LeadsOn(s, h) ==
  /\ Opens(s, h) /\ turn[s] /\ told[s] = 0 /\ pc[s] \in {"ack", "ended"}
  /\ First(name[h]) > First(name[s])
  /\ \E x \in Letters : line[h] = <<First(name[s]), x>> /\ Parts(<<x>>, rest[s], name[s])

LeadsDone(s, h) ==
  /\ Opens(s, h) /\ ~turn[s] /\ told[s] = 1 /\ Ready(s)
  /\ line[h] = <<First(name[s]), DONE>> /\ First(name[h]) > First(name[s])
  /\ name[s] = <<>>

\* What a session has got to when it is the turn of s.
Told(s, h) ==
  /\ turn[s] /\ ~turn[h] /\ told[s] = told[h] /\ told[s] \in 0..2 /\ Ready(h)
  /\ told[s] = 0 => their[s] = <<>>
  /\ told[s] > 0 => their[s] = name[h]
  /\ told[s] = 2 => their[h] = name[s]
  /\ told[s] < 2 => said[s] = Unsaid /\ said[h] = Unsaid
  /\ told[s] = 2 => said[h] = Unsaid \/ last[s] = said[h]

\* s is asked for a line, has a letter to send, has sent the letter x, or has
\* the acknowledgement under way to it.
Asked(s, h) ==
  /\ Told(s, h) /\ pc[s] = "type" /\ told[s] = 2 /\ last[h] = <<>>
  /\ line[s] = <<>> /\ line[h] = <<>>

Says(s, h) ==
  /\ Told(s, h) /\ pc[s] = "send" /\ line[s] = <<>> /\ line[h] = <<>>
  /\ told[s] = 2 => said[s] \in Lines
  /\ Parts(HeardBy(h), rest[s], Words(s))

Spells(s, h) ==
  /\ Told(s, h) /\ pc[s] \in {"ack", "ended"}
  /\ line[s] = <<>>
  /\ told[s] = 2 => said[s] \in Lines
  /\ \E x \in Letters : /\ line[h] = <<x>> /\ HeardBy(h) \in Seq(Letters)
                        /\ Parts(Append(HeardBy(h), x), rest[s], Words(s))

Spelt(s, h) ==
  /\ Told(s, h) /\ pc[s] \in {"ack", "ended"}
  /\ line[s] = <<ACK>> /\ line[h] = <<>>
  /\ told[s] = 2 => said[s] \in Lines
  /\ Parts(HeardBy(h), rest[s], Words(s))

\* The turn is under way to h.
Passes(s, h) ==
  /\ ~turn[s] /\ ~turn[h] /\ Ready(s) /\ Ready(h)
  /\ line[s] = <<>> /\ line[h] = <<DONE>>
  /\ told[h] \in 0..2 /\ told[s] = (IF told[h] < 2 THEN told[h] + 1 ELSE 2)
  /\ their[h] = name[s]
  /\ told[h] = 0 => their[s] = <<>>
  /\ told[h] > 0 => their[s] = name[h]
  /\ told[h] < 2 => said[s] = Unsaid /\ said[h] = Unsaid
  /\ told[h] = 2 => last[h] = said[s]
  /\ told[s] = 2 => last[s] = <<>>

\* s has said BYE.
Leaves(s, h) ==
  /\ pc[s] = "left" /\ Ready(h) /\ ~turn[h]
  /\ told[s] = 2 /\ told[h] = 2 /\ their[s] = name[h] /\ their[h] = name[s]
  /\ line[s] = <<>> /\ line[h] \in {<<BYE>>, <<>>}
  /\ said[h] \in {Exit, Unsaid}

Phase(s, h) ==
  \/ Greeting(s, h) \/ Silent(s, h)
  \/ Yields(s, h) \/ Leads(s, h) \/ LeadsOn(s, h) \/ LeadsDone(s, h)
  \/ Asked(s, h) \/ Says(s, h) \/ Spells(s, h) \/ Spelt(s, h)
  \/ Passes(s, h) \/ Leaves(s, h)

ChatInv == /\ \A p \in Machines : name[p] \in Names
           /\ \E s \in Machines : Phase(s, Other(s))

(***************************************************************************)
(* The phases of tx on t and rx on r.                                      *)
(***************************************************************************)
Sends(t, r) == pc[r] \in {"take", "ended"}

Hello(t, r) ==
  /\ Sends(t, r) /\ pc[t] \in {"hello", "ended"}
  /\ line[t] = <<>> /\ line[r] = <<HELLO>> /\ last[r] = <<>> /\ rest[t] = said[t]

Tells(t, r) ==
  /\ Sends(t, r) /\ pc[t] = "send" /\ line[t] = <<>> /\ line[r] = <<>>
  /\ Parts(last[r], rest[t], said[t])

Letter(t, r) ==
  /\ Sends(t, r) /\ pc[t] \in {"ack", "ended"}
  /\ line[t] = <<>>
  /\ \E x \in Letters : /\ line[r] = <<x>> /\ last[r] \in Seq(Letters)
                        /\ Parts(Append(last[r], x), rest[t], said[t])

Reply(t, r) ==
  /\ Sends(t, r) /\ pc[t] \in {"hello", "ack", "ended"}
  /\ line[t] = <<ACK>> /\ line[r] = <<>> /\ Parts(last[r], rest[t], said[t])

Over(t, r) ==
  /\ Sends(t, r) /\ pc[t] = "ended" /\ line[t] = <<>>
  /\ line[r] \in {<<DONE>>, <<>>}
  /\ last[r] = said[t]

SendInv(t, r) ==
  /\ said[t] \in Lines
  /\ Hello(t, r) \/ Tells(t, r) \/ Letter(t, r) \/ Reply(t, r) \/ Over(t, r)

(***************************************************************************)
(* Before both have begun: p runs, q does not.                             *)
(***************************************************************************)
Nobody == \A p \in Machines : runs[p] = 0 /\ line[p] = <<>> /\ pc[p] = "ended"

Alone(p, q) ==
  /\ runs[p] = 1 /\ runs[q] = 0 /\ line[p] = <<>> /\ pc[q] = "ended"
  /\ \/ /\ prog[p] = "chat" /\ pc[p] \in {"first", "ended"}
        /\ Unused(p) /\ name[p] \in Names /\ line[q] = <<First(name[p])>>
     \/ /\ prog[p] = "tx" /\ pc[p] \in {"hello", "ended"}
        /\ said[p] \in Lines /\ rest[p] = said[p] /\ line[q] = <<HELLO>>
     \/ /\ prog[p] = "rx" /\ pc[p] \in {"take", "ended"}
        /\ last[p] = <<>> /\ line[q] = <<>>

Both == /\ \A p \in Machines : runs[p] = 1
        /\ Chatting => ChatInv
        /\ \A t \in Machines : prog[t] = "tx" /\ prog[Other(t)] = "rx" => SendInv(t, Other(t))

FirstRuns == \A p \in Machines : runs[p] <= 1

SessionInv == FirstRuns => Nobody \/ (\E p \in Machines : Alone(p, Other(p))) \/ Both
IInv == Arrays /\ SessionInv

\* The two machines.
LEMMA Pair ==
  ASSUME NEW p \in Machines
  PROVE  Mates(p, Other(p)) /\ Mates(Other(p), p) /\ Machines = {p, Other(p)}
BY DEF Machines, Other, Mates

\* A sequence of one byte.
LEMMA One ==
  ASSUME NEW a
  PROVE  <<a>> # <<>> /\ Head(<<a>>) = a /\ Tail(<<a>>) = <<>> /\ Len(<<a>>) = 1
<1>1. <<a>> # <<>> /\ Head(<<a>>) = a /\ Len(<<a>>) = 1
  OBVIOUS
<1>2. Tail(<<a>>) = <<>>
  OBVIOUS
<1>3. QED
  BY <1>1, <1>2

\* A sequence of two.
LEMMA Two ==
  ASSUME NEW a, NEW b
  PROVE  <<a, b>> # <<>> /\ Head(<<a, b>>) = a /\ Tail(<<a, b>>) = <<b>> /\ Len(<<a, b>>) = 2
<1>1. <<a, b>> # <<>> /\ Head(<<a, b>>) = a /\ Len(<<a, b>>) = 2
  OBVIOUS
<1>2. Tail(<<a, b>>) = <<b>>
  OBVIOUS
<1>3. QED
  BY <1>1, <1>2

\* Append to nothing.
LEMMA Append1 == ASSUME NEW a PROVE Append(<<>>, a) = <<a>>
OBVIOUS

\* Append to one byte.
LEMMA Append2 == ASSUME NEW a, NEW b PROVE Append(<<a>>, b) = <<a,b>>
<1> DEFINE S == {a, b}
<1>1. <<a>> \in Seq(S) /\ b \in S /\ <<a, b>> \in Seq(S) /\ Len(<<a>>) = 1
  OBVIOUS
<1>2. Append(<<a>>, b) \in Seq(S) /\ Len(Append(<<a>>, b)) = 2
  BY <1>1, AppendProperties
<1>3. Append(<<a>>, b)[1] = a /\ Append(<<a>>, b)[2] = b
  BY <1>1, AppendProperties
<1>4. Len(<<a, b>>) = 2 /\ <<a,b>>[1] = a /\ <<a,b>>[2] = b
  OBVIOUS
<1> HIDE DEF S
<1>5. \A i \in 1..2 : Append(<<a>>, b)[i] = <<a,b>>[i]
  BY <1>3, <1>4
<1>6. QED
  BY <1>1, <1>2, <1>4, <1>5, SeqEqual

\* Moving the first element of r to the end of a leaves the whole.
LEMMA Shift ==
  ASSUME NEW S, NEW a \in Seq(S), NEW r \in Seq(S), r # <<>>
  PROVE  /\ Head(r) \in S /\ Tail(r) \in Seq(S) /\ Append(a, Head(r)) \in Seq(S)
         /\ Append(a, Head(r)) \o Tail(r) = a \o r
<1>1. Head(r) \in S /\ Tail(r) \in Seq(S) /\ Append(a, Head(r)) \in Seq(S)
  OBVIOUS
<1>2. Append(a, Head(r)) \o Tail(r) = a \o r
  <2>1. Append(a, Head(r)) = a \o <<Head(r)>>
    BY <1>1, AppendProperties
  <2>2. <<Head(r)>> \o Tail(r) = r
    BY HeadTailProperties
  <2>3. (a \o <<Head(r)>>) \o Tail(r) = a \o (<<Head(r)>> \o Tail(r))
    BY <1>1, ConcatAssociative
  <2>4. QED
    BY <2>1, <2>2, <2>3
<1>3. QED
  BY <1>1, <1>2
\* A first letter is no code.
LEMMA FirstLetter == ASSUME NEW n \in Names PROVE First(n) \in 0..127
<1>1. n \in Seq(Letters)
  BY LettersAssumption
<1>2. n # <<>> => Head(n) \in Letters
  BY <1>1
<1>3. QED
  BY <1>2 DEF First, Letters


Sent(p, q, b) == line'[p] = line[p] /\ line'[q] = Append(line[q], b)

\* What is sent to a receiver with room arrives behind what it holds.
LEMMA SendTo ==
  ASSUME Arrays, NEW p, NEW q, Mates(p, q), NEW b, Send(p, b), Len(line[q]) < Fifo
  PROVE  Sent(p, q, b)
BY DEF Arrays, Mates, Send, Sent

\* read_serial takes the first byte, if there is one.
LEMMA Take1 ==
  ASSUME Arrays, NEW p, NEW q, Mates(p, q), Took(p)
  PROVE  /\ line'[p] = (IF line[p] = <<>> THEN <<>> ELSE Tail(line[p]))
         /\ line'[q] = line[q]
BY DEF Arrays, Mates, Took

\* A byte read and another sent.
LEMMA Answered ==
  ASSUME Arrays, NEW p, NEW q, Mates(p, q), NEW b, Answer(p, b), Len(line[q]) < Fifo
  PROVE  line'[p] = Tail(line[p]) /\ line'[q] = Append(line[q], b)
BY DEF Arrays, Mates, Answer

\* A program that ends leaves the other where it is.
LEMMA Ends ==
  ASSUME Arrays, NEW p, NEW q, Mates(p, q), End(p)
  PROVE  pc'[p] = "ended" /\ pc'[q] = pc[q]
BY DEF Arrays, Mates, End

Begun(p, q, k) ==
  /\ turn'[p] /\ turn'[q] = turn[q]
  /\ told'[p] = k /\ told'[q] = told[q]
  /\ pc'[p] = (IF k < 2 THEN "send" ELSE "type") /\ pc'[q] = pc[q]
  /\ rest'[p] = (IF k < 2 THEN name[p] ELSE <<>>) /\ rest'[q] = rest[q]
  /\ last'[p] = last[p] /\ last'[q] = last[q]

\* Continue, for one whose turn it is.
LEMMA Begins ==
  ASSUME Arrays, NEW p, NEW q, Mates(p, q), NEW k, Continue(p, TRUE, k)
  PROVE  Begun(p, q, k)
<1>1. p # q /\ p \in Machines /\ q \in Machines
  BY DEF Mates
<1>2. turn'[p] = TRUE /\ turn'[q] = turn[q]
  BY <1>1, Zenon DEF Arrays, Continue
<1>3. told'[p] = k /\ told'[q] = told[q]
  BY <1>1 DEF Arrays, Continue
<1>4. pc'[p] = (IF k < 2 THEN "send" ELSE "type") /\ pc'[q] = pc[q]
  BY <1>1 DEF Arrays, Continue
<1>5. rest'[p] = (IF k < 2 THEN name[p] ELSE <<>>) /\ rest'[q] = rest[q]
  BY <1>1 DEF Arrays, Continue
<1>6. last'[p] = last[p] /\ last'[q] = last[q]
  BY <1>1 DEF Arrays, Continue
<1>7. QED
  BY <1>2, <1>3, <1>4, <1>5, <1>6, Zenon DEF Begun

Listening(p, q, k) ==
  /\ ~turn'[p] /\ turn'[q] = turn[q]
  /\ told'[p] = k /\ told'[q] = told[q]
  /\ pc'[p] = "hear" /\ pc'[q] = pc[q]
  /\ rest'[p] = <<>> /\ rest'[q] = rest[q]
  /\ last'[p] = (IF k = 2 THEN <<>> ELSE last[p]) /\ last'[q] = last[q]

\* Continue, for one who listens.
LEMMA Listens ==
  ASSUME Arrays, NEW p, NEW q, Mates(p, q), NEW k, Continue(p, FALSE, k)
  PROVE  Listening(p, q, k)
<1>1. p # q /\ p \in Machines /\ q \in Machines
  BY DEF Mates
<1>2. turn'[p] = FALSE /\ turn'[q] = turn[q]
  BY <1>1, Zenon DEF Arrays, Continue
<1>3. told'[p] = k /\ told'[q] = told[q]
  BY <1>1 DEF Arrays, Continue
<1>4. pc'[p] = "hear" /\ pc'[q] = pc[q]
  BY <1>1 DEF Arrays, Continue
<1>5. rest'[p] = <<>> /\ rest'[q] = rest[q]
  BY <1>1 DEF Arrays, Continue
<1>6. last'[p] = (IF k = 2 THEN <<>> ELSE last[p]) /\ last'[q] = last[q]
  BY <1>1 DEF Arrays, Continue
<1>7. QED
  BY <1>2, <1>3, <1>4, <1>5, <1>6, Zenon DEF Listening

\* Who reads h, having sent g, begins if h is the greater.
Reads(p, q, g, h) ==
  /\ name' = name /\ their' = their /\ said' = said
  /\ h > g => turn'[p] /\ pc'[p] = "send" /\ rest'[p] = name[p]
  /\ ~(h > g) => ~turn'[p] /\ pc'[p] = "hear"
  /\ told'[p] = 0 /\ told'[q] = told[q] /\ turn'[q] = turn[q] /\ pc'[q] = pc[q]
  /\ rest'[q] = rest[q] /\ last'[p] = last[p] /\ last'[q] = last[q]
  /\ line'[p] = Tail(line[p]) /\ line'[q] = line[q]

\* The first letter of the other has come: who reads a greater one begins.
LEMMA GreetReads ==
  ASSUME Arrays, NEW p, NEW q, Mates(p, q), Greet(p),
         NEW g \in 0..127, NEW h \in 0..127, g = First(name[p]),
         line[p] # <<>>, Head(line[p]) = h
  PROVE  Reads(p, q, g, h)
<1>1. Read(p) = h
  BY DEF Read
<1>2. h # NONE
  BY DEF NONE
<1>3. Continue(p, h > g, 0)
  BY <1>1, <1>2 DEF Greet
<1>4. line'[p] = Tail(line[p]) /\ line'[q] = line[q]
  BY Take1 DEF Greet
<1>5. name' = name /\ their' = their /\ said' = said
  BY DEF Greet
<1>6. CASE h > g
  <2>1. (h > g) = TRUE
    BY <1>6
  <2>2. Continue(p, TRUE, 0)
    BY <1>2, <1>3, <2>1
  <2>3. /\ turn'[p] /\ turn'[q] = turn[q] /\ told'[p] = 0 /\ told'[q] = told[q]
        /\ pc'[p] = (IF 0 < 2 THEN "send" ELSE "type") /\ pc'[q] = pc[q]
        /\ rest'[p] = (IF 0 < 2 THEN name[p] ELSE <<>>) /\ rest'[q] = rest[q]
        /\ last'[p] = last[p] /\ last'[q] = last[q]
    <3>1. Begun(p, q, 0)
      BY <2>2, Begins, Zenon
    <3>2. QED
      BY <3>1, Zenon DEF Begun
  <2>4. QED
    BY <1>4, <1>5, <1>6, <2>3 DEF Reads
<1>7. CASE ~(h > g)
  <2>1. (h > g) = FALSE
    BY <1>7
  <2>2. Continue(p, FALSE, 0)
    BY <1>2, <1>3, <2>1
  <2>3. /\ ~turn'[p] /\ turn'[q] = turn[q] /\ told'[p] = 0 /\ told'[q] = told[q]
        /\ pc'[p] = "hear" /\ pc'[q] = pc[q] /\ rest'[q] = rest[q]
        /\ last'[p] = (IF 0 = 2 THEN <<>> ELSE last[p]) /\ last'[q] = last[q]
    <3>1. Listening(p, q, 0)
      BY <2>2, Listens, Zenon
    <3>2. QED
      BY <3>1, Zenon DEF Listening
  <2>4. QED
    BY <1>4, <1>5, <1>7, <2>3 DEF Reads
<1>8. QED
  BY <1>6, <1>7

\* The first letters are read in either order, or by one program alone.
LEMMA GreetChat ==
  ASSUME Arrays, NEW p, NEW q, Mates(p, q), Greet(p), name[p] \in Names, name[q] \in Names,
         Phase(p, q) \/ Phase(q, p)
  PROVE  Phase(p, q)' \/ Phase(q, p)'
<1> DEFINE g == First(name[p])
           h == First(name[q])
<1>1. pc[p] = "first" /\ p # q
  BY DEF Greet, Mates
<1>2. g \in 0..127 /\ h \in 0..127 /\ g = First(name[p]) /\ h = First(name[q])
  BY FirstLetter
<1> HIDE DEF g, h
<1>11. g \in 0..127 /\ h \in 0..127 /\ g = First(name[p])
  BY <1>2
<1>3. /\ Parts(<<>>, name[p], name[p]) /\ Parts(<<>>, name[q], name[q])
      /\ <<>> \in Seq(Letters)
  BY LettersAssumption DEF Parts
<1>10. ASSUME line[p] # <<>>, Head(line[p]) = h
       PROVE  /\ name' = name /\ their' = their /\ said' = said
              /\ h > g => turn'[p] /\ pc'[p] = "send" /\ rest'[p] = name[p]
              /\ ~(h > g) => ~turn'[p] /\ pc'[p] = "hear"
              /\ told'[p] = 0 /\ told'[q] = told[q] /\ turn'[q] = turn[q] /\ pc'[q] = pc[q]
              /\ rest'[q] = rest[q] /\ last'[p] = last[p] /\ last'[q] = last[q]
              /\ line'[p] = Tail(line[p]) /\ line'[q] = line[q]
  <2>1. Reads(p, q, g, h)
    BY <1>10, <1>11, GreetReads
  <2>2. QED
    BY <2>1 DEF Reads
<1>4. CASE Greeting(p, q) \/ Greeting(q, p)
  <2>1. line[p] = <<h>> /\ line[q] = <<g>> /\ Unused(p) /\ Unused(q) /\ pc[q] \in {"first", "ended"}
    BY <1>2, <1>4 DEF Greeting
  <2>2. line[p] # <<>> /\ Head(line[p]) = h /\ Tail(line[p]) = <<>>
    BY <2>1, One
  <2>3. CASE h > g
    <3>1. Leads(p, q)'
      BY <1>2, <2>1, <2>2, <2>3, <1>10 DEF Leads, Opens, Unused
    <3>2. QED
      BY <3>1 DEF Phase
  <2>4. CASE ~(h > g)
    <3>1. Opens(p, q)'
      BY <2>1, <2>2, <1>10 DEF Opens, Unused
    <3>2. ~turn'[p] /\ told'[p] = 0 /\ Ready(p)'
      BY <2>2, <2>1, <2>4, <1>10 DEF Ready
    <3>3. line'[q] = <<First(name'[p])>> /\ First(name'[p]) >= First(name'[q])
      BY <1>2, <2>1, <2>2, <2>4, <1>10
    <3>4. Yields(p, q)'
      BY <3>1, <3>2, <3>3 DEF Yields
    <3>5. QED
      BY <3>4 DEF Phase
  <2>5. QED
    BY <2>3, <2>4
<1>5. CASE Yields(q, p)
  <2>1. line[p] = <<h>> /\ Unused(p) /\ Unused(q) /\ Ready(q) /\ line[q] = <<>>
    BY <1>2, <1>5 DEF Yields, Opens, Unused
  <2>2. line[p] # <<>> /\ Head(line[p]) = h /\ Tail(line[p]) = <<>>
    BY <2>1, One
  <2>3. CASE h > g
    <3>1. Says(p, q)'
      BY <1>2, <1>3, <2>1, <2>2, <2>3, <1>10 DEF Says, Told, Unused, Ready, HeardBy, Words
    <3>2. QED
      BY <3>1 DEF Phase
  <2>4. CASE ~(h > g)
    <3>1. Silent(p, q)'
      BY <1>2, <2>1, <2>2, <2>4, <1>10 DEF Silent, Unused, Ready
    <3>2. QED
      BY <3>1 DEF Phase
  <2>5. QED
    BY <2>3, <2>4
<1>6. CASE Leads(q, p)
  <2>1. line[p] = <<h>> /\ g > h
    BY <1>2, <1>6 DEF Leads
  <2>2. line[p] # <<>> /\ Head(line[p]) = h /\ Tail(line[p]) = <<>>
    BY <2>1, One
  <2>3. ~(h > g)
    BY <1>2, <2>1
  <2>6. /\ name' = name /\ their' = their /\ said' = said
        /\ ~turn'[p] /\ pc'[p] = "hear" /\ told'[p] = 0 /\ told'[q] = told[q]
        /\ turn'[q] = turn[q] /\ pc'[q] = pc[q] /\ rest'[q] = rest[q]
        /\ line'[p] = <<>> /\ line'[q] = line[q]
    BY <1>10, <2>2, <2>3
  <2>4. Says(q, p)'
    BY <1>3, <1>6, <2>6 DEF Leads, Opens, Says, Told, Unused, Ready, HeardBy, Words
  <2>5. QED
    BY <2>4 DEF Phase
<1>7. CASE LeadsOn(q, p)
  <2>1. PICK x \in Letters : line[p] = <<h, x>> /\ Parts(<<x>>, rest[q], name[q])
    BY <1>2, <1>7 DEF LeadsOn
  <2>2. line[p] # <<>> /\ Head(line[p]) = h /\ Tail(line[p]) = <<x>> /\ Append(<<>>, x) = <<x>>
    BY <2>1, Two, Append1
  <2>3. ~(h > g)
    BY <1>2, <1>7 DEF LeadsOn
  <2>6. /\ name' = name /\ their' = their /\ said' = said
        /\ ~turn'[p] /\ pc'[p] = "hear" /\ told'[p] = 0 /\ told'[q] = told[q]
        /\ turn'[q] = turn[q] /\ pc'[q] = pc[q] /\ rest'[q] = rest[q]
        /\ line'[p] = <<x>> /\ line'[q] = line[q]
    BY <1>10, <2>2, <2>3
  <2>7. HeardBy(p)' = <<>> /\ Words(q)' = name[q]
    BY <1>7, <2>6 DEF LeadsOn, Opens, Unused, HeardBy, Words
  <2>8. Told(q, p)'
    BY <1>7, <2>6 DEF LeadsOn, Opens, Unused, Told, Ready
  <2>9. Parts(Append(<<>>, x), rest[q], name[q])
    BY <2>1, <2>2
  <2>4. Spells(q, p)'
    BY <1>3, <1>7, <2>6, <2>7, <2>8, <2>9 DEF LeadsOn, Opens, Spells
  <2>5. QED
    BY <2>4 DEF Phase
<1>8. CASE LeadsDone(q, p)
  <2>1. line[p] = <<h, DONE>>
    BY <1>2, <1>8 DEF LeadsDone
  <2>2. line[p] # <<>> /\ Head(line[p]) = h /\ Tail(line[p]) = <<DONE>>
    BY <2>1, Two
  <2>3. ~(h > g)
    BY <1>2, <1>8 DEF LeadsDone
  <2>4. Passes(q, p)'
    BY <1>2, <1>8, <2>2, <2>3, <1>10 DEF LeadsDone, Opens, Passes, Unused, Ready
  <2>5. QED
    BY <2>4 DEF Phase
<1>9. QED
  BY <1>1, <1>4, <1>5, <1>6, <1>7, <1>8
     DEF Phase, Silent, Yields, Leads, LeadsOn, LeadsDone, Asked, Says, Spells, Spelt, Told,
         Passes, Leaves, Ready

\* Nothing is left to send: all has been said.
LEMMA PartsDone == ASSUME NEW a, NEW w, Parts(a, <<>>, w) PROVE a = w
<1>1. a \in Seq(Letters) /\ a \o <<>> = w
  BY DEF Parts
<1>2. a \o <<>> = a
  BY <1>1, ConcatEmptySeq
<1>3. QED
  BY <1>1, <1>2

\* A letter moves from what is left to send to what is said.
LEMMA PartsNext ==
  ASSUME NEW a, NEW r, NEW w, Parts(a, r, w), r # <<>>
  PROVE  /\ Head(r) \in Letters /\ a \in Seq(Letters)
         /\ Parts(Append(a, Head(r)), Tail(r), w)
<1>1. a \in Seq(Letters) /\ r \in Seq(Letters) /\ a \o r = w
  BY DEF Parts
<1>2. QED
  BY <1>1, Shift DEF Parts

\* What has been said is a prefix of the whole.
LEMMA PartsPrefix ==
  ASSUME NEW a, NEW r, NEW w, Parts(a, r, w)
  PROVE  IsPrefix(a, w) /\ Len(a) <= Len(w)
<1>1. a \in Seq(Letters) /\ r \in Seq(Letters) /\ a \o r = w
  BY DEF Parts
<1>2. /\ w \in Seq(Letters) /\ Len(w) = Len(a) + Len(r) /\ Len(a) \in Nat /\ Len(r) \in Nat
      /\ \A i \in 1..Len(a) : w[i] = a[i]
  <2>1. Len(a) \in Nat /\ Len(r) \in Nat
    BY <1>1
  <2>2. /\ w \in Seq(Letters) /\ Len(w) = Len(a) + Len(r)
        /\ \A i \in 1..Len(a) + Len(r) : w[i] = IF i <= Len(a) THEN a[i] ELSE r[i - Len(a)]
    BY <1>1, ConcatProperties, Zenon
  <2>3. QED
    BY <2>1, <2>2
<1>3. SubSeq(a, 1, Len(a)) = SubSeq(w, 1, Len(a))
  <2>1. \A i \in 1..Len(a) : a[i] \in Letters /\ w[i] \in Letters
    BY <1>1, <1>2
  <2>2. /\ SubSeq(a, 1, Len(a)) \in Seq(Letters) /\ SubSeq(w, 1, Len(a)) \in Seq(Letters)
        /\ Len(SubSeq(a, 1, Len(a))) = Len(a) /\ Len(SubSeq(w, 1, Len(a))) = Len(a)
        /\ \A i \in 1..Len(a) : SubSeq(a, 1, Len(a))[i] = a[i] /\ SubSeq(w, 1, Len(a))[i] = w[i]
    BY <1>1, <1>2, <2>1
  <2>3. QED
    BY <1>2, <2>2, SeqEqual
<1>4. QED
  BY <1>2, <1>3 DEF IsPrefix

\* A letter goes.
LEMMA SendLetterChat ==
  ASSUME Arrays, NEW p, NEW q, Mates(p, q), SendLetter(p), name[p] \in Names, name[q] \in Names,
         Phase(p, q) \/ Phase(q, p)
  PROVE  Phase(p, q)' \/ Phase(q, p)'
<1> DEFINE g == First(name[p])
           h == First(name[q])
<1>1. pc[p] = "send" /\ rest[p] # <<>> /\ p # q
  BY DEF SendLetter, Mates
<1>2. g \in 0..127 /\ h \in 0..127 /\ g = First(name[p]) /\ h = First(name[q])
  BY FirstLetter
<1> HIDE DEF g, h
<1>3. /\ rest'[p] = Tail(rest[p]) /\ rest'[q] = rest[q] /\ pc'[p] = "ack" /\ pc'[q] = pc[q]
      /\ turn' = turn /\ told' = told /\ name' = name /\ their' = their /\ said' = said
      /\ last' = last
  BY DEF SendLetter, Arrays, Mates
<1>4. ASSUME Len(line[q]) < Fifo
      PROVE  line'[p] = line[p] /\ line'[q] = Append(line[q], Head(rest[p]))
  <2>1. Send(p, Head(rest[p]))
    BY DEF SendLetter
  <2>2. Sent(p, q, Head(rest[p]))
    BY <1>4, <2>1, SendTo, Zenon
  <2>3. QED
    BY <2>2, Zenon DEF Sent
<1>5. CASE Leads(p, q)
  <2>1. line[q] = <<g>> /\ line[p] = <<>> /\ name[p] = rest[p]
    BY <1>2, <1>5 DEF Leads, Opens
  <2>2. Len(line[q]) < Fifo
    BY <2>1, One, FifoAssumption
  <2>3. Parts(<<>>, rest[p], name[p])
    BY <2>1, LettersAssumption DEF Parts
  <2>4. /\ Head(rest[p]) \in Letters
        /\ Parts(Append(<<>>, Head(rest[p])), Tail(rest[p]), name[p])
    BY <1>1, <2>3, PartsNext, Zenon
  <2>5. /\ Append(<<>>, Head(rest[p])) = <<Head(rest[p])>>
        /\ line'[q] = <<g, Head(rest[p])>> /\ line'[p] = <<>>
    BY <1>4, <2>1, <2>2, Append1, Append2
  <2>6. LeadsOn(p, q)'
    BY <1>2, <1>3, <1>5, <2>4, <2>5 DEF Leads, LeadsOn, Opens, Unused
  <2>7. QED
    BY <2>6 DEF Phase
<1>6. CASE Says(p, q)
  <2>1. line[q] = <<>> /\ line[p] = <<>> /\ Parts(HeardBy(q), rest[p], Words(p))
    BY <1>6 DEF Says
  <2>2. Len(line[q]) < Fifo
    BY <2>1, EmptySeq, FifoAssumption
  <2>4. /\ Head(rest[p]) \in Letters /\ HeardBy(q) \in Seq(Letters)
        /\ Parts(Append(HeardBy(q), Head(rest[p])), Tail(rest[p]), Words(p))
    BY <1>1, <2>1, PartsNext, Zenon
  <2>5. line'[q] = <<Head(rest[p])>> /\ line'[p] = <<>>
    BY <1>4, <2>1, <2>2, Append1
  <2>6. HeardBy(q)' = HeardBy(q) /\ Words(p)' = Words(p)
    BY <1>3 DEF HeardBy, Words
  <2>7. Told(p, q)'
    BY <1>3, <1>6 DEF Says, Told, Ready
  <2>8. Spells(p, q)'
    BY <1>3, <1>6, <2>4, <2>5, <2>6, <2>7 DEF Says, Spells
  <2>9. QED
    BY <2>8 DEF Phase
<1>7. QED
  BY <1>1, <1>5, <1>6
     DEF Phase, Greeting, Silent, Yields, Leads, LeadsOn, LeadsDone, Opens, Asked, Says, Spells,
         Spelt, Told, Passes, Leaves, Ready

\* Nothing has come: the program gives up.
LEMMA NoAnswer ==
  ASSUME Arrays, NEW p, NEW q, Mates(p, q), Acknowledged(p), line[p] = <<>>
  PROVE  /\ pc'[p] = "ended" /\ pc'[q] = pc[q] /\ line'[p] = <<>> /\ line'[q] = line[q]
         /\ turn' = turn /\ told' = told /\ name' = name /\ their' = their /\ said' = said
         /\ last' = last /\ rest' = rest
<1>1. line'[p] = <<>> /\ line'[q] = line[q]
  <2>1. Took(p)
    BY DEF Acknowledged
  <2>2. /\ line'[p] = (IF line[p] = <<>> THEN <<>> ELSE Tail(line[p]))
        /\ line'[q] = line[q]
    BY <2>1, Take1, Zenon
  <2>3. QED
    BY <2>2
<1>2. Read(p) = NONE
  BY DEF Read
<1>3. QED
  BY <1>1, <1>2 DEF Acknowledged, Arrays, Mates, NONE, ACK

\* The acknowledgement has come.
LEMMA AnswerComes ==
  ASSUME Arrays, NEW p, NEW q, Mates(p, q), Acknowledged(p), line[p] = <<ACK>>
  PROVE  /\ pc'[p] = "send" /\ pc'[q] = pc[q] /\ line'[p] = <<>> /\ line'[q] = line[q]
         /\ turn' = turn /\ told' = told /\ name' = name /\ their' = their /\ said' = said
         /\ last' = last /\ rest' = rest
<1>1. line[p] # <<>> /\ Head(line[p]) = ACK /\ Tail(line[p]) = <<>>
  BY One
<1>2. line'[p] = <<>> /\ line'[q] = line[q]
  <2>1. Took(p)
    BY DEF Acknowledged
  <2>2. /\ line'[p] = (IF line[p] = <<>> THEN <<>> ELSE Tail(line[p]))
        /\ line'[q] = line[q]
    BY <2>1, Take1, Zenon
  <2>3. QED
    BY <1>1, <2>2
<1>3. Read(p) = ACK
  BY <1>1 DEF Read
<1>4. QED
  BY <1>2, <1>3 DEF Acknowledged, Arrays, Mates

\* A letter is acknowledged, or its sender gives up.
LEMMA AcknowledgedChat ==
  ASSUME Arrays, NEW p, NEW q, Mates(p, q), Acknowledged(p), Phase(p, q) \/ Phase(q, p)
  PROVE  Phase(p, q)' \/ Phase(q, p)'
<1>1. pc[p] \in {"ack", "hello"} /\ p # q
  BY DEF Acknowledged, Mates
<1>2. ASSUME line[p] = <<>>
      PROVE  /\ pc'[p] = "ended" /\ pc'[q] = pc[q] /\ line'[p] = <<>> /\ line'[q] = line[q]
             /\ turn' = turn /\ told' = told /\ name' = name /\ their' = their /\ said' = said
             /\ last' = last /\ rest' = rest
  BY <1>2, NoAnswer, Zenon
<1>3. CASE LeadsOn(p, q)
  <2>1. LeadsOn(p, q)'
    BY <1>2, <1>3 DEF LeadsOn, Opens, Unused
  <2>2. QED
    BY <2>1 DEF Phase
<1>4. CASE Spells(p, q)
  <2>1. Spells(p, q)'
    BY <1>2, <1>4 DEF Spells, Told, Ready, HeardBy, Words
  <2>2. QED
    BY <2>1 DEF Phase
<1>5. CASE Spelt(p, q)
  <2>1. line[p] = <<ACK>>
    BY <1>5 DEF Spelt
  <2>2. /\ pc'[p] = "send" /\ pc'[q] = pc[q] /\ line'[p] = <<>> /\ line'[q] = line[q]
        /\ turn' = turn /\ told' = told /\ name' = name /\ their' = their /\ said' = said
        /\ last' = last /\ rest' = rest
    BY <2>1, AnswerComes, Zenon
  <2>3. Says(p, q)'
    BY <1>5, <2>2 DEF Spelt, Says, Told, Ready, HeardBy, Words
  <2>4. QED
    BY <2>3 DEF Phase
<1>6. QED
  BY <1>1, <1>3, <1>4, <1>5
     DEF Phase, Greeting, Silent, Yields, Leads, LeadsOn, LeadsDone, Opens, Asked, Says, Spells,
         Spelt, Told, Passes, Leaves, Ready

\* A user types a line.
LEMMA TypesChat ==
  ASSUME Arrays, NEW p, NEW q, Mates(p, q), Types(p), Phase(p, q) \/ Phase(q, p)
  PROVE  Phase(p, q)' \/ Phase(q, p)'
<1>1. pc[p] = "type" /\ p # q /\ p \in Machines /\ q \in Machines
  BY DEF Types, Mates
<1>2. PICK l \in Lines : said' = [said EXCEPT ![p] = l] /\ rest' = [rest EXCEPT ![p] = l]
  BY DEF Types
<1>3. /\ said'[p] = l /\ said'[q] = said[q] /\ rest'[p] = l /\ pc'[p] = "send" /\ pc'[q] = pc[q]
      /\ turn' = turn /\ told' = told /\ name' = name /\ their' = their /\ line' = line
      /\ last' = last
  BY <1>1, <1>2 DEF Types, Arrays
<1>4. CASE Asked(p, q)
  <2>1. Parts(<<>>, l, l)
    BY LettersAssumption DEF Parts
  <2>2. HeardBy(q)' = <<>> /\ Words(p)' = l
    BY <1>3, <1>4 DEF Asked, Told, HeardBy, Words
  <2>3. Says(p, q)'
    BY <1>3, <1>4, <2>1, <2>2 DEF Asked, Says, Told, Ready
  <2>4. QED
    BY <2>3 DEF Phase
<1>5. QED
  BY <1>1, <1>4
     DEF Phase, Greeting, Silent, Yields, Leads, LeadsOn, LeadsDone, Opens, Asked, Says, Spells,
         Spelt, Told, Passes, Leaves, Ready

\* A name or a message is complete: the turn passes, or BYE answers "exit".
LEMMA ChatSentChat ==
  ASSUME Arrays, NEW p, NEW q, Mates(p, q), ChatSent(p), name[p] \in Names, name[q] \in Names,
         Phase(p, q) \/ Phase(q, p)
  PROVE  Phase(p, q)' \/ Phase(q, p)'
<1> DEFINE g == First(name[p])
           h == First(name[q])
           k == IF told[p] < 2 THEN told[p] + 1 ELSE 2
<1>1. pc[p] = "send" /\ rest[p] = <<>> /\ p # q /\ p \in Machines /\ q \in Machines
  BY DEF ChatSent, Mates
<1>2. g \in 0..127 /\ h \in 0..127 /\ g = First(name[p]) /\ h = First(name[q])
  BY FirstLetter
<1>3. name' = name /\ their' = their /\ said' = said
  BY DEF ChatSent
<1> HIDE DEF g, h
<1>4. ASSUME ~(told[p] = 2 /\ last[p] = Exit)
      PROVE  Send(p, DONE) /\ Continue(p, FALSE, k)
  BY <1>4 DEF ChatSent
<1>5. k = (IF told[p] < 2 THEN told[p] + 1 ELSE 2)
  OBVIOUS
<1> HIDE DEF k
<1>6. ASSUME ~(told[p] = 2 /\ last[p] = Exit)
      PROVE  /\ ~turn'[p] /\ turn'[q] = turn[q] /\ told'[p] = k /\ told'[q] = told[q]
             /\ pc'[p] = "hear" /\ pc'[q] = pc[q] /\ rest'[p] = <<>> /\ rest'[q] = rest[q]
             /\ last'[p] = (IF k = 2 THEN <<>> ELSE last[p]) /\ last'[q] = last[q]
  <2>1. Listening(p, q, k)
    BY <1>4, <1>6, Listens, Zenon
  <2>2. QED
    BY <2>1, Zenon DEF Listening
<1>7. ASSUME NEW b, Send(p, b), Len(line[q]) < Fifo
      PROVE  line'[p] = line[p] /\ line'[q] = Append(line[q], b)
  <2>1. Sent(p, q, b)
    BY <1>7, SendTo, Zenon
  <2>2. QED
    BY <2>1, Zenon DEF Sent
<1>8. CASE Leads(p, q)
  <2>1. line[q] = <<g>> /\ line[p] = <<>> /\ name[p] = <<>> /\ told[p] = 0 /\ k = 1
    BY <1>1, <1>2, <1>5, <1>8 DEF Leads, Opens
  <2>2. Len(line[q]) < Fifo
    BY <2>1, One, FifoAssumption
  <2>3. Send(p, DONE) /\ ~(told[p] = 2 /\ last[p] = Exit)
    BY <1>4, <2>1
  <2>4. line'[q] = <<g, DONE>> /\ line'[p] = <<>>
    BY <1>7, <2>1, <2>2, <2>3, Append2
  <2>5. LeadsDone(p, q)'
    BY <1>2, <1>3, <1>6, <1>8, <2>1, <2>3, <2>4 DEF Leads, LeadsDone, Opens, Unused, Ready
  <2>6. QED
    BY <2>5 DEF Phase
<1>9. CASE Says(p, q)
  <2>1. line[q] = <<>> /\ line[p] = <<>> /\ Parts(HeardBy(q), <<>>, Words(p))
    BY <1>1, <1>9 DEF Says
  <2>2. Len(line[q]) < Fifo
    BY <2>1, EmptySeq, FifoAssumption
  <2>3. HeardBy(q) = Words(p)
    BY <2>1, PartsDone, Zenon
  <2>4. CASE told[p] = 2 /\ last[p] = Exit
    <3>1. Send(p, BYE) /\ Leave(p) /\ UNCHANGED <<turn, told, rest, last>>
      BY <2>4 DEF ChatSent
    <3>2. line'[q] = <<BYE>> /\ line'[p] = <<>>
      BY <1>7, <2>1, <2>2, <3>1, Append1
    <3>3. pc'[p] = "left" /\ pc'[q] = pc[q]
      BY <1>1, <3>1 DEF Leave, Arrays
    <3>4. Leaves(p, q)'
      <4>1. turn' = turn /\ told' = told
        BY <3>1
      <4>2. /\ ~turn[q] /\ told[p] = 2 /\ told[q] = 2 /\ Ready(q)
            /\ their[p] = name[q] /\ their[q] = name[p] /\ said[q] \in {Exit, Unsaid}
        BY <1>9, <2>4 DEF Says, Told
      <4>3. line'[q] \in {<<BYE>>, <<>>}
        BY <3>2
      <4>4. QED
        BY <1>3, <3>2, <3>3, <4>1, <4>2, <4>3 DEF Leaves, Ready
    <3>5. QED
      BY <3>4 DEF Phase
  <2>5. CASE ~(told[p] = 2 /\ last[p] = Exit)
    <3>1. Send(p, DONE)
      BY <1>4, <2>5
    <3>2. line'[q] = <<DONE>> /\ line'[p] = <<>>
      BY <1>7, <2>1, <2>2, <3>1, Append1
    <3>3. told[p] < 2 => their[q] = name[p]
      BY <1>9, <2>3 DEF HeardBy, Words, Says, Told
    <3>4. told[p] = 2 => last[q] = said[p] /\ their[q] = name[p]
      BY <1>9, <2>3 DEF HeardBy, Words, Says, Told
    <3>5. Passes(p, q)'
      BY <1>3, <1>5, <1>6, <1>9, <2>5, <3>2, <3>3, <3>4 DEF Says, Told, Passes, Ready
    <3>6. QED
      BY <3>5 DEF Phase
  <2>6. QED
    BY <2>4, <2>5
<1>10. QED
  BY <1>1, <1>8, <1>9
     DEF Phase, Greeting, Silent, Yields, Leads, LeadsOn, LeadsDone, Opens, Asked, Says, Spells,
         Spelt, Told, Passes, Leaves, Ready

\* The codes are apart, and no letter is one of them.
LEMMA Codes ==
  /\ NONE # BYE /\ NONE # DONE /\ BYE # DONE
  /\ NONE \notin Letters /\ BYE \notin Letters /\ DONE \notin Letters
  /\ HELLO \notin {NONE, DONE} /\ HELLO \notin Letters
BY DEF NONE, BYE, DONE, HELLO, Letters

\* Nothing has come, or BYE.
LEMMA HearEnds ==
  ASSUME Arrays, NEW p, NEW q, Mates(p, q), Hear(p),
         line[p] = <<>> \/ (line[p] = <<BYE>> /\ told[p] = 2)
  PROVE  /\ pc'[p] = "ended" /\ pc'[q] = pc[q] /\ line'[p] = <<>> /\ line'[q] = line[q]
         /\ turn' = turn /\ told' = told /\ name' = name /\ their' = their /\ said' = said
         /\ last' = last /\ rest' = rest
<1>1. line[p] # <<>> => Head(line[p]) = BYE /\ Tail(line[p]) = <<>> /\ told[p] = 2
  BY One
<1>2. Read(p) = NONE \/ (Read(p) = BYE /\ told[p] = 2)
  BY <1>1 DEF Read
<1>3. Took(p) /\ End(p) /\ UNCHANGED <<turn, told, rest, their, last>>
  BY <1>2, Codes DEF Hear
<1>4. line'[p] = (IF line[p] = <<>> THEN <<>> ELSE Tail(line[p])) /\ line'[q] = line[q]
  BY <1>3, Take1, Zenon
<1>5. pc'[p] = "ended" /\ pc'[q] = pc[q]
  BY <1>3, Ends, Zenon
<1>6. QED
  BY <1>1, <1>3, <1>4, <1>5 DEF Hear

\* com_flag once a name or a message is complete.
Counted(p, k) == k = IF told[p] < 2 THEN told[p] + 1 ELSE 2

\* DONE passes the turn.
LEMMA HearTurn ==
  ASSUME Arrays, NEW p, NEW q, Mates(p, q), Hear(p), line[p] = <<DONE>>,
         NEW k, Counted(p, k)
  PROVE  /\ turn'[p] /\ turn'[q] = turn[q] /\ told'[p] = k /\ told'[q] = told[q]
         /\ pc'[p] = (IF k < 2 THEN "send" ELSE "type") /\ pc'[q] = pc[q]
         /\ rest'[p] = (IF k < 2 THEN name[p] ELSE <<>>)
         /\ last'[p] = last[p] /\ last'[q] = last[q] /\ line'[p] = <<>> /\ line'[q] = line[q]
         /\ name' = name /\ their' = their /\ said' = said
<1>1. line[p] # <<>> /\ Head(line[p]) = DONE /\ Tail(line[p]) = <<>>
  BY One
<1>2. Read(p) = DONE
  BY <1>1 DEF Read
<1>3. Took(p) /\ UNCHANGED their /\ Continue(p, TRUE, k)
  BY <1>2, Codes DEF Hear, Counted
<1>4. line'[p] = (IF line[p] = <<>> THEN <<>> ELSE Tail(line[p])) /\ line'[q] = line[q]
  BY <1>3, Take1, Zenon
<1>5. Continue(p, TRUE, k)
  BY <1>3
<1>6. /\ turn'[p] /\ turn'[q] = turn[q] /\ told'[p] = k /\ told'[q] = told[q]
      /\ pc'[p] = (IF k < 2 THEN "send" ELSE "type") /\ pc'[q] = pc[q]
      /\ rest'[p] = (IF k < 2 THEN name[p] ELSE <<>>) /\ rest'[q] = rest[q]
      /\ last'[p] = last[p] /\ last'[q] = last[q]
  <2>1. Begun(p, q, k)
    BY <1>5, Begins, Zenon
  <2>2. QED
    BY <2>1, Zenon DEF Begun
<1>7. QED
  BY <1>1, <1>3, <1>4, <1>6 DEF Hear

\* A letter is stored and acknowledged; there is room for it.
LEMMA HearLetter ==
  ASSUME Arrays, NEW p, NEW q, Mates(p, q), Hear(p), NEW x \in Letters, line[p] = <<x>>,
         line[q] = <<>>, HeardBy(p) \in Seq(Letters), Len(HeardBy(p)) # Buffer
  PROVE  /\ line'[p] = <<>> /\ line'[q] = <<ACK>> /\ pc'[p] = pc[p] /\ pc'[q] = pc[q]
         /\ their'[q] = their[q] /\ last'[q] = last[q]
         /\ HeardBy(p)' = Append(HeardBy(p), x)
         /\ told[p] < 2 => last' = last
         /\ ~(told[p] < 2) => their' = their
         /\ turn' = turn /\ told' = told /\ name' = name /\ said' = said /\ rest' = rest
<1>1. line[p] # <<>> /\ Head(line[p]) = x /\ Tail(line[p]) = <<>>
  BY One
<1>2. Read(p) = x /\ x \notin {NONE, BYE, DONE}
  BY <1>1, Codes DEF Read
<1>3. p \in Machines /\ q \in Machines /\ p # q
  BY DEF Mates
<1>4. /\ Answer(p, ACK)
      /\ IF told[p] < 2
         THEN their' = [their EXCEPT ![p] = Append(@, Read(p))] /\ UNCHANGED last
         ELSE last' = [last EXCEPT ![p] = Append(@, Read(p))] /\ UNCHANGED their
      /\ pc' = [pc EXCEPT ![p] = IF Len(HeardBy(p)) = Buffer THEN "overrun" ELSE @]
      /\ UNCHANGED <<turn, told, rest>>
  BY <1>2, Zenon DEF Hear, HeardBy
<1>5. line'[p] = Tail(line[p]) /\ line'[q] = Append(line[q], ACK)
  <2>1. Len(line[q]) < Fifo
    BY EmptySeq, FifoAssumption
  <2>2. QED
    <3>1. Answer(p, ACK)
      BY <1>4
    <3>2. QED
      BY <2>1, <3>1, Answered, Zenon
<1>6. pc'[p] = pc[p] /\ pc'[q] = pc[q]
  BY <1>3, <1>4 DEF Arrays
<1>7. told' = told
  BY <1>4
<1>8. CASE told[p] < 2
  BY <1>1, <1>2, <1>3, <1>4, <1>5, <1>6, <1>7, <1>8, Append1 DEF Hear, HeardBy, Arrays
<1>9. CASE ~(told[p] < 2)
  BY <1>1, <1>2, <1>3, <1>4, <1>5, <1>6, <1>7, <1>9, Append1 DEF Hear, HeardBy, Arrays
<1>10. QED
  BY <1>8, <1>9

\* A program hears a letter, DONE or BYE, or gives up.
LEMMA HearChat ==
  ASSUME Arrays, NEW p, NEW q, Mates(p, q), Hear(p), name[p] \in Names, name[q] \in Names,
         Phase(p, q) \/ Phase(q, p)
  PROVE  Phase(p, q)' \/ Phase(q, p)'
<1>1. pc[p] = "hear" /\ p # q
  BY DEF Hear, Mates
<1>2. ASSUME line[p] = <<>> \/ (line[p] = <<BYE>> /\ told[p] = 2)
      PROVE  /\ pc'[p] = "ended" /\ pc'[q] = pc[q] /\ line'[p] = <<>> /\ line'[q] = line[q]
             /\ turn' = turn /\ told' = told /\ name' = name /\ their' = their /\ said' = said
             /\ last' = last /\ rest' = rest
  BY <1>2, HearEnds, Zenon
<1>3. CASE Silent(p, q) \/ Silent(q, p)
  <2>1. Silent(p, q)'
    BY <1>2, <1>3 DEF Silent, Ready, Unused
  <2>2. QED
    BY <2>1 DEF Phase
<1>4. CASE Yields(p, q)
  <2>1. Yields(p, q)'
    BY <1>2, <1>4 DEF Yields, Opens, Ready, Unused
  <2>2. QED
    BY <2>1 DEF Phase
<1>5. CASE LeadsDone(p, q)
  <2>1. LeadsDone(p, q)'
    BY <1>2, <1>5 DEF LeadsDone, Opens, Ready, Unused
  <2>2. QED
    BY <2>1 DEF Phase
<1>6. CASE Asked(q, p)
  <2>1. Asked(q, p)'
    BY <1>2, <1>6 DEF Asked, Told, Ready
  <2>2. QED
    BY <2>1 DEF Phase
<1>7. CASE Says(q, p)
  <2>1. Says(q, p)'
    BY <1>2, <1>7 DEF Says, Told, Ready, HeardBy, Words
  <2>2. QED
    BY <2>1 DEF Phase
<1>8. CASE Spelt(q, p)
  <2>1. Spelt(q, p)'
    BY <1>2, <1>8 DEF Spelt, Told, Ready, HeardBy, Words
  <2>2. QED
    BY <2>1 DEF Phase
<1>9. CASE Spells(q, p)
  <2>1. PICK x \in Letters : /\ line[p] = <<x>> /\ HeardBy(p) \in Seq(Letters)
                             /\ Parts(Append(HeardBy(p), x), rest[q], Words(q))
    BY <1>9 DEF Spells
  <2>2. line[q] = <<>> /\ Told(q, p) /\ pc[q] \in {"ack", "ended"} /\ (told[q] = 2 => said[q] \in Lines)
    BY <1>9 DEF Spells
  <2>3. Len(HeardBy(p)) # Buffer
    <3>1. Words(q) \in Names \cup Lines
      BY <2>2 DEF Words, Told
    <3>2. Len(Words(q)) < Buffer /\ Buffer \in Nat /\ Words(q) \in Seq(Letters)
      BY <3>1, BufferAssumption, LettersAssumption
    <3>3. Len(Append(HeardBy(p), x)) <= Len(Words(q))
      BY <2>1, PartsPrefix, Zenon
    <3>4. Len(Append(HeardBy(p), x)) = Len(HeardBy(p)) + 1 /\ Len(HeardBy(p)) \in Nat
      BY <2>1
    <3>5. Len(Words(q)) \in Nat
      BY <3>2
    <3>6. QED
      BY <3>2, <3>3, <3>4, <3>5
  <2>4. /\ line'[p] = <<>> /\ line'[q] = <<ACK>> /\ pc'[p] = pc[p] /\ pc'[q] = pc[q]
        /\ their'[q] = their[q] /\ last'[q] = last[q]
        /\ HeardBy(p)' = Append(HeardBy(p), x)
        /\ told[p] < 2 => last' = last
        /\ ~(told[p] < 2) => their' = their
        /\ turn' = turn /\ told' = told /\ name' = name /\ said' = said /\ rest' = rest
    BY <2>1, <2>2, <2>3, HearLetter, Zenon
  <2>5. Words(q)' = Words(q) /\ rest'[q] = rest[q]
    BY <2>4 DEF Words
  <2>6. Told(q, p)'
    BY <2>2, <2>4 DEF Told, Ready
  <2>7. Parts(HeardBy(p), rest[q], Words(q))'
    <3>1. Parts(HeardBy(p)', rest'[q], Words(q)')
      BY <2>1, <2>4, <2>5
    <3>2. QED
      BY <3>1 DEF Parts
  <2>8. Spelt(q, p)'
    BY <2>2, <2>4, <2>6, <2>7 DEF Spelt
  <2>9. QED
    BY <2>8 DEF Phase
<1>10. CASE Passes(p, q)
  <2>1. Passes(p, q)'
    BY <1>2, <1>10 DEF Passes, Ready
  <2>2. QED
    BY <2>1 DEF Phase
<1>11. CASE Passes(q, p)
  <2> DEFINE k == IF told[p] < 2 THEN told[p] + 1 ELSE 2
  <2>1. line[p] = <<DONE>> /\ k = (IF told[p] < 2 THEN told[p] + 1 ELSE 2)
    BY <1>11 DEF Passes
  <2>2. k = told[q]
    BY <1>11 DEF Passes
  <2>8. line[p] = <<DONE>> /\ Counted(p, k)
    BY <2>1 DEF Counted
  <2> HIDE DEF k
  <2>3. /\ turn'[p] /\ turn'[q] = turn[q] /\ told'[p] = k /\ told'[q] = told[q]
        /\ pc'[p] = (IF k < 2 THEN "send" ELSE "type") /\ pc'[q] = pc[q]
        /\ rest'[p] = (IF k < 2 THEN name[p] ELSE <<>>)
        /\ last'[p] = last[p] /\ last'[q] = last[q] /\ line'[p] = <<>> /\ line'[q] = line[q]
        /\ name' = name /\ their' = their /\ said' = said
    BY <2>8, HearTurn, Zenon
  <2>4. Told(p, q)'
    BY <1>11, <2>1, <2>2, <2>3 DEF Passes, Told, Ready
  <2>5. CASE k < 2
    <3>1. told[p] = 0 /\ k = 1 /\ their[q] = <<>>
      BY <1>11, <2>1, <2>5 DEF Passes
    <3>2. Parts(<<>>, name[p], name[p])
      BY LettersAssumption DEF Parts
    <3>3. Says(p, q)'
      BY <1>11, <2>3, <2>4, <2>5, <3>1, <3>2 DEF Passes, Says, HeardBy, Words
    <3>4. QED
      BY <3>3 DEF Phase
  <2>6. CASE ~(k < 2)
    <3>1. k = 2
      BY <1>11, <2>1, <2>6 DEF Passes
    <3>2. Asked(p, q)'
      BY <1>11, <2>2, <2>3, <2>4, <3>1 DEF Passes, Asked
    <3>3. QED
      BY <3>2 DEF Phase
  <2>7. QED
    BY <2>5, <2>6
<1>12. CASE Leaves(q, p)
  <2>1. line[p] = <<>> \/ (line[p] = <<BYE>> /\ told[p] = 2)
    BY <1>12 DEF Leaves
  <2>2. Leaves(q, p)'
    BY <1>2, <1>12, <2>1 DEF Leaves, Ready
  <2>3. QED
    BY <2>2 DEF Phase
<1>13. QED
  BY <1>1, <1>3, <1>4, <1>5, <1>6, <1>7, <1>8, <1>9, <1>10, <1>11, <1>12
     DEF Phase, Greeting, Silent, Yields, Leads, LeadsOn, LeadsDone, Opens, Asked, Says, Spells,
         Spelt, Told, Passes, Leaves, Ready

\* tx sends a letter.
LEMMA SendLetterTx ==
  ASSUME Arrays, NEW p, NEW t, NEW r, Mates(t, r), p \in {t, r}, SendLetter(p), SendInv(t, r)
  PROVE  SendInv(t, r)'
<1>1. Tells(t, r) /\ p = t /\ rest[t] # <<>> /\ pc[t] = "send"
  BY DEF SendLetter, SendInv, Hello, Tells, Letter, Reply, Over, Sends
<1>2. /\ rest'[t] = Tail(rest[t]) /\ pc'[t] = "ack" /\ pc'[r] = pc[r]
      /\ said' = said /\ last' = last
  BY <1>1 DEF SendLetter, Arrays, Mates
<1>3. line'[t] = <<>> /\ line'[r] = <<Head(rest[t])>>
  <2>1. Send(t, Head(rest[t])) /\ line[r] = <<>> /\ line[t] = <<>>
    BY <1>1 DEF SendLetter, Tells
  <2>2. Len(line[r]) < Fifo
    BY <2>1, EmptySeq, FifoAssumption
  <2>3. Sent(t, r, Head(rest[t]))
    BY <2>1, <2>2, SendTo, Zenon
  <2>4. QED
    BY <2>1, <2>3, Append1 DEF Sent
<1>4. /\ Head(rest[t]) \in Letters /\ last[r] \in Seq(Letters)
      /\ Parts(Append(last[r], Head(rest[t])), Tail(rest[t]), said[t])
  <2>1. Parts(last[r], rest[t], said[t]) /\ rest[t] # <<>>
    BY <1>1 DEF Tells
  <2>2. QED
    BY <2>1, PartsNext, Zenon
<1>5. Letter(t, r)'
  BY <1>1, <1>2, <1>3, <1>4 DEF Letter, Tells, Sends
<1>6. QED
  BY <1>2, <1>5 DEF SendInv

\* tx has its answer, or gives up.
LEMMA AcknowledgedTx ==
  ASSUME Arrays, NEW p, NEW t, NEW r, Mates(t, r), p \in {t, r}, Acknowledged(p), SendInv(t, r)
  PROVE  SendInv(t, r)'
<1>1. p = t /\ pc[t] \in {"ack", "hello"}
  BY DEF Acknowledged, SendInv, Hello, Tells, Letter, Reply, Over, Sends
<1>2. Acknowledged(t)
  BY <1>1
<1>3. ASSUME line[t] = <<>>
      PROVE  /\ pc'[t] = "ended" /\ pc'[r] = pc[r] /\ line'[t] = <<>> /\ line'[r] = line[r]
             /\ said' = said /\ last' = last /\ rest' = rest
  BY <1>2, <1>3, NoAnswer, Zenon
<1>4. CASE Hello(t, r)
  <2>1. Hello(t, r)'
    BY <1>3, <1>4 DEF Hello, Sends
  <2>2. QED
    BY <1>3, <1>4, <2>1 DEF SendInv, Hello
<1>5. CASE Letter(t, r)
  <2>1. Letter(t, r)'
    BY <1>3, <1>5 DEF Letter, Sends
  <2>2. QED
    BY <1>3, <1>5, <2>1 DEF SendInv, Letter
<1>6. CASE Reply(t, r)
  <2>1. line[t] = <<ACK>>
    BY <1>6 DEF Reply
  <2>2. /\ pc'[t] = "send" /\ pc'[r] = pc[r] /\ line'[t] = <<>> /\ line'[r] = line[r]
        /\ said' = said /\ last' = last /\ rest' = rest
    BY <1>2, <2>1, AnswerComes, Zenon
  <2>3. Tells(t, r)'
    BY <1>6, <2>2 DEF Reply, Tells, Sends
  <2>4. QED
    BY <2>2, <2>3 DEF SendInv
<1>7. QED
  BY <1>1, <1>4, <1>5, <1>6 DEF SendInv, Tells, Over

\* tx says that it is done.
LEMMA TxSentTx ==
  ASSUME Arrays, NEW p, NEW t, NEW r, Mates(t, r), p \in {t, r}, TxSent(p), SendInv(t, r)
  PROVE  SendInv(t, r)'
<1>1. Tells(t, r) /\ p = t /\ rest[t] = <<>>
  BY DEF TxSent, SendInv, Hello, Tells, Letter, Reply, Over, Sends
<1>2. Send(t, DONE) /\ End(t) /\ said' = said /\ last' = last
  BY <1>1 DEF TxSent
<1>3. line'[t] = <<>> /\ line'[r] = <<DONE>>
  <2>1. line[r] = <<>> /\ line[t] = <<>>
    BY <1>1 DEF Tells
  <2>2. Len(line[r]) < Fifo /\ Send(t, DONE)
    BY <1>2, <2>1, EmptySeq, FifoAssumption
  <2>3. Sent(t, r, DONE)
    BY <2>2, SendTo, Zenon
  <2>4. QED
    BY <2>1, <2>3, Append1 DEF Sent
<1>4. pc'[t] = "ended" /\ pc'[r] = pc[r]
  BY <1>2, Ends, Zenon
<1>5. last[r] = said[t]
  <2>1. Parts(last[r], <<>>, said[t])
    BY <1>1 DEF Tells
  <2>2. QED
    BY <2>1, PartsDone, Zenon
<1>6. Over(t, r)'
  BY <1>1, <1>2, <1>3, <1>4, <1>5 DEF Over, Tells, Sends
<1>7. QED
  BY <1>2, <1>6 DEF SendInv

\* rx gives up, or has heard all.
LEMMA TakeEnds ==
  ASSUME Arrays, NEW t, NEW r, Mates(t, r), Take(r), line[r] \in {<<DONE>>, <<>>}
  PROVE  /\ line'[r] = <<>> /\ line'[t] = line[t] /\ pc'[r] = "ended" /\ pc'[t] = pc[t]
         /\ said' = said /\ last' = last /\ rest' = rest
<1>1. line[r] # <<>> => Head(line[r]) = DONE /\ Tail(line[r]) = <<>>
  BY One
<1>2. Read(r) \in {NONE, DONE}
  BY <1>1 DEF Read
<1>3. Took(r) /\ End(r) /\ UNCHANGED <<rest, last>>
  BY <1>2 DEF Take
<1>4. Mates(r, t)
  BY DEF Mates
<1>5. line'[r] = (IF line[r] = <<>> THEN <<>> ELSE Tail(line[r])) /\ line'[t] = line[t]
  BY <1>3, <1>4, Take1, Zenon
<1>6. pc'[r] = "ended" /\ pc'[t] = pc[t]
  BY <1>3, <1>4, Ends, Zenon
<1>7. QED
  BY <1>1, <1>3, <1>5, <1>6 DEF Take

\* rx takes the greeting or a letter.
LEMMA TakeByte ==
  ASSUME Arrays, NEW t, NEW r, Mates(t, r), Take(r), NEW x, x # NONE, x # DONE,
         line[r] = <<x>>, line[t] = <<>>
  PROVE  /\ line'[r] = <<>> /\ line'[t] = <<ACK>> /\ pc'[t] = pc[t] /\ said' = said
         /\ pc'[r] \in {"ended", "take"} /\ rest'[t] = rest[t]
         /\ x = HELLO => last'[r] = last[r]
         /\ x # HELLO => last'[r] = Append(last[r], x)
<1>1. line[r] # <<>> /\ Head(line[r]) = x /\ Tail(line[r]) = <<>>
  BY One
<1>2. Read(r) = x
  BY <1>1 DEF Read
<1>3. /\ Answer(r, ACK) /\ pc[r] = "take"
      /\ rest' = [rest EXCEPT ![r] = Tail(@)]
      /\ last' = [last EXCEPT ![r] = IF x = HELLO THEN @ ELSE Append(@, x)]
      /\ pc' = [pc EXCEPT ![r] = IF Len(rest[r]) = 1 THEN "ended" ELSE @]
  BY <1>2 DEF Take
<1>4. Mates(r, t) /\ r \in Machines /\ t \in Machines /\ r # t
  BY DEF Mates
<1>5. line'[r] = Tail(line[r]) /\ line'[t] = Append(line[t], ACK)
  <2>1. Len(line[t]) < Fifo
    BY EmptySeq, FifoAssumption
  <2>2. Answer(r, ACK) /\ Mates(r, t)
    BY <1>3, <1>4
  <2>3. QED
    BY <2>1, <2>2, Answered, Zenon
<1>6. rest'[t] = rest[t] /\ pc'[t] = pc[t] /\ pc'[r] \in {"ended", "take"}
  BY <1>3, <1>4 DEF Arrays
<1>7. last'[r] = (IF x = HELLO THEN last[r] ELSE Append(last[r], x))
  BY <1>3, <1>4 DEF Arrays
<1>8. QED
  BY <1>1, <1>5, <1>6, <1>7, Append1 DEF Take

\* rx takes what has come, or gives up.
LEMMA TakeTx ==
  ASSUME Arrays, NEW p, NEW t, NEW r, Mates(t, r), p \in {t, r}, Take(p), SendInv(t, r)
  PROVE  SendInv(t, r)'
<1>1. Take(r)
  BY DEF Take, SendInv, Hello, Tells, Letter, Reply, Over, Sends
<1>2. ASSUME line[r] \in {<<DONE>>, <<>>}
      PROVE  /\ line'[r] = <<>> /\ line'[t] = line[t] /\ pc'[r] = "ended" /\ pc'[t] = pc[t]
             /\ said' = said /\ last' = last /\ rest' = rest
  BY <1>1, <1>2, TakeEnds, Zenon
<1>9. ASSUME NEW x, x # NONE, x # DONE, line[r] = <<x>>, line[t] = <<>>
      PROVE  /\ line'[r] = <<>> /\ line'[t] = <<ACK>> /\ pc'[t] = pc[t] /\ said' = said
             /\ pc'[r] \in {"ended", "take"} /\ rest'[t] = rest[t]
             /\ x = HELLO => last'[r] = last[r]
             /\ x # HELLO => last'[r] = Append(last[r], x)
  BY <1>1, <1>9, TakeByte, Zenon
<1>3. CASE Tells(t, r)
  <2>1. Tells(t, r)'
    BY <1>2, <1>3 DEF Tells, Sends
  <2>2. QED
    BY <1>2, <1>3, <2>1 DEF SendInv, Tells
<1>4. CASE Reply(t, r)
  <2>1. Reply(t, r)'
    BY <1>2, <1>4 DEF Reply, Sends
  <2>2. QED
    BY <1>2, <1>4, <2>1 DEF SendInv, Reply
<1>5. CASE Over(t, r)
  <2>1. Over(t, r)'
    BY <1>2, <1>5 DEF Over, Sends
  <2>2. QED
    BY <1>2, <1>5, <2>1 DEF SendInv, Over
<1>6. CASE Hello(t, r)
  <2>1. line[r] = <<HELLO>> /\ line[t] = <<>> /\ HELLO # NONE /\ HELLO # DONE
    BY <1>6, Codes DEF Hello
  <2>2. /\ line'[r] = <<>> /\ line'[t] = <<ACK>> /\ pc'[t] = pc[t] /\ said' = said
        /\ pc'[r] \in {"ended", "take"} /\ rest'[t] = rest[t]
        /\ last'[r] = last[r]
    BY <2>1, <1>9
  <2>3. Parts(<<>>, said[t], said[t])
    BY LettersAssumption DEF Parts, SendInv
  <2>4. Reply(t, r)'
    BY <1>6, <2>2, <2>3 DEF Hello, Reply, Sends
  <2>5. QED
    BY <2>2, <2>4 DEF SendInv
<1>7. CASE Letter(t, r)
  <2>1. PICK x \in Letters : /\ line[r] = <<x>> /\ last[r] \in Seq(Letters)
                             /\ Parts(Append(last[r], x), rest[t], said[t])
    BY <1>7 DEF Letter
  <2>2. line[r] = <<x>> /\ line[t] = <<>> /\ x # NONE /\ x # DONE /\ x # HELLO
    BY <1>7, <2>1, Codes DEF Letter
  <2>3. /\ line'[r] = <<>> /\ line'[t] = <<ACK>> /\ pc'[t] = pc[t] /\ said' = said
        /\ pc'[r] \in {"ended", "take"} /\ rest'[t] = rest[t]
        /\ last'[r] = Append(last[r], x)
    BY <2>2, <1>9
  <2>4. Reply(t, r)'
    BY <1>7, <2>1, <2>2, <2>3 DEF Letter, Reply, Sends
  <2>5. QED
    BY <2>3, <2>4 DEF SendInv
<1>8. QED
  BY <1>3, <1>4, <1>5, <1>6, <1>7 DEF SendInv

\* The steps of programs that run leave the programs, names and runs alone.
LEMMA StepFrame ==
  ASSUME Arrays, NEW p \in Machines, Types(p) \/ Step(p)
  PROVE  Arrays' /\ prog' = prog /\ name' = name /\ runs' = runs
<1>1. CASE Types(p)
  BY <1>1 DEF Types, Arrays
<1>2. CASE Greet(p)
  BY <1>2 DEF Greet, Arrays, Took, End, Continue
<1>3. CASE SendLetter(p)
  BY <1>3 DEF SendLetter, Arrays, Send
<1>4. CASE Acknowledged(p)
  BY <1>4 DEF Acknowledged, Arrays, Took
<1>5. CASE ChatSent(p)
  BY <1>5 DEF ChatSent, Arrays, Send, Leave, Continue
<1>6. CASE Hear(p)
  <2>1. prog' = prog /\ name' = name /\ said' = said /\ runs' = runs
    BY <1>6 DEF Hear
  <2>2. \/ Took(p) /\ End(p) /\ UNCHANGED <<turn, told, rest, their, last>>
        \/ Took(p) /\ UNCHANGED their /\ Continue(p, TRUE, IF told[p] < 2 THEN told[p] + 1 ELSE 2)
        \/ /\ Answer(p, ACK) /\ UNCHANGED <<turn, told, rest>>
           /\ \/ their' = [their EXCEPT ![p] = Append(@, Read(p))] /\ UNCHANGED last
              \/ last' = [last EXCEPT ![p] = Append(@, Read(p))] /\ UNCHANGED their
           /\ pc' = [pc EXCEPT ![p] = IF Len(HeardBy(p)) = Buffer THEN "overrun" ELSE @]
    BY <1>6 DEF Hear, HeardBy
  <2>3. QED
    BY <2>1, <2>2 DEF Arrays, Took, End, Continue, Answer
<1>7. CASE TxSent(p)
  BY <1>7 DEF TxSent, Arrays, Send, End
<1>8. CASE Take(p)
  BY <1>8 DEF Take, Arrays, Took, Answer, End
<1>9. QED
  BY <1>1, <1>2, <1>3, <1>4, <1>5, <1>6, <1>7, <1>8 DEF Step

\* A first session goes on in one of its phases.
LEMMA BothStep ==
  ASSUME Arrays, Both, NEW p \in Machines, Types(p) \/ Step(p)
  PROVE  Both'
<1> DEFINE q == Other(p)
<1>1. Mates(p, q) /\ Mates(q, p) /\ Machines = {p, q}
  BY Pair
<1>2. prog' = prog /\ name' = name /\ runs' = runs
  BY StepFrame
<1>3. p \in Machines /\ q \in Machines /\ Other(p) = q /\ Other(q) = p /\ p # q
  BY <1>1 DEF Mates
<1> HIDE DEF q
<1>4. ASSUME Chatting PROVE ChatInv'
  <2>1. /\ name[p] \in Names /\ name[q] \in Names
        /\ Phase(p, q) \/ Phase(q, p)
    <3>1. ChatInv
      BY <1>4 DEF Both
    <3>2. QED
      BY <1>1, <1>3, <3>1 DEF ChatInv
  <2>2. Phase(p, q)' \/ Phase(q, p)'
    <3>1. CASE Types(p)
      BY <1>1, <2>1, <3>1, TypesChat
    <3>2. CASE Greet(p)
      BY <1>1, <2>1, <3>2, GreetChat
    <3>3. CASE SendLetter(p)
      BY <1>1, <2>1, <3>3, SendLetterChat
    <3>4. CASE Acknowledged(p)
      BY <1>1, <2>1, <3>4, AcknowledgedChat
    <3>5. CASE ChatSent(p)
      BY <1>1, <2>1, <3>5, ChatSentChat
    <3>6. CASE Hear(p)
      BY <1>1, <2>1, <3>6, HearChat
    <3>7. ~TxSent(p)
      BY <1>4 DEF TxSent, Chatting
    <3>8. ~Take(p)
      BY <2>1 DEF Take, Phase, Greeting, Silent, Yields, Leads, LeadsOn, LeadsDone, Opens, Asked,
                  Says, Spells, Spelt, Told, Passes, Leaves, Ready
    <3>9. QED
      BY <3>1, <3>2, <3>3, <3>4, <3>5, <3>6, <3>7, <3>8 DEF Step
  <2>3. \E s \in Machines : Phase(s, Other(s))'
    BY <1>3, <2>2
  <2>4. \A s \in Machines : name'[s] \in Names
    BY <1>1, <1>2, <2>1
  <2>5. QED
    BY <2>3, <2>4 DEF ChatInv
<1>5. ASSUME NEW t \in Machines, NEW r, r = Other(t), prog[t] = "tx", prog[r] = "rx"
      PROVE  SendInv(t, r)'
  <2>1. Mates(t, r) /\ p \in {t, r}
    BY <1>5, Pair
  <2>2. SendInv(t, r) /\ prog[t] = "tx" /\ prog[r] = "rx"
    BY <1>5 DEF Both
  <2>3. CASE SendLetter(p)
    BY <2>1, <2>2, <2>3, SendLetterTx
  <2>4. CASE Acknowledged(p)
    BY <2>1, <2>2, <2>4, AcknowledgedTx
  <2>5. CASE TxSent(p)
    BY <2>1, <2>2, <2>5, TxSentTx
  <2>6. CASE Take(p)
    BY <2>1, <2>2, <2>6, TakeTx
  <2>7. ~Types(p) /\ ~Greet(p) /\ ~Hear(p)
    BY <2>1, <2>2 DEF Types, Greet, Hear, SendInv, Hello, Tells, Letter, Reply, Over, Sends
  <2>8. ~ChatSent(p)
    BY <2>1, <2>2 DEF ChatSent
  <2>9. QED
    BY <2>3, <2>4, <2>5, <2>6, <2>7, <2>8 DEF Step
<1>6. Chatting' = Chatting
  BY <1>2 DEF Chatting
<1>7. QED
  BY <1>2, <1>4, <1>5, <1>6 DEF Both

\* A program alone reads nothing, and can only give up.
LEMMA AloneStep ==
  ASSUME Arrays, NEW s, NEW o, Mates(s, o), Alone(s, o), NEW p \in {s, o}, Types(p) \/ Step(p),
         runs' = runs, prog' = prog, name' = name
  PROVE  Alone(s, o)'
<1>1. p = s /\ line[s] = <<>> /\ pc[o] = "ended" /\ pc[s] \in {"first", "hello", "take"}
      /\ s \in Machines /\ o \in Machines /\ s # o
  <2>1. s \in Machines /\ o \in Machines /\ s # o
    BY DEF Mates
  <2>2. p # o /\ pc[s] # "ended"
    BY DEF Alone, Types, Step, Greet, SendLetter, Acknowledged, ChatSent, Hear, TxSent, Take
  <2>3. QED
    BY <2>1, <2>2 DEF Alone
<1>2. Read(s) = NONE
  BY <1>1 DEF Read
<1>3. CASE Greet(s) /\ pc[s] = "first"
  <2>1. Took(s) /\ End(s) /\ UNCHANGED <<turn, told, rest, last>> /\ their' = their /\ said' = said
    BY <1>2, <1>3 DEF Greet
  <2>2. line'[s] = (IF line[s] = <<>> THEN <<>> ELSE Tail(line[s])) /\ line'[o] = line[o]
    BY <2>1, Take1, Zenon
  <2>3. pc'[s] = "ended" /\ pc'[o] = pc[o]
    BY <2>1, Ends, Zenon
  <2>4. QED
    BY <1>1, <1>3, <2>1, <2>2, <2>3 DEF Alone, Unused
<1>4. CASE Acknowledged(s) /\ pc[s] = "hello"
  <2>1. Acknowledged(s) /\ line[s] = <<>>
    BY <1>1, <1>4
  <2>2. /\ pc'[s] = "ended" /\ pc'[o] = pc[o] /\ line'[s] = <<>> /\ line'[o] = line[o]
        /\ turn' = turn /\ told' = told /\ name' = name /\ their' = their /\ said' = said
        /\ last' = last /\ rest' = rest
    BY <2>1, NoAnswer, Zenon
  <2>3. QED
    BY <1>1, <1>4, <2>2 DEF Alone, Unused
<1>5. CASE Take(s) /\ pc[s] = "take"
  <2>1. Take(s) /\ line[s] \in {<<DONE>>, <<>>} /\ Mates(o, s)
    BY <1>1, <1>5 DEF Mates
  <2>2. /\ line'[s] = <<>> /\ line'[o] = line[o] /\ pc'[s] = "ended" /\ pc'[o] = pc[o]
        /\ said' = said /\ last' = last /\ rest' = rest
    BY <2>1, TakeEnds, Zenon
  <2>3. QED
    BY <1>1, <1>5, <2>2 DEF Alone, Unused
<1>6. QED
  BY <1>1, <1>3, <1>4, <1>5
     DEF Types, Step, Greet, SendLetter, Acknowledged, ChatSent, Hear, TxSent, Take

\* What a start is, and what it sends to a line that holds nothing.
LEMMA StartKinds ==
  ASSUME Arrays, NEW p, NEW q, Mates(p, q), Start(p), line[q] = <<>>
  PROVE  /\ Arrays' /\ runs'[p] = runs[p] + 1 /\ runs'[q] = runs[q] /\ line'[p] = line[p]
         /\ prog'[q] = prog[q] /\ pc'[q] = pc[q] /\ name'[q] = name[q] /\ said'[q] = said[q]
         /\ rest'[q] = rest[q] /\ last'[q] = last[q] /\ their'[q] = their[q]
         /\ turn'[q] = turn[q] /\ told'[q] = told[q]
         /\ \/ /\ prog'[p] = "chat" /\ pc'[p] = "first" /\ Unused(p)' /\ name'[p] \in Names
               /\ line'[q] = <<First(name'[p])>>
            \/ /\ prog'[p] = "tx" /\ pc'[p] = "hello" /\ said'[p] \in Lines
               /\ rest'[p] = said'[p] /\ line'[q] = <<HELLO>>
            \/ /\ prog'[p] = "rx" /\ pc'[p] \in {"take", "ended"} /\ last'[p] = <<>>
               /\ line'[q] = <<>>
<1>1. /\ runs'[p] = runs[p] + 1 /\ runs'[q] = runs[q] /\ runs' \in [Machines -> Nat]
      /\ DOMAIN line = Machines
  BY DEF Start, Arrays, Mates
<1>2. ASSUME NEW b, Send(p, b)
      PROVE  line'[q] = <<b>> /\ line'[p] = line[p] /\ DOMAIN line' = Machines
  <2>1. Len(line[q]) < Fifo
    BY EmptySeq, FifoAssumption
  <2>2. Sent(p, q, b)
    BY <1>2, <2>1, SendTo, Zenon
  <2>3. DOMAIN line' = Machines
    BY <1>1, <1>2 DEF Send
  <2>4. QED
    BY <2>2, <2>3, Append1 DEF Sent
<1>3. CASE StartChat(p)
  <2>1. PICK n \in Names, junk \in {<<>>, Exit} :
          Begin(p, "chat", "first", n, Unsaid, <<>>, junk) /\ Send(p, First(n))
    BY <1>3 DEF StartChat
  <2>2. /\ prog'[p] = "chat" /\ prog'[q] = prog[q] /\ pc'[p] = "first" /\ pc'[q] = pc[q]
        /\ name'[p] = n /\ name'[q] = name[q] /\ said'[p] = Unsaid /\ said'[q] = said[q]
        /\ rest'[p] = <<>> /\ rest'[q] = rest[q] /\ last'[p] = junk /\ last'[q] = last[q]
        /\ their'[p] = <<>> /\ their'[q] = their[q] /\ ~turn'[p] /\ turn'[q] = turn[q]
        /\ told'[p] = 0 /\ told'[q] = told[q]
        /\ DOMAIN prog' = Machines /\ DOMAIN pc' = Machines /\ DOMAIN turn' = Machines
        /\ DOMAIN told' = Machines /\ DOMAIN name' = Machines /\ DOMAIN their' = Machines
        /\ DOMAIN said' = Machines /\ DOMAIN last' = Machines /\ DOMAIN rest' = Machines
    BY <2>1 DEF Begin, Arrays, Mates
  <2>3. line'[q] = <<First(n)>> /\ line'[p] = line[p] /\ DOMAIN line' = Machines
    BY <1>2, <2>1
  <2>4. Arrays'
    BY <1>1, <2>2, <2>3 DEF Arrays
  <2>5. Unused(p)'
    BY <2>2 DEF Unused
  <2>6. QED
    BY <1>1, <2>2, <2>3, <2>4, <2>5
<1>4. CASE StartTx(p)
  <2>1. PICK l \in Lines : Begin(p, "tx", "hello", Unsaid, l, l, <<>>) /\ Send(p, HELLO)
    BY <1>4 DEF StartTx
  <2>2. /\ prog'[p] = "tx" /\ prog'[q] = prog[q] /\ pc'[p] = "hello" /\ pc'[q] = pc[q]
        /\ name'[p] = Unsaid /\ name'[q] = name[q] /\ said'[p] = l /\ said'[q] = said[q]
        /\ rest'[p] = l /\ rest'[q] = rest[q] /\ last'[p] = <<>> /\ last'[q] = last[q]
        /\ their'[p] = <<>> /\ their'[q] = their[q] /\ ~turn'[p] /\ turn'[q] = turn[q]
        /\ told'[p] = 0 /\ told'[q] = told[q]
        /\ DOMAIN prog' = Machines /\ DOMAIN pc' = Machines /\ DOMAIN turn' = Machines
        /\ DOMAIN told' = Machines /\ DOMAIN name' = Machines /\ DOMAIN their' = Machines
        /\ DOMAIN said' = Machines /\ DOMAIN last' = Machines /\ DOMAIN rest' = Machines
    BY <2>1 DEF Begin, Arrays, Mates
  <2>3. line'[q] = <<HELLO>> /\ line'[p] = line[p] /\ DOMAIN line' = Machines
    BY <1>2, <2>1
  <2>4. Arrays'
    BY <1>1, <2>2, <2>3 DEF Arrays
  <2>5. QED
    BY <1>1, <2>2, <2>3, <2>4
<1>5. CASE StartRx(p)
  <2>1. PICK c \in Counts :
          /\ Begin(p, "rx", IF c = 0 THEN "ended" ELSE "take", Unsaid, Unsaid,
                   [i \in 1..c |-> NONE], <<>>)
          /\ UNCHANGED line
    BY <1>5 DEF StartRx
  <2> DEFINE first == IF c = 0 THEN "ended" ELSE "take"
             all == [i \in 1..c |-> NONE]
  <2>6. Begin(p, "rx", first, Unsaid, Unsaid, all, <<>>)
    BY <2>1
  <2>7. first \in {"take", "ended"}
    OBVIOUS
  <2> HIDE DEF first, all
  <2>2. /\ prog'[p] = "rx" /\ prog'[q] = prog[q]
        /\ pc'[p] = first /\ pc'[q] = pc[q]
        /\ name'[p] = Unsaid /\ name'[q] = name[q] /\ said'[p] = Unsaid /\ said'[q] = said[q]
        /\ rest'[p] = all /\ rest'[q] = rest[q] /\ last'[p] = <<>> /\ last'[q] = last[q]
        /\ their'[p] = <<>> /\ their'[q] = their[q] /\ ~turn'[p] /\ turn'[q] = turn[q]
        /\ told'[p] = 0 /\ told'[q] = told[q]
        /\ DOMAIN prog' = Machines /\ DOMAIN pc' = Machines /\ DOMAIN turn' = Machines
        /\ DOMAIN told' = Machines /\ DOMAIN name' = Machines /\ DOMAIN their' = Machines
        /\ DOMAIN said' = Machines /\ DOMAIN last' = Machines /\ DOMAIN rest' = Machines
    BY <2>6 DEF Begin, Arrays, Mates
  <2>3. line' = line
    BY <2>1
  <2>4. Arrays'
    BY <1>1, <2>2, <2>3 DEF Arrays
  <2>5. QED
    BY <1>1, <2>2, <2>3, <2>4, <2>7
<1>6. QED
  BY <1>3, <1>4, <1>5 DEF Start

\* A program starts: alone, or beside one that waits or has given up.
LEMMA StartSession ==
  ASSUME Arrays, SessionInv, NEW p \in Machines, Start(p)
  PROVE  Arrays' /\ SessionInv'
<1> DEFINE q == Other(p)
<1>1. Mates(p, q) /\ Machines = {p, q} /\ Other(p) = q /\ Other(q) = p /\ p # q /\ q \in Machines
  BY Pair DEF Mates
<1> HIDE DEF q
<1>2. Arrays' /\ runs'[p] = runs[p] + 1 /\ runs'[q] = runs[q] /\ runs[p] \in Nat /\ runs[q] \in Nat
  <2>1. runs'[p] = runs[p] + 1 /\ runs'[q] = runs[q] /\ runs[p] \in Nat /\ runs[q] \in Nat
    BY <1>1 DEF Start, Arrays
  <2>2. Arrays'
    BY <1>1 DEF Start, Arrays, StartChat, StartTx, StartRx, Begin, Send
  <2>3. QED
    BY <2>1, <2>2
<1>3. SUFFICES ASSUME FirstRuns' PROVE (Nobody \/ (\E s \in Machines : Alone(s, Other(s))) \/ Both)'
  BY <1>2 DEF SessionInv
<1>4. runs[p] = 0 /\ runs[q] <= 1
  BY <1>1, <1>2, <1>3 DEF FirstRuns
<1>5. Nobody \/ Alone(q, p)
  <2>1. FirstRuns
    BY <1>1, <1>4 DEF FirstRuns
  <2>2. ~Both /\ ~Alone(p, q)
    BY <1>4 DEF Both, Alone
  <2>3. QED
    BY <1>1, <2>1, <2>2 DEF SessionInv
<1>6. line[q] = <<>>
  BY <1>1, <1>5 DEF Nobody, Alone
<1>7. /\ line'[p] = line[p]
      /\ prog'[q] = prog[q] /\ pc'[q] = pc[q] /\ name'[q] = name[q] /\ said'[q] = said[q]
      /\ rest'[q] = rest[q] /\ last'[q] = last[q] /\ their'[q] = their[q]
      /\ turn'[q] = turn[q] /\ told'[q] = told[q]
      /\ \/ /\ prog'[p] = "chat" /\ pc'[p] = "first" /\ Unused(p)' /\ name'[p] \in Names
            /\ line'[q] = <<First(name'[p])>>
         \/ /\ prog'[p] = "tx" /\ pc'[p] = "hello" /\ said'[p] \in Lines
            /\ rest'[p] = said'[p] /\ line'[q] = <<HELLO>>
         \/ /\ prog'[p] = "rx" /\ pc'[p] \in {"take", "ended"} /\ last'[p] = <<>>
            /\ line'[q] = <<>>
  BY <1>1, <1>6, StartKinds
<1>8. CASE Nobody
  <2>1. line[p] = <<>> /\ pc[q] = "ended" /\ runs[q] = 0
    BY <1>1, <1>8 DEF Nobody
  <2>2. Alone(p, q)'
    BY <1>2, <1>4, <1>7, <2>1 DEF Alone
  <2>3. QED
    BY <1>1, <2>2
<1>9. CASE Alone(q, p)
  <2>1. runs'[p] = 1 /\ runs'[q] = 1
    BY <1>2, <1>4, <1>9 DEF Alone
  <2>2. ASSUME Chatting' PROVE ChatInv'
    <3>1. prog'[p] = "chat" /\ prog'[q] = "chat"
      BY <1>1, <2>2 DEF Chatting
    <3>2. /\ pc[q] \in {"first", "ended"} /\ Unused(q) /\ name[q] \in Names
          /\ line[p] = <<First(name[q])>>
      BY <1>7, <1>9, <3>1 DEF Alone
    <3>3. Unused(q)'
      BY <1>7, <3>2 DEF Unused
    <3>4. /\ pc'[p] = "first" /\ Unused(p)' /\ name'[p] \in Names
          /\ line'[q] = <<First(name'[p])>>
      BY <1>7, <3>1
    <3>5. line'[p] = <<First(name'[q])>>
      BY <1>7, <3>2
    <3>6. Greeting(p, q)'
      BY <1>7, <3>2, <3>3, <3>4, <3>5 DEF Greeting
    <3>7. Phase(p, q)'
      BY <3>6 DEF Phase
    <3>8. \A s \in Machines : name'[s] \in Names
      BY <1>1, <1>7, <3>2, <3>4
    <3>9. QED
      BY <1>1, <3>7, <3>8 DEF ChatInv
  <2>3. ASSUME prog'[p] = "tx", prog'[q] = "rx" PROVE SendInv(p, q)'
    <3>1. pc[q] \in {"take", "ended"} /\ last[q] = <<>> /\ line[p] = <<>>
      BY <1>7, <1>9, <2>3 DEF Alone
    <3>2. Hello(p, q)'
      BY <1>7, <2>3, <3>1 DEF Hello, Sends
    <3>3. QED
      BY <1>7, <2>3, <3>2 DEF SendInv
  <2>4. ASSUME prog'[q] = "tx", prog'[p] = "rx" PROVE SendInv(q, p)'
    <3>1. pc[q] \in {"hello", "ended"} /\ said[q] \in Lines /\ rest[q] = said[q] /\ line[p] = <<HELLO>>
      BY <1>7, <1>9, <2>4 DEF Alone
    <3>2. Hello(q, p)'
      BY <1>7, <2>4, <3>1 DEF Hello, Sends
    <3>3. QED
      BY <1>7, <3>1, <3>2 DEF SendInv
  <2>5. Both'
    BY <1>1, <2>1, <2>2, <2>3, <2>4 DEF Both
  <2>6. QED
    BY <2>5
<1>10. QED
  BY <1>5, <1>8, <1>9

\* At first no program runs.
LEMMA InitSession == Init => IInv
BY DEF Init, IInv, Arrays, SessionInv, Nobody

\* The invariant is inductive.
LEMMA NextSession == IInv /\ [Next]_vars => IInv'
<1> SUFFICES ASSUME Arrays, SessionInv, [Next]_vars PROVE IInv'
  BY DEF IInv
<1>1. ASSUME NEW p \in Machines, Start(p) PROVE IInv'
  BY <1>1, StartSession DEF IInv
<1>2. ASSUME NEW p \in Machines, Types(p) \/ Step(p) PROVE IInv'
  <2>1. Arrays' /\ prog' = prog /\ name' = name /\ runs' = runs
    BY <1>2, StepFrame
  <2>2. SUFFICES ASSUME FirstRuns'
                 PROVE  (Nobody \/ (\E s \in Machines : Alone(s, Other(s))) \/ Both)'
    BY <2>1 DEF IInv, SessionInv
  <2>3. FirstRuns
    BY <2>1, <2>2 DEF FirstRuns
  <2>4. ~Nobody
    BY <1>2 DEF Nobody, Types, Step, Greet, SendLetter, Acknowledged, ChatSent, Hear, TxSent, Take
  <2>5. CASE \E s \in Machines : Alone(s, Other(s))
    <3>1. PICK s \in Machines : Alone(s, Other(s))
      BY <2>5
    <3>2. Mates(s, Other(s)) /\ p \in {s, Other(s)}
      BY Pair
    <3>3. Alone(s, Other(s))'
      BY <1>2, <2>1, <3>1, <3>2, AloneStep
    <3>4. QED
      BY <3>3
  <2>6. CASE Both
    BY <1>2, <2>6, BothStep
  <2>7. QED
    BY <2>3, <2>4, <2>5, <2>6 DEF SessionInv
<1>3. CASE UNCHANGED vars
  <2>1. /\ line' = line /\ prog' = prog /\ pc' = pc /\ turn' = turn /\ told' = told /\ name' = name
        /\ their' = their /\ said' = said /\ last' = last /\ rest' = rest /\ runs' = runs
    BY <1>3 DEF vars
  <2>2. Arrays' /\ (FirstRuns' => FirstRuns) /\ Chatting' = Chatting /\ (Nobody => Nobody')
    BY <2>1 DEF Arrays, FirstRuns, Chatting, Nobody
  <2>3. ASSUME NEW s, NEW h, Alone(s, h) PROVE Alone(s, h)'
    BY <2>1, <2>3 DEF Alone, Unused
  <2>4. ASSUME NEW s, NEW h, SendInv(s, h) PROVE SendInv(s, h)'
    BY <2>1, <2>4 DEF SendInv, Hello, Tells, Letter, Reply, Over, Sends
  <2>5. ASSUME NEW s, NEW h, Phase(s, h) PROVE Phase(s, h)'
    <3>1. \A i : Unused(i)' = Unused(i) /\ Ready(i)' = Ready(i) /\ HeardBy(i)' = HeardBy(i)
                 /\ Words(i)' = Words(i)
      BY <2>1 DEF Unused, Ready, HeardBy, Words
    <3>2. Opens(s, h)' = Opens(s, h) /\ Told(s, h)' = Told(s, h)
      BY <2>1, <3>1 DEF Opens, Told
    <3>3. (Greeting(s, h) => Greeting(s, h)') /\ (Silent(s, h) => Silent(s, h)')
      BY <2>1, <3>1, <3>2 DEF Greeting, Silent
    <3>4. (Yields(s, h) => Yields(s, h)') /\ (Leads(s, h) => Leads(s, h)')
      BY <2>1, <3>1, <3>2 DEF Yields, Leads
    <3>5. (LeadsOn(s, h) => LeadsOn(s, h)')
      BY <2>1, <3>1, <3>2 DEF LeadsOn
    <3>6. (LeadsDone(s, h) => LeadsDone(s, h)')
      BY <2>1, <3>1, <3>2 DEF LeadsDone
    <3>7. (Asked(s, h) => Asked(s, h)')
      BY <2>1, <3>1, <3>2 DEF Asked
    <3>8. (Says(s, h) => Says(s, h)')
      BY <2>1, <3>1, <3>2 DEF Says
    <3>9. (Spells(s, h) => Spells(s, h)')
      BY <2>1, <3>1, <3>2 DEF Spells
    <3>10. (Spelt(s, h) => Spelt(s, h)')
      BY <2>1, <3>1, <3>2 DEF Spelt
    <3>11. (Passes(s, h) => Passes(s, h)')
      BY <2>1, <3>1, <3>2 DEF Passes
    <3>12. (Leaves(s, h) => Leaves(s, h)')
      BY <2>1, <3>1, <3>2 DEF Leaves
    <3>13. QED
      BY <2>5, <3>3, <3>4, <3>5, <3>6, <3>7, <3>8, <3>9, <3>10, <3>11, <3>12 DEF Phase
  <2>6. Both => Both'
    BY <2>1, <2>2, <2>4, <2>5 DEF Both, ChatInv
  <2>7. QED
    BY <2>2, <2>3, <2>6 DEF IInv, SessionInv
<1>4. QED
  BY <1>1, <1>2, <1>3 DEF Next

\* A prefix without its last letter is a prefix.
LEMMA PartsShorter ==
  ASSUME NEW a \in Seq(Letters), NEW x \in Letters, NEW r, NEW w, Parts(Append(a, x), r, w)
  PROVE  IsPrefix(a, w)
<1>1. r \in Seq(Letters) /\ Append(a, x) \o r = w /\ <<x>> \in Seq(Letters)
  BY DEF Parts
<1>2. Append(a, x) = a \o <<x>>
  BY AppendProperties
<1>3. <<x>> \o r \in Seq(Letters) /\ a \o (<<x>> \o r) = w
  <2>1. <<x>> \o r \in Seq(Letters)
    BY <1>1, ConcatProperties
  <2>2. (a \o <<x>>) \o r = a \o (<<x>> \o r)
    BY <1>1, ConcatAssociative
  <2>3. QED
    BY <1>1, <1>2, <2>1, <2>2
<1>4. Parts(a, <<x>> \o r, w)
  BY <1>3 DEF Parts
<1>5. QED
  BY <1>4, PartsPrefix

\* Nothing and the whole are prefixes of the whole.
LEMMA PrefixEnds ==
  ASSUME NEW n \in Seq(Letters) PROVE IsPrefix(<<>>, n) /\ IsPrefix(n, n)
<1>1. Parts(<<>>, n, n) /\ Parts(n, <<>>, n)
  BY ConcatEmptySeq DEF Parts
<1>2. QED
  BY <1>1, PartsPrefix, Zenon

\* What a chat in any of its phases has heard.
LEMMA PhaseHeard ==
  ASSUME NEW s \in Machines, NEW h \in Machines, s # h, name[s] \in Names, name[h] \in Names, Phase(s, h)
  PROVE  /\ IsPrefix(their[s], name[h]) /\ IsPrefix(their[h], name[s])
         /\ told[s] = 2 => their[s] = name[h]
         /\ told[h] = 2 => their[h] = name[s]
         /\ pc[s] = "type" /\ said[h] # Unsaid => last[s] = said[h]
         /\ pc[h] # "type"
         /\ pc[s] # "overrun" /\ pc[h] # "overrun"
<1>1. /\ IsPrefix(<<>>, name[s]) /\ IsPrefix(name[s], name[s])
      /\ IsPrefix(<<>>, name[h]) /\ IsPrefix(name[h], name[h])
  BY LettersAssumption, PrefixEnds
<1>2. CASE Greeting(s, h) \/ Silent(s, h) \/ Yields(s, h) \/ Leads(s, h) \/ LeadsOn(s, h) \/ LeadsDone(s, h)
  BY <1>1, <1>2 DEF Greeting, Silent, Yields, Leads, LeadsOn, LeadsDone, Opens, Unused, Ready
<1>3. CASE Passes(s, h) \/ Leaves(s, h)
  BY <1>1, <1>3 DEF Passes, Leaves, Ready
<1>4. CASE Asked(s, h)
  BY <1>1, <1>4 DEF Asked, Told, Ready
<1>5. ASSUME Told(s, h), IsPrefix(HeardBy(h), Words(s)), pc[s] \in {"send", "ack", "ended"}
      PROVE  /\ IsPrefix(their[s], name[h]) /\ IsPrefix(their[h], name[s])
             /\ told[s] = 2 => their[s] = name[h]
             /\ told[h] = 2 => their[h] = name[s]
             /\ pc[h] # "type" /\ pc[h] # "overrun"
  BY <1>1, <1>5 DEF Told, Ready, HeardBy, Words
<1>6. CASE Says(s, h)
  <2>1. Told(s, h) /\ pc[s] = "send" /\ Parts(HeardBy(h), rest[s], Words(s))
    BY <1>6 DEF Says
  <2>2. IsPrefix(HeardBy(h), Words(s))
    BY <2>1, PartsPrefix, Zenon
  <2>3. QED
    BY <1>5, <2>1, <2>2
<1>7. CASE Spells(s, h)
  <2>1. PICK x \in Letters : /\ HeardBy(h) \in Seq(Letters)
                             /\ Parts(Append(HeardBy(h), x), rest[s], Words(s))
    BY <1>7 DEF Spells
  <2>2. Told(s, h) /\ pc[s] \in {"ack", "ended"}
    BY <1>7 DEF Spells
  <2>3. IsPrefix(HeardBy(h), Words(s))
    BY <2>1, PartsShorter, Zenon
  <2>4. QED
    BY <1>5, <2>2, <2>3
<1>8. CASE Spelt(s, h)
  <2>1. Told(s, h) /\ pc[s] \in {"ack", "ended"} /\ Parts(HeardBy(h), rest[s], Words(s))
    BY <1>8 DEF Spelt
  <2>2. IsPrefix(HeardBy(h), Words(s))
    BY <2>1, PartsPrefix, Zenon
  <2>3. QED
    BY <1>5, <2>1, <2>2
<1>9. QED
  BY <1>2, <1>3, <1>4, <1>6, <1>7, <1>8 DEF Phase

\* rx has printed a prefix of what tx was given.
LEMMA SendHeard ==
  ASSUME NEW t, NEW r, SendInv(t, r) PROVE IsPrefix(last[r], said[t])
<1>1. said[t] \in Seq(Letters)
  BY LettersAssumption DEF SendInv
<1>2. CASE Hello(t, r) \/ Over(t, r)
  BY <1>1, <1>2, PrefixEnds DEF Hello, Over
<1>3. CASE Tells(t, r) \/ Reply(t, r)
  <2>1. Parts(last[r], rest[t], said[t])
    BY <1>3 DEF Tells, Reply
  <2>2. QED
    BY <2>1, PartsPrefix, Zenon
<1>4. CASE Letter(t, r)
  <2>1. PICK x \in Letters : /\ last[r] \in Seq(Letters)
                             /\ Parts(Append(last[r], x), rest[t], said[t])
    BY <1>4 DEF Letter
  <2>2. QED
    BY <2>1, PartsShorter, Zenon
<1>5. QED
  BY <1>2, <1>3, <1>4 DEF SendInv

\* A chat's first session is in one of its phases.
LEMMA InPhase ==
  ASSUME IInv, Chatting
  PROVE  /\ \A p \in Machines : name[p] \in Names
         /\ \E s \in Machines : Phase(s, Other(s))
<1>1. \A p \in Machines : runs[p] = 1
  BY DEF Chatting
<1>2. FirstRuns /\ ~Nobody
  BY <1>1 DEF FirstRuns, Nobody, Machines
<1>3. \A p \in Machines : ~Alone(p, Other(p))
  BY <1>1, Pair DEF Alone, Mates
<1>4. QED
  BY <1>2, <1>3 DEF IInv, SessionInv, Both, ChatInv

\* The invariant gives each of the three properties.
LEMMA HeardHolds == IInv => Heard
<1> SUFFICES ASSUME IInv PROVE Heard
  OBVIOUS
<1>1. ASSUME Chatting, NEW p \in Machines
      PROVE  /\ IsPrefix(their[p], name[Other(p)])
             /\ Talking(p) => their[p] = name[Other(p)]
             /\ pc[p] = "type" /\ said[Other(p)] # Unsaid => last[p] = said[Other(p)]
             /\ pc[p] # "overrun"
  <2>1. PICK s \in Machines : Phase(s, Other(s))
    BY <1>1, InPhase
  <2> DEFINE h == Other(s)
  <2>2. /\ h \in Machines /\ s # h /\ Other(h) = s /\ Machines = {s, h}
        /\ name[s] \in Names /\ name[h] \in Names /\ Phase(s, h) /\ h = Other(s)
    BY <1>1, <2>1, Pair, InPhase DEF Mates
  <2> HIDE DEF h
  <2>3. /\ IsPrefix(their[s], name[h]) /\ IsPrefix(their[h], name[s])
        /\ told[s] = 2 => their[s] = name[h]
        /\ told[h] = 2 => their[h] = name[s]
        /\ pc[s] = "type" /\ said[h] # Unsaid => last[s] = said[h]
        /\ pc[h] # "type"
        /\ pc[s] # "overrun" /\ pc[h] # "overrun"
    BY <2>2, PhaseHeard
  <2>4. QED
    BY <2>2, <2>3 DEF Talking
<1>2. ASSUME Sending, NEW p \in Machines, prog[p] = "rx"
      PROVE  IsPrefix(last[p], said[Other(p)])
  <2>1. \A i \in Machines : runs[i] = 1
    BY <1>2 DEF Sending
  <2>2. FirstRuns /\ ~Nobody /\ \A i \in Machines : ~Alone(i, Other(i))
    BY <2>1, Pair DEF FirstRuns, Nobody, Alone, Mates, Machines
  <2>3. Both
    BY <2>2 DEF IInv, SessionInv
  <2>4. PICK t \in Machines : prog[t] = "tx" /\ prog[Other(t)] = "rx"
    BY <1>2 DEF Sending
  <2>5. p = Other(t) /\ Other(p) = t
    BY <1>2, <2>4, Pair DEF Mates
  <2>6. SendInv(t, p)
    BY <2>3, <2>4, <2>5 DEF Both
  <2>7. QED
    BY <2>5, <2>6, SendHeard
<1>3. QED
  BY <1>1, <1>2 DEF Heard

\* At most one byte is under way once the names are known.
LEMMA OneSpeaksHolds == IInv => OneSpeaks
<1> SUFFICES ASSUME IInv, Chatting, Talking(1), Talking(2)
             PROVE  /\ ~(/\ turn[1] /\ turn[2] /\ pc[1] \in {"type", "send", "ack"}
                         /\ pc[2] \in {"type", "send", "ack"})
                    /\ Len(line[1]) + Len(line[2]) <= 1
  BY DEF OneSpeaks
<1>1. PICK s \in Machines : Phase(s, Other(s))
  BY InPhase
<1> DEFINE h == Other(s)
<1>2. h \in Machines /\ s # h /\ Phase(s, h) /\ ((s = 1 /\ h = 2) \/ (s = 2 /\ h = 1))
  BY <1>1 DEF Machines, Other
<1> HIDE DEF h
<1>3. told[s] = 2 /\ told[h] = 2
  BY <1>2 DEF Talking
<1>4. /\ ~turn[h]
      /\ \/ line[s] = <<>> /\ line[h] = <<>>
         \/ line[s] = <<>> /\ \E x : line[h] = <<x>>
         \/ line[h] = <<>> /\ \E x : line[s] = <<x>>
  BY <1>2, <1>3 DEF Phase, Greeting, Silent, Yields, Leads, LeadsOn, LeadsDone, Opens, Unused, Asked,
                    Says, Spells, Spelt, Told, Passes, Leaves
<1>5. Len(line[s]) + Len(line[h]) <= 1 /\ Len(line[h]) + Len(line[s]) <= 1
  <2>1. Len(<<>>) = 0
    OBVIOUS
  <2>2. \A x : Len(<<x>>) = 1
    BY One
  <2>3. \/ Len(line[s]) = 0 /\ Len(line[h]) = 0
        \/ Len(line[s]) = 0 /\ Len(line[h]) = 1
        \/ Len(line[s]) = 1 /\ Len(line[h]) = 0
    BY <1>4, <2>1, <2>2
  <2> DEFINE a == Len(line[s])
             b == Len(line[h])
  <2> HIDE DEF a, b
  <2>4. (a = 0 /\ b = 0) \/ (a = 0 /\ b = 1) \/ (a = 1 /\ b = 0)
    BY <2>3 DEF a, b
  <2>5. a + b <= 1 /\ b + a <= 1
    BY <2>4
  <2>6. QED
    BY <2>5 DEF a, b
<1>6. CASE s = 1 /\ h = 2
  BY <1>4, <1>5, <1>6
<1>7. CASE s = 2 /\ h = 1
  BY <1>4, <1>5, <1>7
<1>8. QED
  BY <1>2, <1>6, <1>7

\* Only "exit" makes a program leave, or nothing heard at all.
LEMMA ExitMeantHolds == IInv => ExitMeant
<1> SUFFICES ASSUME IInv, Chatting, NEW p \in Machines, pc[p] = "left"
             PROVE  said[Other(p)] \in {Exit, Unsaid}
  BY DEF ExitMeant
<1>1. PICK s \in Machines : Phase(s, Other(s))
  BY InPhase
<1>2. p = s \/ p = Other(s)
  BY Pair
<1>3. QED
  BY <1>1, <1>2 DEF Phase, Greeting, Silent, Yields, Leads, LeadsOn, LeadsDone, Opens, Unused, Asked,
                    Says, Spells, Spelt, Told, Passes, Leaves, Ready

\* The invariant of a first session.
LEMMA SessionInvariance == Spec => []IInv
BY InitSession, NextSession, PTL DEF Spec

\* For all names and lines that fit the buffer, in a first session: each chat
\* has heard a prefix of the other's name, and the name itself once names are
\* exchanged; a message shown is the one typed; no buffer overruns; and rx has
\* printed a prefix of what tx was given (ece391chat.c:37-119, ece391tx.c:32-40,
\* ece391rx.c:28-43).
THEOREM HeardCorrect == Spec => []Heard
BY SessionInvariance, HeardHolds, PTL

\* Once both know the names at most one of two chats has the turn, and at most
\* one byte is under way, so no receiver of two bytes or more overruns
\* (ece391chat.c:34,71-119).
THEOREM OneSpeaksCorrect == Spec => []OneSpeaks
BY SessionInvariance, OneSpeaksHolds, PTL

\* A chat leaves with BYE only if the other said "exit", or had said nothing and
\* the stack held it (ece391chat.c:87).
THEOREM ExitMeantCorrect == Spec => []ExitMeant
BY SessionInvariance, ExitMeantHolds, PTL

(***************************************************************************)
(* Pacman.                                                                 *)
(***************************************************************************)
Speeds  == {0 - STEP, 0, STEP}
Steps   == {<<0, 0>>, <<0, STEP>>, <<0, 0 - STEP>>, <<STEP, 0>>, <<0 - STEP, 0>>}
Figures == [x : Int, y : Int, sx : Speeds, sy : Speeds]

\* The step that goes the way a key is drawn.
Way(key) == CASE key = KEY_UP    -> <<0, 0 - STEP>>
              [] key = KEY_DOWN  -> <<0, STEP>>
              [] key = KEY_RIGHT -> <<STEP, 0>>
              [] key = KEY_LEFT  -> <<0 - STEP, 0>>

\* What is counted and what is left make up the beans of the maze, if no byte
\* past bean_matrix reads as a bean.
PacmanInv ==
  /\ pac \in Figures /\ ghost \in Figures
  /\ direction \in Keys
  /\ <<pac.sx, pac.sy>> \in {<<0, 0>>, Way(direction)}
  /\ beans \subseteq CellsOf(7)
  /\ count \in Nat
  /\ StrayBeans = {FALSE} => count + Cardinality(beans) = CountWin
  /\ game = "won" => (StrayBeans = {FALSE} => beans = {}) /\ ~Near(pac, ghost)

\* The maze has finitely many cells.
LEMMA FiniteMaze == IsFiniteSet(CellsOf(7))
<1>1. Height \in Nat /\ Width \in Nat
  BY MazeAssumption DEF Height, Width
<1>2. IsFiniteSet(0..(Height - 1)) /\ IsFiniteSet(0..(Width - 1))
  BY <1>1, FS_Interval
<1>3. IsFiniteSet((0..(Height - 1)) \X (0..(Width - 1)))
  BY <1>2, FS_Product
<1>4. CellsOf(7) \subseteq (0..(Height - 1)) \X (0..(Width - 1))
  BY DEF CellsOf
<1>5. QED
  BY <1>3, <1>4, FS_Subset

\* Pacman's next step is along one axis, and it is drawn that way.
LEMMA PacStepStraight ==
  ASSUME PacmanInv, NEW key \in Keys
  PROVE  /\ PacStep(key) \in Steps
         /\ Facing(PacStep(key)) \in Keys
         /\ PacStep(key) \in {<<0, 0>>, Way(Facing(PacStep(key)))}
<1>1. pac.sx \in Speeds /\ pac.sy \in Speeds /\ direction \in Keys
  BY DEF PacmanInv, Figures
<1>2. OnX(pac) \in {<<0, 0>>, <<STEP, 0>>, <<0 - STEP, 0>>}
  BY <1>1 DEF OnX, Speeds
<1>3. OnY(pac) \in {<<0, 0>>, <<0, STEP>>, <<0, 0 - STEP>>}
  BY <1>1 DEF OnY, Speeds
<1>4. PacStep(key) \in Steps
  <2> DEFINE way == IF key \in {KEY_UP, KEY_LEFT} THEN 0 - STEP ELSE STEP
  <2>1. way \in {0 - STEP, STEP}
    OBVIOUS
  <2>2. PacStep(key) \in {OnX(pac), OnY(pac), <<0, way>>, <<way, 0>>, <<0 - STEP, 0>>,
                          <<pac.sx, 0>>, <<0, pac.sy>>}
    BY Zenon DEF PacStep
  <2> HIDE DEF way
  <2>3. QED
    BY <1>1, <1>2, <1>3, <2>1, <2>2 DEF Steps, Speeds
<1>5. ASSUME NEW step \in Steps
      PROVE  Facing(step) \in Keys /\ step \in {<<0, 0>>, Way(Facing(step))}
  BY <1>1, <1>5 DEF Steps, Facing, Way, Keys, STEP, KEY_UP, KEY_DOWN, KEY_LEFT, KEY_RIGHT
<1>6. QED
  BY <1>4, <1>5

\* Of some ways one ends nearest.
LEMMA Nearest ==
  ASSUME NEW S \in SUBSET (1..4), S # {}, NEW d \in [1..4 -> Int]
  PROVE  \E i \in S : \A j \in S : d[i] <= d[j]
<1> SUFFICES ASSUME \A i \in S : \E j \in S : d[j] < d[i] PROVE FALSE
  <2>1. \A i, j \in S : d[i] \in Int /\ d[j] \in Int
    OBVIOUS
  <2>2. QED
    BY <2>1
<1>1. PICK i1 \in S : TRUE
  OBVIOUS
<1>2. PICK i2 \in S : d[i2] < d[i1]
  OBVIOUS
<1>3. PICK i3 \in S : d[i3] < d[i2]
  OBVIOUS
<1>4. PICK i4 \in S : d[i4] < d[i3]
  OBVIOUS
<1>5. PICK i5 \in S : d[i5] < d[i4]
  OBVIOUS
<1>6. /\ i1 \in 1..4 /\ i2 \in 1..4 /\ i3 \in 1..4 /\ i4 \in 1..4 /\ i5 \in 1..4
      /\ d[i1] \in Int /\ d[i2] \in Int /\ d[i3] \in Int /\ d[i4] \in Int /\ d[i5] \in Int
  OBVIOUS
<1>7. /\ i1 # i2 /\ i1 # i3 /\ i1 # i4 /\ i1 # i5
      /\ i2 # i3 /\ i2 # i4 /\ i2 # i5 /\ i3 # i4 /\ i3 # i5 /\ i4 # i5
  BY <1>2, <1>3, <1>4, <1>5, <1>6
<1>8. QED
  BY <1>6, <1>7

\* And of some ways one is the last.
LEMMA LastOfSome ==
  ASSUME NEW S \in SUBSET (1..4), S # {}
  PROVE  Max(S) \in S
<1>1. \E i \in S : \A j \in S : i >= j
  <2>1. CASE 4 \in S
    BY <2>1
  <2>2. CASE 4 \notin S /\ 3 \in S
    <3>1. \A j \in S : j \in Int /\ 3 >= j
      BY <2>2
    <3>2. QED
      BY <2>2, <3>1
  <2>3. CASE 4 \notin S /\ 3 \notin S /\ 2 \in S
    <3>1. \A j \in S : j \in Int /\ 2 >= j
      BY <2>3
    <3>2. QED
      BY <2>3, <3>1
  <2>4. CASE 4 \notin S /\ 3 \notin S /\ 2 \notin S
    <3>1. \A j \in S : j = 1
      BY <2>4
    <3>2. 1 \in S
      BY <3>1, Zenon
    <3>3. \A j \in S : 1 >= j
      BY <3>1
    <3>4. QED
      BY <3>2, <3>3, Zenon
  <2>5. QED
    BY <2>1, <2>2, <2>3, <2>4
<1>2. QED
  BY <1>1 DEF Max

\* The ghost too moves along one axis or stays.
LEMMA GhostStepStraight == ASSUME PacmanInv PROVE GhostStep \in Steps
<1>1. CASE Open = {}
  BY <1>1 DEF GhostStep, Steps
<1>2. CASE Open # {}
  <2> DEFINE d == [i \in 1..4 |-> Distance(Ways[i])]
             nearest == {i \in Open : \A j \in Open : Distance(Ways[i]) <= Distance(Ways[j])}
  <2>1. \A i \in 1..4 : Ways[i].sx \in Speeds /\ Ways[i].sy \in Speeds
                        /\ <<Ways[i].sx, Ways[i].sy>> \in Steps
    BY DEF Ways, Speeds, Steps
  <2>2. d \in [1..4 -> Int]
    <3>1. /\ pac.x \in Int /\ pac.y \in Int /\ ghost.x \in Int /\ ghost.y \in Int
      BY DEF PacmanInv, Figures
    <3>2. ASSUME NEW i \in 1..4 PROVE Distance(Ways[i]) \in Int
      <4>1. Ways[i].sx \in Int /\ Ways[i].sy \in Int
        BY <2>1 DEF Speeds, STEP
      <4> DEFINE p == ghost.x + Ways[i].sx - pac.x
                 q == ghost.y + Ways[i].sy - pac.y
      <4>2. p \in Int /\ q \in Int
        BY <3>1, <4>1
      <4>3. Distance(Ways[i]) = p * p + q * q
        BY Zenon DEF Distance, Square
      <4> HIDE DEF p, q
      <4>4. QED
        BY <4>2, <4>3
    <3>3. QED
      BY <3>2
  <2>3. Open \in SUBSET (1..4)
    BY DEF Open
  <2>4. \E i \in Open : \A j \in Open : d[i] <= d[j]
    <3> HIDE DEF d
    <3>1. QED BY <1>2, <2>2, <2>3, Nearest
  <2>5. nearest \in SUBSET (1..4) /\ nearest # {}
    BY <2>3, <2>4
  <2> HIDE DEF nearest
  <2>7. Max(nearest) \in nearest
    BY <2>5, LastOfSome
  <2>8. QED
    BY <1>2, <2>1, <2>5, <2>7 DEF GhostStep, nearest
<1>3. QED
  BY <1>1, <1>2

\* It holds when the game begins.
LEMMA InitPacman == GameInit => PacmanInv
<1> SUFFICES ASSUME GameInit PROVE PacmanInv
  OBVIOUS
<1>1. Figure(PacStart) \in Figures /\ Figure(GhostStart) \in Figures
  BY StartsAssumption DEF Figure, Figures, Speeds, STEP
<1>2. Cardinality(CellsOf(7)) \in Nat
  BY FiniteMaze, FS_CardinalityType
<1>3. count + Cardinality(beans) = CountWin
  BY <1>2, BeansAssumption DEF GameInit
<1>4. pac.sx = 0 /\ pac.sy = 0
  BY DEF GameInit, Figure
<1>5. QED
  BY <1>1, <1>3, <1>4 DEF GameInit, PacmanInv, Keys

\* A figure moves by its old step and takes the new one.
LEMMA MovedFigure ==
  ASSUME NEW f \in Figures, NEW step \in Steps
  PROVE  /\ Moved(f, step) \in Figures
         /\ <<Moved(f, step).sx, Moved(f, step).sy>> = step
<1>1. step[1] \in Speeds /\ step[2] \in Speeds /\ step = <<step[1], step[2]>>
  BY DEF Steps, Speeds
<1>2. f.x + f.sx \in Int /\ f.y + f.sy \in Int
  BY DEF Figures, Speeds, STEP
<1>3. QED
  BY <1>1, <1>2 DEF Moved, Figures

\* Every step keeps it.
LEMMA NextPacman == PacmanInv /\ [GameNext]_gameVars => PacmanInv'
<1> SUFFICES ASSUME PacmanInv, [GameNext]_gameVars PROVE PacmanInv'
  OBVIOUS
<1>1. CASE Lose
  BY <1>1 DEF Lose, PacmanInv
<1>2. CASE Win
  <2>1. IsFiniteSet(beans)
    BY FiniteMaze, FS_Subset DEF PacmanInv
  <2>2. Cardinality(beans) \in Nat /\ (Cardinality(beans) = 0 <=> beans = {})
    BY <2>1, FS_CardinalityType, FS_EmptySet
  <2>3. CountWin \in Nat
    BY FiniteMaze, FS_CardinalityType, BeansAssumption
  <2>4. StrayBeans = {FALSE} => beans = {}
    BY <1>2, <2>2, <2>3 DEF Win, PacmanInv
  <2>5. QED
    BY <1>2, <2>4 DEF Win, Caught, PacmanInv
<1>3. ASSUME NEW key \in Keys, Move(key) PROVE PacmanInv'
  <2>1. ghost' \in Figures
    BY <1>3, GhostStepStraight, MovedFigure DEF Move, PacmanInv
  <2>2. /\ pac' \in Figures /\ direction' \in Keys
        /\ <<pac'.sx, pac'.sy>> \in {<<0, 0>>, Way(direction')}
    <3>1. CASE pac' = Figure(PacStart) /\ direction' = KEY_UP
      BY <3>1, StartsAssumption DEF Figure, Figures, Speeds, STEP, Keys
    <3>2. CASE pac' = Moved(pac, PacStep(key)) /\ direction' = Facing(PacStep(key))
      <4>1. pac \in Figures
        BY DEF PacmanInv
      <4>2. QED
        BY <3>2, <4>1, PacStepStraight, MovedFigure
    <3>3. QED
      BY <1>3, <3>1, <3>2 DEF Move
  <2>3. /\ beans' \subseteq CellsOf(7) /\ count' \in Nat
        /\ StrayBeans = {FALSE} => count' + Cardinality(beans') = CountWin
    <3>1. PICK stray \in StrayBeans :
            IF Under \in beans \/ (Past /\ stray)
            THEN beans' = beans \ {Under} /\ count' = count + 1
            ELSE UNCHANGED <<beans, count>>
      BY <1>3 DEF Move
    <3>2. CASE UNCHANGED <<beans, count>>
      BY <3>2 DEF PacmanInv
    <3>3. CASE beans' = beans \ {Under} /\ count' = count + 1
               /\ (Under \in beans \/ (Past /\ stray))
      <4>1. beans' \subseteq CellsOf(7) /\ count' \in Nat
        BY <3>3 DEF PacmanInv
      <4>2. ASSUME StrayBeans = {FALSE} PROVE count' + Cardinality(beans') = CountWin
        <5>1. Under \in beans
          BY <3>3, <4>2
        <5>2. IsFiniteSet(beans)
          BY FiniteMaze, FS_Subset DEF PacmanInv
        <5>3. Cardinality(beans') = Cardinality(beans) - 1 /\ Cardinality(beans) \in Nat
          BY <3>3, <5>1, <5>2, FS_RemoveElement, FS_CardinalityType
        <5>4. QED
          BY <3>3, <4>2, <5>3 DEF PacmanInv
      <4>3. QED
        BY <4>1, <4>2
    <3>4. QED
      BY <3>1, <3>2, <3>3
  <2>4. game' # "won"
    BY <1>3 DEF Move
  <2>5. QED
    BY <2>1, <2>2, <2>3, <2>4 DEF PacmanInv
<1>4. CASE UNCHANGED gameVars
  BY <1>4 DEF gameVars, PacmanInv
<1>5. QED
  BY <1>1, <1>2, <1>3, <1>4 DEF GameNext

\* So it holds in every reachable state.
LEMMA PacmanInvariance == GameSpec => []PacmanInv
BY InitPacman, NextPacman, PTL DEF GameSpec

\* In every maze, whatever keys are pressed and wherever they take it, pacman
\* moves along one axis, the way it is drawn; and, if no byte past bean_matrix
\* reads as a bean, a game won leaves no bean and no ghost near
\* (ece391pacman.c:166-322, 412-418, 486-489).
THEOREM StraightCorrect ==
  ASSUME StrayBeans = {FALSE} PROVE GameSpec => []Straight
<1>1. PacmanInv => Straight
  BY Zenon DEF PacmanInv, Straight, Way
<1>2. QED
  BY <1>1, PacmanInvariance, PTL

\* What a square below 36 says of a distance.
LEMMA SquareNear ==
  ASSUME NEW v \in Int, Square(v) < Square(MinDis)
  PROVE  v \in (1 - MinDis)..(MinDis - 1)
<1>1. v * v < 36
  BY DEF Square, MinDis
<1>2. ~(v >= 6)
  BY <1>1
<1>3. ~(v <= -6)
  BY <1>1
<1>4. QED
  BY <1>2, <1>3 DEF MinDis

\* Of two figures level and not near, neither passes the other in a move: a
\* step is shorter than half the distance at which they meet.
LEMMA NoPass ==
  ASSUME NEW a \in Int, NEW b \in Int, a \notin (1 - MinDis)..(MinDis - 1),
         b - a \in -4..4
  PROVE  ~(a * b < 0)
<1>1. CASE a >= 6
  <2>1. b >= 2
    BY <1>1
  <2>2. a * b >= 0
    BY <1>1, <2>1
  <2>3. QED
    BY <2>2
<1>2. CASE a <= -6
  <2>1. b <= -2
    BY <1>2
  <2>2. a * b >= 0
    BY <1>2, <2>1
  <2>3. QED
    BY <2>2
<1>3. QED
  BY <1>1, <1>2 DEF MinDis

\* In every maze, the two never pass each other unseen
\* (ece391pacman.c:410-415, 433-536).
THEOREM NotPassedCorrect == GameSpec => NotPassed
<1>1. PacmanInv /\ [GameNext]_gameVars =>
        [ game' = "on" /\ pac' # Figure(PacStart) =>
            /\ ~(Square(pac.y - ghost.y) < Square(MinDis) /\ Square(pac'.y - ghost'.y) < Square(MinDis)
                 /\ (pac.x - ghost.x) * (pac'.x - ghost'.x) < 0)
            /\ ~(Square(pac.x - ghost.x) < Square(MinDis) /\ Square(pac'.x - ghost'.x) < Square(MinDis)
                 /\ (pac.y - ghost.y) * (pac'.y - ghost'.y) < 0) ]_gameVars
  <2> SUFFICES ASSUME PacmanInv, NEW key \in Keys, Move(key), pac' # Figure(PacStart)
               PROVE  /\ Square(pac.y - ghost.y) < Square(MinDis)
                         => ~((pac.x - ghost.x) * (pac'.x - ghost'.x) < 0)
                      /\ Square(pac.x - ghost.x) < Square(MinDis)
                         => ~((pac.y - ghost.y) * (pac'.y - ghost'.y) < 0)
    BY Zenon DEF GameNext, Lose, Win
  <2>1. /\ pac' = Moved(pac, PacStep(key)) /\ ghost' = Moved(ghost, GhostStep)
        /\ ~Near(pac, ghost)
    BY DEF Move, Caught
  <2>2. /\ pac.x \in Int /\ pac.y \in Int /\ pac.sx \in -2..2 /\ pac.sy \in -2..2
        /\ ghost.x \in Int /\ ghost.y \in Int /\ ghost.sx \in -2..2 /\ ghost.sy \in -2..2
    BY DEF PacmanInv, Figures, Speeds, STEP
  <2>3. /\ pac'.x = pac.x + pac.sx /\ pac'.y = pac.y + pac.sy
        /\ ghost'.x = ghost.x + ghost.sx /\ ghost'.y = ghost.y + ghost.sy
    BY <2>1 DEF Moved
  <2> DEFINE dx == pac.x - ghost.x
             dy == pac.y - ghost.y
             ex == pac'.x - ghost'.x
             ey == pac'.y - ghost'.y
  <2>4. /\ dx \in Int /\ dy \in Int
        /\ ex = dx + (pac.sx - ghost.sx) /\ ey = dy + (pac.sy - ghost.sy)
    BY <2>2, <2>3
  <2>5. ~(dx \in (1 - MinDis)..(MinDis - 1) /\ dy \in (1 - MinDis)..(MinDis - 1))
    BY <2>1 DEF Near
  <2>6. SUFFICES /\ Square(dy) < Square(MinDis) => ~(dx * ex < 0)
                 /\ Square(dx) < Square(MinDis) => ~(dy * ey < 0)
    BY Zenon
  <2> HIDE DEF dx, dy, ex, ey
  <2>7. ex \in Int /\ ey \in Int /\ ex - dx \in -4..4 /\ ey - dy \in -4..4
    BY <2>2, <2>4
  <2>8. Square(dy) < Square(MinDis) => ~(dx * ex < 0)
    BY <2>4, <2>5, <2>7, SquareNear, NoPass
  <2>9. Square(dx) < Square(MinDis) => ~(dy * ey < 0)
    BY <2>4, <2>5, <2>7, SquareNear, NoPass
  <2>10. QED
    BY <2>8, <2>9
<1>2. QED
  BY <1>1, PacmanInvariance, PTL DEF NotPassed, GameSpec
=============================================================================
