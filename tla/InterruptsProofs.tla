-------------------------- MODULE InterruptsProofs --------------------------
(***************************************************************************)
(* Proofs about Interrupts for every depth of stack, every set of rates    *)
(* and of readers, on a machine that hits none of the Hazards: every       *)
(* handler acknowledges its own line and no other, and a terminal resumes  *)
(* where it was left.                                                      *)
(***************************************************************************)
EXTENDS Interrupts, SequenceTheorems, TLAPS

Devs   == {"pit", "key", "rtc", "mouse"}
Asleep == {"saved", "keyLaunch", "mouseLaunch"}

\* What a stack can hold: a handler, asleep or running, or one above the
\* window of context_switch_pit.
Stacks == {<<>>} \cup {<<l>> : l \in Devs \cup Asleep \cup {"window"}}
                 \cup {<<"window", l>> : l \in Devs}

TypeOK ==
  /\ booting \in 0..EndOfBoot
  /\ intr \in BOOLEAN
  /\ has \in [Terms -> BOOLEAN]
  /\ termPit \in Terms /\ running \in Terms
  /\ frames \in [Terms -> Stacks]
  /\ saved \in [Terms -> {Empty} \cup (Terms \X {1})]

\* Until entry() executes the GUI there is one stack and no process.
BootInv ==
  /\ booting < EndOfBoot => running = 0 /\ termPit = 0 /\ \A t \in Terms : ~has[t]
  /\ booting <= 4 => ~intr /\ frames[running] = <<>>
  /\ booting = EndOfBoot => has[0]

\* The CPU's stack: empty or one handler, and between the sti of
\* context_switch_pit and its load of the new stack, the window or one
\* handler above it, which is not another tick.
RunningInv ==
  /\ running = termPit =>
       \/ frames[running] = <<>> /\ (booting > 4 => intr)
       \/ ~intr /\ \E l \in Devs : frames[running] = <<l>>
  /\ running # termPit =>
       /\ has[termPit]
       /\ saved[running] = <<running, 1>>
       /\ \/ frames[running] = <<"window">> /\ intr
          \/ ~intr /\ \E l \in Devs \ {"pit"} : frames[running] = <<"window", l>>

\* Every other terminal with a process sleeps in the handler it was left in,
\* and its own saved_esp names it.
AsleepInv ==
  \A t \in Terms : t # running /\ has[t] =>
    /\ saved[t] = <<t, 1>>
    /\ \E l \in Asleep : frames[t] = <<l>>

IInv == TypeOK /\ BootInv /\ RunningInv /\ AsleepInv /\ Acknowledged

-----------------------------------------------------------------------------
\* Short stacks: what the handlers' entry, sti and return do to them.
LEMMA ShortStacks ==
  /\ Len(<<>>) = 0
  /\ \A a : Len(<<a>>) = 1 /\ Append(<<>>, a) = <<a>> /\ Pop(<<a>>) = <<>> /\ <<a>> # <<>>
  /\ \A a, b : /\ Len(<<a, b>>) = 2 /\ Append(<<a>>, b) = <<a, b>>
               /\ Pop(<<a, b>>) = <<a>> /\ <<a, b>> # <<>> /\ <<a>> # <<a, b>>
<1>1. Len(<<>>) = 0
  OBVIOUS
<1>2. ASSUME NEW a
      PROVE  Len(<<a>>) = 1 /\ Append(<<>>, a) = <<a>> /\ Pop(<<a>>) = <<>> /\ <<a>> # <<>>
  BY DEF Pop
<1>3. ASSUME NEW a, NEW b
      PROVE  /\ Len(<<a, b>>) = 2 /\ Append(<<a>>, b) = <<a, b>>
             /\ Pop(<<a, b>>) = <<a>> /\ <<a, b>> # <<>> /\ <<a>> # <<a, b>>
  <2> DEFINE s == <<a, b>>
  <2>1. Len(s) = 2 /\ s # <<>> /\ <<a>> # s
    OBVIOUS
  <2> DEFINE S == {a, b}
  <2>2. <<a>> \in Seq(S) /\ b \in S /\ s \in Seq(S)
    OBVIOUS
  <2>3. Append(<<a>>, b) = s
    <3> DEFINE t == Append(<<a>>, b)
    <3>1. t \in Seq(S) /\ Len(t) = 2 /\ t[1] = a /\ t[2] = b
      BY <2>2, AppendProperties
    <3>2. \A i \in 1..Len(t) : t[i] = s[i]
      BY <3>1
    <3> HIDE DEF s, S, t
    <3>3. t = s
      BY <2>1, <2>2, <3>1, <3>2, SeqEqual
    <3>4. QED
      BY <3>3 DEF t
  <2>4. SubSeq(s, 1, 1) = <<a>>
    <3> DEFINE t == SubSeq(s, 1, 1)
               r == <<a>>
    <3>1. t \in Seq(S) /\ Len(t) = 1 /\ t[1] = a
      BY <2>1, SubSeqProperties
    <3>2. r \in Seq(S) /\ Len(r) = 1 /\ \A i \in 1..Len(t) : t[i] = r[i]
      BY <3>1
    <3> HIDE DEF s, S, t, r
    <3>3. t = r
      BY <3>1, <3>2, SeqEqual
    <3>4. QED
      BY <3>3 DEF t, r
  <2>5. QED
    BY <2>1, <2>3, <2>4 DEF Pop
<1>4. QED
  BY <1>1, <1>2, <1>3

\* The lines a handler at the top of the stack keeps in service.
Service(l) == UNION {{irq, OnMaster(irq)} : irq \in {d \in Devices : l = Entered(d)}}

\* What the four handlers hold, and that nothing else holds a line: each
\* entry is acknowledged by exactly one end of interrupt.
LEMMA ServiceOf ==
  /\ \A irq \in Devices : Entered(irq) \in Devs /\ Service(Entered(irq)) = {irq, OnMaster(irq)}
  /\ Entered(PIT) = "pit" /\ Entered(KEY) = "key"
  /\ Entered(RTC) = "rtc" /\ Entered(MOUSE) = "mouse"
  /\ \A l : l \notin Devs => Service(l) = {}
<1> USE DEF PIT, KEY, RTC, MOUSE, Entered
<1>1. \A irq \in Devices : Entered(irq) \in Devs
  BY DEF Devices, Devs
<1>2. ASSUME NEW irq \in Devices
      PROVE  {d \in Devices : Entered(irq) = Entered(d)} = {irq}
  BY DEF Devices
<1>3. ASSUME NEW irq \in Devices
      PROVE  Service(Entered(irq)) = {irq, OnMaster(irq)}
  <2> HIDE DEF Entered, PIT, KEY, RTC, MOUSE
  <2>1. {d \in Devices : Entered(irq) = Entered(d)} = {irq}
    BY <1>2
  <2>2. UNION {{d, OnMaster(d)} : d \in {irq}} = {irq, OnMaster(irq)}
    OBVIOUS
  <2>3. QED
    BY <2>1, <2>2, Zenon DEF Service
<1>4. ASSUME NEW l, l \notin Devs PROVE Service(l) = {}
  <2>1. {d \in Devices : l = Entered(d)} = {}
    BY <1>1, <1>4
  <2>2. QED
    BY <2>1 DEF Service
<1>5. /\ Entered(PIT) = "pit" /\ Entered(KEY) = "key"
      /\ Entered(RTC) = "rtc" /\ Entered(MOUSE) = "mouse"
  OBVIOUS
<1> HIDE DEF Entered
<1>6. QED
  BY <1>1, <1>3, <1>4, <1>5

\* One end of interrupt clears what its own handler holds.
LEMMA EoiClears ==
  /\ Service("pit") \ EoiOf(PIT) = {} /\ Service("key") \ EoiOf(KEY) = {}
  /\ Service("rtc") \ EoiOf(RTC) = {} /\ Service("mouse") \ EoiOf(MOUSE) = {}
<1>1. ASSUME NEW irq \in Devices PROVE Service(Entered(irq)) \ EoiOf(irq) = {}
  BY ServiceOf DEF EoiOf, OnMaster, Devices, PIT, KEY, RTC, MOUSE, SLAVE
<1>2. QED
  BY <1>1, ServiceOf DEF Devices

\* It holds before boot.
LEMMA InitIInv == Init => IInv
<1> SUFFICES ASSUME Init PROVE IInv
  OBVIOUS
<1> USE DEF Init, Terms, EndOfBoot, Empty
<1>1. has \in [Terms -> BOOLEAN]
  BY Zenon
<1>2. TypeOK
  <2>1. frames \in [Terms -> Stacks]
    BY DEF Stacks
  <2>2. saved \in [Terms -> {Empty} \cup (Terms \X {1})]
    OBVIOUS
  <2>3. booting \in 0..EndOfBoot /\ termPit \in Terms /\ running \in Terms
    OBVIOUS
  <2>4. intr \in BOOLEAN
    BY Zenon
  <2>5. QED
    BY <1>1, <2>1, <2>2, <2>3, <2>4 DEF TypeOK
<1>3. BootInv /\ RunningInv /\ AsleepInv
  BY DEF BootInv, RunningInv, AsleepInv
<1>4. Acknowledged
  BY ServiceOf DEF Acknowledged, Service, Top, Devs
<1>5. QED
  BY <1>2, <1>3, <1>4 DEF IInv

\* What the invariant says of the innermost handler: it is the only one that
\* can hold a line, and with interrupts on nobody does.
LEMMA Innermost ==
  ASSUME IInv
  PROVE  /\ isr = Service(Top)
         /\ running = termPit =>
              \/ frames[running] = <<>> /\ Top = "none"
              \/ ~intr /\ Top \in Devs /\ frames[running] = <<Top>>
         /\ running # termPit =>
              \/ intr /\ Top = "window" /\ frames[running] = <<"window">>
              \/ ~intr /\ Top \in Devs \ {"pit"} /\ frames[running] = <<"window", Top>>
         /\ intr => Top \notin Devs /\ isr = {}
<1>1. TypeOK /\ BootInv /\ RunningInv /\ Acknowledged
  BY DEF IInv
<1>2. isr = Service(Top)
  BY <1>1 DEF Acknowledged, Service
<1>3. CASE running = termPit
  <2>1. CASE frames[running] = <<>>
    <3>1. Top = "none"
      BY <2>1 DEF Top
    <3>2. QED
      BY <1>2, <1>3, <2>1, <3>1, ServiceOf DEF Devs
  <2>2. ASSUME ~intr, NEW l \in Devs, frames[running] = <<l>>
        PROVE  Top = l
    BY <2>2, ShortStacks DEF Top
  <2>3. QED
    BY <1>1, <1>2, <1>3, <2>1, <2>2 DEF RunningInv
<1>4. CASE running # termPit
  <2>1. CASE intr /\ frames[running] = <<"window">>
    <3>1. Top = "window"
      BY <2>1, ShortStacks DEF Top
    <3>2. QED
      BY <1>2, <1>4, <2>1, <3>1, ServiceOf DEF Devs
  <2>2. ASSUME ~intr, NEW l \in Devs \ {"pit"}, frames[running] = <<"window", l>>
        PROVE  Top = l
    BY <2>2, ShortStacks DEF Top
  <2>3. QED
    BY <1>1, <1>2, <1>4, <2>1, <2>2 DEF RunningInv
<1>5. QED
  BY <1>3, <1>4

\* The label that ends a step decides what may be in service after it.
LEMMA AcknowledgedAfter ==
  ASSUME NEW l, isr' = Service(l), Top' = l
  PROVE  Acknowledged'
BY DEF Acknowledged, Service

\* A request enters a handler: nothing was in service, and the stack grows
\* by one frame above user code or above the window.
LEMMA DeliverIInv ==
  ASSUME Exposed = {}, IInv, NEW irq \in Devices, Deliver(irq)
  PROVE  IInv'
<1> DEFINE l == Entered(irq)
<1>1. TypeOK /\ BootInv /\ RunningInv /\ AsleepInv
  BY DEF IInv
<1>2. /\ intr /\ intr' = FALSE
      /\ isr' = isr \cup {irq, OnMaster(irq)}
      /\ frames' = [frames EXCEPT ![running] = Append(@, l)]
      /\ UNCHANGED <<booting, has, termPit, running, saved>>
      /\ irq = PIT => Top # "window"
  BY DEF Deliver, procVars
<1>3. /\ isr = {} /\ l \in Devs
      /\ running = termPit => frames[running] = <<>>
      /\ running # termPit => frames[running] = <<"window">> /\ l # "pit"
  <2>1. irq # PIT => l # "pit"
    BY DEF Entered, Devices, PIT, KEY, RTC, MOUSE
  <2>2. QED
    BY <1>2, <2>1, Innermost, ServiceOf
<1>4. frames[running]' = IF running = termPit THEN <<l>> ELSE <<"window", l>>
  BY <1>1, <1>2, <1>3, ShortStacks DEF TypeOK
<1>5. TypeOK'
  <2>1. frames[running]' \in Stacks
    BY <1>3, <1>4 DEF Stacks
  <2>2. frames' \in [Terms -> Stacks]
    BY <1>1, <1>2, <2>1 DEF TypeOK
  <2>3. intr' \in BOOLEAN
    BY <1>2, Zenon
  <2>4. QED
    BY <1>1, <1>2, <2>2, <2>3 DEF TypeOK
<1>6. BootInv'
  BY <1>1, <1>2 DEF BootInv
<1>7. RunningInv'
  BY <1>1, <1>2, <1>3, <1>4 DEF RunningInv
<1>8. AsleepInv'
  BY <1>1, <1>2 DEF AsleepInv, TypeOK
<1>9. Acknowledged'
  <2>1. Top' = l
    BY <1>2, <1>4, ShortStacks DEF Top
  <2>2. isr' = Service(l)
    BY <1>2, <1>3, ServiceOf
  <2>3. QED
    BY <2>1, <2>2, AcknowledgedAfter
<1>10. QED
  BY <1>5, <1>6, <1>7, <1>8, <1>9 DEF IInv

\* A handler returns to what it interrupted, which held no line.
LEMMA LeaveIInv ==
  ASSUME IInv, NEW irq \in Devices, Top = Entered(irq), Leave(irq)
  PROVE  IInv'
<1>1. TypeOK /\ BootInv /\ RunningInv /\ AsleepInv
  BY DEF IInv
<1>2. /\ intr' = TRUE
      /\ isr' = isr \ EoiOf(irq)
      /\ frames' = [frames EXCEPT ![running] = Pop(@)]
      /\ UNCHANGED <<booting, has, termPit, running, saved>>
  BY DEF Leave, procVars
<1>3. /\ Top \in Devs /\ ~intr
      /\ frames[running] = IF running = termPit THEN <<Top>> ELSE <<"window", Top>>
  BY ServiceOf, Innermost DEF Devs
<1>4. frames[running]' = IF running = termPit THEN <<>> ELSE <<"window">>
  BY <1>1, <1>2, <1>3, ShortStacks DEF TypeOK
<1>5. TypeOK'
  <2>1. frames[running]' \in Stacks
    BY <1>4 DEF Stacks
  <2>2. frames' \in [Terms -> Stacks]
    BY <1>1, <1>2, <2>1 DEF TypeOK
  <2>3. intr' \in BOOLEAN
    BY <1>2, Zenon
  <2>4. QED
    BY <1>1, <1>2, <2>2, <2>3 DEF TypeOK
<1>6. BootInv'
  BY <1>1, <1>2, <1>3 DEF BootInv
<1>7. RunningInv'
  BY <1>1, <1>2, <1>4 DEF RunningInv
<1>8. AsleepInv'
  BY <1>1, <1>2 DEF AsleepInv, TypeOK
<1>9. Acknowledged'
  <2>1. Top' \notin Devs
    BY <1>2, <1>4, ShortStacks DEF Top, Devs
  <2>2. isr' = {}
    BY <1>2, Innermost, EoiClears, ServiceOf DEF Devices
  <2>3. QED
    BY <2>1, <2>2, ServiceOf, AcknowledgedAfter
<1>10. QED
  BY <1>5, <1>6, <1>7, <1>8, <1>9 DEF IInv

\* Only the scheduled terminal's stack meets a tick.
LEMMA TickOn ==
  ASSUME IInv, Top \in {"pit"}
  PROVE  running = termPit /\ frames[running] = <<"pit">> /\ isr \ EoiOf(PIT) = {}
BY Innermost, EoiClears DEF Devs

\* The timer's handler may leave on another terminal's stack.
LEMMA PitSwitchesIInv ==
  ASSUME IInv, PitSwitches
  PROVE  IInv'
<1> DEFINE new == NextTerm(termPit)
<1>1. TypeOK /\ BootInv /\ RunningInv /\ AsleepInv
  BY DEF IInv
<1>2. running = termPit /\ frames[running] = <<"pit">> /\ isr \ EoiOf(PIT) = {}
  BY TickOn DEF PitSwitches
<1>3. /\ new \in Terms /\ new # termPit /\ has[new]
  BY <1>1 DEF PitSwitches, NextTerm, TypeOK, Terms
<1>4. /\ termPit' = new
      /\ saved' = [saved EXCEPT ![running] = <<running, 1>>]
      /\ isr' = {} /\ intr' = TRUE
      /\ frames' = [frames EXCEPT ![running] = <<"window">>]
      /\ UNCHANGED <<booting, has, running>>
  <2>1. SetTop("window") = [frames EXCEPT ![running] = <<"window">>]
    <3>1. Append(Pop(<<"pit">>), "window") = <<"window">>
      BY ShortStacks
    <3>2. SetTop("window") = [frames EXCEPT ![running] = Append(Pop(frames[running]), "window")]
      BY Zenon DEF SetTop
    <3>3. QED
      BY <1>2, <3>1, <3>2, Zenon
  <2>2. Len(frames[running]) = 1
    BY <1>2, ShortStacks
  <2>3. QED
    BY <1>2, <2>1, <2>2 DEF PitSwitches
<1>5. TypeOK'
  <2>1. intr' \in BOOLEAN
    BY <1>4, Zenon
  <2>2. frames' \in [Terms -> Stacks]
    BY <1>1, <1>4 DEF TypeOK, Stacks
  <2>3. saved' \in [Terms -> {Empty} \cup (Terms \X {1})]
    BY <1>1, <1>4 DEF TypeOK
  <2>4. QED
    BY <1>1, <1>3, <1>4, <2>1, <2>2, <2>3 DEF TypeOK
<1>6. BootInv' /\ AsleepInv'
  BY <1>1, <1>2, <1>3, <1>4 DEF BootInv, AsleepInv, TypeOK, Terms
<1>7. RunningInv'
  BY <1>1, <1>2, <1>3, <1>4 DEF RunningInv, TypeOK
<1>8. Acknowledged'
  <2>1. Top' = "window"
    BY <1>1, <1>4, ShortStacks DEF Top, TypeOK
  <2>2. QED
    BY <1>4, <2>1, ServiceOf, AcknowledgedAfter DEF Devs
<1>9. QED
  BY <1>5, <1>6, <1>7, <1>8 DEF IInv

\* The load of the new stack finds its terminal asleep in the one frame
\* saved_esp counts, and the line that frame's end of interrupt names is not
\* in service any more.
LEMMA LoadStackIInv ==
  ASSUME IInv, LoadStack
  PROVE  IInv'
<1>1. TypeOK /\ BootInv /\ RunningInv /\ AsleepInv
  BY DEF IInv
<1>2. /\ running # termPit /\ intr /\ isr = {}
      /\ frames[running] = <<"window">> /\ has[termPit]
      /\ saved[running] = <<running, 1>>
  BY <1>1, Innermost DEF LoadStack, Devs, RunningInv
<1>3. saved[termPit] = <<termPit, 1>> /\ \E l \in Asleep : frames[termPit] = <<l>>
  BY <1>1, <1>2 DEF AsleepInv, TypeOK
<1>4. SubSeq(frames[termPit], 1, 1 - 1) = <<>>
  BY <1>3, ShortStacks DEF Pop
<1>5. /\ running' = termPit
      /\ frames' = [[frames EXCEPT ![running] = <<"saved">>] EXCEPT ![termPit] = <<>>]
      /\ isr' = {}
      /\ UNCHANGED <<booting, intr, has, termPit, saved>>
  <2>1. SetTop("saved") = [frames EXCEPT ![running] = <<"saved">>]
    <3>1. Append(Pop(<<"window">>), "saved") = <<"saved">>
      BY ShortStacks
    <3>2. SetTop("saved") = [frames EXCEPT ![running] = Append(Pop(frames[running]), "saved")]
      BY Zenon DEF SetTop
    <3>3. QED
      BY <1>2, <3>1, <3>2, Zenon
  <2>2. saved[termPit][1] = termPit /\ saved[termPit][2] = 1
    BY <1>3
  <2>3. SetTop("saved")[termPit] = frames[termPit]
    BY <1>1, <1>2, <2>1 DEF TypeOK
  <2>4. frames' = [SetTop("saved") EXCEPT ![termPit] = SubSeq(SetTop("saved")[termPit], 1, 1 - 1)]
    BY <2>2 DEF LoadStack
  <2>5. QED
    BY <1>2, <1>4, <2>1, <2>2, <2>3, <2>4 DEF LoadStack
<1>6. TypeOK'
  <2>1. frames' \in [Terms -> Stacks]
    BY <1>1, <1>5 DEF TypeOK, Stacks, Asleep
  <2>2. QED
    BY <1>1, <1>5, <2>1 DEF TypeOK
<1>7. BootInv' /\ AsleepInv'
  BY <1>1, <1>2, <1>5 DEF BootInv, AsleepInv, TypeOK, Asleep
<1>8. RunningInv'
  BY <1>1, <1>2, <1>5 DEF RunningInv, TypeOK
<1>9. Acknowledged'
  <2>1. Top' = "none"
    BY <1>1, <1>5 DEF Top, TypeOK
  <2>2. QED
    BY <1>5, <2>1, ServiceOf, AcknowledgedAfter DEF Devs
<1>10. QED
  BY <1>6, <1>7, <1>8, <1>9 DEF IInv

\* A terminal starts from a handler that has acknowledged its line: the
\* handler's stack stays behind, asleep, under the terminal it belongs to.
LEMMA StartIInv ==
  ASSUME Exposed = {}, IInv, NEW t \in {1, 2}, NEW label \in Asleep,
         Top \in {"key", "mouse"}, isr' = {}, Start(t, label)
  PROVE  IInv'
<1>1. TypeOK /\ BootInv /\ RunningInv /\ AsleepInv
  BY DEF IInv
<1>2. /\ booting = EndOfBoot /\ has[termPit] /\ running = termPit
      /\ ~has[t] /\ t # running
  BY <1>1 DEF Start, LaunchGuard, TypeOK, EndOfBoot
<1>3. frames[running] = <<Top>>
  BY <1>2, Innermost DEF Devs
<1>4. /\ has' = [has EXCEPT ![t] = TRUE]
      /\ saved' = [saved EXCEPT ![running] = <<running, 1>>]
      /\ termPit' = t /\ running' = t
      /\ frames' = [[frames EXCEPT ![running] = <<label>>] EXCEPT ![t] = <<>>]
      /\ intr' = TRUE
      /\ booting' = booting
  <2>1. SetTop(label) = [frames EXCEPT ![running] = <<label>>]
    BY <1>1, <1>3, ShortStacks DEF SetTop, TypeOK
  <2>2. saved' = [saved EXCEPT ![running] = <<running, 1>>]
    BY <1>2, <1>3, ShortStacks DEF Start, SavedAt
  <2>3. QED
    BY <2>1, <2>2 DEF Start
<1>5. TypeOK'
  <2>1. intr' \in BOOLEAN
    BY <1>4, Zenon
  <2>2. has' \in [Terms -> BOOLEAN]
    <3>1. has \in [Terms -> BOOLEAN]
      BY <1>1 DEF TypeOK
    <3>2. QED
      BY <1>4, <3>1, Zenon
  <2>3. frames' \in [Terms -> Stacks]
    BY <1>1, <1>4 DEF TypeOK, Stacks
  <2>4. saved' \in [Terms -> {Empty} \cup (Terms \X {1})]
    BY <1>1, <1>4 DEF TypeOK
  <2>5. QED
    BY <1>1, <1>4, <2>1, <2>2, <2>3, <2>4 DEF TypeOK, Terms
<1>6. BootInv' /\ AsleepInv'
  BY <1>1, <1>2, <1>4 DEF BootInv, AsleepInv, TypeOK, Terms, EndOfBoot
<1>7. RunningInv'
  BY <1>1, <1>2, <1>4 DEF RunningInv, TypeOK, Terms
<1>8. Acknowledged'
  <2>1. Top' = "none"
    BY <1>1, <1>4 DEF Top, TypeOK, Terms
  <2>2. QED
    BY <2>1, ServiceOf, AcknowledgedAfter DEF Devs
<1>9. QED
  BY <1>5, <1>6, <1>7, <1>8 DEF IInv

\* A shell that halts starts again on its own stack.
LEMMA HaltShellIInv ==
  ASSUME IInv, HaltShell
  PROVE  IInv'
<1>1. TypeOK /\ BootInv /\ RunningInv /\ AsleepInv
  BY DEF IInv
<1>2. /\ termPit # 0 /\ running = termPit /\ booting = EndOfBoot
      /\ Top = "key" \/ InUser
      /\ has' = [has EXCEPT ![running] = FALSE]
      /\ saved' = [saved EXCEPT ![running] = Empty]
      /\ frames' = [frames EXCEPT ![running] = <<>>]
      /\ isr' = isr \ EoiOf(KEY) /\ intr' = TRUE
      /\ UNCHANGED <<booting, termPit, running>>
  BY DEF HaltShell
<1>3. isr \ EoiOf(KEY) = {}
  <2>1. CASE Top = "key"
    BY <2>1, Innermost, EoiClears
  <2>2. CASE InUser
    BY <2>2, Innermost, ServiceOf DEF InUser, Top, Devs
  <2>3. QED
    BY <1>2, <2>1, <2>2
<1>4. TypeOK'
  <2>1. intr' \in BOOLEAN
    BY <1>2, Zenon
  <2>2. has' \in [Terms -> BOOLEAN]
    <3>1. has \in [Terms -> BOOLEAN]
      BY <1>1 DEF TypeOK
    <3>2. QED
      BY <1>2, <3>1, Zenon
  <2>3. frames' \in [Terms -> Stacks]
    BY <1>1, <1>2 DEF TypeOK, Stacks
  <2>4. saved' \in [Terms -> {Empty} \cup (Terms \X {1})]
    BY <1>1, <1>2 DEF TypeOK
  <2>5. QED
    BY <1>1, <1>2, <2>1, <2>2, <2>3, <2>4 DEF TypeOK
<1>5. BootInv' /\ RunningInv' /\ AsleepInv'
  BY <1>1, <1>2 DEF BootInv, RunningInv, AsleepInv, TypeOK, Terms, EndOfBoot
<1>6. Acknowledged'
  <2>1. Top' = "none"
    BY <1>1, <1>2 DEF Top, TypeOK
  <2>2. QED
    BY <1>2, <1>3, <2>1, ServiceOf, AcknowledgedAfter DEF Devs
<1>7. QED
  BY <1>4, <1>5, <1>6 DEF IInv

\* entry() runs with an empty stack, between two handlers.
LEMMA BootIInv ==
  ASSUME IInv, BootStep
  PROVE  IInv'
<1>1. TypeOK /\ BootInv /\ RunningInv /\ AsleepInv /\ Acknowledged
  BY DEF IInv
<1>2. PICK n \in 0..8 : Boot(n) /\ (n = 4 => intr' = TRUE) /\ (n # 4 => intr' = intr)
                        /\ (n = 8 => has' = [has EXCEPT ![0] = TRUE])
                        /\ (n # 8 => has' = has)
  BY DEF BootStep, BootTables, BootDevices, BootGui
<1>3. /\ booting = n /\ running = 0 /\ termPit = 0 /\ frames[running] = <<>>
      /\ booting' = n + 1
      /\ UNCHANGED <<isr, termPit, running, frames, saved>>
      /\ \A t \in Terms : ~has[t]
  BY <1>1, <1>2 DEF Boot, BootInv, EndOfBoot
<1>4. TypeOK'
  <2>1. intr' \in BOOLEAN
    <3>1. intr \in BOOLEAN
      BY <1>1 DEF TypeOK
    <3>2. QED
      BY <1>2, <3>1, Zenon
  <2>2. has' \in [Terms -> BOOLEAN]
    <3>1. has \in [Terms -> BOOLEAN]
      BY <1>1 DEF TypeOK
    <3>2. QED
      BY <1>2, <3>1, Zenon
  <2>3. booting' \in 0..EndOfBoot
    BY <1>3 DEF EndOfBoot
  <2>4. QED
    BY <1>1, <1>3, <2>1, <2>2, <2>3 DEF TypeOK
<1>5. BootInv' /\ RunningInv'
  BY <1>1, <1>2, <1>3 DEF BootInv, RunningInv, TypeOK, Terms, EndOfBoot
<1>6. AsleepInv'
  BY <1>1, <1>2, <1>3 DEF AsleepInv, TypeOK, Terms, EndOfBoot
<1>7. Acknowledged'
  BY <1>1, <1>3 DEF Acknowledged, Top
<1>8. QED
  BY <1>4, <1>5, <1>6, <1>7 DEF IInv

\* What programs do with the clock, and stuttering, leave the stacks alone.
LEMMA UnchangedIInv ==
  ASSUME IInv, UNCHANGED <<booting, isr, intr, procVars, frames>>
  PROVE  IInv'
BY DEF IInv, TypeOK, BootInv, RunningInv, AsleepInv, Acknowledged, Top, procVars

\* Every step keeps it.
LEMMA NextIInv ==
  ASSUME Exposed = {}, IInv, [Next]_vars
  PROVE  IInv'
<1>1. ASSUME NEW irq \in Devices, Deliver(irq) PROVE IInv'
  BY <1>1, DeliverIInv
<1>2. CASE RtcHandler
  BY <1>2, ServiceOf, LeaveIInv DEF RtcHandler, Devices
<1>3. CASE KeyHandler
  BY <1>3, ServiceOf, LeaveIInv DEF KeyHandler, Devices
<1>4. CASE MouseHandler
  BY <1>4, ServiceOf, LeaveIInv DEF MouseHandler, Devices
<1>5. CASE PitStays
  BY <1>5, ServiceOf, LeaveIInv DEF PitStays, Devices
<1>6. CASE PitSwitches
  BY <1>6, PitSwitchesIInv
<1>7. CASE LoadStack
  BY <1>7, LoadStackIInv
<1>8. CASE KeyLaunch
  <2>1. isr' = {}
    BY <1>8, Innermost, EoiClears DEF KeyLaunch
  <2>2. Start(1, "keyLaunch")
    BY <1>8 DEF KeyLaunch, StartFails
  <2>3. QED
    BY <1>8, <2>1, <2>2, StartIInv DEF KeyLaunch, Asleep
<1>9. CASE MouseLaunch
  <2>1. isr' = {}
    BY <1>9, Innermost, EoiClears DEF MouseLaunch
  <2>2. \E t \in {1, 2} : Start(t, "mouseLaunch")
    BY <1>9 DEF MouseLaunch, StartFails
  <2>3. QED
    BY <1>9, <2>1, <2>2, StartIInv DEF MouseLaunch, Asleep
<1>10. CASE HaltShell
  BY <1>10, HaltShellIInv
<1>11. CASE Clock
  BY <1>11, UnchangedIInv DEF Clock, RtcRead, RtcReadReturns, RtcWrite, User, picVars
<1>12. CASE BootStep
  BY <1>12, BootIInv
<1>13. CASE UNCHANGED vars
  BY <1>13, UnchangedIInv DEF vars, picVars
<1>14. QED
  BY <1>1, <1>2, <1>3, <1>4, <1>5, <1>6, <1>7, <1>8, <1>9, <1>10, <1>11, <1>12,
     <1>13 DEF Next, Handler, Events
-----------------------------------------------------------------------------
\* On a machine that hits none of the Hazards the invariant holds in every
\* state, with whatever else the programs do to the clock.
THEOREM Invariance == ASSUME Exposed = {} PROVE Spec => []IInv
<1>1. Init => IInv
  BY InitIInv
<1>2. IInv /\ [Next]_vars => IInv'
  BY NextIInv
<1>3. QED
  BY <1>1, <1>2, PTL DEF Spec

\* Every handler acknowledges its line exactly once, on each of its chips,
\* whichever way it is left.
THEOREM AcknowledgedCorrect == ASSUME Exposed = {} PROVE Spec => []Acknowledged
<1>1. IInv => Acknowledged
  BY DEF IInv
<1>2. QED
  BY <1>1, Invariance, PTL

\* A terminal off the CPU resumes on its own stack, where it was left, on a
\* machine that hits none of the Hazards: no terminal is launched with PID_MAX
\* processes alive, in the window of a switch, or before the GUI.
THEOREM ResumesCorrect == ASSUME Exposed = {} PROVE Spec => []ResumesWhole
<1>1. ASSUME IInv PROVE ResumesWhole
  <2> SUFFICES ASSUME NEW t \in Terms, has[t], t # termPit
               PROVE  /\ saved[t] = <<t, 1>>
                      /\ Len(frames[t]) \in {1, 2}
                      /\ t # running => Len(frames[t]) = 1
    <3>1. \A t \in Terms : <<t, 1>> # <<>> /\ <<t, 1>>[1] = t /\ <<t, 1>>[2] = 1
      OBVIOUS
    <3>2. 1 \in 1..1 /\ 1 \in 1..2
      OBVIOUS
    <3>3. QED
      BY <3>1, <3>2 DEF ResumesWhole, Empty
  <2>1. CASE t = running
    BY <1>1, <2>1, ShortStacks DEF IInv, RunningInv
  <2>2. CASE t # running
    BY <1>1, <2>2, ShortStacks DEF IInv, AsleepInv
  <2>3. QED
    BY <2>1, <2>2
<1>2. QED
  BY <1>1, Invariance, PTL
=============================================================================
