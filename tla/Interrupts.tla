----------------------------- MODULE Interrupts -----------------------------
(***************************************************************************)
(* Interrupts: the pair of 8259s (student-distrib/i8259.c), the handlers'  *)
(* entry and exit (wrappers.S, rtc.c, pit.c and the ends of key.c and      *)
(* mouse.c), the real-time clock device (rtc.c) and the order in which     *)
(* entry() of kernel.c brings them up.                                     *)
(*                                                                         *)
(* Each terminal has one kernel stack, here the sequence of handler frames *)
(* on it; the one named by running is the CPU's.  Gates clear the          *)
(* interrupt flag, so a handler is one step up to its sti or its iret; a   *)
(* request between a handler's last sti and its iret is one made just      *)
(* after the iret.                                                         *)
(* Which process runs on a stack is module Kernel's business.              *)
(***************************************************************************)
EXTENDS Integers, Sequences, FiniteSets

CONSTANTS
  Rates,     (* what a program passes to write() on the clock                *)
  Readers,   (* the terminals whose programs read the clock                  *)
  Depth,     (* bound: handler frames on one stack                           *)
  Exposed    (* the timing hazards the environment is allowed to hit         *)

Hazards ==
  { "tick_in_switch",    \* a PIT tick between context_switch_pit's sti and its
                         \* load of the new stack (paging.c:333)
    "launch_in_switch",  \* Alt+F2 or a click there
    "launch_in_boot",    \* Alt+F2 before the GUI is executed (kernel.c:213)
    "launch_at_limit" }  \* a launch with PID_MAX processes alive

ASSUME RatesAssumption   == Rates \subseteq Nat
ASSUME ReadersAssumption == Readers \subseteq 0..2
ASSUME DepthAssumption   == Depth \in Nat \ {0}
ASSUME ExposedAssumption == Exposed \subseteq Hazards

Terms == 0..2
Empty == <<>>              \* no frame, and no stack saved
Gone  == 0                 \* the depth of a saved frame that has been returned from
PIT   == 0
KEY   == 1
SLAVE == 2
RTC   == 8
MOUSE == 12
Devices == {PIT, KEY, RTC, MOUSE}
Irqs  == 0..15
EndOfBoot == 9

VARIABLES
  booting,        \* how far entry() has come, EndOfBoot once the GUI runs
  mask, gates,    \* lines masked at the 8259s, vectors present in the IDT
  isr,            \* lines in service
  intr,           \* the CPU's interrupt flag
  has, termPit,   \* term[t].pcb_live # NULL, term_pit
  running,        \* whose stack the CPU is on
  frames,         \* the handlers on each stack, innermost last
  saved,          \* term[t].saved_esp: whose stack, and how deep
  rtcFlag, reader,  \* rtc_readf, and the programs inside rtc_read
  rateBits        \* the low four bits of the clock's register A

picVars  == <<mask, isr>>
procVars == <<has, termPit, running, saved>>
rtcVars  == <<rtcFlag, reader, rateBits>>
vars == <<booting, gates, picVars, intr, procVars, frames, rtcVars>>

\* A handler just entered has its device's name; "window" is context_switch_pit
\* between its sti and its load of the new stack, "saved" the same asleep, and
\* the launches are context_switch asleep in the handler that called it.
Entered(irq) == CASE irq = PIT -> "pit" [] irq = KEY -> "key"
                  [] irq = RTC -> "rtc" [] irq = MOUSE -> "mouse"
Top == IF frames[running] = <<>> THEN "none" ELSE frames[running][Len(frames[running])]
Pop(s) == SubSeq(s, 1, Len(s) - 1)
SetTop(l) == [frames EXCEPT ![running] = Append(Pop(@), l)]
InUser == frames[running] = <<>> /\ has[running]

(***************************************************************************)
(* The boot loader leaves interrupts off; what the BIOS left in the masks  *)
(* and in register A is not ours to know.                                  *)
(***************************************************************************)
Init ==
  /\ booting = 0
  /\ mask \in {{}, Irqs}
  /\ gates = {}
  /\ isr = {} /\ intr = FALSE
  /\ has = [t \in Terms |-> FALSE] /\ termPit = 0 /\ running = 0
  /\ frames = [t \in Terms |-> <<>>]
  /\ saved = [t \in Terms |-> Empty]
  /\ rtcFlag = [t \in Terms |-> 0]
  /\ reader = [t \in Terms |-> "idle"]
  /\ rateBits = 6

(***************************************************************************)
(* i8259.c.                                                                *)
(***************************************************************************)
\* ICW2_MASTER and ICW2_SLAVE: where i8259_init puts the lines' vectors.
Vector(irq) == IF irq < 8 THEN 32 + irq ELSE 40 + (irq - 8)

\* load_idt: the exceptions but 15, the four devices and INT 0x80.
Present == ((0..19) \ {15}) \cup {Vector(i) : i \in Devices} \cup {128}

\* send_eoi: a specific end of interrupt; for a slave's line, on both chips.
EoiOf(irq) == IF irq < 8 THEN {irq} ELSE {irq, SLAVE}

\* The keyboard and the PIT always run; the others from their initialisation
\* on.  A request that waits is one made later: only its delivery is a step.
Requests(irq) == (irq = MOUSE => booting >= 8) /\ (irq = RTC => booting >= 3)

\* What a line occupies on the master, and whether a chip lets it through:
\* unmasked, and nothing of its own or a higher priority in service.
OnMaster(irq) == IF irq < 8 THEN irq ELSE SLAVE
Passes(irq) ==
  /\ Requests(irq) /\ irq \notin mask
  /\ OnMaster(irq) \notin mask
  /\ \A s \in isr : s < 8 => s > OnMaster(irq)
  /\ irq >= 8 => \A s \in isr : s >= 8 => s > irq

\* The CPU takes a request through the line's gate, and the wrapper's pushal.
Deliver(irq) ==
  /\ intr
  /\ Passes(irq)
  /\ Len(frames[running]) < Depth
  /\ irq = PIT /\ Top = "window" => "tick_in_switch" \in Exposed
  /\ isr' = isr \cup {irq, OnMaster(irq)}
  /\ intr' = FALSE
  /\ frames' = [frames EXCEPT ![running] = Append(@, Entered(irq))]
  /\ UNCHANGED <<booting, gates, mask, procVars, rtcVars>>

(***************************************************************************)
(* Handlers.                                                               *)
(***************************************************************************)
\* The end of most handlers: send_eoi, sti, return, popal, iret.
Leave(irq) ==
  /\ isr' = isr \ EoiOf(irq)
  /\ intr' = TRUE
  /\ frames' = [frames EXCEPT ![running] = Pop(@)]
  /\ UNCHANGED <<booting, gates, mask, procVars>>

\* Mutant: the tick clears the flag of the terminal after the scheduled one.
RtcHandler_NextTerm ==
  /\ Top = "rtc"
  /\ rtcFlag' = [rtcFlag EXCEPT ![(termPit + 1) % 3] = 0]
  /\ Leave(RTC)
  /\ UNCHANGED <<reader, rateBits>>

RtcHandler ==
  /\ Top = "rtc"
  /\ rtcFlag' = [rtcFlag EXCEPT ![termPit] = 0]
  /\ Leave(RTC)
  /\ UNCHANGED <<reader, rateBits>>

\* key_handler and mouse_handler when they start no terminal.
KeyHandler == Top = "key" /\ Leave(KEY) /\ UNCHANGED rtcVars
MouseHandler == Top = "mouse" /\ Leave(MOUSE) /\ UNCHANGED rtcVars

\* Mutant: the next terminal, whether it has a process or not.
NextTerm_Unchecked(t) == (t + 1) % 3

\* pit_irq: the next terminal with a process, if there is one.
NextTerm(t) == IF has[(t + 1) % 3] THEN (t + 1) % 3
               ELSE IF has[(t + 2) % 3] THEN (t + 2) % 3 ELSE t

\* context_switch_pit, up to its sti, and pit_irq when nothing changes.
PitStays == Top = "pit" /\ NextTerm(termPit) = termPit /\ Leave(PIT) /\ UNCHANGED rtcVars

PitSwitches ==
  /\ Top = "pit"
  /\ NextTerm(termPit) # termPit
  /\ termPit' = NextTerm(termPit)
  /\ saved' = [saved EXCEPT ![termPit] = <<running, Len(frames[running])>>]
  /\ isr' = isr \ EoiOf(PIT)
  /\ intr' = TRUE
  /\ frames' = SetTop("window")
  /\ UNCHANGED <<booting, gates, mask, has, running, rtcVars>>

\* What the code a stack returns to ends: pit_irq and key_handler send an
\* end of interrupt of their own, mouse_handler returns at once.
EndsOnReturn(label) == CASE label = "saved" -> EoiOf(PIT) [] label = "keyLaunch" -> EoiOf(KEY)
                         [] OTHER -> {}

\* ... and the load of the new terminal's stack, which drops what lay above
\* and returns through the handler that left it.  What a CPU does that is
\* given no stack, or a frame that is gone, is not modelled.
LoadStack ==
  /\ Top = "window"
  /\ saved[termPit] # Empty
  /\ LET to    == saved[termPit][1]
         depth == saved[termPit][2]
     IN /\ depth \in 1..Len(frames[to])
        /\ running' = to
        /\ frames' = [SetTop("saved") EXCEPT ![to] = SubSeq(@, 1, depth - 1)]
        /\ isr' = isr \ EndsOnReturn(SetTop("saved")[to][depth])
  /\ UNCHANGED <<booting, gates, mask, intr, has, termPit, saved, rtcVars>>

LaunchGuard ==
  /\ booting < EndOfBoot => "launch_in_boot" \in Exposed
  /\ has[termPit] \/ booting < EndOfBoot      \* module Kernel, launch_from_halt
  /\ running # termPit => "launch_in_switch" \in Exposed

\* Mutant: the handler's stack is saved under the new terminal.
SavedAt_New(t) == t

\* Under whose name context_switch saves the stack it leaves.
SavedAt(t) == termPit

\* context_switch starts a terminal: the handler's stack is saved under
\* term_pit, and execute leaves for user mode with interrupts on.
Start(t, label) ==
  /\ ~has[t]
  /\ LaunchGuard
  /\ has' = [has EXCEPT ![t] = TRUE]
  /\ saved' = [saved EXCEPT ![SavedAt(t)] = <<running, Len(frames[running])>>]
  /\ termPit' = t /\ running' = t
  /\ frames' = [SetTop(label) EXCEPT ![t] = <<>>]
  /\ reader' = [reader EXCEPT ![t] = "idle"]
  /\ intr' = TRUE
  /\ UNCHANGED <<booting, gates, mask, rtcFlag, rateBits>>

\* execute refuses: context_switch returns, and so does the handler, to the
\* program it interrupted.  term_pit has moved, and the frame saved under the
\* old terminal is gone.
StartFails(t) ==
  /\ "launch_at_limit" \in Exposed
  /\ ~has[t]
  /\ LaunchGuard
  /\ saved' = [saved EXCEPT ![SavedAt(t)] = <<running, Gone>>]
  /\ termPit' = t
  /\ frames' = [frames EXCEPT ![running] = Pop(@)]
  /\ intr' = TRUE
  /\ UNCHANGED <<booting, gates, mask, has, running, rtcVars>>

KeyLaunch ==
  /\ Top = "key"
  /\ isr' = isr \ EoiOf(KEY)
  /\ Start(1, "keyLaunch") \/ StartFails(1)

\* Mutant: draw_mouse leaves the end of interrupt to mouse_handler.
MouseLaunch_LateEoi ==
  /\ Top = "mouse"
  /\ isr' = isr \ EoiOf(KEY)
  /\ \E t \in {1, 2} : Start(t, "mouseLaunch") \/ StartFails(t)

\* draw_mouse sends the mouse's end of interrupt before context_switch, which
\* sends the keyboard's; when it comes back, mouse_handler returns without
\* sending another.
MouseLaunch ==
  /\ Top = "mouse"
  /\ isr' = isr \ (EoiOf(MOUSE) \cup EoiOf(KEY))
  /\ \E t \in {1, 2} : Start(t, "mouseLaunch") \/ StartFails(t)

\* halt of a terminal's first process, by ESC or by its own return: the end
\* of a keyboard interrupt, sti, and a loop until the PIT takes over.
HaltShell ==
  /\ termPit # 0 /\ running = termPit /\ has[termPit]
  /\ booting = EndOfBoot
  /\ Top = "key" \/ InUser
  /\ has' = [has EXCEPT ![termPit] = FALSE]
  /\ saved' = [saved EXCEPT ![termPit] = Empty]
  /\ frames' = [frames EXCEPT ![termPit] = <<>>]
  /\ isr' = isr \ EoiOf(KEY)
  /\ intr' = TRUE
  /\ reader' = [reader EXCEPT ![termPit] = "idle"]
  /\ UNCHANGED <<booting, gates, mask, termPit, running, rtcFlag, rateBits>>

(***************************************************************************)
(* The clock: rtc_read and rtc_write, called by programs.  Each holds cli  *)
(* from its first access to its last.                                      *)
(***************************************************************************)
User == /\ InUser /\ intr
        /\ UNCHANGED <<booting, gates, picVars, intr, procVars, frames>>

RtcRead ==
  /\ User /\ running \in Readers /\ reader[running] = "idle"
  /\ rtcFlag' = [rtcFlag EXCEPT ![termPit] = 1]
  /\ reader' = [reader EXCEPT ![running] = "wait"]
  /\ UNCHANGED rateBits

RtcReadReturns ==
  /\ User /\ reader[running] = "wait" /\ rtcFlag[termPit] = 0
  /\ reader' = [reader EXCEPT ![running] = "idle"]
  /\ UNCHANGED <<rtcFlag, rateBits>>

RtcTable == [i \in 0..9 |-> 2 ^ (i + 1)]

\* The bits rtc_write computes for a rate of its table.
RateBits(rate) == 15 - (CHOOSE i \in 0..9 : RtcTable[i] = rate)
Accepted(rate) == \E i \in 0..9 : RtcTable[i] = rate

RtcWrite(rate) ==
  /\ User /\ reader[running] = "idle"
  /\ rateBits' = IF Accepted(rate) THEN RateBits(rate) ELSE rateBits
  /\ UNCHANGED <<rtcFlag, reader>>

(***************************************************************************)
(* entry() of kernel.c, from load_idt to execute("gui").                   *)
(***************************************************************************)
Boot(n) ==
  /\ booting = n /\ running = 0 /\ frames[0] = <<>>
  /\ booting' = n + 1
  /\ UNCHANGED <<isr, termPit, running, frames, saved, rtcFlag, reader>>

BootTables ==
  \/ Boot(0) /\ gates' = Present /\ UNCHANGED <<mask, intr, has, rateBits>>  \* load_idt
  \/ Boot(1) /\ mask' = Irqs /\ UNCHANGED <<gates, intr, has, rateBits>>     \* i8259_init
  \/ Boot(2) /\ UNCHANGED <<gates, mask, intr, has, rateBits>>               \* rtc_init

BootDevices ==
  \/ Boot(3) /\ mask' = mask \ {RTC, SLAVE, PIT} /\ UNCHANGED <<gates, intr, has, rateBits>>
  \/ Boot(4) /\ intr' = TRUE /\ UNCHANGED <<gates, mask, has, rateBits>>     \* sti
  \/ Boot(5) /\ rateBits' = RateBits(512) /\ UNCHANGED <<gates, mask, intr, has>>
  \/ Boot(6) /\ mask' = mask \ {KEY} /\ UNCHANGED <<gates, intr, has, rateBits>>
  \/ Boot(7) /\ UNCHANGED <<gates, mask, intr, has, rateBits>>               \* mouse_init

\* enable_irq(MOUSE_IRQ), and execute("gui") reaches user mode.
BootGui ==
  /\ Boot(8)
  /\ mask' = mask \ {MOUSE}
  /\ has' = [has EXCEPT ![0] = TRUE]
  /\ UNCHANGED <<gates, intr, rateBits>>

BootStep == BootTables \/ BootDevices \/ BootGui

Handler == RtcHandler \/ KeyHandler \/ MouseHandler \/ PitStays \/ PitSwitches
Events  == KeyLaunch \/ MouseLaunch \/ HaltShell
Clock   == RtcRead \/ RtcReadReturns \/ \E r \in Rates : RtcWrite(r)

Next == \/ BootStep \/ Handler \/ LoadStack \/ Events \/ Clock
        \/ \E irq \in Devices : Deliver(irq)

(***************************************************************************)
(* Fairness.  A handler is shorter than the time between two requests, so  *)
(* it reaches its end, and entry() and programs go on between them; the    *)
(* timers tick for ever.  A slice is 50ms: a clock faster than 20Hz      *)
(* ticks in every one, so a terminal scheduled for ever again sees one;    *)
(* a slower clock promises that to no terminal.                            *)
(***************************************************************************)
Frequency == 32768 \div (2 ^ (rateBits - 1))
TickInSlice(t) == Frequency > 20 /\ termPit = t /\ running = t /\ Deliver(RTC)

Fair ==
  /\ WF_vars(Handler) /\ SF_vars(LoadStack)
  /\ SF_vars(BootStep) /\ SF_vars(Deliver(PIT))
  /\ \A t \in Readers : SF_vars(TickInSlice(t)) /\ SF_vars(running = t /\ RtcReadReturns)

Spec == Init /\ [][Next]_vars
FairSpec == Spec /\ Fair
-----------------------------------------------------------------------------
\* Every way out of a handler acknowledges its line, once for each chip, and
\* none does before it must ("EOI needs to be sent after every IRQ",
\* rtc_handler): also when a click starts a terminal and mouse_handler does
\* not come back (mouse.c:176), when ESC leaves through halt, and when
\* context_switch_pit returns on another stack.
Acknowledged ==
  isr = UNION {{irq, OnMaster(irq)} : irq \in {d \in Devices : Top = Entered(d)}}

\* A terminal off the CPU is resumed on its own stack, exactly where it was
\* left: no tick or launch has been counted on another terminal's stack, and
\* the frame its saved_esp names has not been returned from (paging.c:281).
ResumesWhole ==
  \A t \in Terms : has[t] /\ t # termPit =>
    /\ saved[t] # Empty
    /\ saved[t][1] = t
    /\ saved[t][2] \in 1..Len(frames[t])
    /\ t # running => saved[t][2] = Len(frames[t])

\* rtc_read "waits for the handler to clear" its flag: as long as the clock
\* stays faster than the scheduler's slices, every reader is woken although
\* a tick wakes only the terminal scheduled (rtc.c:39), and unless the user
\* goes on for ever starting terminals, each of which takes the turn.
RtcServed ==
  <>[](Frequency > 20) /\ <>[][has' = has]_vars =>
    \A t \in Readers : reader[t] = "wait" ~> reader[t] = "idle"

\* The machine comes up: with interrupts on from the middle of entry(), every
\* device is let through in the end and the GUI runs.
ComesUp == <>(booting = EndOfBoot)
=============================================================================
