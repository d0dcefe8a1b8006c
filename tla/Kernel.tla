------------------------------- MODULE Kernel -------------------------------
(***************************************************************************)
(* Processes, terminals and the scheduler: student-distrib/system.c        *)
(* (execute, halt), paging.c (set_page, map_vid, context_switch,           *)
(* context_switch_pit), pit.c (pit_irq), and the handlers of key.c and     *)
(* mouse.c that switch, launch or end a terminal.                          *)
(*                                                                         *)
(* Two "current terminals" exist: term_live, the one on the screen, and    *)
(* term_pit, the one the CPU runs for.  Terminal 0 is the GUI, terminal 1  *)
(* the shell, terminal 2 pacman.  A process is known by its pid, which     *)
(* fixes where its kernel stack, its PCB and its 4MB page lie: the same    *)
(* pid twice is the same memory twice.                                     *)
(*                                                                         *)
(* Interrupt handlers run with interrupts off and are one step.  System    *)
(* calls come through a trap gate (idt.c) and keep interrupts on, so       *)
(* execute, when the shell calls it, is three steps, and so is the halt of *)
(* a program that another one executed; the halt of a terminal's first     *)
(* process begins with cli and is one.                                     *)
(***************************************************************************)
EXTENDS Integers, FiniteSets

CONSTANTS
  PidMax,      (* PID_MAX: processes execute allows (6 in system.h)          *)
  StrayFlags,  (* what pcb.shell_flag, never assigned for a child, may read  *)
               (* as when halt compares it with 1                            *)
  Exposed      (* the timing hazards the environment is allowed to hit       *)

(***************************************************************************)
(* The windows a user or the timer can hit.  Each names a guard below; a   *)
(* run, or a theorem, with Exposed = {} is about a machine where nobody    *)
(* does, and the runs that add one show what it breaks.                    *)
(***************************************************************************)
Hazards ==
  { "tick_in_execute",        \* a PIT tick lands inside execute
    "switch_before_execute",  \* Alt+F1 between Enter and the end of execute
    "launch_from_halt",       \* a launch while a dead shell spins in halt
    "launch_in_halt",         \* a launch before a halting child has left its stack
    "launch_at_limit" }       \* a launch with PID_MAX processes alive

ASSUME PidMaxAssumption  == PidMax \in Nat \ {0}
ASSUME StrayAssumption   == StrayFlags \subseteq BOOLEAN /\ StrayFlags # {}
ASSUME ExposedAssumption == Exposed \subseteq Hazards

Terms == 0..2
None  == 0                  \* NULL: a pcb pointer, a saved stack pointer
Idle  == -1                 \* the context that spins at the end of halt
Popped == -2                \* a saved stack pointer whose frame has been returned from
Pids  == 1..(PidMax + 1)    \* one more: the test and the ++ are not atomic
VideoPage == 3              \* page 0xB8; page t \in Terms stands for 0xD1 + t

NoLine   == "none"
Programs == {"shell", "prog"}             \* what a user names at the prompt
Lines    == Programs \cup {"exit", "other"}   \* "other": blank, no such program
Images   == Programs \cup {"gui", "pacman", "blank"}
Switching == {"load", "enter"}            \* inside execute
Leaving   == {"leave", "drop"}            \* inside halt, before and after pid_max--
Ctl == {"free", "loop", "read", "run", "wait"} \cup Switching \cup Leaving

VARIABLES
  termLive, termPit,      \* terminal displayed, terminal scheduled
  active, pcbLive, saved, \* term[t].active_flag, .pcb_live (its pid), .saved_esp
  pidMax,                 \* pid_max
  parent, shellFlag,      \* PCB fields, by pid
  saveStack,              \* PCB save_stack_ptr: whose stack execute saved
  ctl,                    \* where each process is in its own code
  image, exePage, esp0,   \* page contents, page mapped at 128MB, tss.esp0
  vidmap, ptVid,          \* page behind the user's video address, 0xD1+t
  isModex, isPacman,
  cpu,                    \* whose context the CPU is executing
  line                    \* the line Enter handed to terminal 1's reader

termVars == <<active, pcbLive, saved>>
pcbVars  == <<pidMax, parent, shellFlag, saveStack>>
memVars  == <<image, exePage, esp0>>
vidVars  == <<vidmap, ptVid>>
modeVars == <<isModex, isPacman>>
vars == <<termLive, termPit, termVars, pcbVars, ctl, memVars, vidVars,
          modeVars, cpu, line>>

TypeOK ==
  /\ termLive \in Terms /\ termPit \in Terms
  /\ active \in [Terms -> BOOLEAN]
  /\ pcbLive \in [Terms -> Pids \cup {None}]
  /\ saved \in [Terms -> Pids \cup {None, Idle, Popped}]
  /\ pidMax \in 0..(PidMax + 1)
  /\ parent \in [Pids -> Pids \cup {None}]
  /\ shellFlag \in [Pids -> BOOLEAN]
  /\ saveStack \in [Pids -> Pids \cup {None}]
  /\ ctl \in [Pids -> Ctl]
  /\ image \in [Pids -> Images]
  /\ exePage \in Pids /\ esp0 \in Pids
  /\ vidmap \in Terms \cup {VideoPage}
  /\ ptVid \in [Terms -> Terms \cup {VideoPage}]
  /\ isModex \in BOOLEAN /\ isPacman \in BOOLEAN
  /\ cpu \in Pids \cup {None, Idle, Popped}
  /\ line \in Lines \cup {NoLine}

(***************************************************************************)
(* kernel.c ends with term_live = term_pit = 0, term[0] active and         *)
(* execute("gui"), which has just reached user mode: pid 1, no parent.     *)
(***************************************************************************)
Init ==
  /\ termLive = 0 /\ termPit = 0
  /\ active = [t \in Terms |-> t = 0]
  /\ pcbLive = [t \in Terms |-> IF t = 0 THEN 1 ELSE None]
  /\ saved = [t \in Terms |-> None]
  /\ pidMax = 1
  /\ parent = [p \in Pids |-> None]
  /\ \E f \in StrayFlags : shellFlag = [p \in Pids |-> f]
  /\ saveStack = [p \in Pids |-> None]
  /\ ctl = [p \in Pids |-> IF p = 1 THEN "loop" ELSE "free"]
  /\ image = [p \in Pids |-> IF p = 1 THEN "gui" ELSE "blank"]
  /\ exePage = 1 /\ esp0 = 1
  /\ vidmap = VideoPage
  /\ ptVid = [t \in Terms |-> IF t = 0 THEN VideoPage ELSE t]
  /\ isModex = TRUE /\ isPacman = FALSE
  /\ cpu = 1
  /\ line = NoLine

(***************************************************************************)
(* The PIT: pit_irq looks for the next terminal with a process, starting   *)
(* after term_pit; context_switch_pit saves the stack under the old one    *)
(* and loads the stack, the page and the video mapping of the new one.     *)
(***************************************************************************)
\* Mutant: any terminal is next, whether it has a process or not.
NextTerm_Unchecked(t) == (t + 1) % 3

\* Mutant: only the terminal after the current one is looked at.
NextTerm_OneAhead(t) ==
  LET a == (t + 1) % 3 IN IF pcbLive[a] # None THEN a ELSE t

NextTerm(t) ==
  LET a == (t + 1) % 3
      b == (t + 2) % 3
  IN IF pcbLive[a] # None THEN a ELSE IF pcbLive[b] # None THEN b ELSE t

VidmapFor(t) == IF termLive = t THEN VideoPage ELSE t

InExecute == cpu \in Pids /\ ctl[cpu] \in Switching

\* What a CPU does that was given no stack, or a popped one, is not modelled.
Running == cpu \notin {None, Popped}

ContextSwitchPit(new) ==
  /\ new # termPit
  /\ termPit' = new
  /\ saved' = [saved EXCEPT ![termPit] = cpu]
  /\ exePage' = pcbLive[new]
  /\ esp0' = pcbLive[new]
  /\ vidmap' = VidmapFor(new)
  /\ cpu' = saved[new]
  /\ UNCHANGED <<termLive, active, pcbLive, pcbVars, ctl, image, ptVid,
                 modeVars, line>>

PitIrq ==
  /\ Running
  /\ InExecute => "tick_in_execute" \in Exposed
  /\ ContextSwitchPit(NextTerm(termPit))

(***************************************************************************)
(* context_switch(old, new), called with term_live = old.  The display     *)
(* moves; a terminal with no process gets one, and then the handler does   *)
(* not come back until the PIT resumes the context saved under term_pit.   *)
(***************************************************************************)
\* Mutant: the old terminal keeps its mapping of the screen.
PtVidAfter_KeepsOld(old, new) == [ptVid EXCEPT ![new] = VideoPage]

PtVidAfter(old, new) ==
  [ptVid EXCEPT ![old] = old, ![new] = VideoPage]

\* Mutant: only the terminal switched to is looked at.
SavedDropped_OneFlag(new) ==
  IF new \in {1, 2} /\ ~active[new] THEN [saved EXCEPT ![0] = None] ELSE saved

\* The GUI's saved stack is dropped when neither other terminal is active.
SavedDropped(new) ==
  IF new \in {1, 2} /\ ~active[1] /\ ~active[2]
    THEN [saved EXCEPT ![0] = None] ELSE saved

\* old = new: context_switch returns at once.
StayOn(new) ==
  /\ new = termLive
  /\ UNCHANGED <<termLive, termPit, termVars, pcbVars, ctl, memVars, vidVars,
                 cpu, line>>

\* Mutant: moving the display moves the scheduler's turn too.
Show_MovesTurn(new) ==
  /\ new # termLive
  /\ pcbLive[new] # None
  /\ termLive' = new
  /\ termPit' = new
  /\ ptVid' = PtVidAfter(termLive, new)
  /\ saved' = SavedDropped(new)
  /\ UNCHANGED <<active, pcbLive, pcbVars, ctl, memVars, vidmap, cpu, line>>

Show(new) ==
  /\ new # termLive
  /\ pcbLive[new] # None
  /\ termLive' = new
  /\ ptVid' = PtVidAfter(termLive, new)
  /\ saved' = SavedDropped(new)
  /\ UNCHANGED <<termPit, active, pcbLive, pcbVars, ctl, memVars, vidmap,
                 cpu, line>>

FirstCtl(prog) ==
  CASE prog = "shell" -> "read" [] prog = "prog" -> "run" [] OTHER -> "loop"

\* What a launch changes whether or not its execute succeeds.
LaunchTerminal(new) ==
  /\ new # termLive
  /\ pcbLive[new] = None
  /\ cpu = Idle => "launch_from_halt" \in Exposed
  /\ (\E p \in Pids : ctl[p] \in Leaving) => "launch_in_halt" \in Exposed
  /\ termLive' = new
  /\ ptVid' = PtVidAfter(termLive, new)
  /\ active' = [active EXCEPT ![new] = TRUE]
  /\ termPit' = new

\* execute inside a handler, interrupts off, term_live = term_pit = new.
Launch(new, prog) ==
  LET p == pidMax + 1
  IN /\ LaunchTerminal(new)
     /\ pidMax < PidMax
     /\ saved' = [SavedDropped(new) EXCEPT ![termPit] = cpu]
     /\ pidMax' = p
     /\ image' = [image EXCEPT ![p] = prog]
     /\ exePage' = p
     /\ esp0' = p
     /\ parent' = [parent EXCEPT ![p] = pcbLive[0]]
     /\ shellFlag' = [shellFlag EXCEPT ![p] = TRUE]
     /\ saveStack' = [saveStack EXCEPT ![p] = None]
     /\ pcbLive' = [pcbLive EXCEPT ![new] = p]
     /\ ctl' = [ctl EXCEPT ![p] = FirstCtl(prog)]
     /\ cpu' = p
     /\ UNCHANGED <<vidmap, line>>

\* execute returns ERR, and context_switch and the handler return: term_pit
\* has moved, and the frame whose address the old terminal saved is gone.
LaunchFull(new) ==
  /\ LaunchTerminal(new)
  /\ pidMax >= PidMax
  /\ "launch_at_limit" \in Exposed
  /\ saved' = [SavedDropped(new) EXCEPT ![termPit] = Popped]
  /\ UNCHANGED <<pcbLive, pcbVars, ctl, memVars, vidmap, cpu, line>>

ContextSwitch(new, prog) ==
  StayOn(new) \/ Show(new) \/ Launch(new, prog) \/ LaunchFull(new)

(***************************************************************************)
(* The user: a key or a click is an interrupt of whatever context runs.    *)
(***************************************************************************)
Busy == line # NoLine \/ \E p \in Pids : ctl[p] \in Switching

\* Mutant: the display moves and the video mode does not.
KeyAltF1_SameMode ==
  /\ Running
  /\ ~isPacman
  /\ Busy => "switch_before_execute" \in Exposed
  /\ pcbLive[0] # None
  /\ StayOn(0) \/ Show(0)
  /\ UNCHANGED modeVars

\* Mutant: pacman's screen can be left without ending pacman.
KeyAltF1_LeavesPacman ==
  /\ Running
  /\ Busy => "switch_before_execute" \in Exposed
  /\ pcbLive[0] # None
  /\ StayOn(0) \/ Show(0)
  /\ isModex' = TRUE
  /\ UNCHANGED isPacman

\* Alt+F1: to the GUI.
KeyAltF1 ==
  /\ Running
  /\ ~isPacman
  /\ Busy => "switch_before_execute" \in Exposed
  /\ pcbLive[0] # None
  /\ StayOn(0) \/ Show(0)
  /\ isModex' = TRUE
  /\ UNCHANGED isPacman

\* Mutant: the same, towards the shell.
KeyAltF2_LeavesPacman ==
  /\ Running
  /\ ~(termLive = 2 /\ pcbLive[1] = None)
  /\ ContextSwitch(1, "shell")
  /\ isModex' = FALSE
  /\ UNCHANGED isPacman

\* Alt+F2: to the shell terminal, started if it has none.
KeyAltF2 ==
  /\ Running
  /\ ~isPacman
  /\ ~(termLive = 2 /\ pcbLive[1] = None)
  /\ ContextSwitch(1, "shell")
  /\ isModex' = FALSE
  /\ UNCHANGED isPacman

\* A click released on the terminal icon (image 1).
ClickTerminal ==
  /\ Running
  /\ isModex /\ ~isPacman
  /\ ContextSwitch(1, "shell")
  /\ isModex' = FALSE
  /\ UNCHANGED isPacman

\* A click released on the pacman icon (image 6).
ClickPacman ==
  /\ Running
  /\ isModex /\ ~isPacman
  /\ ContextSwitch(2, "pacman")
  /\ isPacman' = TRUE
  /\ UNCHANGED isModex

\* Enter on terminal 1 while its process is in terminal_read; a line
\* entered at any other time is dropped when the next read begins.
TypeLine(l) ==
  /\ Running
  /\ termLive = 1
  /\ pcbLive[1] # None /\ ctl[pcbLive[1]] = "read"
  /\ line = NoLine
  /\ line' = l
  /\ UNCHANGED <<termLive, termPit, termVars, pcbVars, ctl, memVars, vidVars,
                 modeVars, cpu>>

(***************************************************************************)
(* execute, called by the shell: the tests and set_page; the load of the   *)
(* image; the PCB, the stacks and the jump to user mode.                   *)
(***************************************************************************)
Reading(p) == cpu = p /\ ctl[p] = "read" /\ termPit = 1

\* Mutant: set_page before pid_max counts the child.
ExecuteBegin_ParentsPage(p) ==
  /\ Reading(p)
  /\ line \in Programs
  /\ pidMax < PidMax
  /\ exePage' = pidMax
  /\ ctl' = [ctl EXCEPT ![p] = "load"]
  /\ UNCHANGED <<termLive, termPit, termVars, pcbVars, image, esp0, vidVars,
                 modeVars, cpu, line>>

ExecuteBegin(p) ==
  /\ Reading(p)
  /\ line \in Programs
  /\ pidMax < PidMax
  /\ exePage' = pidMax + 1
  /\ ctl' = [ctl EXCEPT ![p] = "load"]
  /\ UNCHANGED <<termLive, termPit, termVars, pcbVars, image, esp0, vidVars,
                 modeVars, cpu, line>>

\* Mutant: a refused line stays where it is.
ExecuteRefused_KeepsLine(p) ==
  /\ Reading(p)
  /\ \/ line = "other"
     \/ line \in Programs /\ pidMax >= PidMax
  /\ UNCHANGED vars

\* PID_MAX reached, no such file, or not an executable (or a blank line,
\* which the shell drops itself): nothing changes and the shell reads again.
ExecuteRefused(p) ==
  /\ Reading(p)
  /\ \/ line = "other"
     \/ line \in Programs /\ pidMax >= PidMax
  /\ line' = NoLine
  /\ UNCHANGED <<termLive, termPit, termVars, pcbVars, ctl, memVars, vidVars,
                 modeVars, cpu>>

ExecuteLoad(p) ==
  /\ cpu = p /\ ctl[p] = "load"
  /\ image' = [image EXCEPT ![exePage] = line]
  /\ ctl' = [ctl EXCEPT ![p] = "enter"]
  /\ UNCHANGED <<termLive, termPit, termVars, pcbVars, exePage, esp0, vidVars,
                 modeVars, cpu, line>>

\* The child joins the terminal on the screen, whoever called execute.
ExecuteEnter(p) ==
  LET c     == pidMax + 1
      owner == pcbLive[termLive]
      first == owner = None /\ termLive \in {1, 2}
  IN /\ cpu = p /\ ctl[p] = "enter"
     /\ pidMax < PidMax + 1
     /\ pidMax' = c
     /\ parent' = [parent EXCEPT ![c] = IF first THEN pcbLive[0] ELSE owner]
     /\ \E f \in IF first THEN {TRUE} ELSE StrayFlags :
          shellFlag' = [shellFlag EXCEPT ![c] = f]
     /\ saveStack' = [q \in Pids |-> IF q = c THEN None
                                     ELSE IF q = owner THEN p ELSE saveStack[q]]
     /\ pcbLive' = [pcbLive EXCEPT ![termLive] = c]
     /\ ctl' = [ctl EXCEPT ![p] = "wait", ![c] = FirstCtl(line)]
     /\ esp0' = c
     /\ cpu' = c
     /\ line' = NoLine
     /\ UNCHANGED <<termLive, termPit, active, saved, image, exePage, vidVars,
                    modeVars>>

(***************************************************************************)
(* halt, by the process the CPU runs, on the PCB of term_pit.              *)
(***************************************************************************)
\* shell_flag = 1: the terminal closes, the GUI is shown, and the caller
\* spins until the PIT takes the CPU away.
HaltShell ==
  LET h == pcbLive[termPit]
  IN /\ h # None /\ shellFlag[h]
     /\ active' = [active EXCEPT ![termPit] = FALSE]
     /\ pcbLive' = [pcbLive EXCEPT ![termPit] = None]
     /\ pidMax' = pidMax - 1
     /\ termLive' = IF termPit = 0 THEN termLive ELSE 0
     /\ ptVid' = IF termPit = 0 THEN ptVid ELSE PtVidAfter(termPit, 0)
     /\ saved' = [saved EXCEPT ![termPit] = None]
     /\ ctl' = [ctl EXCEPT ![cpu] = "free"]
     /\ cpu' = Idle
     /\ isModex' = TRUE
     /\ UNCHANGED <<termPit, parent, shellFlag, saveStack, memVars, vidmap>>

HaltUnchanged == UNCHANGED <<termLive, termPit, active, saved, parent, shellFlag,
                             saveStack, image, vidVars, isModex>>

\* Otherwise pcb_live, the page and esp0 become the parent's while the CPU is
\* still on the child's stack, interrupts on: a tick in between saves it.
HaltChild ==
  LET h == pcbLive[termPit]
      q == parent[h]
  IN /\ h # None /\ ~shellFlag[h] /\ q # None
     /\ pcbLive' = [pcbLive EXCEPT ![termPit] = q]
     /\ exePage' = q
     /\ esp0' = q
     /\ ctl' = [ctl EXCEPT ![cpu] = "leave"]
     /\ UNCHANGED <<pidMax, cpu>>
     /\ HaltUnchanged

\* Mutant: pid_max is given back only when a terminal closes.
HaltCount_KeepsPidMax(p) ==
  /\ cpu = p /\ ctl[p] = "leave"
  /\ ctl' = [ctl EXCEPT ![p] = "drop"]
  /\ UNCHANGED <<pidMax, pcbLive, exePage, esp0, cpu, isPacman, line>>
  /\ HaltUnchanged

HaltCount(p) ==
  /\ cpu = p /\ ctl[p] = "leave"
  /\ pidMax' = pidMax - 1
  /\ ctl' = [ctl EXCEPT ![p] = "drop"]
  /\ UNCHANGED <<pcbLive, exePage, esp0, cpu, isPacman, line>>
  /\ HaltUnchanged

\* Where halt's last jump goes: the stack execute saved in the PCB that
\* pcb_live names by now; its owner reads on.
Returned(p, q) ==
  /\ cpu' = saveStack[q]
  /\ ctl' = [r \in Pids |-> IF r = p THEN "free"
                            ELSE IF r = saveStack[q] THEN "read" ELSE ctl[r]]

HaltReturn(p) ==
  /\ cpu = p /\ ctl[p] = "drop"
  /\ pcbLive[termPit] # None
  /\ Returned(p, pcbLive[termPit])
  /\ UNCHANGED <<pidMax, pcbLive, exePage, esp0, isPacman, line>>
  /\ HaltUnchanged

\* The same called by the handler of ESC, whose gate turned interrupts off.
HaltChildAtOnce ==
  LET h == pcbLive[termPit]
      q == parent[h]
  IN /\ h # None /\ ~shellFlag[h] /\ q # None
     /\ pcbLive' = [pcbLive EXCEPT ![termPit] = q]
     /\ exePage' = q
     /\ esp0' = q
     /\ pidMax' = pidMax - 1
     /\ Returned(cpu, q)
     /\ HaltUnchanged

\* halt as a system call or a fault enters it.
Halt == HaltShell \/ HaltChild

\* A program returns from main, or faults: both call halt.
ProgramExit(p) ==
  /\ cpu = p /\ ctl[p] = "run"
  /\ Halt
  /\ UNCHANGED <<isPacman, line>>

\* The shell reads "exit" and returns.
ShellExit(p) ==
  /\ Reading(p)
  /\ line = "exit"
  /\ Halt
  /\ line' = NoLine
  /\ UNCHANGED isPacman

\* ESC with pacman both displayed and scheduled.
KeyEsc ==
  /\ cpu \in Pids
  /\ termLive = 2 /\ termPit = 2
  /\ isPacman' = FALSE
  /\ HaltShell \/ HaltChildAtOnce
  /\ UNCHANGED line

\* vidmap(): map_vid points the user's video page at the screen.
Vidmap(p) ==
  /\ cpu = p /\ ctl[p] = "run"
  /\ vidmap' = VideoPage
  /\ UNCHANGED <<termLive, termPit, termVars, pcbVars, ctl, memVars, ptVid,
                 modeVars, cpu, line>>

User == \/ KeyAltF1 \/ KeyAltF2 \/ KeyEsc \/ ClickTerminal \/ ClickPacman
        \/ \E l \in Lines : TypeLine(l)

Process(p) ==
  \/ ExecuteBegin(p) \/ ExecuteRefused(p) \/ ExecuteLoad(p) \/ ExecuteEnter(p)
  \/ ProgramExit(p) \/ ShellExit(p) \/ HaltCount(p) \/ HaltReturn(p) \/ Vidmap(p)

Next == PitIrq \/ User \/ \E p \in Pids : Process(p)

(***************************************************************************)
(* The timer keeps ticking, and a 50ms slice is more than a system call    *)
(* needs: a shell that is scheduled again and again with a line waiting    *)
(* takes its step.  Users and programs promise nothing.                    *)
(***************************************************************************)
Serves(p) == ExecuteBegin(p) \/ ExecuteRefused(p) \/ ExecuteLoad(p)
             \/ ExecuteEnter(p) \/ ShellExit(p)

Spec == Init /\ [][Next]_vars
FairSpec == Spec /\ SF_vars(PitIrq) /\ \A p \in Pids : SF_vars(Serves(p))
-----------------------------------------------------------------------------
Live == {p \in Pids : ctl[p] # "free"}

\* The contexts that may run for terminal t: its process, unless that waits
\* in execute for its child; or the child, on its way out of halt.
RunsFor(p, t) ==
  /\ p \in Pids
  /\ \/ p = pcbLive[t] /\ ctl[p] \notin {"free", "wait"} \cup Leaving
     \/ ctl[p] \in Leaving /\ parent[p] = pcbLive[t] /\ ctl[parent[p]] = "wait"

\* A terminal that waits for the CPU is resumed where it was left: never on a
\* dropped stack (context_switch nulls term[0]'s), never on that of another
\* terminal, of a dead process or of one that waits, though a tick may find
\* pcb_live already the parent and the CPU still on the child's stack
\* (system.c:72-79; pit_irq, context_switch).
ResumeSafe ==
  \A t \in Terms : t # termPit /\ pcbLive[t] # None => RunsFor(saved[t], t)

\* The CPU runs for the terminal term_pit says it does, and the TSS names the
\* kernel stack of that terminal's process, over execute's and halt's windows.
OwnStack ==
  cpu # Idle => RunsFor(cpu, termPit) /\ esp0 = pcbLive[termPit]

\* "change the page to point to the correct physical memory" (set_page): a
\* process outside execute runs with its own page mapped at 128MB, and that
\* page holds the program execute was asked for.
CorrectPage ==
  cpu \in Pids /\ ctl[cpu] \in {"loop", "read", "run"} =>
    /\ exePage = cpu
    /\ ctl[cpu] = "read" => image[cpu] = "shell"
    /\ ctl[cpu] = "run" => image[cpu] = "prog"

\* pid_max counts the processes alive, though processes leave in another
\* order than they came (execute's ++, halt's --) and a tick may come between
\* a child's halt and the end of it; and it stays within PID_MAX, though its
\* test and its ++ are far apart (system.c:109, 134).
PidMaxCounts ==
  /\ pidMax = Cardinality({p \in Live : ctl[p] # "drop"})
  /\ pidMax <= PidMax

\* Every execute takes a pid no live process has, hence a kernel stack, a
\* PCB and a page of its own, and no step writes over the image of a live
\* process ("each process needs a kernel stack", execute).
FreshPid ==
  [][/\ pidMax' > pidMax => pidMax' \notin Live
     /\ \A p \in Live : ctl'[p] # "free" => image'[p] = image[p]]_vars

\* Text mode shows exactly when the shell's terminal is displayed, and the
\* terminal displayed has a process (key.c, mouse.c, halt's return to GUI).
ModeMatches ==
  /\ isModex <=> termLive # 1
  /\ pcbLive[termLive] # None

\* The screen is the text page of the displayed terminal and of no other
\* (page_table_4kb in context_switch): nobody else's writes show.
ScreenOwned == \A t \in Terms : ptVid[t] = IF t = termLive THEN VideoPage ELSE t

\* Pacman on: ESC can still end it, since its terminal is displayed and has a
\* process whose halt closes it (every other way out is refused while isPacman
\* is set); off: nothing is refused for its sake.
PacmanEscapable ==
  /\ isPacman <=> termLive = 2
  /\ isPacman => pcbLive[2] # None /\ shellFlag[pcbLive[2]]

\* "Stop writing to screen after switch from 1-->0" (context_switch_pit):
\* a program whose terminal is not displayed does not have the screen at
\* its video address.
HiddenIsSilent ==
  cpu \in Pids /\ ctl[cpu] = "run" /\ termPit # termLive => vidmap # VideoPage

\* "tear down all data for current process, go back to parent process"
\* (halt): the process that halts is the one whose PCB halt takes down, and
\* a child, whatever ran between the steps of its halt, leaves for its parent.
Ends(p) == ctl[p] \notin {"free"} \cup Leaving /\ ctl'[p] \in {"free"} \cup Leaving
HaltsItself ==
  [][\A p \in Pids :
       /\ Ends(p) => pcbLive[termPit] = p
       /\ ctl[p] \in Leaving /\ ctl'[p] = "free" => cpu = p /\ cpu' = parent[p]]_vars

\* "it never returns technically" (execute): context_switch moves term_pit to
\* a terminal before the execute that is to give it a process.
NeverReturns == [][termPit' # termPit => pcbLive'[termPit'] # None]_vars

\* Round robin starves no terminal with a process (pit_irq), unless the user
\* goes on for ever launching terminals, each of which moves term_pit.
TerminalOpens == \E t \in Terms : pcbLive[t] = None /\ pcbLive'[t] # None

Scheduled ==
  <>[][~TerminalOpens]_vars =>
    \A t \in Terms : pcbLive[t] # None ~> (termPit = t \/ pcbLive[t] = None)

\* A command line handed to a shell is acted on.
LineServed == line # NoLine ~> line = NoLine
=============================================================================
