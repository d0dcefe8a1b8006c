---------------------------- MODULE KernelProofs ----------------------------
(***************************************************************************)
(* Proofs about Kernel for every PID_MAX and whatever an unassigned        *)
(* shell_flag reads as, on a machine that hits none of the Hazards.        *)
(***************************************************************************)
EXTENDS Kernel, FiniteSetTheorems, TLAPS

\* A child of terminal 1's process is inside halt: pcb_live is the parent
\* already, and the child, one pid above, is counted until pid_max--.
Away  == pcbLive[1] # None /\ ctl[pcbLive[1]] = "wait"
Child == pcbLive[1] + 1
Out   == Away /\ ctl[Child] = "leave"

\* Pids 1..Base are the GUI and everything ever started under terminal 1,
\* 1..Top with a child that leaves; pacman, when it runs, sits above them,
\* perhaps with a gap.
Base == pidMax - (IF pcbLive[2] = None THEN 0 ELSE 1) - (IF Out THEN 1 ELSE 0)
Top  == IF Away THEN Base + 1 ELSE Base

\* Which pids the terminals hold, and who is alive.
PidInv ==
  /\ pidMax \in Nat /\ pidMax <= PidMax
  /\ Base >= 1 /\ Top <= PidMax
  /\ pcbLive[0] = 1
  /\ pcbLive[1] \in {None, Base}
  /\ pcbLive[1] # None => Base >= 2
  /\ pcbLive[2] # None => pcbLive[2] > Top /\ pcbLive[2] <= PidMax
  /\ \A p \in Pids : ctl[p] = "free" <=> p > Top /\ p # pcbLive[2]

\* What each live process is doing, and what its page holds.
CtlInv ==
  /\ ctl[1] = "loop"
  /\ pcbLive[2] # None => ctl[pcbLive[2]] = "loop"
  /\ \A p \in Pids : p >= 2 /\ p <= Base =>
       /\ p # pcbLive[1] => ctl[p] = "wait"
       /\ p = pcbLive[1] => ctl[p] \in {"read", "run", "wait"} \cup Switching
       /\ image[p] = IF ctl[p] = "run" THEN "prog" ELSE "shell"

\* A child that halt will send back has a parent waiting for it, with its
\* stack saved; a terminal's first process always carries shell_flag.
FamilyInv ==
  /\ pcbLive[2] # None => shellFlag[pcbLive[2]]
  /\ \A p \in Pids : p >= 2 /\ p <= Base /\ ~shellFlag[p] =>
       /\ p >= 3
       /\ parent[p] = p - 1
       /\ saveStack[p - 1] = p - 1

\* So does one on its way out.
AwayInv ==
  Away => /\ ctl[Child] \in Leaving
          /\ parent[Child] = pcbLive[1]
          /\ saveStack[pcbLive[1]] = pcbLive[1]

\* Inside execute nothing moves: the shell keeps the CPU and the display.
ExecuteInv ==
  /\ \A p \in Pids : ctl[p] \in Switching =>
       /\ cpu = p
       /\ line \in Programs
       /\ pcbLive[2] = None
       /\ pidMax < PidMax
       /\ exePage = pidMax + 1
       /\ ctl[p] = "enter" => image[pidMax + 1] = line
  /\ line # NoLine =>
       /\ termLive = 1 /\ pcbLive[1] # None
       /\ ctl[pcbLive[1]] \in {"read"} \cup Switching

\* What the screen shows, and what the modes say of it.
ModeInv ==
  /\ ModeMatches
  /\ isPacman => isModex
  /\ pcbLive[2] # None => isPacman
  /\ termLive = 2 => isPacman
  /\ \A t \in {1, 2} : pcbLive[t] # None => active[t]

\* Who runs for a terminal with a process.
Runner(t) == IF t = 1 /\ Away THEN Child ELSE pcbLive[t]

\* What the CPU executes: the scheduled terminal's process or its leaving
\* child, or the end of its halt.
CpuInv ==
  \/ cpu = Idle /\ pcbLive[termPit] = None
  \/ /\ pcbLive[termPit] # None
     /\ cpu \in Pids /\ cpu = Runner(termPit) /\ esp0 = pcbLive[termPit]
     /\ ctl[cpu] \notin Switching => exePage = pcbLive[termPit]

\* Where each waiting terminal is resumed.
ResumeInv ==
  \A t \in Terms : t # termPit /\ pcbLive[t] # None => saved[t] = Runner(t)

IInv == /\ TypeOK /\ PidInv /\ CtlInv /\ FamilyInv /\ AwayInv /\ ExecuteInv
        /\ ModeInv /\ CpuInv /\ ResumeInv

-----------------------------------------------------------------------------
\* Without a leaving child the pids are simply 1..Base and pacman's.
LEMMA Settled ==
  ASSUME IInv, ~Away
  PROVE  /\ Base = pidMax - (IF pcbLive[2] = None THEN 0 ELSE 1)
         /\ Top = Base
         /\ \A t : Runner(t) = pcbLive[t]
         /\ \A p \in Pids : ctl[p] \notin Leaving
<1>1. Top = Base /\ \A t : Runner(t) = pcbLive[t]
  BY DEF Top, Runner
<1>2. Base = pidMax - (IF pcbLive[2] = None THEN 0 ELSE 1)
  BY DEF Base, Out, IInv, TypeOK
<1>3. ASSUME NEW p \in Pids PROVE ctl[p] \notin Leaving
  <2>1. PidInv /\ CtlInv /\ pidMax \in Nat
    BY DEF IInv, PidInv
  <2>2. CASE p > Base /\ p # pcbLive[2]
    BY <1>1, <2>1, <2>2 DEF PidInv, Leaving
  <2>3. CASE p = pcbLive[2]
    BY <2>1, <2>3 DEF CtlInv, Leaving, None, Pids
  <2>4. CASE p = 1
    BY <2>1, <2>4 DEF CtlInv, Leaving
  <2>5. CASE p >= 2 /\ p <= Base
    <3>1. ctl[p] \in {"read", "run", "wait"} \cup Switching
      BY <2>1, <2>5 DEF CtlInv
    <3>2. QED
      BY <3>1 DEF Switching, Leaving
  <2>6. Base \in Int
    BY <1>2, <2>1
  <2>7. QED
    BY <2>2, <2>3, <2>4, <2>5, <2>6, PidMaxAssumption DEF Pids
<1>4. QED
  BY <1>1, <1>2, <1>3

\* Base is a number, and the leaving child's pid the one above it.
LEMMA AwayFacts ==
  ASSUME IInv
  PROVE  /\ Base \in Nat /\ Base >= 1 /\ Base <= PidMax /\ Top \in Nat
         /\ Away => /\ pcbLive[1] = Base /\ Base >= 2 /\ Child = Base + 1
                    /\ Top = Child /\ Child \in Pids /\ Base \in Pids
                    /\ Child # pcbLive[2]
<1>1. PidInv /\ TypeOK
  BY DEF IInv
<1>2. Base \in Int
  BY <1>1 DEF PidInv, Base
<1>3. Away => pcbLive[1] = Base /\ Base >= 2
  BY <1>1 DEF PidInv, Away
<1>4. Top = (IF Away THEN Base + 1 ELSE Base) /\ Base >= 1 /\ Top <= PidMax
  BY <1>1 DEF PidInv, Top
<1>5. Away => Child = Base + 1
  BY <1>3 DEF Child
<1>6. pcbLive[2] # None => pcbLive[2] > Top
  BY <1>1 DEF PidInv
<1>7. QED
  BY <1>2, <1>3, <1>4, <1>5, <1>6, PidMaxAssumption DEF Pids, None

\* The context the CPU or the scheduler takes up for a terminal may run.
LEMMA RunnerRuns ==
  ASSUME IInv, NEW t \in Terms, pcbLive[t] # None
  PROVE  RunsFor(Runner(t), t)
<1> USE DEF Terms, Pids, None
<1>1. PidInv /\ CtlInv /\ AwayInv /\ TypeOK
  BY DEF IInv
<1>2. CASE t = 1 /\ Away
  BY <1>1, <1>2, AwayFacts DEF Runner, RunsFor, AwayInv, Away
<1>3. CASE t = 1 /\ ~Away
  <2>1. /\ Runner(t) = pcbLive[1] /\ pcbLive[1] \in Pids /\ ctl[pcbLive[1]] # "wait"
        /\ pcbLive[1] = Base /\ Base >= 2
    BY <1>1, <1>3 DEF Runner, Away, TypeOK, PidInv
  <2>2. ctl[pcbLive[1]] \in {"read", "run"} \cup Switching
    BY <1>1, <2>1, AwayFacts DEF CtlInv
  <2>3. QED
    BY <1>3, <2>1, <2>2 DEF RunsFor, Switching, Leaving
<1>4. CASE t # 1
  <2>1. Runner(t) = pcbLive[t] /\ pcbLive[t] \in Pids /\ ctl[pcbLive[t]] = "loop"
    BY <1>1, <1>4 DEF Runner, TypeOK, PidInv, CtlInv
  <2>2. QED
    BY <2>1 DEF RunsFor, Leaving
<1>5. QED
  BY <1>2, <1>3, <1>4

\* A process that is not leaving runs as the scheduled terminal's own.
LEMMA CpuFacts ==
  ASSUME IInv, cpu \in Pids, ctl[cpu] \notin Leaving
  PROVE  /\ cpu = pcbLive[termPit] /\ esp0 = cpu
         /\ termPit = 1 => ~Away
         /\ ctl[cpu] \notin Switching => exePage = cpu
<1> USE DEF Pids, None, Idle
<1>1. /\ cpu = Runner(termPit) /\ esp0 = pcbLive[termPit]
      /\ ctl[cpu] \notin Switching => exePage = pcbLive[termPit]
  BY DEF IInv, CpuInv
<1>2. ~(termPit = 1 /\ Away)
  BY <1>1 DEF IInv, AwayInv, Runner
<1>3. QED
  BY <1>1, <1>2 DEF Runner

\* What a step that creates and ends nobody leaves as it was.
LEMMA SameFamily ==
  ASSUME UNCHANGED <<pcbLive, ctl, pidMax>>
  PROVE  /\ Away' = Away /\ Base' = Base /\ Top' = Top /\ Child' = Child
         /\ \A t : Runner(t)' = Runner(t)
         /\ PidInv => PidInv'
         /\ UNCHANGED image /\ CtlInv => CtlInv'
         /\ UNCHANGED <<shellFlag, parent, saveStack>> /\ FamilyInv => FamilyInv'
         /\ UNCHANGED <<parent, saveStack>> /\ AwayInv => AwayInv'
<1>1. /\ Away' = Away /\ Base' = Base /\ Top' = Top /\ Child' = Child
      /\ \A t : Runner(t)' = Runner(t)
  BY DEF Away, Child, Out, Base, Top, Runner
<1>2. PidInv => PidInv'
  BY <1>1 DEF PidInv
<1>3. UNCHANGED image /\ CtlInv => CtlInv'
  BY <1>1 DEF CtlInv
<1>4. UNCHANGED <<shellFlag, parent, saveStack>> /\ FamilyInv => FamilyInv'
  BY <1>1 DEF FamilyInv
<1>5. UNCHANGED <<parent, saveStack>> /\ AwayInv => AwayInv'
  BY <1>1 DEF AwayInv
<1>6. QED
  BY <1>1, <1>2, <1>3, <1>4, <1>5

-----------------------------------------------------------------------------
\* It holds at boot.
LEMMA InitIInv == Init => IInv
<1> SUFFICES ASSUME Init PROVE IInv
  OBVIOUS
<1> USE PidMaxAssumption, StrayAssumption
        DEF Init, Terms, Pids, None, Idle, VideoPage, NoLine
<1>1. TypeOK
  <2>1. active \in [Terms -> BOOLEAN]
    BY Zenon
  <2>2. shellFlag \in [Pids -> BOOLEAN]
    BY Zenon
  <2>3. /\ pcbLive \in [Terms -> Pids \cup {None}]
        /\ saved \in [Terms -> Pids \cup {None, Idle}]
        /\ ptVid \in [Terms -> Terms \cup {VideoPage}]
    OBVIOUS
  <2>4. /\ parent \in [Pids -> Pids \cup {None}]
        /\ saveStack \in [Pids -> Pids \cup {None}]
        /\ ctl \in [Pids -> Ctl]
        /\ image \in [Pids -> Images]
    BY DEF Ctl, Images
  <2>5. /\ termLive \in Terms /\ termPit \in Terms
        /\ pidMax \in 0..(PidMax + 1)
        /\ exePage \in Pids /\ esp0 \in Pids
        /\ vidmap \in Terms \cup {VideoPage}
        /\ cpu \in Pids \cup {None, Idle}
    OBVIOUS
  <2>6. isModex \in BOOLEAN /\ isPacman \in BOOLEAN
    BY Zenon
  <2>7. QED
    BY <2>1, <2>2, <2>3, <2>4, <2>5, <2>6 DEF TypeOK
<1>2. PidInv
  BY DEF PidInv, Base, Out, Away, Child, Top
<1>3. CtlInv /\ FamilyInv
  BY DEF CtlInv, FamilyInv, Base, Out, Away, Child, Top
<1>4. ExecuteInv /\ ModeInv
  BY DEF ExecuteInv, ModeInv, ModeMatches, Switching
<1>5. CpuInv /\ ResumeInv /\ AwayInv
  BY DEF CpuInv, ResumeInv, AwayInv, Runner, Away
<1>6. QED
  BY <1>1, <1>2, <1>3, <1>4, <1>5 DEF IInv

\* The PIT: nobody is inside execute, so the pages and stacks it changes
\* are those of the process it resumes.
LEMMA PitIrqIInv ==
  ASSUME Exposed = {}, IInv, PitIrq
  PROVE  IInv'
<1> DEFINE new == NextTerm(termPit)
<1> USE PidMaxAssumption DEF Terms, Pids, None, Idle
<1>1. TypeOK /\ PidInv /\ CtlInv /\ FamilyInv /\ ExecuteInv /\ ModeInv
      /\ CpuInv /\ ResumeInv /\ AwayInv
  BY DEF IInv
<1>2. /\ new \in Terms /\ new # termPit /\ pcbLive[new] # None
      /\ ~InExecute
  BY <1>1 DEF PitIrq, ContextSwitchPit, NextTerm, TypeOK
<1>3. /\ saved[new] = Runner(new) /\ pcbLive[new] \in Pids
      /\ Runner(new) \in Pids /\ ctl[Runner(new)] \notin {"free", "wait"}
  <2>1. RunsFor(Runner(new), new)
    BY <1>2, RunnerRuns
  <2>2. ctl[Runner(new)] \notin {"free", "wait"}
    BY <2>1 DEF RunsFor, Leaving
  <2>3. QED
    BY <1>1, <1>2, <2>1, <2>2 DEF TypeOK, ResumeInv, RunsFor
<1>4. /\ termPit' = new
      /\ saved' = [saved EXCEPT ![termPit] = cpu]
      /\ exePage' = pcbLive[new] /\ esp0' = pcbLive[new]
      /\ vidmap' = VidmapFor(new)
      /\ cpu' = Runner(new)
      /\ UNCHANGED <<termLive, active, pcbLive, pcbVars, ctl, image, ptVid,
                     modeVars, line>>
  BY <1>3 DEF PitIrq, ContextSwitchPit
<1>5. TypeOK'
  BY <1>1, <1>2, <1>3, <1>4
     DEF TypeOK, VidmapFor, pcbVars, modeVars
<1>6. PidInv' /\ CtlInv' /\ FamilyInv' /\ AwayInv' /\ \A t : Runner(t)' = Runner(t)
  BY <1>1, <1>4, SameFamily DEF pcbVars
<1>7. ModeInv'
  BY <1>1, <1>4 DEF ModeInv, ModeMatches, modeVars
<1>8. ExecuteInv'
  BY <1>1, <1>2, <1>4 DEF ExecuteInv, InExecute, pcbVars
<1>9. CpuInv'
  BY <1>2, <1>3, <1>4, <1>6 DEF CpuInv
<1>10. ResumeInv'
  BY <1>1, <1>2, <1>4, <1>6 DEF ResumeInv, CpuInv, TypeOK
<1>11. QED
  BY <1>5, <1>6, <1>7, <1>8, <1>9, <1>10 DEF IInv

\* What every step but the mode bits must re-establish.
Rest == /\ PidInv /\ CtlInv /\ FamilyInv /\ ExecuteInv /\ CpuInv /\ ResumeInv /\ AwayInv

\* No line is pending once another terminal than the shell's is displayed,
\* and then nobody is inside execute.
LEMMA Quiet ==
  ASSUME IInv, termLive # 1 \/ ~Busy
  PROVE  line = NoLine /\ \A p \in Pids : ctl[p] \notin Switching
BY DEF IInv, ExecuteInv, Busy, Lines, Programs, NoLine

\* Another terminal is displayed.
LEMMA ShowKeeps ==
  ASSUME IInv, NEW new \in Terms, Show(new), termLive # 1 \/ ~Busy,
         isModex' \in BOOLEAN, isPacman' \in BOOLEAN
  PROVE  TypeOK' /\ Rest' /\ active' = active
<1> USE PidMaxAssumption DEF Terms, Pids, None, Idle
<1>1. TypeOK /\ PidInv /\ CtlInv /\ FamilyInv /\ ExecuteInv /\ ModeInv
      /\ CpuInv /\ ResumeInv /\ AwayInv
  BY DEF IInv
<1>2. line = NoLine /\ \A p \in Pids : ctl[p] \notin Switching
  BY Quiet
<1>3. saved' = saved
  BY <1>1 DEF Show, SavedDropped, ModeInv
<1>4. /\ termLive' = new
      /\ ptVid' = PtVidAfter(termLive, new)
      /\ UNCHANGED <<termPit, active, pcbLive, pcbVars, ctl, memVars, vidmap,
                     cpu, line>>
  BY DEF Show
<1>5. TypeOK'
  BY <1>1, <1>3, <1>4 DEF TypeOK, PtVidAfter, pcbVars, memVars, VideoPage
<1>6. PidInv' /\ CtlInv' /\ FamilyInv' /\ AwayInv' /\ \A t : Runner(t)' = Runner(t)
  BY <1>1, <1>4, SameFamily DEF pcbVars, memVars
<1>7. ExecuteInv' /\ CpuInv' /\ ResumeInv'
  BY <1>1, <1>2, <1>3, <1>4, <1>6
     DEF ExecuteInv, CpuInv, ResumeInv, pcbVars, memVars
<1>8. QED
  BY <1>4, <1>5, <1>6, <1>7 DEF Rest

\* A first shell or a game is started.
LEMMA LaunchKeeps ==
  ASSUME IInv, Exposed = {}, ~isPacman, termLive # 1,
         NEW new \in {1, 2}, Launch(new, IF new = 1 THEN "shell" ELSE "pacman"),
         isModex' \in BOOLEAN, isPacman' \in BOOLEAN
  PROVE  TypeOK' /\ Rest' /\ termLive' = new /\ active' = [active EXCEPT ![new] = TRUE]
         /\ pcbLive' = [pcbLive EXCEPT ![new] = pidMax + 1]
<1> DEFINE p == pidMax + 1
           prog == IF new = 1 THEN "shell" ELSE "pacman"
<1> USE PidMaxAssumption DEF Terms, Pids, None, Idle
<1>1. TypeOK /\ PidInv /\ CtlInv /\ FamilyInv /\ ExecuteInv /\ ModeInv
      /\ CpuInv /\ ResumeInv /\ AwayInv
  BY DEF IInv
<1>2. line = NoLine /\ \A q \in Pids : ctl[q] \notin Switching
  BY Quiet
<1>15. ~Away /\ (\A t : Runner(t) = pcbLive[t]) /\ Top = Base
  <2>1. \A q \in Pids : ctl[q] \notin Leaving
    BY DEF Launch, LaunchTerminal
  <2>2. ~Away
    BY <1>1, <2>1, AwayFacts DEF AwayInv
  <2>3. QED
    BY <2>2, Settled
<1>3. /\ pcbLive[2] = None /\ pcbLive[new] = None /\ Base = pidMax
      /\ p \in Pids /\ p <= PidMax /\ ctl[p] = "free" /\ p >= 2
  <2>1. pcbLive[2] = None /\ pcbLive[new] = None /\ pidMax < PidMax
    BY <1>1 DEF ModeInv, Launch, LaunchTerminal
  <2>2. Base = pidMax
    BY <1>1, <1>15, <2>1, Settled DEF PidInv
  <2>3. QED
    BY <1>1, <1>15, <2>1, <2>2 DEF PidInv
<1>4. /\ cpu \in Pids /\ cpu = pcbLive[termPit]
      /\ termPit # new
  BY <1>1, <1>3, <1>15 DEF CpuInv, Launch, LaunchTerminal
<1>5. termPit # 0 => active[1]
  BY <1>1, <1>3, <1>4 DEF ModeInv, TypeOK
<1>6. saved' = [saved EXCEPT ![termPit] = cpu]
  BY <1>1, <1>5 DEF Launch, LaunchTerminal, SavedDropped, TypeOK
<1>7. /\ termLive' = new
      /\ ptVid' = PtVidAfter(termLive, new)
      /\ active' = [active EXCEPT ![new] = TRUE]
      /\ termPit' = new
      /\ pidMax' = p
      /\ image' = [image EXCEPT ![p] = prog]
      /\ exePage' = p /\ esp0' = p
      /\ parent' = [parent EXCEPT ![p] = pcbLive[0]]
      /\ shellFlag' = [shellFlag EXCEPT ![p] = TRUE]
      /\ saveStack' = [saveStack EXCEPT ![p] = None]
      /\ pcbLive' = [pcbLive EXCEPT ![new] = p]
      /\ ctl' = [ctl EXCEPT ![p] = IF new = 1 THEN "read" ELSE "loop"]
      /\ cpu' = p
      /\ UNCHANGED <<vidmap, line>>
  BY DEF Launch, LaunchTerminal, FirstCtl
<1>16. /\ ~Away' /\ Base' = (IF new = 1 THEN p ELSE pidMax) /\ Top' = Base'
       /\ \A t : Runner(t)' = pcbLive'[t]
  <2>1. ~Away'
    <3>1. CASE new = 1
      BY <1>1, <1>3, <1>7, <3>1 DEF Away, TypeOK
    <3>2. CASE new = 2
      BY <1>1, <1>3, <1>7, <1>15, <3>2 DEF Away, TypeOK
    <3>3. QED
      BY <3>1, <3>2
  <2>2. Base' = IF new = 1 THEN p ELSE pidMax
    BY <1>1, <1>3, <1>7, <2>1 DEF Base, Out, TypeOK, PidInv
  <2>3. QED
    BY <2>1, <2>2 DEF Top, Runner
<1>8. TypeOK'
  <2>1. /\ active' \in [Terms -> BOOLEAN] /\ shellFlag' \in [Pids -> BOOLEAN]
    BY <1>1, <1>7, Zenon DEF TypeOK
  <2>2. /\ pcbLive' \in [Terms -> Pids \cup {None}]
        /\ saved' \in [Terms -> Pids \cup {None, Idle, Popped}]
        /\ ptVid' \in [Terms -> Terms \cup {VideoPage}]
    BY <1>1, <1>3, <1>6, <1>7 DEF TypeOK, PtVidAfter
  <2>3. /\ parent' \in [Pids -> Pids \cup {None}]
        /\ saveStack' \in [Pids -> Pids \cup {None}]
        /\ ctl' \in [Pids -> Ctl]
        /\ image' \in [Pids -> Images]
    BY <1>1, <1>3, <1>7 DEF TypeOK, Ctl, Images, PidInv, Programs
  <2>4. QED
    BY <1>1, <1>3, <1>7, <2>1, <2>2, <2>3 DEF TypeOK
<1>9. PidInv'
  BY <1>1, <1>3, <1>7, <1>15, <1>16 DEF PidInv, TypeOK, Ctl, Switching
<1>10. CtlInv'
  BY <1>1, <1>3, <1>7, <1>15, <1>16 DEF CtlInv, PidInv, TypeOK, Switching
<1>11. FamilyInv'
  BY <1>1, <1>3, <1>7, <1>15, <1>16 DEF FamilyInv, PidInv, TypeOK
<1>12. ExecuteInv'
  BY <1>1, <1>2, <1>3, <1>7 DEF ExecuteInv, TypeOK, Switching
<1>13. CpuInv' /\ ResumeInv' /\ AwayInv'
  BY <1>1, <1>3, <1>4, <1>6, <1>7, <1>15, <1>16 DEF CpuInv, ResumeInv, AwayInv, TypeOK
<1>14. QED
  BY <1>7, <1>8, <1>9, <1>10, <1>11, <1>12, <1>13 DEF Rest

\* The handlers that move the display.
LEMMA DisplayIInv ==
  ASSUME IInv, Exposed = {},
         KeyAltF1 \/ KeyAltF2 \/ ClickTerminal \/ ClickPacman
  PROVE  IInv'
<1> USE PidMaxAssumption DEF Terms, Pids, None, Idle
<1>1. TypeOK /\ PidInv /\ CtlInv /\ FamilyInv /\ ExecuteInv /\ ModeInv
      /\ CpuInv /\ ResumeInv /\ AwayInv /\ ~isPacman
  BY DEF IInv, KeyAltF1, KeyAltF2, ClickTerminal, ClickPacman
<1>2. pcbLive[2] = None /\ termLive # 2
  BY <1>1 DEF ModeInv
<1>3. ASSUME NEW new \in Terms, StayOn(new), isModex' = isModex,
             isPacman' = isPacman
      PROVE  IInv'
  BY <1>1, <1>3
     DEF StayOn, IInv, TypeOK, PidInv, Base, Out, Away, Child, Top, CtlInv, FamilyInv, ExecuteInv,
         ModeInv, ModeMatches, CpuInv, ResumeInv, AwayInv, Runner, termVars, pcbVars, memVars,
         vidVars
<1>4. CASE KeyAltF1
  <2>1. CASE StayOn(0)
    BY <1>1, <1>3, <1>4, <2>1 DEF KeyAltF1, StayOn, ModeInv, ModeMatches, TypeOK
  <2>2. CASE Show(0)
    <3>1. /\ ~Busy /\ isModex' = TRUE /\ isPacman' = isPacman
      BY <1>4 DEF KeyAltF1
    <3>2. isModex' \in BOOLEAN /\ isPacman' \in BOOLEAN
      BY <1>1, <3>1 DEF TypeOK
    <3>3. TypeOK' /\ Rest' /\ active' = active
      BY <2>2, <3>1, <3>2, ShowKeeps
    <3>4. ModeInv'
      BY <1>1, <1>2, <2>2, <3>1, <3>3 DEF ModeInv, ModeMatches, Show, PidInv
    <3>5. QED
      BY <3>3, <3>4 DEF IInv, Rest
  <2>3. QED
    BY <1>4, <2>1, <2>2 DEF KeyAltF1
<1>5. CASE KeyAltF2 \/ ClickTerminal
  <2>1. /\ isModex' = FALSE /\ isPacman' = isPacman
        /\ ContextSwitch(1, "shell")
    BY <1>5 DEF KeyAltF2, ClickTerminal
  <2>2. CASE StayOn(1)
    BY <1>1, <1>3, <2>1, <2>2 DEF StayOn, ModeInv, ModeMatches, TypeOK
  <2>3. CASE Show(1)
    <3>1. /\ isModex' \in BOOLEAN /\ isPacman' \in BOOLEAN
          /\ termLive # 1
      BY <1>1, <2>1, <2>3 DEF TypeOK, Show
    <3>2. TypeOK' /\ Rest' /\ active' = active
      BY <2>3, <3>1, ShowKeeps
    <3>3. ModeInv'
      BY <1>1, <1>2, <2>1, <2>3, <3>2 DEF ModeInv, ModeMatches, Show, PidInv
    <3>4. QED
      BY <3>2, <3>3 DEF IInv, Rest
  <2>4. CASE Launch(1, "shell")
    <3>1. termLive # 1 /\ isModex' \in BOOLEAN /\ isPacman' \in BOOLEAN
      BY <1>1, <2>1, <2>4 DEF TypeOK, Launch, LaunchTerminal
    <3>2. Launch(1, IF 1 = 1 THEN "shell" ELSE "pacman")
      BY <2>4
    <3>3. /\ TypeOK' /\ Rest' /\ termLive' = 1
          /\ active' = [active EXCEPT ![1] = TRUE]
          /\ pcbLive' = [pcbLive EXCEPT ![1] = pidMax + 1]
      BY <1>1, <3>1, <3>2, LaunchKeeps
    <3>4. ModeInv'
      BY <1>1, <1>2, <2>1, <3>3 DEF ModeInv, ModeMatches, TypeOK
    <3>5. QED
      BY <3>3, <3>4 DEF IInv, Rest
  <2>5. QED
    BY <2>1, <2>2, <2>3, <2>4 DEF ContextSwitch, LaunchFull
<1>6. CASE ClickPacman
  <2>1. /\ isModex' = TRUE /\ isPacman' = TRUE /\ isModex
        /\ ContextSwitch(2, "pacman")
    BY <1>6 DEF ClickPacman
  <2>2. Launch(2, "pacman")
    BY <1>2, <2>1 DEF ContextSwitch, StayOn, Show, LaunchFull
  <2>3. termLive # 1
    BY <1>1, <2>1 DEF ModeInv, ModeMatches
  <2>4. Launch(2, IF 2 = 1 THEN "shell" ELSE "pacman")
    BY <2>2
  <2>5. /\ TypeOK' /\ Rest' /\ termLive' = 2
        /\ active' = [active EXCEPT ![2] = TRUE]
        /\ pcbLive' = [pcbLive EXCEPT ![2] = pidMax + 1]
    BY <1>1, <2>1, <2>3, <2>4, LaunchKeeps
  <2>6. ModeInv'
    BY <1>1, <1>2, <2>1, <2>5 DEF ModeInv, ModeMatches, TypeOK
  <2>7. QED
    BY <2>5, <2>6 DEF IInv, Rest
<1>7. QED
  BY <1>4, <1>5, <1>6

\* A line is typed.
LEMMA TypeLineIInv ==
  ASSUME IInv, NEW l \in Lines, TypeLine(l)
  PROVE  IInv'
<1> USE DEF termVars, pcbVars, memVars, vidVars, modeVars
<1>5. PidInv' /\ CtlInv' /\ FamilyInv' /\ AwayInv' /\ \A t : Runner(t)' = Runner(t)
  BY SameFamily DEF TypeLine, IInv
<1>1. TypeOK' /\ CpuInv' /\ ResumeInv'
  BY <1>5 DEF TypeLine, IInv, TypeOK, CpuInv, ResumeInv
<1>2. ModeInv'
  BY DEF TypeLine, IInv, ModeInv, ModeMatches
<1>3. ExecuteInv'
  <2>1. \A p \in Pids : ctl[p] \notin Switching
    BY DEF TypeLine, IInv, ExecuteInv, Programs, NoLine
  <2>2. QED
    BY <2>1 DEF TypeLine, IInv, ExecuteInv
<1>4. QED
  BY <1>1, <1>2, <1>3, <1>5 DEF IInv

\* A program asks for video memory.
LEMMA VidmapIInv ==
  ASSUME IInv, NEW p \in Pids, Vidmap(p)
  PROVE  IInv'
BY DEF Vidmap, IInv, TypeOK, PidInv, Base, Out, Away, Child, Top, CtlInv, FamilyInv, ExecuteInv,
       ModeInv, ModeMatches, CpuInv, ResumeInv, AwayInv, Runner, VideoPage,
       termVars, pcbVars, memVars, modeVars

(***************************************************************************)
(* execute as the shell calls it.                                          *)
(***************************************************************************)
LEMMA ExecuteIInv ==
  ASSUME IInv, Exposed = {}, NEW p \in Pids,
         ExecuteBegin(p) \/ ExecuteRefused(p) \/ ExecuteLoad(p)
  PROVE  IInv'
<1> USE PidMaxAssumption
    DEF Terms, Pids, None, Idle, termVars, pcbVars, memVars, vidVars, modeVars
<1>1. TypeOK /\ PidInv /\ CtlInv /\ FamilyInv /\ ExecuteInv /\ ModeInv
      /\ CpuInv /\ ResumeInv /\ AwayInv
  BY DEF IInv
<1>8. cpu = p /\ ctl[p] \in {"read", "load"}
  BY DEF ExecuteBegin, ExecuteRefused, ExecuteLoad, Reading
<1>2. p = pcbLive[termPit] /\ (termPit = 1 => ~Away)
  BY <1>8, CpuFacts DEF Leaving
<1>3. termPit = 1 /\ p = Base /\ p >= 2 /\ ~Away /\ Base \in Nat
  <2>1. termPit = 1
    BY <1>1, <1>2, <1>8 DEF PidInv, CtlInv, TypeOK
  <2>2. QED
    BY <1>1, <1>2, <2>1, AwayFacts DEF PidInv
<1>9. /\ Base = pidMax - (IF pcbLive[2] = None THEN 0 ELSE 1) /\ Top = Base
      /\ \A t : Runner(t) = pcbLive[t]
  BY <1>3, Settled
<1>10. ASSUME NEW c \in {"load", "enter"}, ctl' = [ctl EXCEPT ![p] = c],
              UNCHANGED <<pcbLive, pidMax>>
       PROVE  ~Away' /\ Base' = Base /\ Top' = Base /\ \A t : Runner(t)' = pcbLive[t]
  <2>1. ~Away'
    BY <1>1, <1>2, <1>3, <1>10 DEF Away, TypeOK
  <2>2. Base' = Base
    BY <1>9, <1>10, <2>1 DEF Base, Out
  <2>3. QED
    BY <1>10, <2>1, <2>2 DEF Top, Runner
<1>4. CASE ExecuteBegin(p)
  <2>8. ~Away' /\ Base' = Base /\ Top' = Base /\ \A t : Runner(t)' = pcbLive[t]
    BY <1>4, <1>10 DEF ExecuteBegin
  <2>1. /\ line \in Programs /\ pidMax < PidMax
        /\ termLive = 1 /\ pcbLive[2] = None
    BY <1>1, <1>4 DEF ExecuteBegin, ExecuteInv, ModeInv, ModeMatches, Programs, NoLine
  <2>2. TypeOK'
    BY <1>1, <1>4, <2>1 DEF TypeOK, PidInv, ExecuteBegin, Ctl, Switching
  <2>3. PidInv' /\ FamilyInv' /\ ModeInv'
    BY <1>1, <1>2, <1>3, <1>4, <1>9, <2>8
       DEF ExecuteBegin, PidInv, FamilyInv, ModeInv, ModeMatches, TypeOK
  <2>4. CtlInv'
    BY <1>1, <1>2, <1>3, <1>4, <1>9, <2>8
       DEF ExecuteBegin, Reading, CtlInv, PidInv, TypeOK, Switching
  <2>5. ExecuteInv'
    BY <1>1, <1>2, <1>3, <1>4, <2>1
       DEF ExecuteBegin, Reading, ExecuteInv, TypeOK, Switching
  <2>6. CpuInv' /\ ResumeInv' /\ AwayInv'
    BY <1>1, <1>2, <1>3, <1>4, <1>8, <1>9, <2>8
       DEF ExecuteBegin, CpuInv, ResumeInv, AwayInv, TypeOK, Switching
  <2>7. QED
    BY <2>2, <2>3, <2>4, <2>5, <2>6 DEF IInv
<1>5. CASE ExecuteRefused(p)
  <2>1. \A q \in Pids : ctl[q] \notin Switching
    BY <1>1, <1>2, <1>5 DEF ExecuteRefused, ExecuteInv, Reading, Switching
  <2>2. QED
    BY <1>1, <1>5, <2>1
       DEF ExecuteRefused, IInv, TypeOK, PidInv, Base, Out, Away, Child, Top, CtlInv, FamilyInv,
           ExecuteInv, ModeInv, ModeMatches, CpuInv, ResumeInv, AwayInv, Runner
<1>6. CASE ExecuteLoad(p)
  <2>8. ~Away' /\ Base' = Base /\ Top' = Base /\ \A t : Runner(t)' = pcbLive[t]
    BY <1>6, <1>10 DEF ExecuteLoad
  <2>1. /\ line \in Programs /\ pidMax < PidMax /\ exePage = pidMax + 1
        /\ pcbLive[2] = None /\ ctl[p] = "load"
    BY <1>1, <1>6 DEF ExecuteLoad, ExecuteInv, Switching
  <2>2. TypeOK'
    BY <1>1, <1>6, <2>1 DEF TypeOK, PidInv, ExecuteLoad, Ctl, Switching, Images
  <2>3. PidInv' /\ FamilyInv' /\ ModeInv'
    BY <1>1, <1>2, <1>3, <1>6, <1>9, <2>8
       DEF ExecuteLoad, PidInv, FamilyInv, ModeInv, ModeMatches, TypeOK
  <2>4. CtlInv'
    <3>1. image' = [image EXCEPT ![pidMax + 1] = line] /\ Base < pidMax + 1
      BY <1>1, <1>6, <1>9, <2>1 DEF ExecuteLoad, PidInv
    <3>2. \A q \in Pids : q <= Base => image'[q] = image[q]
      BY <1>1, <1>3, <3>1 DEF TypeOK
    <3>3. QED
      BY <1>1, <1>2, <1>3, <1>6, <2>1, <2>8, <3>2
         DEF ExecuteLoad, CtlInv, TypeOK, Switching
  <2>5. ExecuteInv'
    BY <1>1, <1>2, <1>3, <1>6, <2>1 DEF ExecuteLoad, ExecuteInv, TypeOK, Switching
  <2>6. CpuInv' /\ ResumeInv' /\ AwayInv'
    BY <1>1, <1>2, <1>3, <1>6, <1>8, <1>9, <2>8
       DEF ExecuteLoad, CpuInv, ResumeInv, AwayInv, TypeOK, Switching
  <2>7. QED
    BY <2>2, <2>3, <2>4, <2>5, <2>6 DEF IInv
<1>7. QED
  BY <1>4, <1>5, <1>6

\* A program calls execute.
LEMMA ExecuteEnterIInv ==
  ASSUME IInv, Exposed = {}, NEW p \in Pids, ExecuteEnter(p)
  PROVE  IInv'
<1> DEFINE c == pidMax + 1
<1> USE PidMaxAssumption, StrayAssumption
    DEF Terms, Pids, None, Idle, termVars, pcbVars, memVars, vidVars, modeVars
<1>1. TypeOK /\ PidInv /\ CtlInv /\ FamilyInv /\ ExecuteInv /\ ModeInv
      /\ CpuInv /\ ResumeInv /\ AwayInv
  BY DEF IInv
<1>2. /\ cpu = p /\ p = pcbLive[termPit] /\ ctl[p] = "enter"
      /\ line \in Programs /\ pidMax < PidMax /\ exePage = c
      /\ pcbLive[2] = None /\ image[c] = line
      /\ termPit = 1 => ~Away
  <2>1. cpu = p /\ ctl[p] = "enter"
    BY DEF ExecuteEnter
  <2>2. QED
    BY <1>1, <2>1, CpuFacts DEF ExecuteInv, Switching, Leaving
<1>3. /\ termPit = 1 /\ termLive = 1 /\ p = pidMax /\ Base = pidMax /\ Top = Base
      /\ p >= 2 /\ c \in Pids /\ \A t : Runner(t) = pcbLive[t]
  <2>1. termPit = 1 /\ ~Away
    BY <1>1, <1>2 DEF PidInv, CtlInv, TypeOK
  <2>2. Top = Base /\ Base = pidMax /\ \A t : Runner(t) = pcbLive[t]
    BY <1>1, <1>2, <2>1, Settled DEF PidInv
  <2>3. QED
    BY <1>1, <1>2, <2>1, <2>2 DEF PidInv, ExecuteInv, NoLine, Programs
<1>16. pcbLive[termLive] = p /\ p # None
  BY <1>2, <1>3
<1>4. PICK f \in StrayFlags : shellFlag' = [shellFlag EXCEPT ![c] = f]
  <2>1. \E f \in IF pcbLive[termLive] = None /\ termLive \in {1, 2}
                 THEN {TRUE} ELSE StrayFlags :
          shellFlag' = [shellFlag EXCEPT ![c] = f]
    BY DEF ExecuteEnter
  <2>2. QED
    BY <1>16, <2>1
<1>5. /\ pidMax' = c
      /\ parent' = [parent EXCEPT ![c] = p]
      /\ saveStack' = [q \in Pids |-> IF q = c THEN None
                                      ELSE IF q = p THEN p ELSE saveStack[q]]
      /\ pcbLive' = [pcbLive EXCEPT ![1] = c]
      /\ ctl' = [ctl EXCEPT ![p] = "wait", ![c] = FirstCtl(line)]
      /\ esp0' = c /\ cpu' = c /\ line' = NoLine
      /\ UNCHANGED <<termLive, termPit, active, saved, image, exePage, vidVars,
                     modeVars>>
  <2>1. parent' = [parent EXCEPT ![c] = IF pcbLive[termLive] = None /\ termLive \in {1, 2}
                                          THEN pcbLive[0] ELSE pcbLive[termLive]]
    BY DEF ExecuteEnter
  <2>2. parent' = [parent EXCEPT ![c] = p]
    BY <1>16, <2>1
  <2>3. QED
    BY <1>16, <1>3, <2>2 DEF ExecuteEnter
<1>6. FirstCtl(line) = IF line = "shell" THEN "read" ELSE "run"
  BY <1>2 DEF FirstCtl, Programs
<1>7. TypeOK'
  <2>1. shellFlag' \in [Pids -> BOOLEAN]
    BY <1>1, <1>4, Zenon DEF TypeOK
  <2>2. /\ parent' \in [Pids -> Pids \cup {None}]
        /\ saveStack' \in [Pids -> Pids \cup {None}]
        /\ pcbLive' \in [Terms -> Pids \cup {None}]
        /\ ctl' \in [Pids -> Ctl]
    BY <1>1, <1>3, <1>5, <1>6 DEF TypeOK, Ctl
  <2>3. pidMax' \in 0..(PidMax + 1) /\ esp0' \in Pids /\ cpu' \in Pids
    BY <1>1, <1>2, <1>3, <1>5 DEF TypeOK
  <2>4. QED
    BY <1>1, <1>5, <2>1, <2>2, <2>3 DEF TypeOK, vidVars, modeVars
<1>17. /\ c \in Pids /\ c >= 3 /\ ctl[c] = "free" /\ p # c
      /\ ctl'[p] = "wait" /\ ctl'[c] \in {"read", "run"}
      /\ \A q \in Pids : q # p /\ q # c => ctl'[q] = ctl[q]
      /\ pcbLive'[0] = 1 /\ pcbLive'[1] = c /\ pcbLive'[2] = None
  BY <1>1, <1>2, <1>3, <1>5, <1>6 DEF PidInv, TypeOK
<1>8. ~Away' /\ Base' = c /\ Top' = c /\ \A t : Runner(t)' = pcbLive'[t]
  <2>1. ~Away'
    BY <1>17 DEF Away
  <2>2. Base' = c
    <3>1. ~Out'
      BY <2>1 DEF Out
    <3>2. pidMax' = c /\ pidMax \in Nat
      BY <1>1, <1>5 DEF PidInv
    <3>3. QED
      BY <1>17, <3>1, <3>2 DEF Base
  <2>3. QED
    BY <2>1, <2>2 DEF Top, Runner
<1>9. PidInv'
  <2>1. \A q \in Pids : ctl'[q] = "free" <=> q > c
    BY <1>1, <1>2, <1>3, <1>17 DEF PidInv
  <2>2. QED
    <3>1. pidMax' \in Nat /\ pidMax' <= PidMax /\ Base' >= 2
      BY <1>1, <1>2, <1>5, <1>8, <1>17 DEF PidInv
    <3>2. \A q \in Pids : ctl'[q] = "free" <=> q > Top' /\ q # pcbLive'[2]
      BY <1>8, <1>17, <2>1
    <3>3. Base' >= 1 /\ Top' <= PidMax
      BY <1>1, <1>2, <1>8 DEF PidInv
    <3>4. QED
      BY <1>8, <1>17, <3>1, <3>2, <3>3 DEF PidInv
<1>10. CtlInv'
  <2>1. ctl'[1] = "loop"
    BY <1>1, <1>3, <1>17 DEF CtlInv
  <2>2. ASSUME NEW q \in Pids, q >= 2, q <= c
        PROVE  /\ q # c => ctl'[q] = "wait"
               /\ q = c => ctl'[q] \in {"read", "run"}
               /\ image'[q] = IF ctl'[q] = "run" THEN "prog" ELSE "shell"
    <3>1. CASE q = c
      BY <1>1, <1>2, <1>3, <1>5, <1>6, <1>17, <3>1 DEF Programs, TypeOK
    <3>2. CASE q = p
      BY <1>1, <1>2, <1>3, <1>5, <1>17, <3>2 DEF CtlInv, PidInv
    <3>3. CASE q # c /\ q # p
      <4>1. q <= Base /\ q # pcbLive[1]
        BY <1>1, <1>2, <1>3, <2>2, <3>3 DEF PidInv
      <4>2. ctl[q] = "wait" /\ image[q] = "shell"
        BY <1>1, <2>2, <4>1 DEF CtlInv
      <4>3. ctl'[q] = "wait" /\ image'[q] = "shell"
        BY <1>5, <1>17, <3>3, <4>2
      <4>4. QED
        BY <3>3, <4>3
    <3>4. QED
      BY <3>1, <3>2, <3>3
  <2>3. QED
    BY <1>8, <1>17, <2>1, <2>2 DEF CtlInv
<1>11. FamilyInv'
  BY <1>1, <1>2, <1>3, <1>4, <1>5, <1>8 DEF FamilyInv, PidInv, TypeOK
<1>12. ExecuteInv'
  BY <1>1, <1>2, <1>3, <1>5, <1>6 DEF ExecuteInv, TypeOK, Switching
<1>13. ModeInv'
  BY <1>1, <1>2, <1>3, <1>5 DEF ModeInv, ModeMatches, TypeOK
<1>14. CpuInv' /\ ResumeInv' /\ AwayInv'
  BY <1>1, <1>2, <1>3, <1>5, <1>8, <1>17 DEF CpuInv, ResumeInv, AwayInv, TypeOK, Switching
<1>15. QED
  BY <1>7, <1>9, <1>10, <1>11, <1>12, <1>13, <1>14 DEF IInv

(***************************************************************************)
(* halt.  With nobody inside execute, the process that calls it is the one *)
(* term_pit names, and the top of its terminal's family.                   *)
(***************************************************************************)
LEMMA HaltShellIInv ==
  ASSUME IInv, cpu \in Pids, termPit \in {1, 2}, ctl[cpu] \notin Switching \cup Leaving,
         HaltShell, line' = NoLine,
         isPacman' = IF termPit = 2 THEN FALSE ELSE isPacman
  PROVE  IInv'
<1> USE PidMaxAssumption DEF Terms, Pids, None, Idle, memVars
<1>1. TypeOK /\ PidInv /\ CtlInv /\ FamilyInv /\ ExecuteInv /\ ModeInv
      /\ CpuInv /\ ResumeInv /\ AwayInv
  BY DEF IInv
<1>2. /\ cpu = pcbLive[termPit] /\ (termPit = 1 => ~Away)
      /\ \A q \in Pids : ctl[q] \notin Switching
  <2>1. cpu = pcbLive[termPit] /\ (termPit = 1 => ~Away)
    BY CpuFacts
  <2>2. QED
    BY <1>1, <2>1 DEF ExecuteInv
<1>3. /\ active' = [active EXCEPT ![termPit] = FALSE]
      /\ pcbLive' = [pcbLive EXCEPT ![termPit] = None]
      /\ pidMax' = pidMax - 1
      /\ termLive' = 0
      /\ ptVid' = PtVidAfter(termPit, 0)
      /\ saved' = [saved EXCEPT ![termPit] = None]
      /\ ctl' = [ctl EXCEPT ![cpu] = "free"]
      /\ cpu' = Idle
      /\ isModex' = TRUE
      /\ UNCHANGED <<termPit, parent, shellFlag, saveStack, image, exePage,
                     esp0, vidmap>>
  BY DEF HaltShell
<1>4. TypeOK'
  <2>1. active' \in [Terms -> BOOLEAN]
    BY <1>1, <1>3, Zenon DEF TypeOK
  <2>2. /\ pcbLive' \in [Terms -> Pids \cup {None}]
        /\ saved' \in [Terms -> Pids \cup {None, Idle, Popped}]
        /\ ptVid' \in [Terms -> Terms \cup {VideoPage}]
        /\ ctl' \in [Pids -> Ctl]
    BY <1>1, <1>3 DEF TypeOK, PtVidAfter, Ctl
  <2>3. pidMax' \in 0..(PidMax + 1)
    <3>1. pidMax \in Nat /\ pidMax >= 1 /\ pidMax <= PidMax
      BY <1>1, AwayFacts DEF PidInv, Base
    <3>2. QED
      BY <1>3, <3>1
  <2>4. isPacman' \in BOOLEAN /\ isModex' \in BOOLEAN
    BY <1>1, <1>3 DEF TypeOK
  <2>5. /\ termLive' \in Terms /\ termPit' \in Terms
        /\ exePage' \in Pids /\ esp0' \in Pids
        /\ vidmap' \in Terms \cup {VideoPage}
        /\ cpu' \in Pids \cup {None, Idle, Popped}
        /\ line' \in Lines \cup {NoLine}
    BY <1>1, <1>3 DEF TypeOK
  <2>6. /\ shellFlag' \in [Pids -> BOOLEAN]
        /\ parent' \in [Pids -> Pids \cup {None}]
        /\ saveStack' \in [Pids -> Pids \cup {None}]
        /\ image' \in [Pids -> Images]
    BY <1>1, <1>3 DEF TypeOK
  <2>7. QED
    BY <2>1, <2>2, <2>3, <2>4, <2>5, <2>6 DEF TypeOK
<1>13. /\ pcbLive'[0] = 1
       /\ \A t \in Terms : t # termPit => pcbLive'[t] = pcbLive[t]
       /\ pcbLive'[termPit] = None /\ ctl'[cpu] = "free"
       /\ \A q \in Pids : q # cpu => ctl'[q] = ctl[q]
  BY <1>1, <1>3 DEF PidInv, TypeOK
<1>14. ASSUME termPit = 1
       PROVE  PidInv' /\ CtlInv' /\ FamilyInv' /\ AwayInv' /\ CpuInv' /\ ResumeInv'
  <2>1. /\ ~Away' /\ Base' = Base - 1 /\ Top' = Base - 1
        /\ \A t : Runner(t)' = pcbLive'[t]
        /\ cpu = Base /\ Base \in Nat /\ Base >= 2 /\ Top = Base
        /\ \A t : Runner(t) = pcbLive[t]
    <3>1. ~Away'
      BY <1>13, <1>14 DEF Away
    <3>2. /\ Base = pidMax - (IF pcbLive[2] = None THEN 0 ELSE 1) /\ Top = Base
          /\ \A t : Runner(t) = pcbLive[t]
      BY <1>2, <1>14, Settled
    <3>3. ~Out'
      BY <3>1 DEF Out
    <3>4. pidMax' = pidMax - 1 /\ pidMax \in Nat /\ pcbLive'[2] = pcbLive[2]
      BY <1>1, <1>3, <1>13, <1>14 DEF PidInv
    <3>5. Base' = Base - 1
      BY <3>2, <3>3, <3>4 DEF Base
    <3>6. cpu = Base /\ Base \in Nat /\ Base >= 2
      BY <1>1, <1>2, <1>14, AwayFacts DEF PidInv
    <3>7. QED
      BY <3>1, <3>2, <3>5, <3>6 DEF Top, Runner
  <2>2. PidInv'
    <3>1. pidMax' \in Nat /\ pidMax' <= PidMax
      BY <1>1, <1>3, <2>1 DEF PidInv, Base
    <3>2. \A q \in Pids : ctl'[q] = "free" <=> q > Top' /\ q # pcbLive'[2]
      BY <1>1, <1>2, <1>13, <1>14, <2>1 DEF PidInv
    <3>3. pcbLive'[1] = None /\ pcbLive'[2] = pcbLive[2] /\ Base' >= 1 /\ Top' <= PidMax
      BY <1>1, <1>13, <1>14, <2>1 DEF PidInv
    <3>4. pcbLive[2] # None => pcbLive[2] > Top' /\ pcbLive[2] <= PidMax
      BY <1>1, <2>1 DEF PidInv, TypeOK
    <3>5. QED
      BY <1>13, <3>1, <3>2, <3>3, <3>4 DEF PidInv
  <2>3. CtlInv'
    <3>1. cpu # 1 /\ cpu # pcbLive[2] /\ pcbLive[1] = cpu
      BY <1>1, <1>2, <1>14, <2>1 DEF PidInv
    <3>2. ctl'[1] = "loop" /\ (pcbLive'[2] # None => ctl'[pcbLive'[2]] = "loop")
      BY <1>1, <1>13, <1>14, <3>1 DEF CtlInv, TypeOK
    <3>3. ASSUME NEW q \in Pids, q >= 2, q <= Base'
          PROVE  ctl'[q] = "wait" /\ image'[q] = "shell" /\ q # pcbLive'[1]
      BY <1>1, <1>3, <1>13, <1>14, <2>1, <3>1, <3>3 DEF CtlInv
    <3>4. QED
      BY <3>2, <3>3 DEF CtlInv
  <2>4. FamilyInv' /\ AwayInv'
    BY <1>1, <1>3, <1>13, <1>14, <2>1 DEF FamilyInv, AwayInv
  <2>5. CpuInv' /\ ResumeInv'
    BY <1>1, <1>3, <1>13, <1>14, <2>1 DEF CpuInv, ResumeInv, TypeOK
  <2>6. QED
    BY <1>14, <2>2, <2>3, <2>4, <2>5
<1>15. ASSUME termPit = 2
       PROVE  PidInv' /\ CtlInv' /\ FamilyInv' /\ AwayInv' /\ CpuInv' /\ ResumeInv'
  <2>1. cpu > Top /\ cpu \in Pids /\ pcbLive'[1] = pcbLive[1] /\ Base \in Nat /\ Top \in Nat
        /\ Top >= Base
    <3>1. Top >= Base
      BY AwayFacts DEF Top
    <3>2. QED
      BY <1>1, <1>2, <1>13, <1>15, <3>1, AwayFacts DEF PidInv
  <2>2. /\ Away' = Away /\ Child' = Child
        /\ Away => Child \in Pids /\ ctl'[Child] = ctl[Child]
    <3>1. Away => Child \in Pids /\ Child # cpu /\ pcbLive[1] \in Pids /\ pcbLive[1] # cpu
      BY <1>2, <1>15, <2>1, AwayFacts
    <3>2. pcbLive[1] # None => pcbLive[1] \in Pids /\ pcbLive[1] # cpu
      BY <1>1, <2>1 DEF PidInv, TypeOK
    <3>3. QED
      BY <1>13, <2>1, <3>1, <3>2 DEF Away, Child
  <2>3. Out' = Out
    BY <2>2 DEF Out
  <2>4. Base' = Base /\ Top' = Top /\ Runner(0)' = Runner(0) /\ Runner(1)' = Runner(1)
    <3>1. /\ pidMax' = pidMax - 1 /\ pidMax \in Nat /\ pcbLive'[2] = None
          /\ pcbLive[2] # None
      BY <1>1, <1>2, <1>3, <1>13, <1>15 DEF PidInv
    <3>2. Base' = Base
      BY <2>3, <3>1 DEF Base
    <3>3. QED
      BY <1>1, <1>13, <1>15, <2>1, <2>2, <3>2 DEF Top, Runner, PidInv
  <2>5. PidInv'
    <3>1. pidMax' \in Nat /\ pidMax' <= PidMax
      BY <1>1, <1>2, <1>3, <1>15, <2>1 DEF PidInv, Base
    <3>2. \A q \in Pids : ctl'[q] = "free" <=> q > Top' /\ q # pcbLive'[2]
      BY <1>1, <1>2, <1>13, <1>15, <2>1, <2>4 DEF PidInv
    <3>3. QED
      BY <1>1, <1>13, <1>15, <2>1, <2>4, <3>1, <3>2 DEF PidInv
  <2>6. CtlInv'
    BY <1>1, <1>3, <1>13, <1>15, <2>1, <2>4, AwayFacts DEF CtlInv
  <2>7. FamilyInv' /\ AwayInv'
    BY <1>1, <1>3, <1>13, <1>15, <2>1, <2>2, <2>4 DEF FamilyInv, AwayInv
  <2>8. CpuInv' /\ ResumeInv'
    BY <1>1, <1>3, <1>13, <1>15, <2>4 DEF CpuInv, ResumeInv, TypeOK
  <2>9. QED
    BY <1>15, <2>5, <2>6, <2>7, <2>8
<1>9. ExecuteInv'
  BY <1>2, <1>3, <1>1 DEF ExecuteInv, TypeOK, Switching
<1>10. ModeInv'
  BY <1>1, <1>3 DEF ModeInv, ModeMatches, TypeOK, PidInv
<1>12. QED
  <2>1. PidInv' /\ CtlInv' /\ FamilyInv' /\ AwayInv' /\ CpuInv' /\ ResumeInv'
    BY <1>14, <1>15
  <2>2. QED
    BY <1>4, <1>9, <1>10, <2>1 DEF IInv

\* A program that another one executed calls halt: its parent is the
\* terminal's process from here on, and it is on its way out.
LEMMA HaltChildIInv ==
  ASSUME IInv, cpu \in Pids, termPit \in {1, 2}, ctl[cpu] \notin Switching \cup Leaving,
         HaltChild, line' = NoLine, isPacman' = isPacman
  PROVE  IInv'
<1> DEFINE q == cpu - 1
<1> USE PidMaxAssumption DEF Terms, Pids, None, Idle, vidVars
<1>1. TypeOK /\ PidInv /\ CtlInv /\ FamilyInv /\ ExecuteInv /\ ModeInv
      /\ CpuInv /\ ResumeInv /\ AwayInv
  BY DEF IInv
<1>2. /\ cpu = pcbLive[termPit] /\ (termPit = 1 => ~Away)
      /\ \A r \in Pids : ctl[r] \notin Switching
  <2>1. cpu = pcbLive[termPit] /\ (termPit = 1 => ~Away)
    BY CpuFacts
  <2>2. QED
    BY <1>1, <2>1 DEF ExecuteInv
<1>3. ~shellFlag[cpu]
  BY <1>2 DEF HaltChild
<1>4. termPit = 1 /\ ~Away
  BY <1>1, <1>2, <1>3 DEF FamilyInv
<1>5. /\ Base = pidMax - (IF pcbLive[2] = None THEN 0 ELSE 1) /\ Top = Base
      /\ \A t : Runner(t) = pcbLive[t]
  BY <1>4, Settled
<1>6. /\ cpu = Base /\ cpu >= 3 /\ q \in Pids /\ q >= 2 /\ q # cpu
      /\ parent[cpu] = q /\ saveStack[q] = q
  <2>1. cpu = Base /\ cpu >= 2
    BY <1>1, <1>2, <1>4 DEF PidInv
  <2>2. QED
    BY <1>3, <1>1, <2>1 DEF FamilyInv
<1>7. /\ pcbLive' = [pcbLive EXCEPT ![1] = q]
      /\ exePage' = q /\ esp0' = q
      /\ ctl' = [ctl EXCEPT ![cpu] = "leave"]
      /\ UNCHANGED <<pidMax, cpu, termLive, termPit, active, saved, parent,
                     shellFlag, saveStack, image, vidVars, isModex>>
  BY <1>2, <1>4, <1>6 DEF HaltChild, HaltUnchanged
<1>8. /\ pcbLive'[0] = 1 /\ pcbLive'[1] = q /\ pcbLive'[2] = pcbLive[2]
      /\ pcbLive[2] # None => pcbLive[2] # cpu /\ pcbLive[2] # q
      /\ ctl'[cpu] = "leave" /\ ctl[q] = "wait" /\ ctl'[q] = "wait" /\ image[q] = "shell"
      /\ \A r \in Pids : r # cpu => ctl'[r] = ctl[r]
  <2>1. ctl[q] = "wait" /\ image[q] = "shell"
    BY <1>1, <1>2, <1>4, <1>6 DEF CtlInv
  <2>2. pcbLive[2] # None => pcbLive[2] > cpu
    BY <1>1, <1>5, <1>6 DEF PidInv
  <2>3. QED
    BY <1>1, <1>6, <1>7, <2>1, <2>2 DEF PidInv, TypeOK
<1>9. /\ Away' /\ Child' = cpu /\ Base' = q /\ Top' = Base
      /\ Runner(1)' = cpu /\ \A t \in {0, 2} : Runner(t)' = pcbLive'[t]
  <2>1. Away' /\ Child' = cpu
    BY <1>6, <1>8 DEF Away, Child
  <2>2. Out'
    BY <1>8, <2>1, <1>7 DEF Out
  <2>3. pidMax' = pidMax /\ pidMax \in Nat
    BY <1>1, <1>7 DEF PidInv
  <2>4. Base' = q
    BY <1>5, <1>6, <1>8, <2>2, <2>3 DEF Base
  <2>5. QED
    BY <1>6, <2>1, <2>4 DEF Top, Runner
<1>10. TypeOK'
  <2>1. /\ pcbLive' \in [Terms -> Pids \cup {None}]
        /\ ctl' \in [Pids -> Ctl]
    BY <1>1, <1>6, <1>7 DEF TypeOK, Ctl, Leaving
  <2>2. QED
    BY <1>1, <1>6, <1>7, <2>1 DEF TypeOK
<1>11. PidInv'
  <2>1. ASSUME NEW r \in Pids
        PROVE  ctl'[r] = "free" <=> r > Top' /\ r # pcbLive'[2]
    BY <1>1, <1>5, <1>6, <1>8, <1>9 DEF PidInv
  <2>2. /\ pidMax' \in Nat /\ pidMax' <= PidMax /\ Base' >= 2 /\ Top' <= PidMax
        /\ pcbLive'[2] # None => pcbLive'[2] > Top' /\ pcbLive'[2] <= PidMax
    BY <1>1, <1>5, <1>6, <1>7, <1>8, <1>9 DEF PidInv
  <2>3. QED
    BY <1>8, <1>9, <2>1, <2>2 DEF PidInv
<1>12. CtlInv'
  <2>1. ctl'[1] = "loop" /\ (pcbLive'[2] # None => ctl'[pcbLive'[2]] = "loop")
    BY <1>1, <1>6, <1>8 DEF CtlInv, TypeOK
  <2>2. ASSUME NEW r \in Pids, r >= 2, r <= Base'
        PROVE  ctl'[r] = "wait" /\ image'[r] = "shell"
    <3>1. r <= Base /\ r # cpu /\ r # pcbLive[1]
      BY <1>2, <1>4, <1>6, <1>9, <2>2
    <3>2. ctl[r] = "wait" /\ image[r] = "shell"
      BY <1>1, <2>2, <3>1 DEF CtlInv
    <3>3. QED
      BY <1>7, <1>8, <3>1, <3>2
  <2>3. QED
    BY <2>1, <2>2 DEF CtlInv
<1>13. FamilyInv' /\ AwayInv'
  BY <1>1, <1>6, <1>7, <1>8, <1>9 DEF FamilyInv, AwayInv, Leaving
<1>14. ExecuteInv'
  <2>1. \A r \in Pids : ctl'[r] \notin Switching
    BY <1>2, <1>8 DEF Switching
  <2>2. QED
    BY <2>1 DEF ExecuteInv
<1>15. ModeInv'
  BY <1>1, <1>6, <1>7, <1>8, <1>2, <1>4 DEF ModeInv, ModeMatches, TypeOK
<1>16. CpuInv' /\ ResumeInv'
  BY <1>1, <1>4, <1>5, <1>6, <1>7, <1>8, <1>9 DEF CpuInv, ResumeInv, TypeOK
<1>17. QED
  BY <1>10, <1>11, <1>12, <1>13, <1>14, <1>15, <1>16 DEF IInv

\* A process inside halt that has the CPU is terminal 1's leaving child.
LEMMA LeavingFacts ==
  ASSUME IInv, cpu \in Pids, ctl[cpu] \in Leaving
  PROVE  /\ termPit = 1 /\ Away /\ cpu = Child /\ pcbLive[1] = Base /\ Base >= 2
         /\ Base \in Pids /\ cpu = Base + 1 /\ Top = cpu /\ cpu # pcbLive[2]
         /\ parent[cpu] = Base /\ saveStack[Base] = Base /\ line = NoLine
         /\ \A r \in Pids : ctl[r] \notin Switching
<1> USE DEF Terms, Pids, None, Idle
<1>1. TypeOK /\ CpuInv /\ AwayInv /\ PidInv /\ CtlInv /\ ExecuteInv
  BY DEF IInv
<1>2. Away
  BY Settled
<1>3. termPit = 1 /\ cpu = Child
  <2>1. cpu = Runner(termPit) /\ pcbLive[termPit] # None
    BY <1>1 DEF CpuInv
  <2>2. CASE termPit # 1
    BY <1>1, <2>1, <2>2 DEF Runner, PidInv, CtlInv, Leaving, TypeOK
  <2>3. QED
    BY <1>2, <2>1, <2>2 DEF Runner
<1>4. /\ pcbLive[1] = Base /\ Base >= 2 /\ Base \in Pids /\ cpu = Base + 1
      /\ Top = cpu /\ cpu # pcbLive[2]
  BY <1>2, <1>3, AwayFacts
<1>5. parent[cpu] = Base /\ saveStack[Base] = Base
  BY <1>1, <1>2, <1>3, <1>4 DEF AwayInv
<1>6. \A r \in Pids : ctl[r] \notin Switching
  BY <1>1 DEF ExecuteInv, Switching, Leaving
<1>7. line = NoLine
  <2>1. ctl[pcbLive[1]] = "wait"
    BY <1>2 DEF Away
  <2>2. QED
    BY <1>1, <2>1 DEF ExecuteInv, Switching
<1>8. QED
  BY <1>2, <1>3, <1>4, <1>5, <1>6, <1>7

\* pid_max is given back, and the leaving child no longer counted.
LEMMA HaltCountIInv ==
  ASSUME IInv, NEW p \in Pids, HaltCount(p)
  PROVE  IInv'
<1> USE PidMaxAssumption DEF Terms, Pids, None, Idle, vidVars
<1>1. TypeOK /\ PidInv /\ CtlInv /\ FamilyInv /\ ExecuteInv /\ ModeInv
      /\ CpuInv /\ ResumeInv /\ AwayInv
  BY DEF IInv
<1>2. /\ cpu = p /\ ctl[p] = "leave" /\ pidMax' = pidMax - 1
      /\ ctl' = [ctl EXCEPT ![p] = "drop"]
      /\ UNCHANGED <<pcbLive, exePage, esp0, cpu, isPacman, line, termLive, termPit,
                     active, saved, parent, shellFlag, saveStack, image, vidVars, isModex>>
  BY DEF HaltCount, HaltUnchanged
<1>3. /\ termPit = 1 /\ Away /\ p = Child /\ pcbLive[1] = Base /\ Base >= 2
      /\ Base \in Pids /\ p = Base + 1 /\ Top = p /\ p # pcbLive[2] /\ line = NoLine
      /\ \A r \in Pids : ctl[r] \notin Switching
  BY <1>2, LeavingFacts DEF Leaving
<1>4. /\ ctl'[p] = "drop" /\ \A r \in Pids : r # p => ctl'[r] = ctl[r]
      /\ ctl'[Base] = "wait"
  BY <1>1, <1>2, <1>3 DEF TypeOK, Away
<1>5. Away' /\ Child' = p /\ ~Out' /\ Out
  <2>1. Away' /\ Child' = p
    BY <1>2, <1>3, <1>4 DEF Away, Child
  <2>2. QED
    BY <1>2, <1>3, <1>4, <2>1 DEF Out
<1>6. pidMax' \in Nat /\ pidMax' <= PidMax /\ Base' = Base
  <2>1. pidMax \in Nat /\ Base = pidMax - (IF pcbLive[2] = None THEN 0 ELSE 1) - 1
    BY <1>1, <1>5 DEF PidInv, Base
  <2>2. QED
    BY <1>1, <1>2, <1>3, <1>5, <2>1 DEF PidInv, Base
<1>7. Top' = Top /\ \A t : Runner(t)' = Runner(t)
  BY <1>2, <1>3, <1>5, <1>6 DEF Top, Runner
<1>8. TypeOK'
  BY <1>1, <1>2, <1>6 DEF TypeOK, Ctl, Leaving
<1>9. PidInv'
  BY <1>1, <1>2, <1>3, <1>4, <1>6, <1>7 DEF PidInv
<1>10. CtlInv'
  BY <1>1, <1>2, <1>3, <1>4, <1>6 DEF CtlInv, TypeOK
<1>11. FamilyInv' /\ AwayInv'
  BY <1>1, <1>2, <1>3, <1>4, <1>5, <1>6 DEF FamilyInv, AwayInv, Leaving
<1>12. ExecuteInv'
  BY <1>2, <1>3, <1>4 DEF ExecuteInv, Switching
<1>13. ModeInv'
  BY <1>1, <1>2 DEF ModeInv, ModeMatches
<1>14. CpuInv' /\ ResumeInv'
  BY <1>1, <1>2, <1>3, <1>4, <1>7 DEF CpuInv, ResumeInv, Switching, Leaving
<1>15. QED
  BY <1>8, <1>9, <1>10, <1>11, <1>12, <1>13, <1>14 DEF IInv

\* The child jumps onto its parent's saved stack, and is gone.
LEMMA HaltReturnIInv ==
  ASSUME IInv, NEW p \in Pids, HaltReturn(p)
  PROVE  IInv'
<1> DEFINE q == pcbLive[1]
<1> USE PidMaxAssumption DEF Terms, Pids, None, Idle, vidVars
<1>1. TypeOK /\ PidInv /\ CtlInv /\ FamilyInv /\ ExecuteInv /\ ModeInv
      /\ CpuInv /\ ResumeInv /\ AwayInv
  BY DEF IInv
<1>2. cpu = p /\ ctl[p] = "drop"
  BY DEF HaltReturn
<1>3. /\ termPit = 1 /\ Away /\ p = Child /\ q = Base /\ Base >= 2
      /\ q \in Pids /\ p = q + 1 /\ Top = p /\ p # pcbLive[2] /\ line = NoLine
      /\ saveStack[q] = q /\ \A r \in Pids : ctl[r] \notin Switching
  BY <1>2, LeavingFacts DEF Leaving
<1>4. /\ cpu' = q
      /\ ctl' = [r \in Pids |-> IF r = p THEN "free" ELSE IF r = q THEN "read" ELSE ctl[r]]
      /\ UNCHANGED <<pidMax, pcbLive, exePage, esp0, isPacman, line, termLive, termPit,
                     active, saved, parent, shellFlag, saveStack, image, vidVars, isModex>>
  BY <1>3 DEF HaltReturn, Returned, HaltUnchanged
<1>5. /\ ctl'[p] = "free" /\ ctl'[q] = "read" /\ q # p
      /\ \A r \in Pids : r # p /\ r # q => ctl'[r] = ctl[r]
      /\ pcbLive[2] # None => pcbLive[2] # q
  BY <1>1, <1>3, <1>4 DEF PidInv
<1>6. ~Away' /\ ~Out' /\ ~Out
  <2>1. ~Away'
    BY <1>4, <1>5 DEF Away
  <2>2. QED
    BY <1>2, <1>3, <2>1 DEF Out
<1>7. Base' = Base /\ Top' = Base /\ \A t : Runner(t)' = pcbLive[t]
  <2>1. Base' = Base
    BY <1>4, <1>6 DEF Base
  <2>2. QED
    BY <1>4, <1>6, <2>1 DEF Top, Runner
<1>8. TypeOK'
  BY <1>1, <1>3, <1>4 DEF TypeOK, Ctl
<1>9. PidInv'
  <2>1. ASSUME NEW r \in Pids
        PROVE  ctl'[r] = "free" <=> r > Top' /\ r # pcbLive'[2]
    BY <1>1, <1>3, <1>4, <1>5, <1>7 DEF PidInv
  <2>2. QED
    BY <1>1, <1>3, <1>4, <1>7, <2>1 DEF PidInv, TypeOK
<1>10. CtlInv'
  <2>1. image[q] = "shell" /\ ctl[q] = "wait"
    BY <1>1, <1>3 DEF CtlInv, Away
  <2>2. QED
    BY <1>1, <1>3, <1>4, <1>5, <1>7, <2>1 DEF CtlInv, TypeOK
<1>11. FamilyInv' /\ AwayInv'
  BY <1>1, <1>4, <1>6, <1>7 DEF FamilyInv, AwayInv
<1>12. ExecuteInv'
  BY <1>3, <1>4, <1>5 DEF ExecuteInv, Switching
<1>13. ModeInv'
  BY <1>1, <1>4 DEF ModeInv, ModeMatches
<1>14. CpuInv' /\ ResumeInv'
  <2>1. \A t \in {0, 2} : Runner(t) = pcbLive[t]
    BY DEF Runner
  <2>2. exePage = q /\ esp0 = q
    BY <1>1, <1>2, <1>3 DEF CpuInv, Switching
  <2>3. QED
    BY <1>1, <1>3, <1>4, <1>7, <2>1, <2>2 DEF CpuInv, ResumeInv
<1>15. QED
  BY <1>8, <1>9, <1>10, <1>11, <1>12, <1>13, <1>14 DEF IInv

\* The three ways into halt; pacman's process carries shell_flag, so ESC
\* never ends a child.
LEMMA HaltIInv ==
  ASSUME IInv,
         KeyEsc \/ \E p \in Pids : ProgramExit(p) \/ ShellExit(p)
  PROVE  IInv'
<1> USE DEF Terms, Pids, None, Idle
<1>1. TypeOK /\ PidInv /\ CtlInv /\ FamilyInv /\ ExecuteInv /\ ModeInv
      /\ CpuInv /\ ResumeInv /\ AwayInv
  BY DEF IInv
<1>2. CASE KeyEsc
  <2>1. cpu \in Pids /\ cpu = pcbLive[2] /\ ctl[cpu] = "loop" /\ termPit = 2
    BY <1>1, <1>2 DEF KeyEsc, CpuInv, CtlInv, Runner
  <2>2. line' = NoLine
    BY <1>1, <1>2 DEF KeyEsc, ExecuteInv
  <2>3. HaltShell
    BY <1>1, <1>2, <2>1 DEF KeyEsc, HaltChildAtOnce, FamilyInv
  <2>4. ctl[cpu] \notin Switching \cup Leaving
    BY <2>1 DEF Switching, Leaving
  <2>5. isPacman' = IF termPit = 2 THEN FALSE ELSE isPacman
    BY <1>2, <2>1 DEF KeyEsc
  <2>6. QED
    BY <2>1, <2>2, <2>3, <2>4, <2>5, HaltShellIInv
<1>3. ASSUME NEW p \in Pids, ProgramExit(p) \/ ShellExit(p)
      PROVE  IInv'
  <2>1. /\ cpu \in Pids /\ cpu = p /\ ctl[cpu] \in {"read", "run"}
        /\ cpu = pcbLive[termPit] /\ Halt /\ isPacman' = isPacman
    <3>1. /\ cpu \in Pids /\ cpu = p /\ ctl[cpu] \in {"read", "run"}
          /\ Halt /\ isPacman' = isPacman
      BY <1>3 DEF ProgramExit, ShellExit, Reading
    <3>2. QED
      BY <3>1, CpuFacts DEF Leaving
  <2>2. termPit = 1
    BY <1>1, <2>1 DEF CtlInv, PidInv, TypeOK
  <2>3. line' = NoLine
    BY <1>1, <1>3, <2>1, <2>2 DEF ProgramExit, ShellExit, ExecuteInv, Switching
  <2>4. ctl[cpu] \notin Switching \cup Leaving
    BY <2>1 DEF Switching, Leaving
  <2>5. CASE HaltShell
    BY <2>1, <2>2, <2>3, <2>4, <2>5, HaltShellIInv
  <2>6. CASE HaltChild
    BY <2>1, <2>2, <2>3, <2>4, <2>6, HaltChildIInv
  <2>7. QED
    BY <2>1, <2>5, <2>6 DEF Halt
<1>4. QED
  BY <1>2, <1>3

\* Every step keeps it.
LEMMA NextIInv ==
  ASSUME Exposed = {}, IInv, [Next]_vars
  PROVE  IInv'
<1>1. CASE PitIrq
  BY <1>1, PitIrqIInv
<1>2. CASE User
  <2>1. ASSUME NEW l \in Lines, TypeLine(l) PROVE IInv'
    BY <2>1, TypeLineIInv
  <2>2. CASE KeyEsc
    BY <2>2, HaltIInv
  <2>3. CASE KeyAltF1 \/ KeyAltF2 \/ ClickTerminal \/ ClickPacman
    BY <2>3, DisplayIInv
  <2>4. QED
    BY <1>2, <2>1, <2>2, <2>3 DEF User
<1>3. ASSUME NEW p \in Pids, Process(p) PROVE IInv'
  <2>1. CASE ExecuteBegin(p) \/ ExecuteRefused(p) \/ ExecuteLoad(p)
    BY <2>1, ExecuteIInv
  <2>2. CASE ExecuteEnter(p)
    BY <2>2, ExecuteEnterIInv
  <2>3. CASE ProgramExit(p) \/ ShellExit(p)
    BY <2>3, HaltIInv
  <2>4. CASE Vidmap(p)
    BY <2>4, VidmapIInv
  <2>5. CASE HaltCount(p) \/ HaltReturn(p)
    BY <2>5, HaltCountIInv, HaltReturnIInv
  <2>6. QED
    BY <1>3, <2>1, <2>2, <2>3, <2>4, <2>5 DEF Process
<1>4. CASE UNCHANGED vars
  <2>1. UNCHANGED vars /\ PidInv /\ CtlInv /\ FamilyInv /\ AwayInv
    BY <1>4 DEF IInv
  <2>2. PidInv' /\ CtlInv' /\ FamilyInv' /\ AwayInv' /\ \A t : Runner(t)' = Runner(t)
    BY <2>1, SameFamily DEF vars, termVars, pcbVars, memVars
  <2>3. QED
    BY <2>1, <2>2 DEF vars, termVars, pcbVars, memVars, vidVars, modeVars, IInv,
       TypeOK, ExecuteInv, ModeInv, ModeMatches, CpuInv, ResumeInv
<1>5. QED
  BY <1>1, <1>2, <1>3, <1>4 DEF Next

-----------------------------------------------------------------------------
\* The inductive invariant holds in every state a machine reaches that hits
\* none of the Hazards.
THEOREM Invariance ==
  ASSUME Exposed = {} PROVE Spec => []IInv
<1>1. IInv /\ [Next]_vars => IInv'
  BY NextIInv
<1>2. QED
  BY <1>1, InitIInv, PTL DEF Spec

\* pid_max is the number of live processes: the family of the GUI and the
\* shell is 1..Top, less a child that pid_max-- has dropped, and pacman is
\* the only other.
LEMMA CountIInv == IInv => PidMaxCounts
<1> DEFINE Counted == {p \in Live : ctl[p] # "drop"}
           F == IF Out THEN Base + 1 ELSE Base
<1> SUFFICES ASSUME IInv PROVE pidMax = Cardinality(Counted) /\ pidMax <= PidMax
  BY DEF PidMaxCounts
<1> USE PidMaxAssumption DEF Terms, Pids, None
<1>1. TypeOK /\ PidInv /\ CtlInv /\ AwayInv
  BY DEF IInv
<1>2. /\ Base \in Nat /\ Base >= 1 /\ F \in Nat /\ F >= Base /\ F <= Top
      /\ Top \in Nat /\ Top <= PidMax /\ F <= PidMax
  <2>1. Away => Top = Base + 1
    BY AwayFacts
  <2>2. Top <= PidMax /\ Base \in Nat /\ Base >= 1 /\ (~Away => Top = Base)
    BY <1>1, AwayFacts DEF PidInv, Top
  <2>3. Out => Away
    BY DEF Out
  <2>4. QED
    BY <2>1, <2>2, <2>3
<1>3. pidMax = F + (IF pcbLive[2] = None THEN 0 ELSE 1)
  BY <1>1, <1>2 DEF Base, PidInv
<1>4. ASSUME NEW p \in Pids
      PROVE  p \in Counted <=> p <= F \/ p = pcbLive[2]
  <2>1. p \in Live <=> p <= Top \/ p = pcbLive[2]
    BY <1>1, <1>2, AwayFacts DEF PidInv, Live
  <2>2. CASE p = pcbLive[2]
    BY <1>1, <2>1, <2>2 DEF CtlInv
  <2>3. CASE p # pcbLive[2] /\ p <= Base
    <3>1. ctl[p] # "drop"
      <4>1. CASE p = 1
        BY <1>1, <4>1 DEF CtlInv
      <4>2. CASE p >= 2
        BY <1>1, <2>3, <4>2 DEF CtlInv, Switching
      <4>3. QED
        BY <4>1, <4>2
    <3>2. QED
      BY <1>2, <2>1, <2>3, <3>1
  <2>4. CASE p # pcbLive[2] /\ p > Base /\ Away
    <3>1. p <= Top <=> p = Child
      BY <2>4, AwayFacts
    <3>2. ctl[Child] \in Leaving /\ Child = Base + 1 /\ Top = Child
      BY <1>1, <2>4, AwayFacts DEF AwayInv
    <3>3. CASE Out
      BY <1>2, <2>1, <2>4, <3>1, <3>2, <3>3 DEF Out
    <3>4. CASE ~Out
      BY <1>2, <2>1, <2>4, <3>1, <3>2, <3>4 DEF Out, Leaving
    <3>5. QED
      BY <3>3, <3>4
  <2>5. CASE p # pcbLive[2] /\ p > Base /\ ~Away
    BY <1>2, <2>1, <2>5 DEF Top, Out
  <2>6. QED
    BY <1>2, <2>2, <2>3, <2>4, <2>5
<1>5. IsFiniteSet(1..F) /\ Cardinality(1..F) = F
  BY <1>2, FS_Interval
<1>6. Counted \subseteq Pids
  BY DEF Live
<1>10. pidMax \in Nat /\ pidMax <= PidMax
  BY <1>1 DEF PidInv
<1>11. 1..F \subseteq Pids /\ \A p \in Pids : p <= F <=> p \in 1..F
  BY <1>2
<1> HIDE DEF Counted, F, Pids
<1>7. CASE pcbLive[2] = None
  <2>1. None \notin Pids
    BY DEF Pids
  <2>2. Counted = 1..F
    BY <1>4, <1>6, <1>7, <1>11, <2>1
  <2>3. QED
    <3>1. pidMax = F
      BY <1>2, <1>3, <1>7
    <3>2. QED
      BY <1>5, <1>10, <2>2, <3>1
<1>8. CASE pcbLive[2] # None
  <2>1. pcbLive[2] \in Pids /\ pcbLive[2] \notin 1..F
    <3>1. pcbLive[2] \in Pids
      BY <1>1, <1>8 DEF TypeOK
    <3>2. pcbLive[2] > Top
      BY <1>1, <1>8 DEF PidInv
    <3>3. QED
      BY <1>2, <3>1, <3>2 DEF Pids
  <2>2. Counted = (1..F) \cup {pcbLive[2]}
    BY <1>4, <1>6, <1>11, <2>1
  <2>3. Cardinality((1..F) \cup {pcbLive[2]}) = F + 1
    BY <1>5, <2>1, FS_AddElement
  <2>4. QED
    BY <1>3, <1>8, <1>10, <2>2, <2>3
<1>9. QED
  BY <1>7, <1>8

\* Every variable keeps its type.
THEOREM TypeCorrect ==
  ASSUME Exposed = {} PROVE Spec => []TypeOK
<1>1. IInv => TypeOK
  BY DEF IInv
<1>2. QED
  BY <1>1, Invariance, PTL

\* pid_max counts the live processes, in whatever order they come and go
\* and whatever ticks find a child inside halt, and stays within PID_MAX.
THEOREM PidMaxCorrect ==
  ASSUME Exposed = {} PROVE Spec => []PidMaxCounts
BY CountIInv, Invariance, PTL

\* Every saved stack the scheduler may load is one that may run for its
\* terminal, also when it was saved between the steps of execute or halt.
THEOREM ResumeCorrect ==
  ASSUME Exposed = {} PROVE Spec => []ResumeSafe
<1>1. IInv => ResumeSafe
  BY RunnerRuns DEF IInv, ResumeInv, ResumeSafe
<1>2. QED
  BY <1>1, Invariance, PTL

\* The CPU runs for the scheduled terminal, and the TSS names the kernel
\* stack of that terminal's process.
THEOREM StackCorrect ==
  ASSUME Exposed = {} PROVE Spec => []OwnStack
<1>1. IInv => OwnStack
  <2> SUFFICES ASSUME IInv, cpu # Idle PROVE OwnStack
    BY DEF OwnStack
  <2>1. cpu = Runner(termPit) /\ pcbLive[termPit] # None /\ esp0 = pcbLive[termPit]
    BY DEF IInv, CpuInv
  <2>2. QED
    BY <2>1, RunnerRuns DEF IInv, TypeOK, OwnStack
<1>2. QED
  BY <1>1, Invariance, PTL

\* A process outside execute and halt sees its own page, holding its own
\* program.
THEOREM PageCorrect ==
  ASSUME Exposed = {} PROVE Spec => []CorrectPage
<1>1. IInv => CorrectPage
  <2> SUFFICES ASSUME IInv, cpu \in Pids, ctl[cpu] \in {"loop", "read", "run"}
               PROVE  /\ exePage = cpu
                      /\ ctl[cpu] = "read" => image[cpu] = "shell"
                      /\ ctl[cpu] = "run" => image[cpu] = "prog"
    BY DEF CorrectPage
  <2> USE PidMaxAssumption DEF Terms, Pids, None, Idle
  <2>1. TypeOK /\ PidInv /\ CtlInv
    BY DEF IInv
  <2>2. cpu = pcbLive[termPit] /\ exePage = cpu
    BY CpuFacts DEF Switching, Leaving
  <2>3. CASE termPit = 1
    <3>1. cpu >= 2 /\ cpu <= Base
      BY <2>1, <2>2, <2>3, AwayFacts DEF PidInv
    <3>2. QED
      BY <2>1, <2>2, <3>1 DEF CtlInv
  <2>4. CASE termPit # 1
    BY <2>1, <2>2, <2>4 DEF PidInv, CtlInv, TypeOK
  <2>5. QED
    BY <2>3, <2>4
<1>2. QED
  BY <1>1, Invariance, PTL

\* Text mode is on exactly when the shell's terminal shows, and the terminal
\* that shows has a process.
THEOREM ModeCorrect ==
  ASSUME Exposed = {} PROVE Spec => []ModeMatches
<1>1. IInv => ModeMatches
  BY DEF IInv, ModeInv
<1>2. QED
  BY <1>1, Invariance, PTL

\* A process inside halt changes what it is doing only by a step of its
\* own, and then jumps to its parent.
LEMMA LeavesByItself ==
  ASSUME IInv, Next, NEW p \in Pids, ctl[p] \in Leaving, ctl'[p] = "free"
  PROVE  cpu = p /\ cpu' = parent[p]
<1> USE DEF Terms, Pids, None, Idle
<1>1. TypeOK /\ PidInv /\ AwayInv
  BY DEF IInv
<1>2. Away /\ p = Child
  <2>1. Away
    BY Settled
  <2>2. p \notin {Base, pcbLive[2]} /\ p # 1 /\ p <= Top
    BY <1>1, <2>1, AwayFacts DEF IInv, PidInv, CtlInv, Leaving, Away
  <2>3. p > Base
    BY <2>1, <2>2, AwayFacts DEF IInv, CtlInv, Leaving, Away
  <2>4. QED
    BY <2>1, <2>2, <2>3, AwayFacts
<1>3. CASE HaltReturn(p)
  <2>1. cpu = p
    BY <1>3 DEF HaltReturn
  <2>2. /\ termPit = 1 /\ pcbLive[1] = Base
        /\ parent[p] = Base /\ saveStack[Base] = Base
    BY <2>1, LeavingFacts
  <2>3. cpu' = Base
    BY <1>3, <2>2 DEF HaltReturn, Returned
  <2>4. QED
    BY <2>1, <2>2, <2>3
<1>4. CASE PitIrq \/ \E q \in Pids : Vidmap(q) \/ ExecuteRefused(q)
  BY <1>4 DEF PitIrq, ContextSwitchPit, Vidmap, ExecuteRefused, Leaving
<1>5. ASSUME NEW q \in Pids, ExecuteBegin(q) \/ ExecuteLoad(q) \/ HaltCount(q)
      PROVE  FALSE
  BY <1>1, <1>5 DEF ExecuteBegin, ExecuteLoad, HaltCount, TypeOK, Leaving
<1>6. ASSUME NEW q \in Pids, ExecuteEnter(q) PROVE FALSE
  <2>1. FirstCtl(line) \in {"read", "run", "loop"}
    BY DEF FirstCtl
  <2>2. ctl' = [ctl EXCEPT ![q] = "wait", ![pidMax + 1] = FirstCtl(line)]
    BY <1>6 DEF ExecuteEnter
  <2>3. QED
    BY <1>1, <2>1, <2>2 DEF TypeOK, Leaving
<1>7. ASSUME NEW new \in {0, 1, 2}, NEW prog \in {"shell", "pacman"},
             ContextSwitch(new, prog)
      PROVE  FALSE
  BY <1>1, <1>7 DEF ContextSwitch, StayOn, Show, Launch, LaunchFull, FirstCtl,
                    TypeOK, Leaving
<1>8. ASSUME Halt, cpu \in Pids, ctl[cpu] \notin Leaving PROVE FALSE
  BY <1>1, <1>8 DEF Halt, HaltShell, HaltChild, TypeOK, Leaving
<1>9. ASSUME KeyEsc PROVE FALSE
  <2>1. cpu \in Pids /\ cpu = pcbLive[2] /\ ctl[cpu] = "loop"
    BY <1>9 DEF IInv, KeyEsc, CpuInv, CtlInv, Runner
  <2>2. HaltShell
    BY <1>9, <2>1 DEF KeyEsc, HaltChildAtOnce, IInv, FamilyInv
  <2>3. QED
    BY <1>1, <2>1, <2>2 DEF HaltShell, TypeOK, Leaving
<1>10. ASSUME NEW q \in Pids, HaltReturn(q), q # p PROVE FALSE
  <2>1. cpu = q /\ ctl[q] \in Leaving
    BY <1>10 DEF HaltReturn, Leaving
  <2>2. QED
    BY <1>2, <1>10, <2>1, LeavingFacts
<1>11. ASSUME NEW q \in Pids, ProgramExit(q) \/ ShellExit(q) PROVE FALSE
  <2>1. Halt /\ cpu \in Pids /\ ctl[cpu] \in {"run", "read"}
    BY <1>11 DEF ProgramExit, ShellExit, Reading
  <2>2. QED
    BY <1>8, <2>1 DEF Leaving
<1>12. ASSUME NEW l \in Lines, TypeLine(l) PROVE FALSE
  BY <1>12 DEF TypeLine, Leaving
<1>13. QED
  <2>1. CASE User
    BY <1>7, <1>9, <1>12, <2>1
       DEF User, KeyAltF1, KeyAltF2, ClickTerminal, ClickPacman, ContextSwitch
  <2>2. ASSUME NEW q \in Pids, Process(q) PROVE cpu = p /\ cpu' = parent[p]
    BY <1>3, <1>4, <1>5, <1>6, <1>10, <1>11, <2>2 DEF Process
  <2>3. QED
    BY <1>4, <2>1, <2>2 DEF Next

\* The process that halts is the one whose PCB halt takes down, and a child
\* leaves for its parent.
THEOREM HaltCorrect ==
  ASSUME Exposed = {} PROVE Spec => HaltsItself
<1>1. ASSUME IInv, Next, NEW p \in Pids, Ends(p)
      PROVE  pcbLive[termPit] = p
  <2> USE <1>1 DEF Ends, Terms, Pids, None, Idle
  <2>1. CASE PitIrq
    BY <2>1 DEF PitIrq, ContextSwitchPit
  <2>2. ASSUME cpu \in Pids, ctl[cpu] \notin Leaving, Halt \/ KeyEsc
        PROVE  pcbLive[termPit] = p
    <3>1. p = cpu
      <4>1. CASE HaltShell \/ HaltChild
        BY <4>1 DEF HaltShell, HaltChild, IInv, TypeOK
      <4>2. CASE HaltChildAtOnce
        BY <4>2 DEF HaltChildAtOnce, Returned, Leaving
      <4>3. QED
        BY <2>2, <4>1, <4>2 DEF KeyEsc, Halt
    <3>2. QED
      BY <2>2, <3>1, CpuFacts
  <2>3. CASE User
    <3>1. ASSUME NEW new \in {0, 1, 2}, NEW prog \in {"shell", "pacman"},
                 ContextSwitch(new, prog)
          PROVE  FALSE
      BY <3>1 DEF ContextSwitch, StayOn, Show, Launch, LaunchFull, FirstCtl,
                  Leaving, IInv, TypeOK
    <3>2. CASE KeyEsc
      <4>1. cpu \in Pids /\ ctl[cpu] = "loop"
        BY <3>2 DEF IInv, KeyEsc, CpuInv, CtlInv, Runner
      <4>2. QED
        BY <2>2, <3>2, <4>1 DEF Leaving
    <3>3. QED
      BY <2>3, <3>1, <3>2
         DEF User, KeyAltF1, ClickTerminal, ClickPacman, KeyAltF2, TypeLine,
             ContextSwitch
  <2>4. ASSUME NEW q \in Pids, Process(q) PROVE pcbLive[termPit] = p
    <3>1. CASE ProgramExit(q) \/ ShellExit(q)
      BY <2>2, <3>1 DEF ProgramExit, ShellExit, Reading, Leaving
    <3>2. CASE ExecuteBegin(q) \/ ExecuteRefused(q) \/ ExecuteLoad(q)
      BY <3>2 DEF ExecuteBegin, ExecuteRefused, ExecuteLoad, Leaving, IInv, TypeOK
    <3>3. CASE ExecuteEnter(q)
      BY <3>3 DEF ExecuteEnter, FirstCtl, Leaving, IInv, TypeOK
    <3>4. CASE Vidmap(q)
      BY <3>4 DEF Vidmap
    <3>5. CASE HaltCount(q)
      BY <3>5 DEF HaltCount, Leaving, IInv, TypeOK
    <3>6. CASE HaltReturn(q)
      BY <3>6 DEF HaltReturn, Returned, Leaving
    <3>7. QED
      BY <2>4, <3>1, <3>2, <3>3, <3>4, <3>5, <3>6 DEF Process
  <2>5. QED
    BY <2>1, <2>3, <2>4 DEF Next
<1>2. IInv /\ [Next]_vars =>
        [\A p \in Pids :
          /\ Ends(p) => pcbLive[termPit] = p
          /\ ctl[p] \in Leaving /\ ctl'[p] = "free" => cpu = p /\ cpu' = parent[p]]_vars
  BY <1>1, LeavesByItself
<1>3. QED
  BY <1>2, Invariance, PTL DEF Spec, HaltsItself

\* Every execute takes a pid nobody has, and no step writes over the image
\* of a process that lives on.
THEOREM FreshCorrect ==
  ASSUME Exposed = {} PROVE Spec => FreshPid
<1>1. ASSUME IInv, pcbLive[2] = None, pidMax < PidMax, ~Away
      PROVE  pidMax + 1 \notin Live
  <2>1. Top = pidMax
    BY <1>1, Settled DEF IInv, PidInv
  <2>2. QED
    BY <1>1, <2>1, PidMaxAssumption DEF IInv, PidInv, Live, Pids, None
<1>4. ASSUME IInv, cpu \in Pids, ctl[cpu] \in Switching
      PROVE  ~Away
  <2>1. cpu = pcbLive[termPit] /\ (termPit = 1 => ~Away)
    BY <1>4, CpuFacts DEF Switching, Leaving
  <2>2. termPit = 1
    BY <1>4, <2>1 DEF IInv, PidInv, CtlInv, TypeOK, Switching, Terms, Pids, None
  <2>3. QED
    BY <2>1, <2>2
<1>2. IInv /\ [Next]_vars =>
        [/\ pidMax' > pidMax => pidMax' \notin Live
         /\ \A p \in Live : ctl'[p] # "free" => image'[p] = image[p]]_vars
  <2> SUFFICES ASSUME IInv, Next
               PROVE  /\ pidMax' > pidMax => pidMax' \notin Live
                      /\ \A p \in Live : ctl'[p] # "free" => image'[p] = image[p]
    OBVIOUS
  <2> USE PidMaxAssumption DEF Terms, Pids, None, Idle
  <2>1. TypeOK /\ PidInv /\ ExecuteInv /\ ModeInv
    BY DEF IInv
  <2>2. CASE pidMax' \in {pidMax, pidMax - 1} /\ image' = image
    BY <2>1, <2>2 DEF PidInv
  <2>3. ASSUME NEW new \in {1, 2}, NEW prog \in {"shell", "pacman"}, ~isPacman,
               ContextSwitch(new, prog)
        PROVE  \/ pidMax' \in {pidMax, pidMax - 1} /\ image' = image
               \/ /\ pidMax' = pidMax + 1 /\ pidMax + 1 \notin Live
                  /\ image' = [image EXCEPT ![pidMax + 1] = prog]
    <3>1. CASE Launch(new, prog)
      <4>1. \A q \in Pids : ctl[q] \notin Leaving
        BY <3>1 DEF Launch, LaunchTerminal
      <4>2. ~Away
        BY <4>1, AwayFacts DEF IInv, AwayInv
      <4>3. QED
        BY <1>1, <2>1, <2>3, <3>1, <4>2 DEF Launch, ModeInv
    <3>2. CASE ~Launch(new, prog)
      BY <2>1, <2>3, <3>2
         DEF ContextSwitch, StayOn, Show, LaunchFull, pcbVars, memVars, PidInv
    <3>3. QED
      BY <3>1, <3>2
  <2>4. ASSUME NEW p \in Pids, ExecuteLoad(p)
        PROVE  /\ pidMax' = pidMax /\ pidMax + 1 \notin Live
               /\ image' = [image EXCEPT ![pidMax + 1] = line]
    <3>1. exePage = pidMax + 1 /\ pcbLive[2] = None /\ pidMax < PidMax
      BY <2>1, <2>4 DEF ExecuteInv, ExecuteLoad, Switching
    <3>2. QED
      BY <1>1, <1>4, <2>4, <3>1 DEF ExecuteLoad, Switching, pcbVars
  <2>5. ASSUME NEW p \in Pids, ExecuteEnter(p)
        PROVE  pidMax' = pidMax + 1 /\ pidMax + 1 \notin Live /\ image' = image
    <3>1. pcbLive[2] = None /\ pidMax < PidMax
      BY <2>1, <2>5 DEF ExecuteInv, ExecuteEnter, Switching
    <3>2. QED
      BY <1>1, <1>4, <2>5, <3>1 DEF ExecuteEnter, Switching
  <2>6. CASE User
    <3>1. CASE KeyAltF2 \/ ClickTerminal \/ ClickPacman
      <4>1. PICK new \in {1, 2}, prog \in {"shell", "pacman"} :
              ~isPacman /\ ContextSwitch(new, prog)
        BY <3>1 DEF KeyAltF2, ClickTerminal, ClickPacman
      <4>2. CASE pidMax' \in {pidMax, pidMax - 1} /\ image' = image
        BY <2>2, <4>2
      <4>3. CASE /\ pidMax' = pidMax + 1 /\ pidMax + 1 \notin Live
                 /\ image' = [image EXCEPT ![pidMax + 1] = prog]
        BY <2>1, <4>3 DEF TypeOK, Live
      <4>4. QED
        BY <2>3, <4>1, <4>2, <4>3
    <3>2. CASE KeyAltF1 \/ KeyEsc \/ \E l \in Lines : TypeLine(l)
      <4>1. pidMax' \in {pidMax, pidMax - 1} /\ image' = image
        BY <2>1, <3>2
           DEF KeyAltF1, KeyEsc, TypeLine, StayOn, Show, HaltShell,
               HaltChildAtOnce, HaltUnchanged, pcbVars, memVars, PidInv
      <4>2. QED
        BY <2>2, <4>1
    <3>3. QED
      BY <2>6, <3>1, <3>2 DEF User
  <2>7. ASSUME NEW p \in Pids, Process(p)
        PROVE  /\ pidMax' > pidMax => pidMax' \notin Live
               /\ \A q \in Live : ctl'[q] # "free" => image'[q] = image[q]
    <3>1. CASE ExecuteLoad(p)
      BY <2>1, <2>4, <3>1 DEF TypeOK, PidInv, Live
    <3>2. CASE ExecuteEnter(p)
      BY <2>5, <3>2
    <3>3. CASE ExecuteBegin(p) \/ ExecuteRefused(p) \/ ProgramExit(p)
               \/ ShellExit(p) \/ HaltCount(p) \/ HaltReturn(p) \/ Vidmap(p)
      <4>1. pidMax' \in {pidMax, pidMax - 1} /\ image' = image
        BY <2>1, <3>3
           DEF ExecuteBegin, ExecuteRefused, ProgramExit, ShellExit, Vidmap, Halt,
               HaltShell, HaltChild, HaltCount, HaltReturn, HaltUnchanged, pcbVars,
               memVars, PidInv
      <4>2. QED
        BY <2>2, <4>1
    <3>4. QED
      BY <2>7, <3>1, <3>2, <3>3 DEF Process
  <2>8. CASE PitIrq
    BY <2>1, <2>2, <2>8 DEF PitIrq, ContextSwitchPit, pcbVars, PidInv
  <2>9. QED
    BY <2>6, <2>7, <2>8 DEF Next
<1>3. QED
  BY <1>2, Invariance, PTL DEF Spec, FreshPid

-----------------------------------------------------------------------------
\* What the display shows, and that no program carries a shell_flag that
\* would close the terminal when it returns: with one, a program of a hidden
\* terminal would take pacman's screen away.
DisplayInv ==
  /\ ScreenOwned
  /\ isPacman <=> termLive = 2
  /\ \A p \in Pids : ctl[p] = "run" => ~shellFlag[p]

\* halt of a terminal's first process meets its own terminal displayed.
LEMMA HaltShellDisplay ==
  ASSUME IInv, DisplayInv, HaltShell, termLive = termPit, termPit # 0, cpu \in Pids,
         ~isPacman'
  PROVE  DisplayInv'
<1> USE DEF Terms, Pids, None, Idle, VideoPage
<1>1. /\ termLive' = 0 /\ ptVid' = PtVidAfter(termLive, 0)
      /\ ctl' = [ctl EXCEPT ![cpu] = "free"] /\ shellFlag' = shellFlag
  BY DEF HaltShell
<1>2. TypeOK
  BY DEF IInv
<1>3. ScreenOwned'
  BY <1>1, <1>2 DEF DisplayInv, ScreenOwned, PtVidAfter, TypeOK
<1>4. isPacman' <=> termLive' = 2
  BY <1>1
<1>5. QED
  BY <1>1, <1>2, <1>3, <1>4 DEF DisplayInv, TypeOK

\* A handler moves the display, with or without starting a terminal.
LEMMA SwitchDisplay ==
  ASSUME Exposed = {}, IInv, DisplayInv, ~isPacman, NEW new \in {0, 1, 2},
         NEW prog \in {"shell", "pacman"}, ContextSwitch(new, prog),
         isPacman' <=> new = 2
  PROVE  DisplayInv'
<1> USE DEF Terms, Pids, None, Idle, VideoPage
<1>1. TypeOK /\ PidInv
  BY DEF IInv
<1>2. termLive # 2 /\ ScreenOwned
  BY DEF DisplayInv
<1>3. CASE StayOn(new)
  <2>1. new # 2 /\ termLive' = termLive /\ UNCHANGED <<ptVid, ctl, shellFlag>>
    BY <1>2, <1>3 DEF StayOn, vidVars, pcbVars
  <2>2. QED
    BY <1>2, <2>1 DEF DisplayInv, ScreenOwned
<1>4. CASE Show(new) \/ Launch(new, prog)
  <2>1. /\ termLive' = new /\ new # termLive
        /\ ptVid' = PtVidAfter(termLive, new)
    BY <1>4 DEF Show, Launch, LaunchTerminal
  <2>2. ScreenOwned'
    BY <1>1, <1>2, <2>1 DEF ScreenOwned, PtVidAfter, TypeOK
  <2>3. isPacman' <=> termLive' = 2
    BY <2>1
  <2>4. \A p \in Pids : ctl'[p] = "run" => ~shellFlag'[p]
    <3>1. CASE Show(new)
      BY <3>1 DEF Show, pcbVars, DisplayInv
    <3>2. CASE Launch(new, prog)
      BY <1>1, <3>2 DEF Launch, FirstCtl, TypeOK, DisplayInv
    <3>3. QED
      BY <1>4, <3>1, <3>2
  <2>5. QED
    BY <2>2, <2>3, <2>4 DEF DisplayInv
<1>5. QED
  BY <1>3, <1>4 DEF ContextSwitch, LaunchFull

\* Every step keeps what is displayed and what runs as DisplayInv asks.
LEMMA NextDisplay ==
  ASSUME Exposed = {}, StrayFlags = {FALSE}, IInv, DisplayInv, [Next]_vars
  PROVE  DisplayInv'
<1> USE DEF Terms, Pids, None, Idle
<1>1. /\ TypeOK /\ CtlInv /\ FamilyInv /\ ExecuteInv /\ CpuInv /\ ModeInv /\ PidInv
  BY DEF IInv
<1>2. ASSUME UNCHANGED <<termLive, ptVid, isPacman, shellFlag>>,
             \A p \in Pids : ctl'[p] = "run" => ctl[p] = "run"
      PROVE  DisplayInv'
  BY <1>2 DEF DisplayInv, ScreenOwned
<1>3. CASE PitIrq
  BY <1>2, <1>3 DEF PitIrq, ContextSwitchPit, pcbVars, modeVars
<1>4. CASE KeyAltF1
  <2>1. ContextSwitch(0, "shell") /\ ~isPacman /\ isPacman' = FALSE
    BY <1>4 DEF KeyAltF1, ContextSwitch, DisplayInv
  <2>2. QED
    BY <2>1, SwitchDisplay
<1>5. CASE KeyAltF2 \/ ClickTerminal
  <2>1. ContextSwitch(1, "shell") /\ ~isPacman /\ isPacman' = FALSE
    BY <1>1, <1>5 DEF KeyAltF2, ClickTerminal, TypeOK
  <2>2. QED
    BY <2>1, SwitchDisplay
<1>6. CASE ClickPacman
  <2>1. ContextSwitch(2, "pacman") /\ ~isPacman /\ isPacman' = TRUE
    BY <1>6 DEF ClickPacman
  <2>2. QED
    BY <2>1, SwitchDisplay
<1>7. CASE KeyEsc
  <2>1. HaltShell
    BY <1>1, <1>7 DEF KeyEsc, HaltChildAtOnce, FamilyInv
  <2>2. QED
    BY <1>7, <2>1, HaltShellDisplay DEF KeyEsc
<1>8. ASSUME NEW l \in Lines, TypeLine(l) PROVE DisplayInv'
  BY <1>2, <1>8 DEF TypeLine, vidVars, modeVars, pcbVars
<1>9. ASSUME HaltChild, isPacman' = isPacman PROVE DisplayInv'
  <2>1. ctl' = [ctl EXCEPT ![cpu] = "leave"]
    BY <1>9 DEF HaltChild
  <2>2. \A p \in Pids : ctl'[p] = "run" => ctl[p] = "run"
    BY <1>1, <2>1 DEF TypeOK
  <2>3. QED
    BY <1>2, <1>9, <2>2 DEF HaltChild, HaltUnchanged, vidVars
<1>10. ASSUME NEW p \in Pids, Process(p) PROVE DisplayInv'
  <2>1. CASE ExecuteBegin(p) \/ ExecuteLoad(p)
    BY <1>1, <1>2, <2>1 DEF ExecuteBegin, ExecuteLoad, vidVars, modeVars, pcbVars, TypeOK
  <2>2. CASE ExecuteRefused(p) \/ Vidmap(p)
    BY <1>2, <2>2 DEF ExecuteRefused, Vidmap, vidVars, modeVars, pcbVars
  <2>3. CASE ExecuteEnter(p)
    <3>1. termLive = 1 /\ pcbLive[termLive] # None
      BY <1>1, <2>3 DEF ExecuteEnter, ExecuteInv, Switching, Programs, NoLine
    <3>2. shellFlag' = [shellFlag EXCEPT ![pidMax + 1] = FALSE]
      BY <2>3, <3>1 DEF ExecuteEnter
    <3>3. \A q \in Pids : ctl'[q] = "run" => ~shellFlag'[q]
      BY <1>1, <2>3, <3>2 DEF ExecuteEnter, DisplayInv, TypeOK
    <3>4. UNCHANGED <<termLive, ptVid, isPacman>>
      BY <2>3 DEF ExecuteEnter, vidVars, modeVars
    <3>5. QED
      BY <3>3, <3>4 DEF DisplayInv, ScreenOwned
  <2>4. CASE ProgramExit(p)
    <3>1. ~shellFlag[pcbLive[termPit]]
      <4>1. cpu \in Pids /\ ctl[cpu] = "run"
        BY <2>4 DEF ProgramExit
      <4>2. QED
        BY <4>1, CpuFacts DEF Leaving, DisplayInv
    <3>2. HaltChild /\ isPacman' = isPacman
      BY <2>4, <3>1 DEF ProgramExit, Halt, HaltShell
    <3>3. QED
      BY <1>9, <3>2
  <2>5. CASE ShellExit(p)
    <3>1. /\ termLive = 1 /\ termPit = 1 /\ cpu \in Pids /\ isPacman' = isPacman
      BY <1>1, <2>5 DEF ShellExit, Reading, ExecuteInv, NoLine
    <3>2. ~isPacman'
      BY <1>1, <3>1 DEF DisplayInv, TypeOK
    <3>3. QED
      BY <1>9, <2>5, <3>1, <3>2, HaltShellDisplay DEF ShellExit, Halt
  <2>6. CASE HaltCount(p)
    BY <1>1, <1>2, <2>6 DEF HaltCount, HaltUnchanged, vidVars, TypeOK
  <2>7. CASE HaltReturn(p)
    <3>1. \A r \in Pids : ctl'[r] = "run" => ctl[r] = "run"
      BY <2>7 DEF HaltReturn, Returned
    <3>2. QED
      BY <1>2, <2>7, <3>1 DEF HaltReturn, HaltUnchanged, vidVars
  <2>8. QED
    BY <1>10, <2>1, <2>2, <2>3, <2>4, <2>5, <2>6, <2>7 DEF Process
<1>11. CASE UNCHANGED vars
  BY <1>2, <1>11 DEF vars, vidVars, modeVars, pcbVars
<1>12. QED
  BY <1>3, <1>4, <1>5, <1>6, <1>7, <1>8, <1>10, <1>11 DEF Next, User

\* So it holds in every reachable state.
LEMMA DisplayInvariance ==
  ASSUME Exposed = {}, StrayFlags = {FALSE} PROVE Spec => []DisplayInv
<1>1. Init => DisplayInv
  BY DEF Init, DisplayInv, ScreenOwned, PacmanEscapable, Terms, Pids, VideoPage
<1>2. IInv /\ DisplayInv /\ [Next]_vars => DisplayInv'
  BY NextDisplay
<1>3. QED
  BY <1>1, <1>2, Invariance, PTL DEF Spec

\* The screen is the page of the displayed terminal and of no other.  Here,
\* and for pacman, an unassigned shell_flag reads as zero: one that does not
\* lets a hidden program's return take the display (halt, system.c).
THEOREM ScreenCorrect ==
  ASSUME Exposed = {}, StrayFlags = {FALSE} PROVE Spec => []ScreenOwned
<1>1. DisplayInv => ScreenOwned
  BY DEF DisplayInv
<1>2. QED
  BY <1>1, DisplayInvariance, PTL

\* isPacman is set exactly while pacman's terminal is displayed, and then
\* that terminal has a process whose halt closes it: ESC can end pacman, so
\* every other way out may be refused.
THEOREM EscapeCorrect ==
  ASSUME Exposed = {}, StrayFlags = {FALSE} PROVE Spec => []PacmanEscapable
<1>1. IInv /\ DisplayInv => PacmanEscapable
  BY DEF IInv, DisplayInv, FamilyInv, ModeInv, ModeMatches, PacmanEscapable
<1>2. QED
  BY <1>1, Invariance, DisplayInvariance, PTL
=============================================================================
