# A verification model of The A Team's kernel

The repository is a small x86 kernel written in C (`student-distrib/`) with its
user programs (`syscalls/`): a GUI, a text terminal with a shell and pacman
share one CPU, one keyboard and one screen. This directory models the parts of
it in which steps of different origin meet, checks the models with TLC on small
instances and proves with TLAPS their safety properties and refinements, all of
those the runs check.

Paths below are relative to the repository; `system.c:130` means line 130 of
`student-distrib/system.c`.

## 1. Inventory

| Part | State it keeps | Operations | Who calls it |
|---|---|---|---|
| Processes (`system.c`) | `pid_max`, PCBs (parent, save_stack_ptr, shell_flag, file_desc), the 4MB page of each pid, `tss.esp0` | `execute`, `halt`, `vidmap` | shell programs by INT 0x80; `context_switch` and exceptions from handlers |
| Scheduler (`pit.c`, `paging.c`) | `term_pit`, `term[t].saved_esp`, `.pcb_live`, `.active_flag` | `pit_irq`, `context_switch_pit` | the PIT |
| Display (`paging.c`, `key.c`, `mouse.c`) | `term_live`, `isModex`, `isPacman`, video pages | Alt+F1, Alt+F2, clicks, `context_switch` | keyboard and mouse interrupts, `halt` |
| Interrupts (`i8259.c`, `idt.c`, `wrappers.S`) | masks, in-service bits, the frames on each kernel stack | `send_eoi`, `enable_irq`, the wrappers | every handler |
| Clock (`rtc.c`) | `rtc_readf` per terminal, the rate | `rtc_read`, `rtc_write`, `rtc_handler` | programs |
| Boot (`kernel.c`) | gates present, lines unmasked | `entry` | the boot loader |
| Keyboard (`key.c`) | shift, ctrl, alt and caps flags, `last_key` | `key_handler` | the keyboard interrupt |
| Prompt (`terminal.c`) | `key_buf`, `buf_index`, `buf_index_max`, `store_buf`, `enter_flag`, `history` | `key_to_ter`, `tab_comp`, `hist_access`, `buf_move`, `clear_buf`, `terminal_read` | `key_handler`; a reading process |
| Screen (`lib.c`) | rows and cursor of three terminals | `ter_write`, `ter_write_pit`, `putc`, scrolling | the prompt, `terminal_write`, the kernel |
| Library (`lib.c`) | none | `printf`, `itoa`, `memset`, `memcpy`, `memmove`, `strncmp`, `strncpy` | everybody |
| Heap (`paging.c`) | the list from `mem_head`, `list_idx` | `malloc`, `free`, `pmap` | user programs |
| Files (`file.c`, `system.c`) | `get_entry`, `index`, `file_desc` | `open`, `read`, `close`, `execute`'s loads, `background` | programs; handlers |
| Desktop (`modex.c`, `mouse.c`) | the doubly linked list of images, their places, the packet's bytes, the pointer, the build buffer | `mouse_handler`, `draw_mouse`, `move_window`, `add_img`, `start_gif`, `start_paint`, `bring_to_front`, `close_window`, `clock` | the mouse interrupt, the timer, keys |
| Serial line, chat (`tux.c`, `ece391chat.c`, rx, tx) | the bytes under way, the buffers of each program, whose turn it is | send, receive with timeout | programs on two machines |
| Pacman (`ece391pacman.c`) | two figures, beans, counters | a move every sixteenth tick | the game's process |
| syserr (`ece391syserr.c`) | `cnt` | nine tests of refused calls | the shell |
| Drawing data, sound, other programs, disk image | | | |

How they interact, and where it is hard:

* **Two "current terminals".** `term_live` is on the screen, `term_pit` has the
  CPU. `execute` mixes them: it is called for `term_pit` and attaches the child
  to `term_live`.
* **Handlers run with interrupts off, system calls do not.** INT 0x80 is a trap
  gate (`idt.c:63-70`). Whatever a system call reads twice can change between
  the reads: the mapped page, `enter_flag`, `get_entry`.
* **Handlers that do not return.** A click that launches a program calls
  `execute` inside the handler; a shell that ends calls `context_switch` and
  then spins inside `halt` until a PIT tick takes the CPU away.
* **Counters used as names.** `pid_max` is the number of processes and also the
  next pid, which fixes the process's page and kernel stack. Processes of two
  terminals end in any order.
* **Globals standing for arguments**: `get_entry`, `index`, `arg_buf`.

What makes each part correct: a resumed stack is its own terminal's, resumed
where it was left, and its page is mapped; every interrupt is acknowledged; no
live process's pid is reused; `halt` ends its caller; the screen belongs to the
displayed terminal; what is typed is what the fingers are on, and acts only on
what is displayed; a line entered is delivered once and whole and shown where
the cursor says; a descriptor delivers its file in order; granted blocks are
disjoint; what is drawn on top is what a click hits, and what is drawn is the
windows where they lie; what is heard on the line was said.

## 2. Modules

| Module | Models | Abstract specification it implements |
|---|---|---|
| `Kernel` | `execute`, `halt`, `vidmap`, both context switches, the PIT, the keys and clicks that switch, launch or end | |
| `Interrupts` | the 8259s, every handler's entry and exit, the clock, the boot | |
| `Heap` | `malloc`, `free` | `Allocator` |
| `Terminal`, `MCTerminal` | the prompt and `terminal_read` | `LineEditor` |
| `Screen` | the cursor and cells under the editor, programs and the kernel | |
| `Keyboard` | `key_handler`, its tables, the paint program's keys | |
| `Library` | `printf` and the memory and string functions | the meanings in `CallsRight` |
| `MCConsole` | the three modules above, for TLC | |
| `Files` | directory, file contents, descriptors, `execute`'s lookups | `Descriptors` |
| `Syserr`, `MCFiles` | `Files`, with syserr's tests, the dispatcher and the refusals they test | `Descriptors` |
| `Windows` | the desktop's list | `ZOrder` |
| `Desktop`, `MCDesktop` | mouse packets, places, the pointer and the picture, on `Windows`; `MCDesktop` has both, for TLC | `Windows` |
| `Chat` | chat, tx and rx on two machines and the line between them | |
| `Pacman` | the game's moves | |
| `MCPrograms` | the two modules above, for TLC | |
| `KernelProofs`, `InterruptsProofs`, `HeapProofs`, `TerminalProofs` | theorems about the module they are named after | |
| `FilesProofs` | theorems about `Files` and `Syserr` | |
| `ConsoleProofs` | theorems about `Screen`, `Keyboard` and `Library` | |
| `DesktopProofs` | theorems about `Windows` and `Desktop` | |
| `ProgramsProofs` | theorems about `Chat` and `Pacman` | |

`Allocator`, `LineEditor`, `Descriptors` and `ZOrder` are small modules of their
own; each detailed module instantiates its own with a mapping and checks
`X!Spec` as a property. `Desktop` extends `Windows` and checks `Windows`'s
specification as a property of its own (`Clicked`), so that there are two steps
of refinement from mouse bytes to a stack of windows. `Syserr` extends `Files`,
whose refinement of `Descriptors` is checked of the composition.

### Kernel

Variables carry the code's names. A process is its pid, since the pid decides
where its page, PCB and kernel stack lie; `image[p]` is what that page holds.
`saved[t]` is whose stack `saved_esp` points into, with `Idle` for the stack of
a shell that spins at the end of `halt`, and `Popped` for a frame that has been
returned from. `ctl[p]` is where a process is in its own code: `loop` (GUI and
pacman), `read` (the shell in `terminal_read`), `run` (a program), `wait` (a
shell while its child runs), `load` and `enter` (inside `execute`), `leave` and
`drop` (inside `halt`, before and after `pid_max--`). Interrupt handlers are one
action each. `execute` called by the shell is three, `ExecuteBegin` up to
`set_page`, `ExecuteLoad` for the copy of the image and `ExecuteEnter` for the
PCB and the jump, because ticks and keys arrive in between; called from a
handler (`Launch`) it is one, and where `PID_MAX` refuses it (`LaunchFull`) the
handler returns: `term_pit` has moved, and the frame whose address the old
terminal saved is gone. The `halt` of a child is three actions as well:
`HaltChild` makes `pcb_live`, the page and `esp0` the parent's
(`system.c:66-75`), `HaltCount` counts `pid_max` down, `HaltReturn` jumps to the
parent's stack, and ticks, keys and clicks come between them. The `halt` of a
terminal's first process begins with `cli` and is one, and so is a `halt` the
handler of ESC calls. `pcb.shell_flag` is never assigned for a child, so
`StrayFlags` says what it may read as; the safety run and the theorems allow
both values. What a CPU does with no stack, or a popped one, is not modelled:
no action follows.

In the middle of a child's `halt` a tick saves the child's stack for a terminal
whose `pcb_live` is the parent already. `RunsFor` says that this is right: what
is resumed there is the child, on its way out, of a parent that waits; and
`HaltsItself`, that when it has left, that parent runs.

`Exposed` lists the windows that a user or the timer may hit. They are real and
the code does nothing about them; naming them separates what holds on a machine
that does not hit them from what each one breaks:

| Window | What it is | What TLC shows it breaks |
|---|---|---|
| `tick_in_execute` | a PIT tick inside `execute` | `CorrectPage`, `FreshPid`: the image is loaded over the shell |
| `switch_before_execute` | Alt+F1 between Enter and the end of `execute` | every property, and the machine can stop |
| `launch_from_halt` | a launch while a dead shell spins in `halt` | `ResumeSafe`, `OwnStack`, and the machine can stop |
| `launch_in_halt` | a launch before a halting child has left its stack | `FreshPid` (the run `kernel_reuse`: the child's pid and stack are given to the new process), `CorrectPage`, `OwnStack`, `ResumeSafe` |
| `launch_at_limit` | a launch with `PID_MAX` processes | `NeverReturns` (the run `kernel_limit`), `ResumeSafe`, `OwnStack`, `ModeMatches`, `PacmanEscapable`, and the machine can stop |

A stray `shell_flag` of 1 breaks `ScreenOwned` and `PacmanEscapable`, which are
therefore checked with `StrayFlags = {FALSE}` only.

### Heap

`list` is the list from `mem_head`; a node has `mem_start` and `mem_end`, the
latter one above the block's last byte plus one. `NewNode`, `GapAfter`, `Fits`,
`Lost` and `Place` are the pieces of `malloc`'s search. Subtractions whose
result is compared as `uint32_t` wrap at `Word`. `Exposed` separates requests:
`refusal` (more than is left: `malloc` returns NULL but its node is linked),
`wrap` (so large that the address passes 0) and `head_gap` (larger than the gap
above the first block: `mem_end` is unassigned, and the node linked nowhere).

### Terminal

The row of `key_buf` is kept cell by cell, since its shifting and clearing is
the point; a row of `history` is only ever read up to its first zero or newline
and is kept as that text. Index `BufMax` is the first cell of the next
terminal's row, which the code writes when a row is full. `terminal_read` is
four steps, one for each use of `enter_flag`. `Exposed` may contain
`enter_in_read` (Enter between the reader's wake-up and its return) and
`key_in_line` (Up, Down or Tab with the cursor inside the line: `hist_access`
then deletes only what is left of the cursor, and `tab_comp` completes in the
wrong place, so that `Edits` does not hold).

### Files

Names are compared as wholes here; `Syserr` below has `compare`. A file's
contents lie in blocks that `NextByte` walks as the loop of `read_data` does.
The four bytes `execute` compares are one; of a file without them the buffer
holds what the stack held, which may be an executable's (`Headers`). `open` and `execute` are one step for
each use of `get_entry`; `Interrupt` is `background()`, or an `execute` that a
click starts. `Exposed` may contain `irq_in_call` (such an interrupt between
two steps of a call) and `two_listings` (the directory open twice: the global
`index` moves for both, so `Serves` does not hold). Only the shell calls
`execute`, and it opens nothing, which is the guard of `ExecOpen`.

### Syserr

The shell may run syserr whenever no other call is under way; a step is one
system call of the test, with interrupts between the calls. What is checked
first by each call is a definition of its own (`NotOpen`, `Unreadable`,
`Unwritable`, `NoScreen`, `NoCallNumber`). `Compare` is `compare` with its bound:
a name that fills its field of the directory has no zero there. Letters stand
for characters, and `FieldSize` for the 32.

### Windows

`list` is the two pointer fields. The background, the status bar and the clock
never move and are one node. Positions are left out: a click hits any image.
`reopen` in `Exposed` lets the gif or the easel be started while it is
linked; `Linked` then fails, and the list can become one whose walk never ends.

### Desktop

A step is an interrupt: a byte of a packet, a tick of the clock in the status
bar, or a change of video mode. The handler counts bytes; one acknowledgement
that `mouse_init` leaves unread shifts its count, so that what it calls the
second byte is the status, and it uses the vertical movement of the packet
before; `byte` keeps with each value what it is, which `Framed` is about. `at`
is `start_x` and `start_y`, moved as `move_window` does, and `build` is whose
pixel each watched place of the build buffer shows after the painter's walk of
the list, with the pixels under the pointer saved and put back. Pixels do not
depend on one another, so four are watched: a corner of the background, an edge
of a window, the icon of the file, the folder. `Holes` are the pixels of an
image that are 0, which `draw_full_block` leaves out: the folder's icon, the
paint icon's and the file's have some, and the last row of a window, for which
`text.c` has no values. That the background has none is assumed: where it had,
nothing would clear the build buffer, and `draw_save_full_block` would not put
the pixel back. `EdgeDrags` lets the first window
be dragged with the pointer at the screen's upper or lower edge: its icon then
moves and the window does not (`modex.c:473`, a condition without braces), and
`IconInside` fails.

### Interrupts

Each terminal's kernel stack is the sequence of handler frames on it; `isr`,
`mask` and `intr` are the hardware's. A handler is a step up to its `sti` or
`iret`; `context_switch_pit` is two, since its `sti` comes before its load of
the new stack. Launches leave a handler asleep on the old stack and run a new
terminal's, unless `execute` refuses (`StartFails`): `term_pit` has moved then,
and the handler returns from the frame that was saved. Which process runs is left to `Kernel`. `entry()` is three kinds of
boot step, with interrupts on from the middle of it. `Depth` bounds the frames
on one stack: with none of the hazards no more than two occur. `Exposed` may
contain:

| Window | What it is | What TLC shows it breaks |
|---|---|---|
| `tick_in_switch` | a PIT tick between the `sti` and the stack load (`paging.c:333`) | `ResumesWhole`: a stack is saved with the name of another terminal |
| `launch_in_switch` | Alt+F2 or a click there | `ResumesWhole` |
| `launch_at_limit` | a launch that `execute` refuses (`paging.c:281`) | `ResumesWhole`: the frame saved is popped |
| `launch_in_boot` | Alt+F2 before the GUI is executed (`kernel.c:213`) | `ComesUp`: the boot is asleep on a stack nobody resumes |

### Screen, Library, Keyboard

`Screen` is one screen of `Rows` by `Cols` with its cursor; the line under edit
and the place in it are those of `Terminal`, here only to say what is to be
seen. `mixed` remembers that something else has been written since the line was
empty. The echo and the kernel's own output run with interrupts off and are one
step. A program's output does not: `pen` is how far `ter_write_pit` has come
with a character (its cell, the column's step, the row's, the call of `cursor`,
whose arguments `args` keeps), and keys come in between wherever they do no
harm. `++` counts as one step; the compiler makes it a load, an add and a store
(the Makefile asks for no optimization), and a key between those loses the key's
movement of the cursor: the same window, `key_in_output`, as between the `++`
and the test against `NUM_COLS` or `NUM_ROWS` (`lib.c:287`, `264`), which the
cursor then passes for good. `Exposed` names what breaks `OnScreen` or `Echoed`: a character inserted
in a line that fills the screen (`insert_at_bottom`), an arrow on the last cell
(`arrow_at_bottom`), Enter inside a long line (`enter_inside`,
`terminal.c:116-117`), the kernel's newline on the last row (`kernel_newline`,
`lib.c:338`: `putc` adds a row and does not scroll), a backspace printed by a
program (`program_backspace`) and a key inside a program's step of the cursor
(`key_in_output`).

`Library` makes one call in a behaviour, over every alignment and length of a
small memory and every number of `Bits` bits; `CallsRight` says what each answer
means without using the code's way to it. `memcpy` is promised nothing where the
destination lies inside the source.

`Keyboard` keeps the user's truth (`held`, `locked`) beside the handler's flags:
a step is a scan code of a key a finger is on, pressed, repeated or released.
The four tables are functions; `written` and `remembered` say which terminals
have a line or a history, which is what the keys that ask for no mode find. The
canvas of the paint program, the brush and `last_key` are the other state keys
may change. `Allowed` names what a user may do that breaks `Typed`
(`two_of_a_kind`: both shifts held and one released; `caps_held`) or `Confined`
(`tab_elsewhere`, `copy_elsewhere`, `insert_elsewhere`: Tab, Ctrl+C and Insert
ask for no mode, `key.c:272-280`; `exit_elsewhere`: a shell that ends while
another terminal is displayed). A keyboard that sends the fake shifts
(`224, 42` and `224, 54`, round the keys of the cursor block) is told shift is
held when it is not, since the handler does not look at the 224: no `Board` of
the run has them, and the theorems exclude them by name (`FakeShifts`).

### Chat

Two machines, each running chat, tx or rx, or nothing; a program may be started
again, and meet any other. A step goes up to the next `read_serial` or read of
the keyboard. `line[p]` holds the bytes on their way to `p` and in its receiver,
at most `Fifo`: more are dropped. `read_serial` may time out whenever nothing
has come, and need not. The buffers are named after what they hold. Facts the
model shows, none of them against a text of the repository: two users whose
names begin alike both wait until both time out and leave; a program run
again during the other's session takes the bytes left over for its own, and two
that hear only each other's acknowledgements go on until a buffer is overrun;
one that heard nothing compares what its stack held with "exit".

### Pacman

A move changes both figures by the step decided a move before, and decides the
next one; the key is `KEY_UP` before the first one is pressed (`modex.c:7`).
`At` reads the maze as the C array is read, past a row's end into the next row
and past the last row into what follows (`Beyond`). `bean_matrix` is read and
cleared the same way (`Under`), and past its last row too: `StrayBeans` says
whether a byte there may read as a bean; the run says no, and with yes `Straight`
fails, since a game may be won with beans left. Facts: a right
turn at a corner goes left (`ece391pacman.c:278`, `-STEP` where the others have
`STEP`); only the cell ahead of a figure's corner is asked, so that figures walk
through walls one cell thick and off the maze to the right, where pacman eats the
next row's beans. `Straight` (one axis, and drawn that way) and `NotPassed` hold
nevertheless; neither says that a figure stays on a passage.

## 3. Runs

| Run | Question | Bounds, and why they are enough |
|---|---|---|
| `kernel_safety` | stacks, pages, pids, modes, who ends, under every order of events | `PidMax = 6` as in the code; 438 thousand states; every action but `LaunchFull` occurs |
| `kernel_display` | who owns the screen, can pacman be left, is everybody scheduled and every line acted on | `PidMax = 4`: GUI, shell, pacman and one program reach the limit of `execute`; fairness below; 5 thousand states |
| `kernel_hidden` | may a hidden program write on the screen? (violated) | the same |
| `kernel_limit` | does a launch at `PID_MAX` leave the turn with a process? (violated) | the same, with `launch_at_limit` |
| `kernel_reuse` | is a pid handed out while its owner still runs? (violated) | the same, with `launch_in_halt` |
| `interrupts` | are lines acknowledged, stacks resumed whole, readers woken, does it boot | three terminals, four devices, two readers, a rate faster and one slower than the scheduler and one refused; two frames on a stack; 11 thousand states |
| `heap_safety` | are blocks disjoint, known and found | nine bytes, sizes 1, 2, 4 and 9 (more than there is), seven nodes: several gaps, refusals and phantoms coexist; 52 thousand states |
| `terminal_safety` | is the prompt a line editor, and is the line delivered | three characters, three history rows: the row fills, the ring wraps, characters shift by more than one; 1.9 million states |
| `console` | is what is typed what the fingers say, does it act where it is shown, does the screen show the line, do the calls do what they mean | a screen of 3 by 2 with lines of three: they wrap, scroll and fill it; sixteen keys, one at least of every kind, on two boards, one to type and play, one for the desktop's pictures, since what the other's keys change multiplies the states and meets nothing of theirs; two fingers; eight bits and nine bytes: every alignment, head, word and tail; 1.3 million states |
| `files_safety` | does each descriptor deliver its file, does `execute` load the one named, does syserr pass | two descriptors, blocks of two bytes, a file ending at a block's end, one inside a block, an empty one, one name that fills its field; 1.3 million states |
| `desktop` | is the list a stack; are packets framed, what do they do to the list, where do windows lie, what is drawn | the list: seven images, clicks and drags that hit any, every reachable order; packets: a screen of 5 by 9, a move of one step at a time from an image's first place (`MaxMoves = 1`), which already takes windows over each other and over the edge; 342 thousand states |
| `programs` | chat: is what is heard what was said, who speaks, does anybody wait for ever; pacman: can the two pass each other, is the step always straight | two names (one empty), three lines, three runs: one program is run again during or after the other's session; a ring of corridors of 4 by 3 cells on a screen half a cell wider: pacman leaves the maze, finds the bean of the next row outside it and goes past the end of `bean_matrix`; 523 thousand states |

Three runs explore one of several parts from the start, chosen by a variable of
their own: `console` the screen, the library or the keyboard with one of two
boards (`part`), `programs` the chat or the game (`part`), `desktop` the list of
windows by itself or under the mouse (`by`).

Deadlock is checked in every run but these: `programs`, where programs and the game
end, and `console`, where a behaviour of `Library` is one call.

`PROJECT.json` names, for each property of a passing run, a mutant: a plausible
slip in one definition with which TLC finds the property violated. The mutated
forms stand in the modules, marked `Mutant:`, before the definition they change.

**Fairness.** `Kernel` (`kernel_display`): strong fairness of `PitIrq`: the
timer is periodic hardware, and a tick that comes with interrupts off stays
pending and is taken at the next `sti`, so a tick that is possible again and
again happens. Strong fairness of the steps in which the scheduled process goes
on (`Serves`): a process with the CPU executes instructions; being preempted
cannot keep it from the next one for ever. Nothing is assumed of the user: keys
and clicks may stop, and programs need not end. The liveness properties are
`Scheduled` (a terminal with a process gets the CPU again) and `LineServed` (a
command line handed over is acted on).

`Interrupts` (`interrupts`): weak fairness of the handlers' ends, since nothing
interrupts them, strong fairness of the stack load, of the boot's steps and of
the PIT for the reasons above, of a reader that may return while it has the
CPU, and of a tick of the clock in a slice, but only while the clock is faster
than the 20Hz of the scheduler, since then every slice has one. `RtcServed` is
stated under the same condition, and says nothing while somebody sets a slow
rate: a reader then may wait for ever, as TLC shows when the condition is left
out. `ComesUp` needs the boot's steps and the handlers only.

`Chat` (`programs`): weak fairness of each program's own steps, the timeout of
`read_serial` among them; users may never answer.

## 4. Proofs

Every theorem is about the specification a run checks, for all values of its
constants that satisfy the `ASSUME`s of the module; the runs check the same
properties on one instance. What a theorem needs beyond the `ASSUME`s stands in
the third column.

| Theorem | Says | Hypotheses |
|---|---|---|
| `KernelProofs` | | |
| `TypeCorrect` | `Spec => []TypeOK` | `Exposed = {}` |
| `ResumeCorrect` | `Spec => []ResumeSafe`: every stack the scheduler may load is that of its terminal's process | the same |
| `StackCorrect`, `PageCorrect`, `PidMaxCorrect`, `ModeCorrect` | `OwnStack`, `CorrectPage`, `PidMaxCounts`, `ModeMatches`, each always | the same |
| `HaltCorrect`, `FreshCorrect` | `Spec => HaltsItself`, `Spec => FreshPid`: action properties | the same |
| `ScreenCorrect`, `EscapeCorrect` | `ScreenOwned`, `PacmanEscapable`, always | `Exposed = {}`, `StrayFlags = {FALSE}` |
| `InterruptsProofs` | | |
| `AcknowledgedCorrect`, `ResumesCorrect` | `Acknowledged`, `ResumesWhole`, always | `Exposed = {}` |
| `HeapProofs` | | |
| `AccountedCorrect` | `Spec => []Accounted` | `Exposed \subseteq {"refusal"}` |
| `AllocatesCorrect` | `Spec => Allocates`: `malloc` and `free` implement `Allocator` | the same |
| `FitFoundCorrect` | `Spec => FitFound`: a request a gap has room for is granted | the same |
| `FilesProofs` | | |
| `ServesCorrect` | `Spec => Serves`: `Files` implements `Descriptors` | `Exposed = {}` |
| `LoadsNamedCorrect` | `Spec => LoadsNamed`: the image loaded is the file named | the same |
| `PassesCorrect` | `SysSpec => []Passes`: the repository's own test passes, whatever ran before it and interrupts it | |
| `SysIsFiles` | `SysSpec => Spec`: what the test does is what a program may do | |
| `SysServes` | `SysSpec => Serves /\ LoadsNamed`: the two of `Files`, with the test running | `Exposed = {}` |
| `TerminalProofs` | | |
| `LineDeliveredCorrect` | `Spec => LineDelivered`: a read returns the line entered, whole and counted | `"enter_in_read" \notin Exposed` |
| `EditsCorrect` | `Spec => Edits`: the prompt implements `LineEditor` | `"key_in_line" \notin Exposed` |
| `ConsoleProofs` | | |
| `OnScreenCorrect`, `EchoedCorrect` | `OnScreen`, `Echoed`, always | `Exposed = {}` |
| `TypedCorrect`, `ConfinedCorrect` | `Typed` always, `Confined` of every step | `Allowed = {}`, `Board \cap FakeShifts = {}` |
| `CallsRightCorrect` | `CallsRight`, always: what each call of the library answers is what it is for | |
| `DesktopProofs` | | |
| `LinkedCorrect` | `Spec => []Linked`: the pointers forward and backward agree | `Exposed = {}` |
| `StacksCorrect` | `Spec => Stacks`: `Windows` implements `ZOrder` | the same |
| `ClickedCorrect` | `DSpec => Clicked`: `Desktop` implements `Windows` | the same |
| `PaintedCorrect` | `DSpec => []Painted`: each pixel is the topmost image's | the same |
| `FramedCorrect` | `DSpec => []Framed` | |
| `IconInsideCorrect` | `DSpec => []IconInside` | `~EdgeDrags` |
| `ProgramsProofs` | | |
| `HeardCorrect`, `OneSpeaksCorrect`, `ExitMeantCorrect` | `Heard`, `OneSpeaks`, `ExitMeant`, always | |
| `StraightCorrect` | `GameSpec => []Straight` | `StrayBeans = {FALSE}` |
| `NotPassedCorrect` | `GameSpec => NotPassed`: an action property | |

The hypotheses name windows of section 2 that the user or the timer does not
hit; the passing runs are under the same ones. The `ASSUME`s are what the code fixes:
`Icons` is any order of distinct icons out of the four the desktop has, `Size`,
`Margin`, `Title` and `Place` put the icon of the file inside its window as
`modex.c:344-372` does, a receiver of `Chat` holds two bytes or more and a
buffer every name and line with the zero at its end, `Letters` are the
characters 1..127 that are none of the control bytes, a maze of `Pacman` has rows of one length
and as many beans as `count_win` says, a file system of `Files` has `.` and
`rtc` and no empty name. `Syserr` takes from the disk that no two names are
spelled alike, that none has a space, and that "helloo" and "shel" are not among
them, and from `system.h` that the numbers it uses for descriptors no process
has lie above the last. `Library` takes a width of a number that `%x` pads to
whole digits, formats of one or two pieces (`%s` and `%c`, which print what they are given,
are left out), and
strings of signed bytes, in which a zero can only end.

### The invariants

None of the properties is inductive by itself. What strengthens them:

**Kernel.**
Only the assumptions stated in `Kernel` are used (`PidMaxAssumption`,
`StrayAssumption`, `ExposedAssumption`), besides `Exposed = {}`, which each
theorem assumes. Of these properties only `IInv`, which strengthens them all, is
inductive. `Away` says that a child of the shell's terminal is inside `halt`, so
that `pcb_live` is already its parent; the child (`Child`) has the pid above, and
until `pid_max--` (`Out`) it is counted. `Base` is the number of processes that
are neither pacman nor that child, and `Top` is `Base`, or one more with such a
child. `IInv` is a conjunction of:

* `TypeOK`.
* `PidInv`: the GUI and everything ever started under the shell's terminal hold
  the pids `1..Top`, the current process of that terminal is `Base`, and pacman's
  pid lies above. Every other pid is free. This is the heart: programs under a
  pacman on screen may end, so there can be a gap between `Top` and pacman's pid,
  and then `++pid_max` would hand pacman's pid out again; the rest of the
  invariant shows that nothing is started in that state.
* `CtlInv`: what a process is doing follows from where it stands in its chain
  (all but the youngest `wait` inside `execute`), and its page holds its program.
* `FamilyInv`: pacman and every first process of a terminal carry `shell_flag`;
  a process without it has the pid before its own as parent, and the parent's
  stack is saved. So `halt` goes back to a process that waits for it.
* `AwayInv`: the same of a child that is already leaving.
* `ExecuteInv`: a shell between two steps of `execute` has the CPU, pacman does
  not live, a pid is left, and the page mapped is the one the child will have. A
  command line that waits to be read belongs to the displayed terminal.
* `ModeInv`: the video mode against `termLive`, `isPacman` and the life of pacman.
* `CpuInv` and `ResumeInv`: the running context, and each that waits, is the
  terminal's `Runner`, which is its process or the child that is leaving; and
  `esp0` and `exePage` are the process's.

`Invariance` (`Spec => []IInv`) has one step per action, each citing a lemma; the
steps of `halt` and the pieces several actions share (`Launch`, `Show`)
have lemmas of their own, and `CountIInv` derives the cardinality statement of
`PidMaxCounts` from `PidInv`. `kernel_safety` checks the properties themselves on
the instance with `PidMax = 6`; the theorems say that the 6 does not matter.

`DisplayInv` adds `ScreenOwned`, that `isPacman` is set exactly when pacman's
terminal is displayed, and that no running program carries a `shell_flag`; with
`IInv` it gives `PacmanEscapable`. It fails with a stray flag, when a program of
a hidden terminal closes its terminal on returning and takes pacman's screen
away.

**Interrupts.** `IInv` says what stacks there can be (`Stacks`), that until
`entry()` executes the GUI there is one stack and no process (`BootInv`), that
the CPU's own stack is empty or holds one handler, or the window of
`context_switch_pit` and at most one handler above it that is not another tick
(`RunningInv`), and that every other terminal with a process is asleep in one
handler and its own `saved_esp` names that frame (`AsleepInv`). With these,
two frames on a stack are enough. `Acknowledged` is a part itself: the line in
service and the frame on top of a stack change together.

**Heap.** `Descends` says of all pairs of nodes what `Accounted` says of
neighbours: a later node ends below an earlier one's start. `Sized` says that no
node is empty, and `Backed` gives each granted block its node. `FitFound` needs, besides, that the search stops at the
first gap with room, which is then inside the heap.

**Files.** `IndexInv` says where the one `index` stands: 0 unless a directory
is open, and then where that one has been read to. `CallInv` says that the
dentry a call has looked up is the one it goes on to use, and `Sound` that no
descriptor is past its file's end. `ServesCorrect` maps each step to one of
`Descriptors`. How many blocks a read goes over is unbounded: the function that
walks them is shown to deliver the bytes of the file in order (`RoundsAre`) with the least counterexample in place of an induction rule.

**Syserr.** `TestInv` says, from how far the test is, which descriptors are open:
none, the lowest ones as `err_open_lots` opens them, or the highest ones as it
closes them again. `FirstOpen` and `PastOpen` give the bounds, so that each
`open` of the test finds the descriptor the next number, and the one beyond the
last none. `DescriptorsInv` is what `open` leaves untouched of a descriptor.
Nothing is asked of `Exposed`: no interrupt touches a descriptor. For
`SysIsFiles`, each step of the test is matched with the step of `Files` it is.

**Terminal.** `EditInv` says that the row has characters left of
`buf_index_max`, a zero there, and zeros and old newlines right of it, and that
each line of the ring is one a row can hold; `InsertText`, `EraseText` and
`RecallText` say which text a key leaves. `EraseAll` and `InsertAll`, recursive
functions, are followed with the set of arguments at which they do what is
claimed (`Reaches`). `ReadInv` says that from
the reader's wake-up to its return the line stored is the one typed, and the
characters copied are its beginning. `RingInv` says that the rows of the history
in use are the `n` behind `histIdx`, with an empty one before them, and that the
row shown is among them or the empty one: the arrows then walk the list `Past`,
of which a new line drops the oldest once the ring is full.

**Screen.** `ScreenInv` ties the editor to the screen: the line is no longer
than fits, the cursor has as many cells before it as the line has characters
left of the cursor, and these cells show them. Then no way back leaves row 0 and
a scroll moves the line with the cursor. `LineInv` holds at every step of a
program's character too, since no key comes where it would not: `OnScreen`
lets the cursor be one past the row's end, or the page's, only where the step
that brings it back is still to come, and `PenInv` says that what `cursor` was
passed is still where the cursor is.

**Keyboard.** `KeysTold` relates every flag of the handler to the fingers, and
`LinesInv` says that only the shell's terminal has a line and a history, and
that the picture is the displayed terminal's.

**Library.** A behaviour is one call, so that the work is in what a call computes.
`Reads` says that what is left of a number in `itoa`, followed by the digits
written from the lowest on, still stands for the value; each round keeps it
(`DivideReads`), and `Bits` rounds are enough, since each at least halves what is
left. `Sound` is why no zero leads.
`StrrevIs` is the reversal, and `Reading` what the digits mean from the highest
on, which is how `Value` reads them: `ItoaIs`, and with the zeros before them
`PaddedIs`. `RoundIs` says that a round of `printf` at a piece prints its text
and goes past it. Of memory, `ChunksDivide` says that the head, the words and the
tail cover the block once, whatever the alignment, and `Written` what memory is
after so many bytes: the next chunk's source is not written yet, for `memcpy`
because the destination does not start inside the source, for `memmove` because
of the direction it takes.

**Windows.** `Chain(list, m, Null)` says that the pointers are those of a list
running over the sequence `m` of distinct images: `next` of each is the one
after, `prev` the one before, and an image off the list has neither. `ListInv`
says that there is such an `m`, and that the window of the images and the icon of
the file are on it together or not at all. `UnlinkChain`, `LinkChain` and
`DropChain` say what the pointer assignments of `close_window`, `add_img` and
`bring_to_front` do to `m`; `WalkIs` says that the walk along the pointers, a
recursive function, is `m` between its ends. `Linked` and each step of `ZOrder`
follow.

**Desktop.** `NextClicks` takes each byte of the mouse to a step of `Windows`:
the hit test walks the same `m` backwards, so that what is raised or opened is
the first image met. `FrameInv` says how far the mouse is into its packet and the
handler into its own, one byte ahead; `PlaceInv` that every image has a place
and the icon is inside its window; `LastIsNearest` that the last image drawn over a
pixel is the first a walk from the top meets, which makes the painter's order
and the hit test agree in `Painted`.

**Chat.** Of two first runs, the states of a session fall into twelve phases
(`Phase`), each saying who has the turn, what is on each line and what the other
buffer holds of what was said; of tx and rx, into five (`SendInv`). A step goes
from a phase to a phase, for names and lines of any length. Later runs may meet
what an earlier one left, and the properties speak of first runs, as the run does.

**Pacman.** `PacmanInv` says that the step decided is along the axis the figure
is drawn for, that what is counted and what is left make up the beans (if no
byte past `bean_matrix` reads as one), and that a game won leaves no ghost near.

### What proving has shown

* `FitFound` was false of a heap smaller than a request: its `RoomFor` counted a
  request larger than the whole heap as fitting at the bottom, since the end of
  such a block is below 0. It now asks for room inside the heap, and the run has
  such a size.
* `Table`, the mapping of `Files` to `Descriptors`, had a `CASE` whose conditions
  overlap: TLC takes the first, the logic any. They exclude each other now.
* What stays on the stack of `ZOrder` when windows leave is stated by what it
  holds and in what order, so that no particular way to compute it is promised.
* A fake shift makes the handler believe shift is held: `Typed` needs a keyboard
  without them.

### What is only model-checked

* The liveness properties `Scheduled`, `LineServed`, `RtcServed`, `ComesUp` and
  `NoneStuck`: liveness under fairness and ENABLED are beyond the prover.
* `HiddenIsSilent`, `NeverReturns` and, with `launch_in_halt`, `FreshPid` are
  refuted, not held.

The induction theorems of the library take an operator as a parameter, which
the provers cannot instantiate. Where a recursive function's value for every
input matters (`WalkIs`, `RoundsAre`, `ItoaIs`, `InsertAll`), the proofs take the
set of arguments at which the claim fails and its least member, or give the
function in closed form and show that it agrees (`Follows`). No module declares a
RECURSIVE operator.

## 5. Findings, and what the exposed windows break

Three disagreements between the code and its own comments are runs of their own,
recorded with their quotations in `PROJECT.json`: a program sent to the
background goes on writing to the screen until the next tick (`kernel_hidden`);
`execute`, which "never returns", returns at `PID_MAX` to a caller that has
already moved `term_pit` and saved a stack it then leaves (`kernel_limit`); and a
launch in the middle of a child's `halt` is given the pid, and so the kernel
stack, on which the child is still running (`kernel_reuse`).

Others are what the passing runs exclude by name: of these hazards of
`PROJECT.json` the passing properties say nothing beyond that they break what is
named here. Adding the name to the constant in the run's configuration makes TLC
print the counterexample:

| Run, name added | Property | What happens |
|---|---|---|
| `kernel_safety`, `tick_in_execute` | `CorrectPage` | a PIT tick between `set_page` and the copy of the image (`system.c:130`): the shell's page is mapped again and the image is loaded over the shell |
| `kernel_safety`, `switch_before_execute` | `HaltsItself` | Alt+F1 between Enter and the end of `execute` (`system.c:139`): the child becomes the GUI terminal's process, and its `halt` takes down another PCB than its own |
| `heap_safety`, `head_gap` | `FitFound` | a request larger than the gap above the first block (`paging.c:363`) is lost although a gap between two blocks has room |
| `terminal_safety`, `enter_in_read` | `LineDelivered` | Enter between the reader's wake-up and its return (`terminal.c:75`): the count is the second line's, the characters the first's |
| `files_safety`, `irq_in_call` | `LoadsNamed` | a handler that looks a file up (`file.c:105`) between `execute`'s lookup and its load: that file is loaded |
| `kernel_safety`, `launch_from_halt` | `ResumeSafe` | a launch from the spin at the end of a shell's `halt` (`paging.c:269`): the stack saved is a dead process's |
| `kernel_display`, `StrayFlags = {TRUE, FALSE}` | `ScreenOwned`, `PacmanEscapable` | a program with a stray `shell_flag` ends in the background (`system.c:47`): the display goes to the GUI under pacman |
| `interrupts`, `launch_at_limit` | `ResumesWhole` | a launch refused at `PID_MAX` (`paging.c:281`): the stack saved is popped |
| `terminal_safety`, `key_in_line` | `Edits` | Up, Down or Tab with the cursor inside the line (`terminal.c:190`) |
| `files_safety`, `irq_in_call` | `Serves` | the same lookup between `open`'s two uses of `get_entry`: the descriptor is another file's |
| `files_safety`, `two_listings` | `Serves` | a directory read through two descriptors (`file.c:65`): each misses names |
| `desktop`, `reopen` | `Linked` | the gif or the easel is opened again (`modex.c:427`): the list's two readings part |
| `desktop`, `EdgeDrags = TRUE` | `IconInside` | a window dragged along the screen's edge (`modex.c:473`): the icon leaves it |
| `console`, `key_in_output` | `OnScreen`, `Echoed` | a key between `screen_x++` and the test against `NUM_COLS` (`lib.c:287`), or the row's (`264`): the cursor leaves the screen for good |
| `console`, `exit_elsewhere` | `Confined` | a shell ends that is not displayed (`key.c:279`): the display is the desktop's, the picture what it was |
| `programs`, `StrayBeans = {TRUE, FALSE}` | `Straight` | a byte past `bean_matrix` is counted as a bean (`ece391pacman.c:486`): the game is won with beans left |
| `interrupts`, `console` | | the other windows listed with their modules above |

One more, read from the source and not modelled: `load_idt` takes the wrapper of
exception `i` to lie `8*i` bytes after the first (`idt.c:25`). Vector 15 is
skipped but no wrapper is there for it (`wrappers.S:124`), so exceptions 16, 17
and 18 run the wrapper of the next one, and 19 what follows the last.

## 6. Not modelled, and the plan

Not modelled for lack of state worth a model: mode setting, palettes, fonts
(`text.c` is one table of pixels) and images, sound, the registers a wrapper
saves, the disk image and the build. The other user programs are loops around the
system calls, whose order is the environment of the modules here. Of modelled
parts: `getargs` and its one buffer `arg_buf`, which an `execute` on another
terminal replaces before the first program has read it (`system.c:103`); the
fixed mappings of `paging_init`; the pixels the paint program's brush sets (it
may overwrite the easel's frame, and wraps to the row above at the left edge);
the frames of the gif; `load_maze` and the drawing of pacman; `memset_word`,
`memset_dword` and `strcpy`, one loop each. The cell past a row of 129 that the
shift for a character and the newline of Enter write (`terminal.c:137`) is in
`Terminal` (index `BufMax`), but no property speaks of it: it is the first of the
row of terminal 2, which pacman never reads. A line entered before
`terminal_read` is called is lost, since the call clears `enter_flag` first
(`terminal.c:72`); `Terminal` models that, and no property promises more.

Next: `Sessions`, an abstract specification of what a user of the two terminals
sees, implemented by `Kernel`; `getargs`.
