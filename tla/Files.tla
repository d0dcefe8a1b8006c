-------------------------------- MODULE Files --------------------------------
(***************************************************************************)
(* The file system and the file descriptors of the shell's terminal:       *)
(* file.c, and open, read, close, the descriptors halt closes and the file *)
(* that execute loads, of system.c.                                        *)
(*                                                                         *)
(* A system call runs with interrupts on, and the dentry it has looked up  *)
(* is a global, get_entry, that background() and an execute started by an  *)
(* interrupt handler also set: a call is two or three steps, one per use.  *)
(***************************************************************************)
EXTENDS Integers, Sequences, FiniteSets, FiniteSetsExt, SequencesExt

CONSTANTS
  Dentries,    (* the names of the directory, in its order                   *)
  Inode,       (* name -> [length, block]: block is a function from 0        *)
  Data,        (* block number -> the bytes of the block, from 0             *)
  BlockSize,   (* FOURKILO                                                   *)
  Magic,       (* the first byte of an executable                            *)
  HighFd,      (* HIGHFD (8)                                                 *)
  Sizes,       (* the nbytes of reads                                        *)
  LoadSize,    (* SHELL_DATA                                                 *)
  IrqNames,    (* the files interrupt handlers open                          *)
  Exposed

Hazards ==
  { "irq_in_call",       \* such a handler between two steps of a call
    "two_listings" }     \* the directory open twice, once it has been read

LowFd == 2
Fds   == LowFd..(HighFd - 1)
Names == Range(Dentries)

ASSUME DentriesAssumption == /\ Dentries \in Seq(STRING)
                             /\ {".", "rtc"} \subseteq Names /\ "" \notin Names
                             /\ IrqNames \subseteq Names /\ IrqNames # {}
ASSUME InodeAssumption    == \A name \in Names : Inode[name].length \in Nat
ASSUME SizeAssumption     == /\ BlockSize \in Nat \ {0} /\ LoadSize \in Nat
                             /\ Sizes \subseteq Nat /\ Sizes # {}
                             /\ HighFd \in Nat /\ HighFd > LowFd
ASSUME ExposedAssumption  == Exposed \subseteq Hazards

VARIABLES
  fileDesc,   \* file_desc of the running process
  getEntry,   \* get_entry
  index,      \* index, of dir_read: one for all
  call,       \* the system call under way: [op, name]
  ret,        \* the last call's answer: [val, data]
  image       \* what execute loaded last

vars == <<fileDesc, getEntry, index, call, ret, image>>

NoCall == [op |-> "none", name |-> ""]
Error  == [val |-> -1, data |-> <<>>]

\* The shell runs; the kernel has executed the GUI and read its background.
Init ==
  /\ fileDesc \in [Fds -> {[fops |-> "file", inode |-> ".", pos |-> 0, flags |-> 0]}]
  /\ getEntry \in IrqNames
  /\ index = 0
  /\ call = NoCall /\ ret = Error /\ image = <<>>

(***************************************************************************)
(* read_data: up to n bytes from offset on, block by block.                *)
(***************************************************************************)
\* Mutant: the block number is not moved on at the end of a block.
NextByte_SameBlock(s, node) ==
  [off |-> (s.off + 1) % BlockSize, blk |-> s.blk,
   out |-> Append(s.out, Data[node.block[s.blk]][s.off])]

NextByte(s, node) ==
  LET last == s.off + 1 >= BlockSize
  IN [off |-> IF last THEN 0 ELSE s.off + 1,
      blk |-> IF last THEN s.blk + 1 ELSE s.blk,
      out |-> Append(s.out, Data[node.block[s.blk]][s.off])]

\* Where the loop is after each of its rounds.
Rounds(node, offset, count) ==
  LET after[i \in 0..count] ==
        IF i = 0
        THEN [off |-> offset % BlockSize, blk |-> offset \div BlockSize, out |-> <<>>]
        ELSE NextByte(after[i - 1], node)
  IN after

ReadData(name, offset, n) ==
  LET node  == Inode[name]
      count == Min({node.length - offset, n})
  IN IF offset >= node.length THEN <<>> ELSE Rounds(node, offset, count)[count].out

(***************************************************************************)
(* open: "." and "rtc" by name, anything else through the directory.       *)
(***************************************************************************)
FreeFds == {fd \in Fds : fileDesc[fd].flags = 0}
DirFds  == {fd \in Fds : fileDesc[fd].fops = "dir" /\ fileDesc[fd].flags = 1}

Opened(fd) == ret' = [val |-> fd, data |-> <<>>]

OpenSpecial(name, fops) ==
  /\ call = NoCall /\ FreeFds # {}
  /\ name = "." /\ DirFds # {} /\ index # 0 => "two_listings" \in Exposed
  /\ fileDesc' = [fileDesc EXCEPT ![Min(FreeFds)].fops = fops,
                                  ![Min(FreeFds)].flags = 1]
  /\ Opened(Min(FreeFds))
  /\ UNCHANGED <<getEntry, index, call, image>>

OpenLookup(name) ==
  /\ call = NoCall /\ FreeFds # {}
  /\ getEntry' = name
  /\ call' = [op |-> "open", name |-> name]
  /\ UNCHANGED <<fileDesc, index, ret, image>>

\* No descriptor, or no such file.
OpenFails ==
  /\ call = NoCall
  /\ ret' = Error
  /\ UNCHANGED <<fileDesc, getEntry, index, call, image>>

OpenFinish ==
  /\ call.op = "open"
  /\ fileDesc' = [fileDesc EXCEPT ![Min(FreeFds)] =
                    [fops |-> "file", inode |-> getEntry, pos |-> 0, flags |-> 1]]
  /\ Opened(Min(FreeFds))
  /\ call' = NoCall
  /\ UNCHANGED <<getEntry, index, image>>

(***************************************************************************)
(* read and close.                                                         *)
(***************************************************************************)
PosAfter(pos, data, n) == pos + Len(data)

ReadFile(fd, n) ==
  LET d    == fileDesc[fd]
      data == ReadData(d.inode, d.pos, n)
  IN /\ call = NoCall /\ d.flags = 1 /\ d.fops = "file"
     /\ ret' = [val |-> Len(data), data |-> data]
     /\ fileDesc' = [fileDesc EXCEPT ![fd].pos = PosAfter(d.pos, data, n)]
     /\ UNCHANGED <<getEntry, index, call, image>>

\* dir_read: one name a call, whatever nbytes is.
ReadDir(fd) ==
  /\ call = NoCall /\ fileDesc[fd].flags = 1 /\ fileDesc[fd].fops = "dir"
  /\ DirFds # {fd} => "two_listings" \in Exposed
  /\ IF index >= Len(Dentries)
       THEN ret' = [val |-> 0, data |-> <<>>] /\ UNCHANGED index
       ELSE /\ ret' = [val |-> 1, data |-> <<Dentries[index + 1]>>]
            /\ index' = index + 1
  /\ UNCHANGED <<fileDesc, getEntry, call, image>>

\* rtc_read: 0, once the clock has ticked.
ReadRtc(fd) ==
  /\ call = NoCall /\ fileDesc[fd].flags = 1 /\ fileDesc[fd].fops = "rtc"
  /\ ret' = [val |-> 0, data |-> <<>>]
  /\ UNCHANGED <<fileDesc, getEntry, index, call, image>>

\* read or close of a descriptor that is not open.
BadFd(fd) ==
  /\ call = NoCall /\ fileDesc[fd].flags = 0
  /\ ret' = Error
  /\ UNCHANGED <<fileDesc, getEntry, index, call, image>>

\* Mutant: closing the directory leaves index where it is.
IndexAfterClose_Kept(fds) == index

IndexAfterClose(fds) == IF fds \cap DirFds # {} THEN 0 ELSE index

Close(fd) ==
  /\ call = NoCall /\ fileDesc[fd].flags = 1
  /\ index' = IndexAfterClose({fd})
  /\ fileDesc' = [fileDesc EXCEPT ![fd].flags = 0]
  /\ ret' = [val |-> 0, data |-> <<>>]
  /\ UNCHANGED <<getEntry, call, image>>

\* halt closes what the process left open.
HaltCloses ==
  /\ call = NoCall
  /\ index' = IndexAfterClose(Fds)
  /\ fileDesc' = [fd \in Fds |-> [fileDesc[fd] EXCEPT !.flags = 0]]
  /\ UNCHANGED <<getEntry, call, ret, image>>

(***************************************************************************)
(* execute, called by the shell, which has nothing open: the program's     *)
(* first bytes are read and compared, then the program is loaded.          *)
(***************************************************************************)
ExecOpen(name) ==
  /\ call = NoCall /\ FreeFds = Fds
  /\ getEntry' = name
  /\ call' = [op |-> "exec", name |-> name]
  /\ UNCHANGED <<fileDesc, index, ret, image>>

\* What buffer holds: of a file too short to fill it, what was on the stack.
Headers(name) ==
  IF Inode[name].length = 0 THEN {<<>>, <<Magic>>} ELSE {ReadData(name, 0, 1)}

ExecHeader ==
  /\ call.op = "exec"
  /\ \E head \in Headers(getEntry) :
       call' = IF head = <<Magic>> THEN [call EXCEPT !.op = "load"] ELSE NoCall
  /\ UNCHANGED <<fileDesc, getEntry, index, ret, image>>

\* The new process starts with every descriptor closed.
ExecLoad ==
  /\ call.op = "load"
  /\ image' = ReadData(getEntry, 0, LoadSize)
  /\ call' = NoCall
  /\ fileDesc' = [fd \in Fds |-> [fileDesc[fd] EXCEPT !.flags = 0]]
  /\ UNCHANGED <<getEntry, index, ret>>

\* background(), or a program an interrupt handler executes.
Interrupt ==
  /\ call # NoCall => "irq_in_call" \in Exposed
  /\ getEntry' \in IrqNames
  /\ UNCHANGED <<fileDesc, index, call, ret, image>>

Next ==
  \/ OpenSpecial(".", "dir") \/ OpenSpecial("rtc", "rtc")
  \/ \E name \in Names \ {".", "rtc"} : OpenLookup(name)
  \/ \E name \in Names : ExecOpen(name)
  \/ OpenFails \/ OpenFinish \/ HaltCloses \/ ExecHeader \/ ExecLoad \/ Interrupt
  \/ \E fd \in Fds : \/ ReadDir(fd) \/ ReadRtc(fd) \/ BadFd(fd) \/ Close(fd)
                     \/ \E n \in Sizes : ReadFile(fd, n)

Spec == Init /\ [][Next]_vars
-----------------------------------------------------------------------------
\* What the disk holds: the directory's names, and each file's bytes in the
\* order of its blocks.
Bytes(name) ==
  [i \in 1..Inode[name].length |->
     Data[Inode[name].block[(i - 1) \div BlockSize]][(i - 1) % BlockSize]]

Contents ==
  [name \in Names |-> CASE name = "."   -> Dentries
                        [] name = "rtc" -> <<>>
                        [] OTHER        -> Bytes(name)]

\* open, read and close behave like Descriptors: every descriptor delivers the
\* file it was opened for, in order, from its beginning, and the directory
\* all its names.
Table ==
  [fd \in Fds |->
     LET d == fileDesc[fd]
     IN IF d.flags = 0 THEN [file |-> "", pos |-> 0]
        ELSE CASE d.fops = "dir"  -> [file |-> ".", pos |-> index]
               [] d.fops = "rtc"  -> [file |-> "rtc", pos |-> 0]
               [] d.fops = "file" -> [file |-> d.inode, pos |-> d.pos]]

D == INSTANCE Descriptors WITH
       table <- Table, asked <- IF call.op = "open" THEN call.name ELSE "",
       ByItem <- {"."}
Serves == D!Spec

\* "get_entry now has access to the dentry block that holds the file info"
\* (file_open): what execute loads is the beginning of the file named.
LoadsNamed ==
  [][call.op = "load" /\ call' = NoCall =>
       image' = SubSeq(Bytes(call.name), 1, Min({LoadSize, Inode[call.name].length}))]_vars
=============================================================================
