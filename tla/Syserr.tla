-------------------------------- MODULE Syserr --------------------------------
(***************************************************************************)
(* Syserr: the repository's own test of the system calls' refusals         *)
(* (ece391syserr.c, all its tests in turn), run by the shell at any time   *)
(* on the file system of module Files.  Below it are the dispatcher        *)
(* (syscall.S) and what open, read, write, close and vidmap check before   *)
(* they do anything; interrupts come between the calls.                    *)
(***************************************************************************)
EXTENDS Files

CONSTANTS
  Spell,         (* the letters of each name                                 *)
  FieldSize,     (* bytes of a dentry's name (32); a full one has no zero    *)
  Hello, Shell   (* two files of the disk                                    *)

ASSUME SpellAssumption ==
  /\ {Hello, Shell} \subseteq Names /\ FieldSize \in Nat
  /\ \A name \in Names : Spell[name] \in Seq(STRING) /\ Len(Spell[name]) \in 1..FieldSize
  /\ \A a, b \in Names : Spell[a] = Spell[b] => a = b

VARIABLES test,     \* the call made next, or 0 outside the test
          refused,  \* cnt: opens that returned -1
          fail      \* whether a call answered what it should not have
testVars == <<test, refused, fail>>

Stdin == 0
Stdout == 1
Big == 1073741823
ASSUME DescriptorAssumption == HighFd <= Big

(***************************************************************************)
(* Names.  compare goes through the field with the name asked for, until   *)
(* they differ or end together; past the field it takes a name that ends.  *)
(***************************************************************************)
\* Mutant: the name asked for may go on where the file's has ended.
Compare_Prefix(a, b) == IsPrefix(b, a)

Compare(a, b) ==
  \/ Len(b) < FieldSize /\ a = b
  \/ /\ Len(b) = FieldSize /\ IsPrefix(b, a)
     /\ Len(a) > FieldSize => a[FieldSize + 1] = " "

Found(fname) == {name \in Names : Compare(fname, Spell[name])}

(***************************************************************************)
(* What a call checks first.                                               *)
(***************************************************************************)
NotOpen(fd) == \/ fd < Stdin \/ fd > HighFd - 1
               \/ fd \in Fds /\ fileDesc[fd].flags = 0

\* stdin_ops, stdout_ops, file_ops and dir_ops: what cannot be read or written.
\* rtc_write refuses a rate it has not.
Unreadable(fd) == fd = Stdout
Unwritable(fd) == fd = Stdin \/ (fd \in Fds /\ fileDesc[fd].fops \in {"file", "dir"})

\* vidmap: addresses in units of FOURMEG, the kernel below the second.
NoScreen(address) == address < 2

\* SYSCALL: the numbers of SYSCALL_TBL.
NoCallNumber(n) == n <= 0 \/ n > 17

Refuses(c) ==
  CASE c.op = "open"   -> FreeFds = {} \/ Found(c.arg) = {}
    [] c.op = "read"   -> NotOpen(c.arg) \/ Unreadable(c.arg)
    [] c.op = "write"  -> NotOpen(c.arg) \/ Unwritable(c.arg)
    [] c.op = "close"  -> c.arg < LowFd \/ NotOpen(c.arg)
    [] c.op = "vidmap" -> NoScreen(c.arg)
    [] c.op = "number" -> NoCallNumber(c.arg)

(***************************************************************************)
(* The tests: calls, and what is wanted of them.                           *)
(***************************************************************************)
Calls(op, args) == [i \in 1..Len(args) |-> [op |-> op, arg |-> args[i], want |-> "refusal"]]
Upto(first, last) == [i \in 1..(last - first + 1) |-> first + i - 1]

ErrNegFd == Calls("read", <<-Big>>) \o Calls("write", <<-Big>>) \o Calls("close", <<-Big>>)
ErrBigFd == Calls("read", <<Big>>) \o Calls("write", <<Big>>) \o Calls("close", <<Big>>)

\* One file more than there are descriptors (seven and six), and all closed.
ErrOpenLots ==
  [i \in 1..(HighFd - LowFd + 1) |-> [op |-> "open", arg |-> Spell["."], want |-> "count"]]
  \o [i \in 1..(HighFd - LowFd) |-> [op |-> "close", arg |-> LowFd + i - 1, want |-> "any"]]

\* "helloo" and "shel", which are not on the disk; none of its names has a
\* space.
Helloo == Append(Spell[Hello], Last(Spell[Hello]))
Shel   == Front(Spell[Shell])
ASSUME AbsentAssumption ==
  \A name \in Names : Spell[name] \notin {Helloo, Shel} /\ " " \notin Range(Spell[name])

ErrOpen == Calls("open", <<Helloo, Shel, <<>>>>)

ErrUnopened ==
  Calls("close", Upto(0, HighFd - 1))
  \o Calls("read", Upto(LowFd, HighFd - 1)) \o Calls("write", Upto(LowFd, HighFd - 1))

ErrVidmap     == Calls("vidmap", <<0, 1>>)
ErrStdinOut   == Calls("write", <<Stdin>>) \o Calls("read", <<Stdout>>)
ErrSyscallNum == Calls("number", <<Big, -Big, 0>>)

Tests == ErrNegFd \o ErrBigFd \o ErrOpenLots \o ErrOpen \o ErrUnopened
         \o ErrVidmap \o ErrStdinOut \o ErrSyscallNum

(***************************************************************************)
(* The program.                                                            *)
(***************************************************************************)
TestInit == test = 0 /\ refused = 0 /\ fail = FALSE

\* A new process has nothing open.
Start ==
  /\ test = 0 /\ call = NoCall /\ FreeFds = Fds
  /\ test' = 1 /\ refused' = 0 /\ fail' = FALSE
  /\ UNCHANGED vars

\* A call that is not refused does what module Files says; the one file the test
\* opens is the directory.
Perform(c) ==
  IF Refuses(c) THEN OpenFails
  ELSE \/ c.op = "open" /\ \E name \in Found(c.arg) : OpenSpecial(name, "dir")
       \/ c.op = "close" /\ Close(c.arg)
       \/ c.op \notin {"open", "close"} /\ ret' = [val |-> 0, data |-> <<>>]
          /\ UNCHANGED <<fileDesc, getEntry, index, call, image>>

Step ==
  /\ test \in 1..Len(Tests)
  /\ LET c == Tests[test] IN
     /\ Perform(c)
     /\ refused' = IF c.want = "count" /\ ret' = Error THEN refused + 1 ELSE refused
     /\ fail' = (fail \/ (c.want = "refusal" /\ ret' # Error))
  /\ test' = test + 1

\* The result of err_open_lots is looked at, and the program ends.
Finish ==
  /\ test = Len(Tests) + 1
  /\ HaltCloses
  /\ test' = 0 /\ fail' = (fail \/ refused # 1)
  /\ UNCHANGED refused

SysInit == Init /\ TestInit
SysNext ==
  \/ test = 0 /\ Next /\ UNCHANGED testVars
  \/ test # 0 /\ Interrupt /\ UNCHANGED testVars
  \/ Start \/ Step \/ Finish
SysSpec == SysInit /\ [][SysNext]_<<vars, testVars>>
-----------------------------------------------------------------------------
\* "prints [TEST_NAME]: PASS if behavior is EXPECTED" (ece391syserr.c:29-330):
\* every test passes, whatever ran before it and whatever interrupts.
Passes == ~fail
=============================================================================
