----------------------------- MODULE FilesProofs -----------------------------
(***************************************************************************)
(* Proofs about Files, for every disk, every size of block and every       *)
(* number of descriptors.                                                  *)
(***************************************************************************)
EXTENDS Syserr, SequenceTheorems, WellFoundedInduction, TLAPS

(***************************************************************************)
(* Numbers.                                                                *)
(***************************************************************************)
\* The least number of a nonempty set.
LEMMA MinIsLeast ==
  ASSUME NEW S \in SUBSET Nat, S # {}
  PROVE  Min(S) \in S /\ \A y \in S : Min(S) <= y
<1>1. PICK x \in S : \A y \in S : ~(<<y, x>> \in OpToRel(<, Nat))
  BY NatLessThanWellFounded, WFMin
<1>2. \A y \in S : x <= y
  <2> SUFFICES ASSUME NEW y \in S PROVE x <= y
    OBVIOUS
  <2>1. x \in Nat /\ y \in Nat
    BY <1>1
  <2>2. ~(y < x)
    BY <1>1, <2>1 DEF OpToRel
  <2>3. QED
    BY <2>1, <2>2
<1>3. \E z \in S : \A y \in S : z <= y
  BY <1>1, <1>2
<1>4. QED
  BY <1>3 DEF Min

\* The lesser of two.
LEMMA MinOfTwo ==
  ASSUME NEW a \in Nat, NEW b \in Nat
  PROVE  Min({a, b}) = IF a <= b THEN a ELSE b
<1>1. Min({a, b}) \in {a, b} /\ \A y \in {a, b} : Min({a, b}) <= y
  BY MinIsLeast
<1>2. QED
  BY <1>1

\* Division with a remainder.
LEMMA Division ==
  ASSUME NEW a \in Nat, NEW b \in Nat \ {0}
  PROVE  /\ a \div b \in Nat /\ a % b \in 0..(b - 1)
         /\ a = b * (a \div b) + (a % b)
OBVIOUS

\* And back.
LEMMA Quotient ==
  ASSUME NEW q \in Nat, NEW b \in Nat \ {0}, NEW r \in 0..(b - 1)
  PROVE  (b * q + r) \div b = q /\ (b * q + r) % b = r
OBVIOUS

\* One byte on: the next byte of the block, or the first of the next block.
LEMMA OneOn ==
  ASSUME NEW a \in Nat, NEW b \in Nat \ {0}
  PROVE  /\ (a % b) + 1 >= b => (a + 1) % b = 0 /\ (a + 1) \div b = (a \div b) + 1
         /\ ~((a % b) + 1 >= b) => /\ (a + 1) % b = (a % b) + 1
                                   /\ (a + 1) \div b = a \div b
<1> DEFINE q == a \div b
           r == a % b
<1>1. q \in Nat /\ r \in 0..(b - 1) /\ a = b * q + r
  BY Division
<1> HIDE DEF q, r
<1>2. CASE r + 1 >= b
  <2> DEFINE z == q + 1
  <2>1. r + 1 = b
    BY <1>1, <1>2
  <2>2. b * z = b * q + b
    BY <1>1
  <2>3. z \in Nat /\ 0 \in 0..(b - 1)
    BY <1>1
  <2> HIDE DEF z
  <2>4. a + 1 = b * z + 0
    BY <1>1, <2>1, <2>2, <2>3
  <2>5. (b * z + 0) \div b = z /\ (b * z + 0) % b = 0
    BY <2>3, Quotient
  <2>6. QED
    BY <1>2, <2>4, <2>5 DEF q, r, z
<1>3. CASE ~(r + 1 >= b)
  <2>1. r + 1 \in 0..(b - 1)
    BY <1>1, <1>3
  <2>2. a + 1 = b * q + (r + 1)
    BY <1>1
  <2>3. (a + 1) \div b = q /\ (a + 1) % b = r + 1
    BY <1>1, <2>1, <2>2, Quotient
  <2>4. QED
    BY <1>3, <2>3 DEF q, r
<1>4. QED
  BY <1>2, <1>3 DEF r

(***************************************************************************)
(* read_data.                                                              *)
(***************************************************************************)
\* The byte at position p of a file.
ByteOf(node, p) == Data[node.block[p \div BlockSize]][p % BlockSize]

\* Where the loop should be after i rounds.
State(node, o, i) ==
  [off |-> (o + i) % BlockSize, blk |-> (o + i) \div BlockSize,
   out |-> [j \in 1..i |-> ByteOf(node, o + j - 1)]]

\* A round of the loop reads the next byte of the file.
LEMMA RoundReads ==
  ASSUME NEW node, NEW o \in Nat, NEW i \in Nat
  PROVE  NextByte(State(node, o, i), node) = State(node, o, i + 1)
<1> DEFINE a == o + i
           s == [j \in 1..i |-> ByteOf(node, o + j - 1)]
           t == [j \in 1..(i + 1) |-> ByteOf(node, o + j - 1)]
<1>1. a \in Nat /\ BlockSize \in Nat \ {0} /\ o + (i + 1) = a + 1
  BY SizeAssumption
<1>2. Append(s, ByteOf(node, a)) = t
  <2>1. Len(s) = i
    OBVIOUS
  <2>2. Append(s, ByteOf(node, a)) =
          [j \in 1..(i + 1) |-> IF j = i + 1 THEN ByteOf(node, a) ELSE s[j]]
    BY <2>1
  <2>3. a = o + (i + 1) - 1
    OBVIOUS
  <2>4. QED
    BY <2>2, <2>3
<1>3. State(node, o, i) = [off |-> a % BlockSize, blk |-> a \div BlockSize, out |-> s]
  BY DEF State
<1>4. State(node, o, i + 1) =
        [off |-> (a + 1) % BlockSize, blk |-> (a + 1) \div BlockSize, out |-> t]
  BY <1>1 DEF State
<1>5. ByteOf(node, a) = Data[node.block[a \div BlockSize]][a % BlockSize]
  BY DEF ByteOf
<1> HIDE DEF s, t, a
<1>6. NextByte(State(node, o, i), node) =
        [off |-> IF (a % BlockSize) + 1 >= BlockSize THEN 0 ELSE (a % BlockSize) + 1,
         blk |-> IF (a % BlockSize) + 1 >= BlockSize THEN (a \div BlockSize) + 1
                 ELSE a \div BlockSize,
         out |-> t]
  <2> DEFINE e == State(node, o, i)
             x == a % BlockSize
             y == a \div BlockSize
  <2>1. e.off = x /\ e.blk = y /\ e.out = s
    BY <1>3
  <2>2. Append(e.out, Data[node.block[e.blk]][e.off]) = t
    BY <1>2, <1>5, <2>1
  <2> HIDE DEF e, x, y
  <2>3. NextByte(e, node) = [off |-> IF x + 1 >= BlockSize THEN 0 ELSE x + 1,
                             blk |-> IF x + 1 >= BlockSize THEN y + 1 ELSE y,
                             out |-> t]
    BY <2>1, <2>2 DEF NextByte
  <2>4. QED
    BY <2>3, Zenon DEF e, x, y
<1>7. /\ (a % BlockSize) + 1 >= BlockSize =>
           (a + 1) % BlockSize = 0 /\ (a + 1) \div BlockSize = (a \div BlockSize) + 1
      /\ ~((a % BlockSize) + 1 >= BlockSize) =>
           /\ (a + 1) % BlockSize = (a % BlockSize) + 1
           /\ (a + 1) \div BlockSize = a \div BlockSize
  BY <1>1, OneOn, Zenon
<1>8. QED
  BY <1>4, <1>6, <1>7, Zenon

\* So that is where it is.
LEMMA RoundsAre ==
  ASSUME NEW node, NEW o \in Nat, NEW count \in Nat, NEW i \in 0..count
  PROVE  Rounds(node, o, count)[i] = State(node, o, i)
<1> DEFINE start == [off |-> o % BlockSize, blk |-> o \div BlockSize, out |-> <<>>]
           g == [k \in 0..count |-> State(node, o, k)]
           f == Rounds(node, o, count)
<1>1. start = State(node, o, 0)
  <2>1. <<>> = [j \in 1..0 |-> ByteOf(node, o + j - 1)]
    OBVIOUS
  <2>2. o + 0 = o
    OBVIOUS
  <2>3. QED
    BY <2>1, <2>2, Zenon DEF State
<1>2. \A k \in 0..count : k # 0 => NextByte(State(node, o, k - 1), node) = State(node, o, k)
  <2> SUFFICES ASSUME NEW k \in 0..count, k # 0
               PROVE  NextByte(State(node, o, k - 1), node) = State(node, o, k)
    OBVIOUS
  <2>1. k - 1 \in Nat /\ (k - 1) + 1 = k
    OBVIOUS
  <2>2. QED
    BY <2>1, RoundReads
<1>3. g = [k \in 0..count |-> IF k = 0 THEN start ELSE NextByte(g[k - 1], node)]
  <2>1. ASSUME NEW k \in 0..count
        PROVE  State(node, o, k) = IF k = 0 THEN start ELSE NextByte(g[k - 1], node)
    <3>1. CASE k = 0
      BY <1>1, <3>1
    <3>2. CASE k # 0
      <4>1. k - 1 \in 0..count
        BY <3>2
      <4>2. g[k - 1] = State(node, o, k - 1)
        BY <4>1
      <4> HIDE DEF g
      <4>3. QED
        BY <1>2, <3>2, <4>2
    <3>3. QED
      BY <3>1, <3>2
  <2>2. QED
    BY <2>1, Zenon
<1>4. f = [k \in 0..count |-> IF k = 0 THEN start ELSE NextByte(f[k - 1], node)]
  <2>1. \E h : h = [k \in 0..count |-> IF k = 0 THEN start ELSE NextByte(h[k - 1], node)]
    BY <1>3
  <2>2. QED
    BY <2>1 DEF Rounds
<1> HIDE DEF start, f
<1> DEFINE bad == {k \in 0..count : f[k] # State(node, o, k)}
<1>5. bad = {}
  <2> SUFFICES ASSUME bad # {} PROVE FALSE
    OBVIOUS
  <2> DEFINE m == Min(bad)
  <2>1. bad \in SUBSET Nat
    OBVIOUS
  <2>2. m \in bad /\ \A y \in bad : m <= y
    BY <2>1, MinIsLeast
  <2> HIDE DEF m
  <2>3. m \in 0..count /\ f[m] # State(node, o, m)
    BY <2>2
  <2>4. CASE m = 0
    BY <1>1, <1>4, <2>3, <2>4
  <2>5. CASE m # 0
    <3>1. m - 1 \in 0..count /\ ~(m <= m - 1)
      BY <2>3, <2>5
    <3>2. f[m - 1] = State(node, o, m - 1)
      BY <2>2, <3>1
    <3>3. f[m] = NextByte(f[m - 1], node)
      BY <1>4, <2>3, <2>5
    <3>4. QED
      BY <1>2, <2>3, <2>5, <3>2, <3>3
  <2>6. QED
    BY <2>4, <2>5
<1>6. QED
  BY <1>5 DEF f

\* read_data gives back the part of the file asked for, as far as there is one.
LEMMA ReadDataIs ==
  ASSUME NEW name \in Names, NEW o \in Nat, NEW n \in Nat
  PROVE  /\ ReadData(name, o, n) =
              SubSeq(Bytes(name), o + 1, Min({o + n, Inode[name].length}))
         /\ Len(ReadData(name, o, n)) \in Nat
         /\ o <= Inode[name].length =>
              o + Len(ReadData(name, o, n)) <= Inode[name].length
<1> DEFINE node == Inode[name]
           size == node.length
           b == Bytes(name)
<1>1. size \in Nat
  BY InodeAssumption
<1>2. b = [i \in 1..size |-> ByteOf(node, i - 1)]
  BY DEF Bytes, ByteOf
<1>3. CASE o >= size
  <2>1. ReadData(name, o, n) = <<>>
    BY <1>3 DEF ReadData
  <2>2. Min({o + n, size}) = size
    <3>1. o + n \in Nat /\ (o + n <= size => o + n = size)
      BY <1>1, <1>3
    <3> HIDE DEF size
    <3>2. QED
      BY <1>1, <3>1, MinOfTwo
  <2>3. SubSeq(b, o + 1, size) = <<>>
    <3>1. size < o + 1 /\ size \in Int /\ o + 1 \in Int
      BY <1>1, <1>3
    <3> HIDE DEF size, b
    <3>2. QED
      BY <3>1, SubSeqEmpty
  <2>4. Len(<<>>) = 0
    OBVIOUS
  <2>5. ReadData(name, o, n) = SubSeq(b, o + 1, Min({o + n, size}))
    BY <2>1, <2>2, <2>3, Zenon
  <2>6. Len(ReadData(name, o, n)) = 0
    BY <2>1, <2>4
  <2>7. Len(ReadData(name, o, n)) \in Nat
    BY <2>6
  <2>8. o + Len(ReadData(name, o, n)) = o
    BY <2>6
  <2>9. o <= size => o + Len(ReadData(name, o, n)) <= size
    BY <2>8
  <2>10. QED
    BY <2>5, <2>7, <2>9, Zenon
<1>4. CASE ~(o >= size)
  <2> DEFINE c == Min({size - o, n})
             r == [j \in 1..c |-> ByteOf(node, o + j - 1)]
  <2>1. size - o \in Nat
    BY <1>1, <1>4
  <2>2. c = IF size - o <= n THEN size - o ELSE n
    <3> HIDE DEF size
    <3>1. QED
      BY <2>1, MinOfTwo
  <2>3. c \in Nat /\ o + c <= size
    <3> HIDE DEF size
    <3>1. QED
      BY <1>1, <2>1, <2>2
  <2>4. Min({o + n, size}) = o + c
    <3> HIDE DEF size, c
    <3>1. o + n \in Nat
      OBVIOUS
    <3>2. Min({o + n, size}) = IF o + n <= size THEN o + n ELSE size
      BY <1>1, <3>1, MinOfTwo
    <3>3. QED
      BY <1>1, <2>2, <3>2
  <2> HIDE DEF c
  <2>5. ReadData(name, o, n) = r
    <3>1. ReadData(name, o, n) = Rounds(node, o, c)[c].out
      BY <1>4 DEF ReadData, c
    <3>2. Rounds(node, o, c)[c] = State(node, o, c)
      BY <2>3, RoundsAre
    <3>3. QED
      BY <3>1, <3>2 DEF State
  <2>6. Len(r) = c
    BY <2>3
  <2>7. SubSeq(b, o + 1, o + c) = r
    <3> DEFINE S == {ByteOf(node, i - 1) : i \in 1..size}
               t == SubSeq(b, o + 1, o + c)
    <3>1. \A i \in (o + 1)..(o + c) : b[i] = ByteOf(node, i - 1) /\ b[i] \in S
      <4> SUFFICES ASSUME NEW i \in (o + 1)..(o + c)
                   PROVE  b[i] = ByteOf(node, i - 1) /\ b[i] \in S
        OBVIOUS
      <4>1. i \in 1..size
        BY <1>1, <2>3
      <4>2. QED
        BY <1>2, <4>1
    <3> HIDE DEF b, S, size, node
    <3>2. /\ t \in Seq(S)
          /\ Len(t) = IF o + 1 <= o + c THEN o + c - (o + 1) + 1 ELSE 0
          /\ \A i \in 1..(o + c - (o + 1) + 1) : t[i] = b[o + 1 + i - 1]
      BY <2>3, <3>1, SubSeqProperties
    <3>3. Len(t) = c /\ o + c - (o + 1) + 1 = c
      BY <2>3, <3>2
    <3> HIDE DEF t
    <3>4. \A i \in 1..c : t[i] = ByteOf(node, o + i - 1) /\ t[i] \in S
      <4> SUFFICES ASSUME NEW i \in 1..c
                   PROVE  t[i] = ByteOf(node, o + i - 1) /\ t[i] \in S
        OBVIOUS
      <4>1. o + i \in (o + 1)..(o + c) /\ o + 1 + i - 1 = o + i
        BY <2>3
      <4>2. t[i] = b[o + i]
        BY <3>2, <3>3, <4>1
      <4>3. QED
        BY <3>1, <4>1, <4>2
    <3>5. r \in Seq(S)
      <4>1. \A i \in 1..c : ByteOf(node, o + i - 1) \in S
        BY <3>4
      <4>2. r \in [1..c -> S]
        BY <4>1
      <4>3. QED
        BY <2>3, <4>2, SeqDef
    <3>6. \A i \in 1..Len(t) : t[i] = r[i]
      BY <3>3, <3>4
    <3> HIDE DEF r
    <3>7. t = r
      BY <2>6, <3>2, <3>3, <3>5, <3>6, SeqEqual
    <3>8. QED
      BY <3>7 DEF t
  <2>8. QED
    BY <1>1, <2>3, <2>4, <2>5, <2>6, <2>7
<1>5. QED
  BY <1>3, <1>4

(***************************************************************************)
(* The invariant.                                                          *)
(***************************************************************************)
Descriptor == [fops : {"file", "dir", "rtc"}, inode : Names, pos : Nat, flags : {0, 1}]

\* An open file is a file, read no further than its end.
Sound(d) ==
  d.flags = 1 /\ d.fops = "file" =>
    d.inode \notin {".", "rtc"} /\ d.pos <= Inode[d.inode].length

\* One index serves whoever reads the directory: it is where the one open
\* directory has been read to.
IndexInv ==
  /\ index \in 0..Len(Dentries)
  /\ DirFds = {} => index = 0
  /\ \A c, d \in DirFds : c # d => index = 0

\* The dentry a call has looked up is the one it uses.
CallInv ==
  /\ call \in [op : {"none", "open", "exec", "load"}, name : Names \cup {""}]
  /\ call.op = "none" => call = NoCall
  /\ call.op # "none" => call.name \in Names /\ getEntry = call.name
  /\ call.op = "open" => call.name \notin {".", "rtc"} /\ FreeFds # {}
  /\ call.op \in {"exec", "load"} => FreeFds = Fds

FilesInv ==
  /\ fileDesc \in [Fds -> Descriptor]
  /\ \A fd \in Fds : Sound(fileDesc[fd])
  /\ getEntry \in Names
  /\ IndexInv
  /\ CallInv

\* The directory has so many names.
LEMMA DirectoryLength ==
  /\ Len(Dentries) \in Nat
  /\ \A i \in 1..Len(Dentries) : Dentries[i] \in STRING
<1>1. Dentries \in Seq(STRING)
  BY DentriesAssumption, Zenon
<1>2. QED
  BY <1>1, LenProperties, ElementOfSeq

\* The lowest of the free descriptors.
LEMMA Lowest ==
  ASSUME FreeFds # {}
  PROVE  Min(FreeFds) \in FreeFds /\ Min(FreeFds) \in Fds /\ fileDesc[Min(FreeFds)].flags = 0
<1>1. FreeFds \in SUBSET Nat
  BY SizeAssumption DEF FreeFds, Fds, LowFd
<1>2. QED
  BY <1>1, MinIsLeast DEF FreeFds

\* It holds when the shell runs.
LEMMA InitFiles == Init => FilesInv
<1> SUFFICES ASSUME Init PROVE FilesInv
  OBVIOUS
<1> USE DEF Init
<1>1. \A fd \in Fds : fileDesc[fd] = [fops |-> "file", inode |-> ".", pos |-> 0, flags |-> 0]
  OBVIOUS
<1>2. fileDesc \in [Fds -> Descriptor] /\ \A fd \in Fds : Sound(fileDesc[fd])
  <2>1. "." \in Names
    BY DentriesAssumption
  <2>2. [fops |-> "file", inode |-> ".", pos |-> 0, flags |-> 0] \in Descriptor
    BY <2>1 DEF Descriptor
  <2>3. fileDesc \in [Fds -> Descriptor]
    BY <2>2
  <2>4. \A fd \in Fds : Sound(fileDesc[fd])
    BY <1>1 DEF Sound
  <2>5. QED
    BY <2>3, <2>4
<1>3. DirFds = {}
  BY <1>1 DEF DirFds
<1>4. IndexInv
  <2>1. Len(Dentries) \in Nat
    BY DirectoryLength
  <2>2. QED
    BY <1>3, <2>1 DEF IndexInv
<1>5. CallInv
  BY DEF CallInv, NoCall
<1>6. getEntry \in Names
  BY DentriesAssumption
<1>7. QED
  BY <1>2, <1>4, <1>5, <1>6 DEF FilesInv

\* What is in a descriptor.
LEMMA Fields ==
  ASSUME NEW d \in Descriptor
  PROVE  /\ d.fops \in {"file", "dir", "rtc"} /\ d.inode \in Names
         /\ d.pos \in Nat /\ d.flags \in {0, 1}
         /\ d = [fops |-> d.fops, inode |-> d.inode, pos |-> d.pos, flags |-> d.flags]
BY DEF Descriptor

IsDir(d) == d.fops = "dir" /\ d.flags = 1

\* A step that changes one descriptor.
Change(m, d) == fileDesc' = [f \in Fds |-> IF f = m THEN d ELSE fileDesc[f]]

\* What a change of one descriptor leaves of the invariant.
LEMMA ChangeOne ==
  ASSUME FilesInv, NEW m \in Fds, NEW d \in Descriptor, Sound(d), Change(m, d)
  PROVE  /\ fileDesc' \in [Fds -> Descriptor]
         /\ \A fd \in Fds : Sound(fileDesc'[fd])
         /\ IsDir(d) => DirFds' = DirFds \cup {m}
         /\ ~IsDir(d) => DirFds' = DirFds \ {m}
<1>1. \A f \in Fds : fileDesc'[f] = IF f = m THEN d ELSE fileDesc[f]
  BY DEF Change
<1>2. fileDesc' \in [Fds -> Descriptor]
  BY DEF Change, FilesInv
<1>3. \A fd \in Fds : Sound(fileDesc'[fd])
  <2> SUFFICES ASSUME NEW fd \in Fds PROVE Sound(fileDesc'[fd])
    OBVIOUS
  <2>1. CASE fd = m
    BY <1>1, <2>1
  <2>2. CASE fd # m
    BY <1>1, <2>2 DEF FilesInv
  <2>3. QED
    BY <2>1, <2>2
<1>4. DirFds = {f \in Fds : IsDir(fileDesc[f])} /\ DirFds' = {f \in Fds : IsDir(fileDesc'[f])}
  BY DEF DirFds, IsDir
<1> HIDE DEF IsDir
<1>5. /\ IsDir(d) => DirFds' = DirFds \cup {m}
      /\ ~IsDir(d) => DirFds' = DirFds \ {m}
  BY <1>1, <1>4
<1>6. QED
  BY <1>2, <1>3, <1>5

\* Between calls nothing is looked up.
LEMMA Idle ==
  ASSUME call = NoCall
  PROVE  CallInv
BY DEF CallInv, NoCall

\* open of a special file.
OpenedAs(d, fops) == [d EXCEPT !.fops = fops, !.flags = 1]

LEMMA SpecialIs ==
  ASSUME FilesInv, Exposed = {}, NEW name, NEW fops \in {"dir", "rtc"},
         name = "." <=> fops = "dir", OpenSpecial(name, fops)
  PROVE  /\ Min(FreeFds) \in Fds /\ Min(FreeFds) \in FreeFds /\ FreeFds # {}
         /\ OpenedAs(fileDesc[Min(FreeFds)], fops) \in Descriptor
         /\ OpenedAs(fileDesc[Min(FreeFds)], fops).fops = fops
         /\ OpenedAs(fileDesc[Min(FreeFds)], fops).flags = 1
         /\ Change(Min(FreeFds), OpenedAs(fileDesc[Min(FreeFds)], fops))
         /\ fops = "dir" => index = 0
         /\ call = NoCall /\ UNCHANGED <<getEntry, index, call, image>>
         /\ ret' = [val |-> Min(FreeFds), data |-> <<>>]
<1> DEFINE m == Min(FreeFds)
           d == fileDesc[m]
<1>1. FreeFds # {} /\ call = NoCall /\ UNCHANGED <<getEntry, index, call, image>>
      /\ ret' = [val |-> m, data |-> <<>>]
  BY DEF OpenSpecial, Opened
<1>2. m \in Fds /\ m \in FreeFds
  BY <1>1, Lowest
<1>3. fileDesc' = [fileDesc EXCEPT ![m].fops = fops, ![m].flags = 1]
  BY DEF OpenSpecial
<1> HIDE DEF m
<1>4. fileDesc \in [Fds -> Descriptor] /\ d \in Descriptor
  BY <1>2 DEF FilesInv
<1>5. OpenedAs(d, fops) \in Descriptor
  BY <1>4 DEF OpenedAs, Descriptor
<1>6. OpenedAs(d, fops).fops = fops /\ OpenedAs(d, fops).flags = 1
  BY <1>4 DEF OpenedAs, Descriptor
<1>7. Change(m, OpenedAs(d, fops))
  BY <1>2, <1>3, <1>4 DEF Change, OpenedAs
<1>8. fops = "dir" => index = 0
  <2>1. fops = "dir" => DirFds = {} \/ index = 0
    BY DEF OpenSpecial
  <2>2. QED
    BY <2>1 DEF FilesInv, IndexInv
<1>9. QED
  BY <1>1, <1>2, <1>5, <1>6, <1>7, <1>8 DEF m

\* The directory is opened only while nobody has read it.
LEMMA SpecialKeeps ==
  ASSUME FilesInv, Exposed = {}, NEW name, NEW fops \in {"dir", "rtc"},
         name = "." <=> fops = "dir", OpenSpecial(name, fops)
  PROVE  FilesInv'
<1> DEFINE m == Min(FreeFds)
           d == OpenedAs(fileDesc[m], fops)
<1>1. /\ m \in Fds /\ m \in FreeFds
      /\ d \in Descriptor /\ d.fops = fops /\ d.flags = 1
      /\ Change(m, d)
      /\ fops = "dir" => index = 0
      /\ call = NoCall /\ UNCHANGED <<getEntry, index, call>>
  BY SpecialIs
<1> HIDE DEF m, d
<1>2. Sound(d)
  BY <1>1 DEF Sound
<1>3. /\ fileDesc' \in [Fds -> Descriptor]
      /\ \A fd \in Fds : Sound(fileDesc'[fd])
      /\ IsDir(d) => DirFds' = DirFds \cup {m}
      /\ ~IsDir(d) => DirFds' = DirFds \ {m}
  BY <1>1, <1>2, ChangeOne
<1>4. IndexInv'
  <2>1. CASE fops = "dir"
    <3>1. index' = 0 /\ index' \in 0..Len(Dentries)
      BY <1>1, <2>1, DirectoryLength
    <3>2. QED
      BY <3>1 DEF IndexInv
  <2>2. CASE fops = "rtc"
    <3>1. m \notin DirFds /\ ~IsDir(d)
      BY <1>1, <2>2 DEF FreeFds, DirFds, IsDir
    <3>2. DirFds' = DirFds
      BY <1>3, <3>1
    <3>3. QED
      BY <1>1, <3>2 DEF IndexInv, FilesInv
  <2>3. QED
    BY <2>1, <2>2
<1>5. CallInv'
  BY <1>1 DEF CallInv, NoCall
<1>6. QED
  BY <1>1, <1>3, <1>4, <1>5 DEF FilesInv

\* open of a file, finished: the dentry is still the one looked up.
FileAt(name) == [fops |-> "file", inode |-> name, pos |-> 0, flags |-> 1]

LEMMA FinishIs ==
  ASSUME FilesInv, OpenFinish
  PROVE  /\ Min(FreeFds) \in Fds /\ Min(FreeFds) \in FreeFds /\ FreeFds # {}
         /\ call.op = "open" /\ call.name \in Names \ {".", "rtc"}
         /\ FileAt(call.name) \in Descriptor /\ Sound(FileAt(call.name))
         /\ ~IsDir(FileAt(call.name))
         /\ Change(Min(FreeFds), FileAt(call.name))
         /\ call' = NoCall /\ UNCHANGED <<getEntry, index, image>>
         /\ ret' = [val |-> Min(FreeFds), data |-> <<>>]
<1> DEFINE m == Min(FreeFds)
           d == FileAt(call.name)
<1>1. /\ call.op = "open" /\ call.name \in Names \ {".", "rtc"}
      /\ getEntry = call.name /\ FreeFds # {}
  BY DEF OpenFinish, FilesInv, CallInv
<1>2. /\ call' = NoCall /\ UNCHANGED <<getEntry, index, image>>
      /\ ret' = [val |-> m, data |-> <<>>]
      /\ fileDesc' = [fileDesc EXCEPT ![m] = d]
  BY <1>1 DEF OpenFinish, Opened, FileAt
<1>3. m \in Fds /\ m \in FreeFds
  BY <1>1, Lowest
<1> HIDE DEF m
<1>4. d \in Descriptor
  BY <1>1 DEF FileAt, Descriptor
<1>5. Sound(d)
  <2>1. d.inode = call.name /\ d.pos = 0
    BY DEF FileAt
  <2>2. Inode[call.name].length \in Nat
    BY <1>1, InodeAssumption
  <2>3. QED
    BY <1>1, <2>1, <2>2 DEF Sound
<1>6. ~IsDir(d)
  BY DEF IsDir, FileAt
<1> HIDE DEF d
<1>7. Change(m, d)
  BY <1>2, <1>3 DEF Change, FilesInv
<1>8. QED
  BY <1>1, <1>2, <1>3, <1>4, <1>5, <1>6, <1>7 DEF m, d

\* A file opened is at its beginning.
LEMMA FinishKeeps ==
  ASSUME FilesInv, OpenFinish
  PROVE  FilesInv'
<1> DEFINE m == Min(FreeFds)
           d == FileAt(call.name)
<1>1. /\ m \in Fds /\ m \in FreeFds
      /\ d \in Descriptor /\ Sound(d) /\ ~IsDir(d)
      /\ Change(m, d)
      /\ call' = NoCall /\ UNCHANGED <<getEntry, index>>
  BY FinishIs
<1> HIDE DEF m, d
<1>2. /\ fileDesc' \in [Fds -> Descriptor]
      /\ \A fd \in Fds : Sound(fileDesc'[fd])
      /\ DirFds' = DirFds \ {m}
  BY <1>1, ChangeOne
<1>3. IndexInv'
  <2>1. m \notin DirFds
    BY <1>1 DEF FreeFds, DirFds
  <2>2. DirFds' = DirFds
    BY <1>2, <2>1
  <2>3. QED
    BY <1>1, <2>2 DEF IndexInv, FilesInv
<1>4. CallInv'
  BY <1>1 DEF CallInv, NoCall
<1>5. QED
  BY <1>1, <1>2, <1>3, <1>4 DEF FilesInv

\* read of a file.
Part(fd, n) == ReadData(fileDesc[fd].inode, fileDesc[fd].pos, n)
ReadOn(fd, n) == [fileDesc[fd] EXCEPT !.pos = @ + Len(Part(fd, n))]

LEMMA ReadFileIs ==
  ASSUME FilesInv, NEW fd \in Fds, NEW n \in Sizes, ReadFile(fd, n)
  PROVE  /\ call = NoCall /\ UNCHANGED <<getEntry, index, call, image>>
         /\ fileDesc[fd].flags = 1 /\ fileDesc[fd].fops = "file"
         /\ fileDesc[fd].inode \in Names \ {".", "rtc"}
         /\ Part(fd, n) =
              SubSeq(Bytes(fileDesc[fd].inode), fileDesc[fd].pos + 1,
                     Min({fileDesc[fd].pos + n, Inode[fileDesc[fd].inode].length}))
         /\ Len(Part(fd, n)) \in Nat
         /\ ret' = [val |-> Len(Part(fd, n)), data |-> Part(fd, n)]
         /\ ReadOn(fd, n) \in Descriptor /\ Sound(ReadOn(fd, n)) /\ ~IsDir(ReadOn(fd, n))
         /\ ReadOn(fd, n).fops = "file" /\ ReadOn(fd, n).flags = 1
         /\ ReadOn(fd, n).inode = fileDesc[fd].inode
         /\ ReadOn(fd, n).pos = fileDesc[fd].pos + Len(Part(fd, n))
         /\ Change(fd, ReadOn(fd, n))
<1> DEFINE d == fileDesc[fd]
           p == Part(fd, n)
           e == ReadOn(fd, n)
<1>1. /\ call = NoCall /\ UNCHANGED <<getEntry, index, call, image>>
      /\ d.flags = 1 /\ d.fops = "file"
      /\ ret' = [val |-> Len(p), data |-> p]
      /\ fileDesc' = [fileDesc EXCEPT ![fd].pos = d.pos + Len(p)]
  BY DEF ReadFile, Part, PosAfter
<1>2. fileDesc \in [Fds -> Descriptor] /\ d \in Descriptor /\ Sound(d)
  BY DEF FilesInv
<1>3. /\ d.inode \in Names \ {".", "rtc"} /\ d.pos \in Nat
      /\ d.pos <= Inode[d.inode].length
  BY <1>1, <1>2, Fields DEF Sound
<1>4. n \in Nat
  BY SizeAssumption
<1>5. /\ p = SubSeq(Bytes(d.inode), d.pos + 1, Min({d.pos + n, Inode[d.inode].length}))
      /\ Len(p) \in Nat
      /\ d.pos + Len(p) <= Inode[d.inode].length
  BY <1>3, <1>4, ReadDataIs DEF Part
<1> HIDE DEF p
<1>6. e = [d EXCEPT !.pos = d.pos + Len(p)]
  BY DEF ReadOn, p
<1>7. /\ e \in Descriptor /\ e.fops = "file" /\ e.flags = 1
      /\ e.inode = d.inode /\ e.pos = d.pos + Len(p)
  <2>1. d.pos + Len(p) \in Nat
    <3>1. d.pos \in Nat /\ Len(p) \in Nat
      BY <1>3, <1>5
    <3> HIDE DEF d
    <3>2. QED
      BY <3>1
  <2>2. QED
    BY <1>1, <1>2, <1>6, <2>1 DEF Descriptor
<1>8. Change(fd, e)
  BY <1>1, <1>2, <1>6 DEF Change
<1> HIDE DEF e
<1>9. Sound(e) /\ ~IsDir(e)
  BY <1>3, <1>5, <1>7 DEF Sound, IsDir
<1>10. QED
  BY <1>1, <1>3, <1>5, <1>7, <1>8, <1>9 DEF p, e

\* A read stops at the end of the file.
LEMMA ReadFileKeeps ==
  ASSUME FilesInv, NEW fd \in Fds, NEW n \in Sizes, ReadFile(fd, n)
  PROVE  FilesInv'
<1> DEFINE e == ReadOn(fd, n)
<1>1. /\ call = NoCall /\ UNCHANGED <<getEntry, index, call>>
      /\ fileDesc[fd].fops = "file"
      /\ e \in Descriptor /\ Sound(e) /\ ~IsDir(e) /\ Change(fd, e)
  BY ReadFileIs
<1> HIDE DEF e
<1>2. /\ fileDesc' \in [Fds -> Descriptor]
      /\ \A f \in Fds : Sound(fileDesc'[f])
      /\ DirFds' = DirFds \ {fd}
  BY <1>1, ChangeOne
<1>3. fd \notin DirFds
  BY <1>1 DEF DirFds
<1>4. DirFds' = DirFds
  BY <1>2, <1>3
<1>5. IndexInv'
  BY <1>1, <1>4 DEF IndexInv, FilesInv
<1>6. CallInv'
  BY <1>1 DEF CallInv, NoCall
<1>7. QED
  BY <1>1, <1>2, <1>5, <1>6 DEF FilesInv

\* read of the directory.
LEMMA ReadDirKeeps ==
  ASSUME FilesInv, Exposed = {}, NEW fd \in Fds, ReadDir(fd)
  PROVE  FilesInv' /\ DirFds = {fd}
<1>1. /\ call = NoCall /\ UNCHANGED <<fileDesc, getEntry, call>>
      /\ DirFds = {fd}
      /\ index' \in {index, index + 1}
      /\ index' = index + 1 => ~(index >= Len(Dentries))
  BY DEF ReadDir, FilesInv, IndexInv
<1>2. DirFds' = DirFds /\ FreeFds' = FreeFds
  BY <1>1 DEF DirFds, FreeFds
<1>3. index' \in 0..Len(Dentries)
  BY <1>1, DirectoryLength DEF FilesInv, IndexInv
<1>4. IndexInv'
  BY <1>1, <1>2, <1>3 DEF IndexInv
<1>5. CallInv'
  BY <1>1 DEF CallInv, NoCall
<1>6. QED
  BY <1>1, <1>4, <1>5 DEF FilesInv

\* close.
Shut(d) == [d EXCEPT !.flags = 0]

LEMMA CloseIs ==
  ASSUME FilesInv, NEW fd \in Fds, Close(fd)
  PROVE  /\ call = NoCall /\ UNCHANGED <<getEntry, call, image>>
         /\ fileDesc[fd].flags = 1
         /\ Shut(fileDesc[fd]) \in Descriptor /\ Shut(fileDesc[fd]).flags = 0
         /\ Change(fd, Shut(fileDesc[fd]))
         /\ index' = IF fd \in DirFds THEN 0 ELSE index
         /\ ret' = [val |-> 0, data |-> <<>>]
<1>1. /\ call = NoCall /\ UNCHANGED <<getEntry, call, image>>
      /\ fileDesc[fd].flags = 1 /\ ret' = [val |-> 0, data |-> <<>>]
      /\ fileDesc' = [fileDesc EXCEPT ![fd].flags = 0]
      /\ index' = IndexAfterClose({fd})
  BY DEF Close
<1>2. index' = IF fd \in DirFds THEN 0 ELSE index
  BY <1>1 DEF IndexAfterClose
<1>3. fileDesc \in [Fds -> Descriptor] /\ fileDesc[fd] \in Descriptor
  BY DEF FilesInv
<1>4. Shut(fileDesc[fd]) \in Descriptor /\ Shut(fileDesc[fd]).flags = 0
  BY <1>3 DEF Shut, Descriptor
<1>5. Change(fd, Shut(fileDesc[fd]))
  BY <1>1, <1>3 DEF Change, Shut
<1>6. QED
  BY <1>1, <1>2, <1>4, <1>5

\* Closing the directory takes the index back to its beginning.
LEMMA CloseKeeps ==
  ASSUME FilesInv, NEW fd \in Fds, Close(fd)
  PROVE  FilesInv'
<1> DEFINE d == Shut(fileDesc[fd])
<1>1. /\ call = NoCall /\ UNCHANGED <<getEntry, call>>
      /\ d \in Descriptor /\ d.flags = 0 /\ Change(fd, d)
      /\ index' = IF fd \in DirFds THEN 0 ELSE index
  BY CloseIs
<1> HIDE DEF d
<1>2. Sound(d) /\ ~IsDir(d)
  BY <1>1 DEF Sound, IsDir
<1>3. /\ fileDesc' \in [Fds -> Descriptor]
      /\ \A f \in Fds : Sound(fileDesc'[f])
      /\ DirFds' = DirFds \ {fd}
  BY <1>1, <1>2, ChangeOne
<1>4. IndexInv'
  <2>1. CASE fd \in DirFds
    <3>1. index' = 0 /\ index' \in 0..Len(Dentries)
      BY <1>1, <2>1, DirectoryLength
    <3>2. QED
      BY <3>1 DEF IndexInv
  <2>2. CASE fd \notin DirFds
    <3>1. DirFds' = DirFds /\ index' = index
      BY <1>1, <1>3, <2>2
    <3>2. QED
      BY <3>1 DEF IndexInv, FilesInv
  <2>3. QED
    BY <2>1, <2>2
<1>5. CallInv'
  BY <1>1 DEF CallInv, NoCall
<1>6. QED
  BY <1>1, <1>3, <1>4, <1>5 DEF FilesInv

\* All descriptors closed at once, by halt and by execute.
LEMMA AllShut ==
  ASSUME FilesInv, fileDesc' = [fd \in Fds |-> [fileDesc[fd] EXCEPT !.flags = 0]]
  PROVE  /\ fileDesc' \in [Fds -> Descriptor]
         /\ \A fd \in Fds : Sound(fileDesc'[fd]) /\ fileDesc'[fd].flags = 0
         /\ DirFds' = {}
<1>1. \A fd \in Fds : fileDesc'[fd] \in Descriptor /\ fileDesc'[fd].flags = 0
  <2> SUFFICES ASSUME NEW fd \in Fds
               PROVE  fileDesc'[fd] \in Descriptor /\ fileDesc'[fd].flags = 0
    OBVIOUS
  <2>1. fileDesc[fd] \in Descriptor
    BY DEF FilesInv
  <2>2. fileDesc'[fd] = [fileDesc[fd] EXCEPT !.flags = 0]
    OBVIOUS
  <2>3. QED
    BY <2>1, <2>2 DEF Descriptor
<1>2. fileDesc' \in [Fds -> Descriptor]
  BY <1>1
<1>3. \A fd \in Fds : Sound(fileDesc'[fd])
  BY <1>1 DEF Sound
<1>4. DirFds' = {}
  BY <1>1 DEF DirFds
<1>5. QED
  BY <1>1, <1>2, <1>3, <1>4

\* halt closes the directory too.
LEMMA HaltKeeps ==
  ASSUME FilesInv, HaltCloses
  PROVE  FilesInv'
<1>1. /\ call = NoCall /\ UNCHANGED <<getEntry, call>>
      /\ index' = IndexAfterClose(Fds)
      /\ fileDesc' = [fd \in Fds |-> [fileDesc[fd] EXCEPT !.flags = 0]]
  BY DEF HaltCloses
<1>2. /\ fileDesc' \in [Fds -> Descriptor]
      /\ \A fd \in Fds : Sound(fileDesc'[fd])
      /\ DirFds' = {}
  BY <1>1, AllShut
<1>3. index' = 0 /\ index' \in 0..Len(Dentries)
  <2>1. DirFds \subseteq Fds
    BY DEF DirFds
  <2>2. index' = 0
    BY <1>1, <2>1 DEF IndexAfterClose, FilesInv, IndexInv
  <2>3. QED
    BY <2>2, DirectoryLength
<1>4. IndexInv'
  BY <1>2, <1>3 DEF IndexInv
<1>5. CallInv'
  BY <1>1 DEF CallInv, NoCall
<1>6. QED
  BY <1>1, <1>2, <1>4, <1>5 DEF FilesInv

\* A program starts with nothing open.
LEMMA LoadKeeps ==
  ASSUME FilesInv, ExecLoad
  PROVE  FilesInv'
<1>1. /\ call.op = "load" /\ call' = NoCall /\ UNCHANGED <<getEntry, index>>
      /\ fileDesc' = [fd \in Fds |-> [fileDesc[fd] EXCEPT !.flags = 0]]
  BY DEF ExecLoad
<1>2. /\ fileDesc' \in [Fds -> Descriptor]
      /\ \A fd \in Fds : Sound(fileDesc'[fd])
      /\ DirFds' = {}
  BY <1>1, AllShut
<1>3. index = 0
  <2>1. FreeFds = Fds
    BY <1>1 DEF FilesInv, CallInv
  <2>2. DirFds = {}
    BY <2>1 DEF FreeFds, DirFds
  <2>3. QED
    BY <2>2 DEF FilesInv, IndexInv
<1>4. IndexInv'
  BY <1>1, <1>2, <1>3 DEF IndexInv, FilesInv
<1>5. CallInv'
  BY <1>1 DEF CallInv, NoCall
<1>6. QED
  BY <1>1, <1>2, <1>4, <1>5 DEF FilesInv

\* Every step keeps it, as long as nothing interrupts a call.
LEMMA StepKeeps ==
  ASSUME Exposed = {}, FilesInv, [Next]_vars
  PROVE  FilesInv'
<1> USE DEF FilesInv
<1>1. CASE OpenSpecial(".", "dir") \/ OpenSpecial("rtc", "rtc")
  BY <1>1, SpecialKeeps
<1>2. ASSUME NEW name \in Names \ {".", "rtc"}, OpenLookup(name) PROVE FilesInv'
  <2>1. DirFds' = DirFds /\ FreeFds' = FreeFds
    BY <1>2 DEF OpenLookup, DirFds, FreeFds
  <2>2. IndexInv'
    BY <1>2, <2>1 DEF OpenLookup, IndexInv
  <2>3. call'.op = "open" /\ call'.name = name
    BY <1>2 DEF OpenLookup
  <2>4. CallInv'
    BY <1>2, <2>1, <2>3 DEF OpenLookup, CallInv
  <2>5. QED
    BY <1>2, <2>2, <2>4 DEF OpenLookup
<1>3. ASSUME NEW name \in Names, ExecOpen(name) PROVE FilesInv'
  <2>1. DirFds' = DirFds /\ FreeFds' = FreeFds
    BY <1>3 DEF ExecOpen, DirFds, FreeFds
  <2>2. IndexInv'
    BY <1>3, <2>1 DEF ExecOpen, IndexInv
  <2>3. call'.op = "exec" /\ call'.name = name
    BY <1>3 DEF ExecOpen
  <2>4. CallInv'
    BY <1>3, <2>1, <2>3 DEF ExecOpen, CallInv
  <2>5. QED
    BY <1>3, <2>2, <2>4 DEF ExecOpen
<1>4. CASE OpenFinish
  BY <1>4, FinishKeeps
<1>5. CASE HaltCloses
  BY <1>5, HaltKeeps
<1>6. CASE ExecHeader
  <2>1. /\ call.op = "exec" /\ UNCHANGED <<fileDesc, getEntry, index>>
        /\ call' = [call EXCEPT !.op = "load"] \/ call' = NoCall
    BY <1>6 DEF ExecHeader
  <2>2. DirFds' = DirFds /\ FreeFds' = FreeFds
    BY <2>1 DEF DirFds, FreeFds
  <2>3. IndexInv'
    BY <2>1, <2>2 DEF IndexInv
  <2>4. CallInv'
    <3>1. CASE call' = NoCall
      BY <3>1 DEF CallInv, NoCall
    <3>2. CASE call' = [call EXCEPT !.op = "load"]
      <4>1. /\ call' \in [op : {"none", "open", "exec", "load"}, name : Names \cup {""}]
            /\ call'.op = "load" /\ call'.name = call.name
        BY <3>2 DEF CallInv
      <4>2. FreeFds = Fds /\ call.name \in Names /\ getEntry = call.name
        BY <2>1 DEF CallInv
      <4>3. QED
        BY <2>1, <2>2, <4>1, <4>2 DEF CallInv
    <3>3. QED
      BY <2>1, <3>1, <3>2
  <2>5. QED
    BY <2>1, <2>3, <2>4
<1>7. CASE ExecLoad
  BY <1>7, LoadKeeps
<1>8. CASE Interrupt
  <2>1. call = NoCall /\ getEntry' \in Names /\ UNCHANGED <<fileDesc, index, call>>
    BY <1>8, DentriesAssumption DEF Interrupt
  <2>2. DirFds' = DirFds /\ FreeFds' = FreeFds
    BY <2>1 DEF DirFds, FreeFds
  <2>3. IndexInv' /\ CallInv'
    BY <2>1, <2>2 DEF IndexInv, CallInv, NoCall
  <2>4. QED
    BY <2>1, <2>3
<1>9. ASSUME NEW fd \in Fds, NEW n \in Sizes, ReadFile(fd, n) PROVE FilesInv'
  BY <1>9, ReadFileKeeps
<1>10. ASSUME NEW fd \in Fds, ReadDir(fd) PROVE FilesInv'
  BY <1>10, ReadDirKeeps
<1>11. ASSUME NEW fd \in Fds, Close(fd) PROVE FilesInv'
  BY <1>11, CloseKeeps
<1>12. CASE UNCHANGED <<fileDesc, getEntry, index, call>>
  <2>1. DirFds' = DirFds /\ FreeFds' = FreeFds
    BY <1>12 DEF DirFds, FreeFds
  <2>2. IndexInv' /\ CallInv'
    BY <1>12, <2>1 DEF IndexInv, CallInv
  <2>3. QED
    BY <1>12, <2>2
<1>13. CASE OpenFails
  BY <1>12, <1>13 DEF OpenFails
<1>14. ASSUME NEW fd \in Fds, ReadRtc(fd) \/ BadFd(fd) PROVE FilesInv'
  BY <1>12, <1>14 DEF ReadRtc, BadFd
<1>15. CASE UNCHANGED vars
  BY <1>12, <1>15 DEF vars
<1>16. QED
  BY <1>1, <1>2, <1>3, <1>4, <1>5, <1>6, <1>7, <1>8, <1>9, <1>10, <1>11, <1>13,
     <1>14, <1>15 DEF Next

(***************************************************************************)
(* execute.                                                                *)
(***************************************************************************)
\* As long as nothing interrupts a call, the program loaded is the beginning
\* of the file execute was asked for, whose header it has looked at
\* (system.c: execute; file.c: file_open, read_data).
Named ==
  call.op = "load" /\ call' = NoCall =>
    image' = SubSeq(Bytes(call.name), 1, Min({LoadSize, Inode[call.name].length}))

LEMMA InvNamed ==
  ASSUME FilesInv, [Next]_vars
  PROVE  Named
<1> SUFFICES ASSUME call.op = "load", call' = NoCall
             PROVE  image' = SubSeq(Bytes(call.name), 1,
                                    Min({LoadSize, Inode[call.name].length}))
  BY DEF Named
<1>1. call # NoCall
  <2>1. NoCall.op = "none"
    BY DEF NoCall
  <2>2. QED
    BY <2>1
<1>2. ExecLoad
  BY <1>1 DEF Next, vars, OpenSpecial, OpenLookup, ExecOpen, OpenFails, OpenFinish,
       HaltCloses, ExecHeader, Interrupt, ReadDir, ReadRtc, BadFd, Close, ReadFile
<1>3. call.name \in Names /\ getEntry = call.name
  BY DEF FilesInv, CallInv
<1>4. image' = ReadData(call.name, 0, LoadSize)
  BY <1>2, <1>3 DEF ExecLoad
<1>5. LoadSize \in Nat /\ 0 + 1 = 1 /\ 0 + LoadSize = LoadSize
  BY SizeAssumption
<1>6. ReadData(call.name, 0, LoadSize) =
        SubSeq(Bytes(call.name), 0 + 1, Min({0 + LoadSize, Inode[call.name].length}))
  BY <1>3, <1>5, ReadDataIs
<1>7. QED
  BY <1>4, <1>5, <1>6

\* As long as nothing interrupts a call, what execute loads is the beginning
\* of the file named, however long it is (system.c: execute; file.c:
\* file_open, read_data).
THEOREM LoadsNamedCorrect ==
  ASSUME Exposed = {}
  PROVE  Spec => LoadsNamed
<1>1. Init => FilesInv
  BY InitFiles
<1>2. FilesInv /\ [Next]_vars => FilesInv'
  BY StepKeeps
<1>3. FilesInv /\ [Next]_vars => [Named]_vars
  BY InvNamed
<1>4. QED
  BY <1>1, <1>2, <1>3, PTL DEF Spec, LoadsNamed, Named

(***************************************************************************)
(* The refinement of Descriptors.                                          *)
(***************************************************************************)
\* What a descriptor stands for when the directory has been read to x.
EntryOf(d, x) ==
  IF d.flags = 0 THEN [file |-> "", pos |-> 0]
  ELSE CASE d.fops = "dir"  -> [file |-> ".", pos |-> x]
         [] d.fops = "rtc"  -> [file |-> "rtc", pos |-> 0]
         [] d.fops = "file" -> [file |-> d.inode, pos |-> d.pos]

Asked == IF call.op = "open" THEN call.name ELSE ""

\* The entries of the table.
LEMMA TableIs ==
  /\ Table = [fd \in Fds |-> EntryOf(fileDesc[fd], index)]
  /\ Table' = [fd \in Fds |-> EntryOf(fileDesc'[fd], index')]
BY DEF Table, EntryOf

\* Which descriptor stands for what; only the directory's depends on the index.
LEMMA Entries ==
  ASSUME NEW d \in Descriptor, NEW x
  PROVE  /\ d.flags = 0 => EntryOf(d, x) = D!Closed
         /\ IsDir(d) => EntryOf(d, x) = [file |-> ".", pos |-> x]
         /\ d.flags = 1 /\ d.fops = "rtc" => EntryOf(d, x) = [file |-> "rtc", pos |-> 0]
         /\ d.flags = 1 /\ d.fops = "file" =>
              EntryOf(d, x) = [file |-> d.inode, pos |-> d.pos]
         /\ d.flags = 1 => EntryOf(d, x) # D!Closed
         /\ \A y : ~IsDir(d) => EntryOf(d, x) = EntryOf(d, y)
<1>1. d.flags = 0 => EntryOf(d, x) = D!Closed
  BY DEF EntryOf, D!Closed
<1>2. IsDir(d) => EntryOf(d, x) = [file |-> ".", pos |-> x]
  BY DEF EntryOf, IsDir
<1>3. d.flags = 1 /\ d.fops = "rtc" => EntryOf(d, x) = [file |-> "rtc", pos |-> 0]
  BY DEF EntryOf
<1>4. d.flags = 1 /\ d.fops = "file" => EntryOf(d, x) = [file |-> d.inode, pos |-> d.pos]
  BY DEF EntryOf
<1>5. d.fops \in {"file", "dir", "rtc"} /\ d.flags \in {0, 1} /\ d.inode # ""
  BY Fields, DentriesAssumption
<1>6. d.flags = 1 => EntryOf(d, x) # D!Closed
  <2>1. d.flags = 1 => EntryOf(d, x).file # ""
    <3> SUFFICES ASSUME d.flags = 1 PROVE EntryOf(d, x).file # ""
      OBVIOUS
    <3>1. CASE d.fops = "dir"
      <4>1. EntryOf(d, x).file = "."
        BY <1>2, <3>1 DEF IsDir
      <4>2. QED
        BY <4>1
    <3>2. CASE d.fops = "rtc"
      <4>1. EntryOf(d, x).file = "rtc"
        BY <1>3, <3>2
      <4>2. QED
        BY <4>1
    <3>3. CASE d.fops = "file"
      <4>1. EntryOf(d, x).file = d.inode
        BY <1>4, <3>3
      <4>2. QED
        BY <1>5, <4>1
    <3>4. QED
      BY <1>5, <3>1, <3>2, <3>3
  <2>2. D!Closed.file = ""
    BY DEF D!Closed
  <2>3. QED
    BY <2>1, <2>2
<1>7. \A y : ~IsDir(d) => EntryOf(d, x) = EntryOf(d, y)
  BY <1>5 DEF EntryOf, IsDir
<1>8. QED
  BY <1>1, <1>2, <1>3, <1>4, <1>6, <1>7

\* The free descriptors are the closed ones.
LEMMA FreeIs ==
  ASSUME FilesInv
  PROVE  D!Free = FreeFds
<1>1. \A fd \in Fds : Table[fd] = D!Closed <=> fileDesc[fd].flags = 0
  <2> SUFFICES ASSUME NEW fd \in Fds
               PROVE  Table[fd] = D!Closed <=> fileDesc[fd].flags = 0
    OBVIOUS
  <2>1. fileDesc[fd] \in Descriptor
    BY DEF FilesInv
  <2>2. Table[fd] = EntryOf(fileDesc[fd], index)
    BY TableIs
  <2>3. fileDesc[fd].flags \in {0, 1}
    BY <2>1, Fields
  <2>4. QED
    BY <2>1, <2>2, <2>3, Entries
<1>2. QED
  BY <1>1 DEF D!Free, FreeFds

\* A step that changes one descriptor changes one entry, unless the index moves
\* under another that reads the directory.
LEMMA TableChange ==
  ASSUME FilesInv, NEW m \in Fds, NEW d \in Descriptor, Change(m, d),
         \A f \in DirFds : f # m => index' = index
  PROVE  Table' = [Table EXCEPT ![m] = EntryOf(d, index')]
<1>1. \A f \in Fds : EntryOf(fileDesc'[f], index') =
                       IF f = m THEN EntryOf(d, index') ELSE EntryOf(fileDesc[f], index)
  <2> SUFFICES ASSUME NEW f \in Fds
               PROVE  EntryOf(fileDesc'[f], index') =
                        IF f = m THEN EntryOf(d, index') ELSE EntryOf(fileDesc[f], index)
    OBVIOUS
  <2>1. fileDesc'[f] = IF f = m THEN d ELSE fileDesc[f]
    BY DEF Change
  <2>2. CASE f = m
    BY <2>1, <2>2
  <2>3. CASE f # m /\ f \in DirFds
    BY <2>1, <2>3
  <2>4. CASE f # m /\ f \notin DirFds
    <3>1. fileDesc[f] \in Descriptor /\ ~IsDir(fileDesc[f])
      BY <2>4 DEF FilesInv, DirFds, IsDir
    <3>2. EntryOf(fileDesc[f], index') = EntryOf(fileDesc[f], index)
      BY <3>1, Entries
    <3>3. QED
      BY <2>1, <2>4, <3>2
  <2>5. QED
    BY <2>2, <2>3, <2>4
<1>2. Table' = [fd \in Fds |-> IF fd = m THEN EntryOf(d, index')
                               ELSE EntryOf(fileDesc[fd], index)]
  BY <1>1, TableIs, Zenon
<1>3. QED
  BY <1>2, TableIs

\* An entry after a read of k.
LEMMA EntryMoved ==
  ASSUME NEW a, NEW p \in Nat, NEW k \in Nat
  PROVE  [[file |-> a, pos |-> p] EXCEPT !.pos = @ + k] = [file |-> a, pos |-> p + k]
<1> DEFINE r == [[file |-> a, pos |-> p] EXCEPT !.pos = @ + k]
<1>1. r \in [file : {a}, pos : Nat] /\ r.file = a /\ r.pos = p + k
  OBVIOUS
<1> HIDE DEF r
<1>2. r = [file |-> r.file, pos |-> r.pos]
  BY <1>1
<1>3. QED
  BY <1>1, <1>2 DEF r

\* What the files hold.
LEMMA ContentsAre ==
  /\ DOMAIN Contents = Names
  /\ Contents["."] = Dentries /\ Contents["rtc"] = <<>>
  /\ \A name \in Names \ {".", "rtc"} : /\ Contents[name] = Bytes(name)
                                        /\ Len(Contents[name]) = Inode[name].length
<1>1. "." \in Names /\ "rtc" \in Names
  BY DentriesAssumption
<1>2. Contents["."] = Dentries /\ Contents["rtc"] = <<>>
  BY <1>1 DEF Contents
<1>3. ASSUME NEW name \in Names \ {".", "rtc"}
      PROVE  Contents[name] = Bytes(name) /\ Len(Contents[name]) = Inode[name].length
  <2>1. Contents[name] = Bytes(name)
    BY DEF Contents
  <2>2. Inode[name].length \in Nat
    BY InodeAssumption
  <2> DEFINE size == Inode[name].length
  <2>3. Bytes(name) = [i \in 1..size |-> ByteOf(Inode[name], i - 1)]
    BY DEF Bytes, ByteOf
  <2> HIDE DEF size
  <2>4. Len([i \in 1..size |-> ByteOf(Inode[name], i - 1)]) = size
    BY <2>2 DEF size
  <2>5. QED
    BY <2>1, <2>3, <2>4 DEF size
<1>4. DOMAIN Contents = Names
  BY DEF Contents
<1>5. QED
  BY <1>2, <1>3, <1>4

\* Descriptors takes the least of a set as Files does.
LEMMA SameLeast ==
  \A S : D!Min(S) = Min(S)
BY DEF D!Min, Min

\* The steps.
LEMMA SpecialOpens ==
  ASSUME FilesInv, Exposed = {}, NEW name \in {".", "rtc"}, NEW fops \in {"dir", "rtc"},
         name = "." <=> fops = "dir", OpenSpecial(name, fops)
  PROVE  D!Open(name)
<1> DEFINE m == Min(FreeFds)
           d == OpenedAs(fileDesc[m], fops)
<1>1. /\ m \in Fds /\ FreeFds # {}
      /\ d \in Descriptor /\ d.fops = fops /\ d.flags = 1
      /\ Change(m, d)
      /\ fops = "dir" => index = 0
      /\ call = NoCall /\ UNCHANGED <<index, call>>
      /\ ret' = [val |-> m, data |-> <<>>]
  BY SpecialIs
<1>2. D!Free = FreeFds
  BY FreeIs
<1> HIDE DEF m, d
<1>3. Table' = [Table EXCEPT ![m] = EntryOf(d, index')]
  BY <1>1, TableChange
<1>4. EntryOf(d, index') = [file |-> name, pos |-> 0]
  <2>1. CASE fops = "dir"
    <3>1. IsDir(d) /\ index' = 0
      BY <1>1, <2>1 DEF IsDir
    <3>2. QED
      BY <1>1, <2>1, <3>1, Entries
  <2>2. CASE fops = "rtc"
    BY <1>1, <2>2, Entries
  <2>3. QED
    BY <2>1, <2>2
<1>5. call.op = "none" /\ call'.op = "none"
  BY <1>1 DEF NoCall
<1>6. m = Min(D!Free)
  BY <1>2 DEF m
<1>7. Asked = "" /\ Asked' = ""
  BY <1>5 DEF Asked
<1>8. D!Free # {} /\ Asked \in {"", name}
  BY <1>1, <1>2, <1>7
<1>9. Table' = [Table EXCEPT ![Min(D!Free)] = [file |-> name, pos |-> 0]]
  BY <1>3, <1>4, <1>6, Zenon
<1>10. ret' = [val |-> Min(D!Free), data |-> <<>>]
  BY <1>1, <1>6, Zenon
<1>11. D!Min(D!Free) = Min(D!Free)
  BY SameLeast
<1>12. QED
  BY <1>7, <1>8, <1>9, <1>10, <1>11, Zenon DEF D!Open, D!Nothing, Asked

\* open of a file asks for it, then opens it.
LEMMA LookupAsks ==
  ASSUME FilesInv, NEW name \in Names \ {".", "rtc"}, OpenLookup(name)
  PROVE  D!Ask(name)
<1>1. /\ call = NoCall /\ FreeFds # {} /\ UNCHANGED <<fileDesc, index, ret>>
      /\ call' = [op |-> "open", name |-> name]
  BY DEF OpenLookup
<1>2. D!Free = FreeFds
  BY FreeIs
<1>3. Table' = Table
  BY <1>1, TableIs
<1>4. call.op = "none" /\ call'.op = "open" /\ call'.name = name
  BY <1>1 DEF NoCall
<1>5. QED
  BY <1>1, <1>2, <1>3, <1>4 DEF D!Ask, D!Nothing

LEMMA FinishOpens ==
  ASSUME FilesInv, OpenFinish
  PROVE  D!Open(call.name) /\ call.name \in Names
<1> DEFINE m == Min(FreeFds)
           d == FileAt(call.name)
<1>1. /\ m \in Fds /\ FreeFds # {}
      /\ call.op = "open" /\ call.name \in Names \ {".", "rtc"}
      /\ d \in Descriptor
      /\ Change(m, d)
      /\ call' = NoCall /\ UNCHANGED index
      /\ ret' = [val |-> m, data |-> <<>>]
  BY FinishIs
<1>2. D!Free = FreeFds
  BY FreeIs
<1>3. d.flags = 1 /\ d.fops = "file" /\ d.inode = call.name /\ d.pos = 0
  BY DEF FileAt
<1> HIDE DEF m, d
<1>4. Table' = [Table EXCEPT ![m] = EntryOf(d, index')]
  BY <1>1, TableChange
<1>5. EntryOf(d, index') = [file |-> call.name, pos |-> 0]
  BY <1>1, <1>3, Entries
<1>6. call'.op = "none"
  BY <1>1 DEF NoCall
<1>7. m = Min(D!Free)
  BY <1>2 DEF m
<1>8. Asked = call.name /\ Asked' = ""
  BY <1>1, <1>6 DEF Asked
<1>9. D!Free # {} /\ Asked \in {"", call.name}
  BY <1>1, <1>2, <1>8
<1>10. Table' = [Table EXCEPT ![Min(D!Free)] = [file |-> call.name, pos |-> 0]]
  BY <1>4, <1>5, <1>7, Zenon
<1>11. ret' = [val |-> Min(D!Free), data |-> <<>>]
  BY <1>1, <1>7, Zenon
<1>12. D!Min(D!Free) = Min(D!Free)
  BY SameLeast
<1>13. D!Open(call.name)
  BY <1>8, <1>9, <1>10, <1>11, <1>12, Zenon DEF D!Open, D!Nothing, Asked
<1>14. QED
  BY <1>1, <1>13

\* A read of a descriptor whose entry is e, of what c holds.
Reads(fd, e, c, want, data) ==
  /\ Table[fd] = e
  /\ data = SubSeq(c, e.pos + 1, Min({e.pos + want, Len(c)}))
  /\ ret' = [val |-> Len(data), data |-> data]
  /\ Table' = [Table EXCEPT ![fd] = [file |-> e.file, pos |-> e.pos + Len(data)]]

\* Such a read is one of Descriptors.
LEMMA ReadsIs ==
  ASSUME FilesInv, call = NoCall, call' = call,
         NEW fd \in Fds, NEW n \in Sizes, NEW name \in Names, NEW p \in Nat, NEW data,
         Len(data) \in Nat, name # "",
         Reads(fd, [file |-> name, pos |-> p], Contents[name],
               IF name = "." THEN 1 ELSE n, data)
  PROVE  D!Read(fd, n)
<1> DEFINE e == [file |-> name, pos |-> p]
<1>1. e.file = name /\ e.pos = p
  OBVIOUS
<1>2. Table[fd] = e
  BY DEF Reads
<1>3. e # D!Closed
  <2>1. D!Closed.file = ""
    BY DEF D!Closed
  <2>2. QED
    BY <1>1, <2>1
<1>4. [Table EXCEPT ![fd].pos = @ + Len(data)] =
        [Table EXCEPT ![fd] = [file |-> name, pos |-> p + Len(data)]]
  <2>1. [e EXCEPT !.pos = @ + Len(data)] = [file |-> name, pos |-> p + Len(data)]
    BY EntryMoved
  <2> HIDE DEF e
  <2>2. [Table EXCEPT ![fd].pos = @ + Len(data)] =
          [Table EXCEPT ![fd] = [e EXCEPT !.pos = @ + Len(data)]]
    BY <1>2
  <2>3. QED
    BY <2>1, <2>2
<1>5. call.op = "none" /\ call'.op = "none"
  BY DEF NoCall
<1> HIDE DEF e
<1>6. /\ data = SubSeq(Contents[name], p + 1,
                       Min({p + (IF name = "." THEN 1 ELSE n), Len(Contents[name])}))
      /\ ret' = [val |-> Len(data), data |-> data]
      /\ Table' = [Table EXCEPT ![fd] = [file |-> name, pos |-> p + Len(data)]]
  BY <1>1 DEF Reads, e
<1>7. (IF name \in {"."} THEN 1 ELSE n) = (IF name = "." THEN 1 ELSE n)
  OBVIOUS
<1>8. Asked = "" /\ Asked' = ""
  BY <1>5 DEF Asked
<1>9. data = SubSeq(Contents[Table[fd].file], Table[fd].pos + 1,
               Min({Table[fd].pos + (IF Table[fd].file \in {"."} THEN 1 ELSE n),
                    Len(Contents[Table[fd].file])}))
  BY <1>1, <1>2, <1>6, <1>7, Zenon
<1>10. Table' = [Table EXCEPT ![fd].pos = @ + Len(data)]
  BY <1>4, <1>6
<1>11. Table[fd] # D!Closed
  BY <1>2, <1>3
<1> DEFINE want == IF Table[fd].file \in {"."} THEN 1 ELSE n
           part == SubSeq(Contents[Table[fd].file], Table[fd].pos + 1,
                          D!Min({Table[fd].pos + want, Len(Contents[Table[fd].file])}))
<1>12. D!Read(fd, n) <=>
         /\ Asked = "" /\ Table[fd] # D!Closed
         /\ ret' = [val |-> Len(part), data |-> part]
         /\ Table' = [Table EXCEPT ![fd].pos = @ + Len(part)]
         /\ Asked' = Asked
  BY Zenon DEF D!Read, D!Nothing, Asked
<1>13. data = part
  BY <1>9, SameLeast
<1> HIDE DEF part
<1>14. QED
  BY <1>6, <1>8, <1>10, <1>11, <1>12, <1>13

\* read of a file, of the directory and of the clock.
LEMMA FileReads ==
  ASSUME FilesInv, NEW fd \in Fds, NEW n \in Sizes, ReadFile(fd, n)
  PROVE  D!Read(fd, n)
<1> DEFINE d == fileDesc[fd]
           p == Part(fd, n)
           e == ReadOn(fd, n)
<1>1. /\ call = NoCall /\ UNCHANGED <<index, call>>
      /\ d.flags = 1 /\ d.fops = "file"
      /\ d.inode \in Names \ {".", "rtc"}
      /\ p = SubSeq(Bytes(d.inode), d.pos + 1, Min({d.pos + n, Inode[d.inode].length}))
      /\ Len(p) \in Nat
      /\ ret' = [val |-> Len(p), data |-> p]
      /\ e \in Descriptor /\ e.fops = "file" /\ e.flags = 1
      /\ e.inode = d.inode /\ e.pos = d.pos + Len(p)
      /\ Change(fd, e)
  BY ReadFileIs
<1>2. d \in Descriptor /\ d.pos \in Nat
  BY Fields DEF FilesInv
<1> HIDE DEF p, e
<1>3. Table[fd] = [file |-> d.inode, pos |-> d.pos]
  <2>1. Table[fd] = EntryOf(d, index)
    BY TableIs
  <2>2. QED
    BY <1>1, <1>2, <2>1, Entries
<1>4. Table' = [Table EXCEPT ![fd] = [file |-> d.inode, pos |-> d.pos + Len(p)]]
  <2>1. Table' = [Table EXCEPT ![fd] = EntryOf(e, index')]
    BY <1>1, TableChange
  <2>2. EntryOf(e, index') = [file |-> d.inode, pos |-> d.pos + Len(p)]
    BY <1>1, Entries
  <2>3. QED
    BY <2>1, <2>2, Zenon
<1>5. Contents[d.inode] = Bytes(d.inode) /\ Len(Contents[d.inode]) = Inode[d.inode].length
  BY <1>1, ContentsAre
<1>6. (IF d.inode = "." THEN 1 ELSE n) = n
  BY <1>1
<1>7. d.inode \in Names /\ d.inode # ""
  BY <1>1, DentriesAssumption
<1> DEFINE a == d.inode
           q == d.pos
<1>8. p = SubSeq(Contents[a], q + 1, Min({q + (IF a = "." THEN 1 ELSE n), Len(Contents[a])}))
  BY <1>1, <1>5, <1>6, Zenon
<1>9. a \in Names /\ q \in Nat /\ a # ""
  BY <1>2, <1>7
<1>10. /\ Table[fd] = [file |-> a, pos |-> q]
       /\ Table' = [Table EXCEPT ![fd] = [file |-> a, pos |-> q + Len(p)]]
       /\ ret' = [val |-> Len(p), data |-> p] /\ Len(p) \in Nat
       /\ call = NoCall /\ call' = call
  BY <1>1, <1>3, <1>4
<1> HIDE DEF a, q
<1>11. Reads(fd, [file |-> a, pos |-> q], Contents[a], IF a = "." THEN 1 ELSE n, p)
  BY <1>8, <1>10 DEF Reads
<1>12. QED
  BY <1>9, <1>10, <1>11, ReadsIs

LEMMA DirReads ==
  ASSUME FilesInv, Exposed = {}, NEW fd \in Fds, NEW n \in Sizes, ReadDir(fd)
  PROVE  D!Read(fd, n)
<1> DEFINE len  == Len(Dentries)
           data == IF index >= len THEN <<>> ELSE <<Dentries[index + 1]>>
<1>1. DirFds = {fd}
  BY ReadDirKeeps
<1>2. /\ call = NoCall /\ call' = call /\ fileDesc' = fileDesc
      /\ fileDesc[fd].flags = 1 /\ fileDesc[fd].fops = "dir"
  BY DEF ReadDir
<1>3. len \in Nat /\ index \in Nat /\ index <= len
  BY DirectoryLength DEF FilesInv, IndexInv
<1>4. /\ Len(data) \in Nat
      /\ ret' = [val |-> Len(data), data |-> data]
      /\ index' = index + Len(data)
  <2>1. CASE index >= len
    BY <1>3, <2>1 DEF ReadDir
  <2>2. CASE ~(index >= len)
    <3>1. data = <<Dentries[index + 1]>> /\ Len(data) = 1
      BY <2>2
    <3>2. index' = index + 1 /\ ret' = [val |-> 1, data |-> data]
      BY <2>2, <3>1 DEF ReadDir
    <3>3. QED
      BY <3>1, <3>2
  <2>3. QED
    BY <2>1, <2>2
<1>5. data = SubSeq(Dentries, index + 1, Min({index + 1, len}))
  <2>1. index + 1 \in Nat /\ Dentries \in Seq(STRING)
    <3>1. Dentries \in Seq(STRING)
      BY DentriesAssumption, Zenon
    <3>2. QED
      BY <1>3, <3>1
  <2>2. Min({index + 1, len}) = IF index + 1 <= len THEN index + 1 ELSE len
    BY <1>3, <2>1, MinOfTwo
  <2>3. CASE index >= len
    <3>1. Min({index + 1, len}) = index /\ data = <<>>
      BY <1>3, <2>2, <2>3
    <3>2. SubSeq(Dentries, index + 1, index) = <<>>
      BY <1>3, <2>1, SubSeqProperties
    <3>3. QED
      BY <3>1, <3>2
  <2>4. CASE ~(index >= len)
    <3>1. Min({index + 1, len}) = index + 1 /\ data = <<Dentries[index + 1]>>
      BY <1>3, <2>2, <2>4
    <3> DEFINE s == SubSeq(Dentries, index + 1, index + 1)
    <3>2. index + 1 \in 1..len
      BY <1>3, <2>4
    <3>3. s \in Seq(STRING) /\ Len(s) = 1 /\ s[1] = Dentries[index + 1]
      BY <1>3, <2>1, <3>2, SubSeqProperties
    <3> HIDE DEF s
    <3>4. s = <<s[1]>>
      BY <3>3
    <3>5. QED
      BY <3>1, <3>3, <3>4 DEF s
  <2>5. QED
    BY <2>3, <2>4
<1>6. fileDesc[fd] \in Descriptor /\ IsDir(fileDesc[fd])
  BY <1>2 DEF FilesInv, IsDir
<1> HIDE DEF data
<1>7. Table[fd] = [file |-> ".", pos |-> index]
  BY <1>6, TableIs, Entries
<1>8. Table' = [Table EXCEPT ![fd] = [file |-> ".", pos |-> index + Len(data)]]
  <2>1. Change(fd, fileDesc[fd])
    BY <1>2 DEF Change, FilesInv
  <2>2. \A f \in DirFds : f # fd => index' = index
    BY <1>1
  <2>3. Table' = [Table EXCEPT ![fd] = EntryOf(fileDesc[fd], index')]
    BY <1>6, <2>1, <2>2, TableChange
  <2>4. EntryOf(fileDesc[fd], index') = [file |-> ".", pos |-> index + Len(data)]
    BY <1>4, <1>6, Entries
  <2>5. QED
    BY <2>3, <2>4, Zenon
<1>9. "." \in Names /\ Contents["."] = Dentries
  BY DentriesAssumption, ContentsAre
<1>10. Reads(fd, [file |-> ".", pos |-> index], Contents["."], IF "." = "." THEN 1 ELSE n, data)
  BY <1>4, <1>5, <1>7, <1>8, <1>9 DEF Reads
<1>11. QED
  BY <1>2, <1>3, <1>4, <1>9, <1>10, ReadsIs

LEMMA RtcReads ==
  ASSUME FilesInv, NEW fd \in Fds, NEW n \in Sizes, ReadRtc(fd)
  PROVE  D!Read(fd, n)
<1>1. /\ call = NoCall /\ call' = call /\ UNCHANGED <<fileDesc, index>>
      /\ fileDesc[fd].flags = 1 /\ fileDesc[fd].fops = "rtc"
      /\ ret' = [val |-> 0, data |-> <<>>]
  BY DEF ReadRtc
<1>2. "rtc" \in Names /\ Contents["rtc"] = <<>>
  BY DentriesAssumption, ContentsAre
<1>3. SubSeq(<<>>, 0 + 1, Min({0 + n, 0})) = <<>>
  <2>1. n \in Nat /\ 0 + n = n
    BY SizeAssumption
  <2>2. Min({n, 0}) = 0
    BY <2>1, MinOfTwo
  <2>3. QED
    BY <2>1, <2>2
<1>4. Table[fd] = [file |-> "rtc", pos |-> 0]
  <2>1. fileDesc[fd] \in Descriptor
    BY DEF FilesInv
  <2>2. QED
    BY <1>1, <2>1, TableIs, Entries
<1>5. Table' = [Table EXCEPT ![fd] = [file |-> "rtc", pos |-> 0 + Len(<<>>)]]
  <2>1. Table' = Table
    BY <1>1, TableIs
  <2>2. QED
    BY <1>4, <2>1, TableIs
<1>6. Reads(fd, [file |-> "rtc", pos |-> 0], Contents["rtc"],
            IF "rtc" = "." THEN 1 ELSE n, <<>>)
  BY <1>1, <1>2, <1>3, <1>4, <1>5 DEF Reads
<1>7. Len(<<>>) \in Nat /\ 0 \in Nat /\ "rtc" # ""
  OBVIOUS
<1>8. QED
  BY <1>1, <1>2, <1>6, <1>7, ReadsIs, Zenon

\* close and halt.
LEMMA Closes ==
  ASSUME FilesInv, NEW fd \in Fds, Close(fd)
  PROVE  D!Close(fd)
<1> DEFINE d == Shut(fileDesc[fd])
<1>1. /\ call = NoCall /\ call' = call /\ fileDesc[fd].flags = 1
      /\ d \in Descriptor /\ d.flags = 0
      /\ Change(fd, d)
      /\ index' = IF fd \in DirFds THEN 0 ELSE index
      /\ ret' = [val |-> 0, data |-> <<>>]
  BY CloseIs
<1> HIDE DEF d
<1>2. \A f \in DirFds : f # fd => index' = index
  <2> SUFFICES ASSUME NEW f \in DirFds, f # fd PROVE index' = index
    OBVIOUS
  <2>1. fd \in DirFds => index = 0
    BY DEF FilesInv, IndexInv
  <2>2. QED
    BY <1>1, <2>1
<1>3. Table' = [Table EXCEPT ![fd] = D!Closed]
  <2>1. Table' = [Table EXCEPT ![fd] = EntryOf(d, index')]
    BY <1>1, <1>2, TableChange
  <2>2. EntryOf(d, index') = D!Closed
    BY <1>1, Entries
  <2>3. QED
    BY <2>1, <2>2, Zenon
<1>4. Table[fd] # D!Closed
  <2>1. fileDesc[fd] \in Descriptor
    BY DEF FilesInv
  <2>2. EntryOf(fileDesc[fd], index) # D!Closed
    BY <1>1, <2>1, Entries
  <2>3. QED
    BY <2>2, TableIs
<1>5. Asked = "" /\ Asked' = ""
  BY <1>1 DEF Asked, NoCall
<1>6. QED
  BY <1>1, <1>3, <1>4, <1>5, Zenon DEF D!Close, D!Nothing, Asked

\* A table of closed descriptors.
LEMMA AllClosed ==
  ASSUME FilesInv, fileDesc' = [fd \in Fds |-> [fileDesc[fd] EXCEPT !.flags = 0]]
  PROVE  Table' = [fd \in Fds |-> D!Closed]
<1>1. fileDesc' \in [Fds -> Descriptor] /\ \A fd \in Fds : fileDesc'[fd].flags = 0
  BY AllShut
<1>2. \A fd \in Fds : EntryOf(fileDesc'[fd], index') = D!Closed
  <2> SUFFICES ASSUME NEW fd \in Fds PROVE EntryOf(fileDesc'[fd], index') = D!Closed
    OBVIOUS
  <2>1. fileDesc'[fd] \in Descriptor /\ fileDesc'[fd].flags = 0
    BY <1>1
  <2>2. QED
    BY <2>1, Entries
<1>3. QED
  BY <1>2, TableIs

LEMMA HaltExits ==
  ASSUME FilesInv, HaltCloses
  PROVE  D!Exit
<1>1. /\ call = NoCall /\ call' = call /\ ret' = ret
      /\ fileDesc' = [fd \in Fds |-> [fileDesc[fd] EXCEPT !.flags = 0]]
  BY DEF HaltCloses
<1>2. Table' = [fd \in Fds |-> D!Closed]
  BY <1>1, AllClosed
<1>3. Asked = "" /\ Asked' = ""
  BY <1>1 DEF Asked, NoCall
<1>4. QED
  BY <1>1, <1>2, <1>3, Zenon DEF D!Exit, D!Nothing, Asked

\* What a call answers when it refuses.
LEMMA Fails ==
  ASSUME call = NoCall, ret' = Error, UNCHANGED <<fileDesc, index, call>>
  PROVE  D!Fail
<1>1. Table' = Table
  BY TableIs
<1>2. Asked = "" /\ Asked' = ""
  BY DEF Asked, NoCall
<1>3. ret' = D!Error
  BY DEF Error, D!Error
<1>4. QED
  BY <1>1, <1>2, <1>3, Zenon DEF D!Fail, D!Nothing, Asked

\* A program's loading does not show in the descriptors: the shell has none
\* open, nor has the program.
LEMMA LoadStutters ==
  ASSUME FilesInv, ExecLoad
  PROVE  UNCHANGED D!vars
<1>1. /\ call.op = "load" /\ call' = NoCall /\ ret' = ret
      /\ fileDesc' = [fd \in Fds |-> [fileDesc[fd] EXCEPT !.flags = 0]]
  BY DEF ExecLoad
<1>2. Table' = [fd \in Fds |-> D!Closed]
  BY <1>1, AllClosed
<1>3. Table = [fd \in Fds |-> D!Closed]
  <2>1. \A fd \in Fds : EntryOf(fileDesc[fd], index) = D!Closed
    <3> SUFFICES ASSUME NEW fd \in Fds PROVE EntryOf(fileDesc[fd], index) = D!Closed
      OBVIOUS
    <3>1. fileDesc[fd] \in Descriptor /\ fileDesc[fd].flags = 0
      BY <1>1 DEF FilesInv, CallInv, FreeFds
    <3>2. QED
      BY <3>1, Entries
  <2>2. QED
    BY <2>1, TableIs
<1>4. Asked = "" /\ Asked' = ""
  BY <1>1 DEF Asked, NoCall
<1>5. QED
  BY <1>1, <1>2, <1>3, <1>4, Zenon DEF D!vars, Asked

\* Steps that leave the descriptors, and what is being opened, alone.
LEMMA Stutters ==
  ASSUME UNCHANGED <<fileDesc, index, ret>>,
         call.op # "open", call'.op # "open" \/ call' = call
  PROVE  UNCHANGED D!vars
<1>1. Table' = Table
  BY TableIs
<1>2. Asked = "" /\ Asked' = ""
  BY DEF Asked
<1>3. QED
  BY <1>1, <1>2, Zenon DEF D!vars, Asked

\* Each step of the system calls is one of Descriptors, or none.
LEMMA StepServes ==
  ASSUME Exposed = {}, FilesInv, [Next]_vars
  PROVE  [D!Next]_(D!vars)
<1>1. DOMAIN Contents = Names /\ "." \in Names /\ "rtc" \in Names
  BY ContentsAre, DentriesAssumption
<1>2. CASE OpenSpecial(".", "dir")
  <2>1. D!Open(".")
    BY <1>2, SpecialOpens
  <2>2. QED
    BY <1>1, <2>1, Zenon DEF D!Next
<1>3. CASE OpenSpecial("rtc", "rtc")
  <2>1. D!Open("rtc")
    BY <1>3, SpecialOpens
  <2>2. QED
    BY <1>1, <2>1, Zenon DEF D!Next
<1>4. ASSUME NEW name \in Names \ {".", "rtc"}, OpenLookup(name) PROVE [D!Next]_(D!vars)
  <2>1. D!Ask(name) /\ name \in Names
    BY <1>4, LookupAsks
  <2>2. QED
    BY <1>1, <2>1, Zenon DEF D!Next
<1>5. CASE OpenFinish
  <2>1. D!Open(call.name) /\ call.name \in Names
    BY <1>5, FinishOpens
  <2>2. QED
    BY <1>1, <2>1, Zenon DEF D!Next
<1>6. ASSUME NEW fd \in Fds, NEW n \in Sizes, ReadFile(fd, n) PROVE [D!Next]_(D!vars)
  <2>1. D!Read(fd, n)
    BY <1>6, FileReads
  <2>2. QED
    BY <2>1, Zenon DEF D!Next
<1>7. ASSUME NEW fd \in Fds, ReadDir(fd) \/ ReadRtc(fd) PROVE [D!Next]_(D!vars)
  <2>1. PICK n \in Sizes : TRUE
    BY SizeAssumption
  <2>2. D!Read(fd, n)
    BY <1>7, DirReads, RtcReads
  <2>3. QED
    BY <2>2, Zenon DEF D!Next
<1>8. ASSUME NEW fd \in Fds, Close(fd) PROVE [D!Next]_(D!vars)
  <2>1. D!Close(fd)
    BY <1>8, Closes
  <2>2. QED
    BY <2>1, Zenon DEF D!Next
<1>9. CASE HaltCloses
  <2>1. D!Exit
    BY <1>9, HaltExits
  <2>2. QED
    BY <2>1, Zenon DEF D!Next
<1>10. ASSUME OpenFails \/ \E fd \in Fds : BadFd(fd) PROVE [D!Next]_(D!vars)
  <2>1. call = NoCall /\ ret' = Error /\ UNCHANGED <<fileDesc, index, call>>
    BY <1>10 DEF OpenFails, BadFd
  <2>2. D!Fail
    BY <2>1, Fails
  <2>3. QED
    BY <2>2, Zenon DEF D!Next
<1>11. CASE ExecLoad
  BY <1>11, LoadStutters
<1>12. ASSUME NEW name \in Names, ExecOpen(name) PROVE [D!Next]_(D!vars)
  <2>1. UNCHANGED <<fileDesc, index, ret>> /\ call = NoCall /\ call'.op = "exec"
    BY <1>12 DEF ExecOpen
  <2>2. call.op # "open"
    BY <2>1 DEF NoCall
  <2>3. QED
    BY <2>1, <2>2, Stutters
<1>13. CASE ExecHeader
  <2>1. /\ UNCHANGED <<fileDesc, index, ret>> /\ call.op = "exec"
        /\ call' = [call EXCEPT !.op = "load"] \/ call' = NoCall
    BY <1>13 DEF ExecHeader
  <2>2. [call EXCEPT !.op = "load"].op = "load"
    BY DEF FilesInv, CallInv
  <2>3. NoCall.op = "none"
    BY DEF NoCall
  <2>4. call'.op \in {"load", "none"}
    BY <2>1, <2>2, <2>3, Zenon
  <2>5. call.op # "open" /\ call'.op # "open"
    BY <2>1, <2>4
  <2>6. QED
    BY <2>1, <2>5, Stutters
<1>14. CASE Interrupt
  <2>1. UNCHANGED <<fileDesc, index, ret>> /\ call = NoCall /\ call' = call
    BY <1>14 DEF Interrupt
  <2>2. call.op # "open"
    BY <2>1 DEF NoCall
  <2>3. QED
    BY <2>1, <2>2, Stutters
<1>15. CASE UNCHANGED vars
  <2>1. Table' = Table
    BY <1>15, TableIs DEF vars
  <2>2. call' = call /\ ret' = ret
    BY <1>15 DEF vars
  <2>3. UNCHANGED D!vars
    BY <2>1, <2>2, Zenon DEF D!vars
  <2>4. QED
    BY <2>3
<1>16. QED
  BY <1>2, <1>3, <1>4, <1>5, <1>6, <1>7, <1>8, <1>9, <1>10, <1>11, <1>12, <1>13,
     <1>14, <1>15, Zenon DEF Next

\* A program that runs has every descriptor closed.
LEMMA InitServes == Init => D!Init
<1> SUFFICES ASSUME Init PROVE D!Init
  OBVIOUS
<1>1. \A fd \in Fds : EntryOf(fileDesc[fd], index) = D!Closed
  <2> SUFFICES ASSUME NEW fd \in Fds PROVE EntryOf(fileDesc[fd], index) = D!Closed
    OBVIOUS
  <2>1. fileDesc[fd].flags = 0
    BY DEF Init
  <2>2. QED
    BY <2>1 DEF EntryOf, D!Closed
<1>2. Table = [fd \in Fds |-> D!Closed]
  BY <1>1, TableIs
<1>3. Asked = ""
  BY DEF Init, Asked, NoCall
<1>4. ret = D!Error
  BY DEF Init, Error, D!Error
<1>5. QED
  BY <1>2, <1>3, <1>4, Zenon DEF D!Init, D!Nothing, Asked

\* As long as nothing interrupts a call and the directory is open once, open,
\* read, close and halt do what a program may expect: a descriptor delivers
\* the file it was opened for, in order and from its beginning, and the
\* directory every name, whatever happens to the other descriptors (file.c:
\* read_data, dir_read; system.c: open, read, close, halt).
THEOREM ServesCorrect ==
  ASSUME Exposed = {}
  PROVE  Spec => Serves
<1>1. Init => FilesInv /\ D!Init
  BY InitFiles, InitServes
<1>2. FilesInv /\ [Next]_vars => FilesInv' /\ [D!Next]_(D!vars)
  BY StepKeeps, StepServes
<1>3. QED
  BY <1>1, <1>2, PTL DEF Spec, Serves, D!Spec

(***************************************************************************)
(* Syserr: what its calls are.                                             *)
(***************************************************************************)
Letters == STRING
Blank   == " "

CallSet == [op   : {"open", "read", "write", "close", "vidmap", "number"},
            arg  : Int \cup Seq(Letters),
            want : {"refusal", "count", "any"}]

\* Calls that are refused as long as nothing is open.
NoFd(fd) == fd < Stdin \/ fd > HighFd - 1 \/ fd \in Fds
Hopeless(c) ==
  \/ c.op = "open" /\ Found(c.arg) = {}
  \/ c.op = "read" /\ (NoFd(c.arg) \/ c.arg = Stdout)
  \/ c.op = "write" /\ (NoFd(c.arg) \/ c.arg = Stdin)
  \/ c.op = "close" /\ (c.arg < LowFd \/ NoFd(c.arg))
  \/ c.op = "vidmap" /\ NoScreen(c.arg)
  \/ c.op = "number" /\ NoCallNumber(c.arg)
Bad == {c \in CallSet : c.want = "refusal" /\ Hopeless(c)}

LEMMA HopelessRefused ==
  ASSUME NEW c \in Bad, \A fd \in Fds : fileDesc[fd].flags = 0
  PROVE  Refuses(c)
<1>1. NoFd(c.arg) => NotOpen(c.arg)
  BY DEF NoFd, NotOpen
<1>2. Hopeless(c) /\ c.op \in {"open", "read", "write", "close", "vidmap", "number"}
  BY DEF Bad, CallSet
<1>3. CASE c.op = "open"
  BY <1>2, <1>3 DEF Refuses, Hopeless
<1>4. CASE c.op = "read"
  BY <1>1, <1>2, <1>4 DEF Refuses, Hopeless, Unreadable
<1>5. CASE c.op = "write"
  BY <1>1, <1>2, <1>5 DEF Refuses, Hopeless, Unwritable
<1>6. CASE c.op = "close"
  BY <1>1, <1>2, <1>6 DEF Refuses, Hopeless
<1>7. CASE c.op = "vidmap"
  BY <1>2, <1>7 DEF Refuses, Hopeless
<1>8. CASE c.op = "number"
  BY <1>2, <1>8 DEF Refuses, Hopeless
<1>9. QED
  BY <1>2, <1>3, <1>4, <1>5, <1>6, <1>7, <1>8

LEMMA CallsAre ==
  ASSUME NEW op \in {"open", "read", "write", "close", "vidmap", "number"},
         NEW args \in Seq(Int \cup Seq(Letters)),
         \A i \in 1..Len(args) :
           Hopeless([op |-> op, arg |-> args[i], want |-> "refusal"])
  PROVE  Calls(op, args) \in Seq(Bad) /\ Len(Calls(op, args)) = Len(args)
<1>1. \A i \in 1..Len(args) : [op |-> op, arg |-> args[i], want |-> "refusal"] \in Bad
  BY DEF Bad, CallSet
<1>2. Len(args) \in Nat
  OBVIOUS
<1>3. QED
  BY <1>1, <1>2 DEF Calls

(***************************************************************************)
(* Names: nothing is called "helloo", "shel" or "".                        *)
(***************************************************************************)
\* A sequence no longer than one that begins it is that one.
LEMMA PrefixWhole ==
  ASSUME NEW S, NEW a \in Seq(S), NEW b \in Seq(S), IsPrefix(b, a), Len(a) <= Len(b)
  PROVE  a = b
<1>1. Len(a) = Len(b) /\ SubSeq(b, 1, Len(b)) = SubSeq(a, 1, Len(b))
  BY DEF IsPrefix
<1>2. \A i \in 1..Len(b) : a[i] = b[i]
  <2>1. \A i \in 1..Len(b) : SubSeq(b, 1, Len(b))[i] = b[i] /\ SubSeq(a, 1, Len(b))[i] = a[i]
    BY <1>1
  <2>2. QED
    BY <1>1, <2>1
<1>3. QED
  BY <1>1, <1>2, SeqEqual

LEMMA SpellIs ==
  ASSUME NEW name \in Names
  PROVE  /\ Spell[name] \in Seq(Letters) /\ Len(Spell[name]) \in 1..FieldSize
         /\ FieldSize \in Nat
         /\ \A i \in 1..Len(Spell[name]) : Spell[name][i] # Blank
<1> DEFINE a == Spell[name]
<1>1. a \in Seq(Letters) /\ Len(a) \in 1..FieldSize /\ FieldSize \in Nat
  BY SpellAssumption, Zenon DEF Letters
<1>2. Blank \notin Range(a)
  BY AbsentAssumption, Zenon DEF Blank
<1> HIDE DEF a
<1>3. DOMAIN a = 1..Len(a)
  BY <1>1
<1>4. \A i \in 1..Len(a) : a[i] # Blank
  BY <1>2, <1>3, Zenon DEF Range
<1>5. QED
  BY <1>1, <1>4 DEF a

\* A name asked for that fits the field is that of a file or of none.
LEMMA CompareFits ==
  ASSUME NEW a \in Seq(Letters), Len(a) <= FieldSize, NEW name \in Names,
         Compare(a, Spell[name])
  PROVE  a = Spell[name]
<1>1. Spell[name] \in Seq(Letters)
  BY SpellIs
<1>2. QED
  BY <1>1, PrefixWhole DEF Compare

LEMMA NothingFound ==
  /\ Helloo \in Seq(Letters) /\ Shel \in Seq(Letters)
  /\ Found(Helloo) = {} /\ Found(Shel) = {} /\ Found(<<>>) = {}
<1>1. Hello \in Names /\ Shell \in Names
  BY SpellAssumption
<1> DEFINE h == Spell[Hello]
           s == Spell[Shell]
<1>2. /\ h \in Seq(Letters) /\ Len(h) \in 1..FieldSize /\ FieldSize \in Nat
      /\ s \in Seq(Letters) /\ Len(s) \in 1..FieldSize
      /\ \A i \in 1..Len(h) : h[i] # Blank
  BY <1>1, SpellIs
<1> HIDE DEF h, s
<1>3. /\ Helloo \in Seq(Letters) /\ Len(Helloo) = Len(h) + 1
      /\ Helloo[Len(h) + 1] # Blank
  <2>1. Helloo = Append(h, h[Len(h)])
    BY DEF Helloo, Last, h
  <2>2. h[Len(h)] \in Letters /\ h[Len(h)] # Blank
    BY <1>2
  <2> DEFINE l == h[Len(h)]
  <2> HIDE DEF l
  <2>3. /\ Append(h, l) \in Seq(Letters) /\ Len(Append(h, l)) = Len(h) + 1
        /\ Append(h, l)[Len(h) + 1] = l
    BY <1>2, <2>2 DEF l
  <2>4. QED
    BY <2>1, <2>2, <2>3 DEF l
<1>4. Shel \in Seq(Letters) /\ Len(Shel) = Len(s) - 1
  <2> DEFINE n == Len(s) - 1
  <2>1. Shel = SubSeq(s, 1, n)
    BY DEF Shel, Front, s
  <2>2. n \in Nat /\ n <= Len(s) /\ \A i \in 1..n : s[i] \in Letters
    BY <1>2
  <2> HIDE DEF n
  <2>3. Shel \in Seq(Letters) /\ Len(Shel) = n
    BY <2>1, <2>2, SubSeqProperties
  <2>4. QED
    BY <2>3 DEF n
<1>5. ASSUME NEW name \in Names, Compare(Helloo, Spell[name]) PROVE FALSE
  <2>1. Helloo # Spell[name]
    BY AbsentAssumption
  <2>2. CASE Len(Helloo) <= FieldSize
    BY <1>3, <1>5, <2>1, <2>2, CompareFits
  <2>3. CASE ~(Len(Helloo) <= FieldSize)
    <3>1. Len(Helloo) = FieldSize + 1 /\ Len(Helloo) > FieldSize /\ Len(h) = FieldSize
      BY <1>2, <1>3, <2>3
    <3>2. Helloo[FieldSize + 1] = Blank
      BY <1>5, <2>1, <3>1, Zenon DEF Compare, Blank
    <3>3. QED
      BY <1>3, <3>1, <3>2
  <2>4. QED
    BY <2>2, <2>3
<1>6. ASSUME NEW name \in Names, Compare(Shel, Spell[name]) PROVE FALSE
  <2>0. Shel # Spell[name]
    BY AbsentAssumption, Zenon
  <2>1. Shel # Spell[name] /\ Len(Shel) <= FieldSize
    BY <1>2, <1>4, <2>0
  <2>2. QED
    BY <1>4, <1>6, <2>1, CompareFits
<1>7. ASSUME NEW name \in Names, Compare(<<>>, Spell[name]) PROVE FALSE
  <2>1. <<>> \in Seq(Letters) /\ Len(<<>>) = 0 /\ 0 <= FieldSize
    BY <1>2
  <2>2. <<>> = Spell[name]
    BY <1>7, <2>1, CompareFits, Zenon
  <2>3. Len(Spell[name]) \in 1..FieldSize /\ FieldSize \in Nat
    BY SpellIs
  <2>4. QED
    BY <2>1, <2>2, <2>3
<1>8. QED
  BY <1>3, <1>4, <1>5, <1>6, <1>7, Zenon DEF Found

\* The test's own file is the directory, and is found.
LEMMA DirectoryFound ==
  Found(Spell["."]) = {"."} /\ Spell["."] \in Seq(Letters)
<1>1. "." \in Names
  BY DentriesAssumption
<1>2. /\ Spell["."] \in Seq(Letters) /\ Len(Spell["."]) \in 1..FieldSize /\ FieldSize \in Nat
  BY <1>1, SpellIs
<1>3. Compare(Spell["."], Spell["."])
  <2> DEFINE a == Spell["."]
  <2>1. Len(a) \in Nat /\ FieldSize \in Nat /\ Len(a) <= FieldSize
    BY <1>2
  <2> HIDE DEF a
  <2>2. IsPrefix(a, a) /\ (Len(a) < FieldSize \/ (Len(a) = FieldSize /\ ~(Len(a) > FieldSize)))
    BY <2>1 DEF IsPrefix
  <2>3. Compare(a, a)
    BY <2>2, Zenon DEF Compare
  <2>4. QED
    BY <2>3 DEF a
<1>4. ASSUME NEW name \in Names, Compare(Spell["."], Spell[name]) PROVE name = "."
  <2>1. Spell["."] = Spell[name]
    BY <1>2, <1>4, CompareFits
  <2>2. QED
    BY <1>1, <2>1, SpellAssumption
<1>5. QED
  BY <1>1, <1>2, <1>3, <1>4 DEF Found

(***************************************************************************)
(* The calls one by one: six that are refused; one open more than there    *)
(* are descriptors; as many closes as there are; and calls refused again.  *)
(***************************************************************************)
Count == HighFd - LowFd
TheOpen == [op |-> "open", arg |-> Spell["."], want |-> "count"]
TheClose(i) == [op |-> "close", arg |-> LowFd + i - 1, want |-> "any"]

\* Calls that begin like Syserr's and have only refused ones after the closes.
Scripted(s) ==
  /\ s \in Seq(CallSet) /\ Len(s) >= 7 + 2 * Count
  /\ \A i \in 1..6 : s[i] \in Bad
  /\ \A i \in 7..(7 + Count) : s[i] = TheOpen
  /\ \A i \in 1..Count : s[7 + Count + i] = TheClose(i)
  /\ \A i \in (8 + 2 * Count)..Len(s) : s[i] \in Bad

LEMMA CountIs == Count \in Nat /\ Count >= 1 /\ HighFd = LowFd + Count /\ LowFd = 2
BY SizeAssumption DEF Count, LowFd

LEMMA BadCall == ASSUME NEW s \in Seq(Bad) PROVE s \in Seq(CallSet)
BY SeqMonotonic DEF Bad

\* More of them.
LEMMA ScriptGoesOn ==
  ASSUME NEW s, Scripted(s), NEW t \in Seq(Bad)
  PROVE  Scripted(s \o t)
<1> DEFINE c == s \o t
<1>1. /\ s \in Seq(CallSet) /\ Len(s) \in Nat /\ Len(s) >= 7 + 2 * Count
      /\ t \in Seq(CallSet) /\ Len(t) \in Nat /\ Count \in Nat
      /\ \A i \in 1..Len(t) : t[i] \in Bad
  BY BadCall, CountIs DEF Scripted
<1>2. /\ c \in Seq(CallSet) /\ Len(c) = Len(s) + Len(t)
      /\ \A i \in 1..(Len(s) + Len(t)) : c[i] = IF i <= Len(s) THEN s[i] ELSE t[i - Len(s)]
  BY <1>1, ConcatProperties
<1> HIDE DEF c
<1>3. \A i \in 1..Len(s) : c[i] = s[i]
  <2>1. \A i \in 1..Len(s) : i \in 1..(Len(s) + Len(t)) /\ i <= Len(s)
    BY <1>1
  <2>2. QED
    BY <1>2, <2>1
<1>4. \A i \in 1..6 : c[i] \in Bad
  <2>1. \A i \in 1..6 : i \in 1..Len(s)
    BY <1>1
  <2>2. QED
    BY <1>3, <2>1 DEF Scripted
<1>5. \A i \in 7..(7 + Count) : c[i] = TheOpen
  <2>1. \A i \in 7..(7 + Count) : i \in 1..Len(s)
    BY <1>1
  <2>2. QED
    BY <1>3, <2>1 DEF Scripted
<1>6. \A i \in 1..Count : c[7 + Count + i] = TheClose(i)
  <2>1. \A i \in 1..Count : 7 + Count + i \in 1..Len(s)
    BY <1>1
  <2>2. QED
    BY <1>3, <2>1 DEF Scripted
<1>7. ASSUME NEW i \in (8 + 2 * Count)..Len(c) PROVE c[i] \in Bad
  <2>1. CASE i <= Len(s)
    <3>1. i \in 1..Len(s) /\ i \in (8 + 2 * Count)..Len(s)
      BY <1>1, <1>2, <2>1
    <3>2. QED
      BY <1>3, <3>1 DEF Scripted
  <2>2. CASE ~(i <= Len(s))
    <3>1. i \in 1..(Len(s) + Len(t)) /\ i - Len(s) \in 1..Len(t)
      BY <1>1, <1>2, <2>2
    <3>2. c[i] = t[i - Len(s)]
      BY <1>2, <2>2, <3>1
    <3>3. QED
      BY <1>1, <3>1, <3>2
  <2>3. QED
    BY <2>1, <2>2
<1>8. Len(c) >= 7 + 2 * Count
  BY <1>1, <1>2
<1>9. QED
  BY <1>2, <1>4, <1>5, <1>6, <1>7, <1>8 DEF Scripted, c

\* One call, and several.
LEMMA OneCall ==
  ASSUME NEW op \in {"open", "read", "write", "close", "vidmap", "number"},
         NEW a \in Int \cup Seq(Letters),
         Hopeless([op |-> op, arg |-> a, want |-> "refusal"])
  PROVE  Calls(op, <<a>>) \in Seq(Bad) /\ Len(Calls(op, <<a>>)) = 1
<1> DEFINE s == <<a>>
<1>1. s \in Seq(Int \cup Seq(Letters)) /\ Len(s) = 1 /\ s[1] = a
  OBVIOUS
<1> HIDE DEF s
<1>2. \A i \in 1..Len(s) : Hopeless([op |-> op, arg |-> s[i], want |-> "refusal"])
  <2>1. \A i \in 1..1 : i = 1
    OBVIOUS
  <2>2. QED
    BY <1>1, <2>1
<1>3. Calls(op, s) \in Seq(Bad) /\ Len(Calls(op, s)) = 1
  BY <1>1, <1>2, CallsAre
<1>4. QED
  BY <1>3 DEF s

LEMMA FdHopeless ==
  ASSUME NEW op \in {"read", "write", "close"}, NEW fd \in Int, NoFd(fd)
  PROVE  Hopeless([op |-> op, arg |-> fd, want |-> "refusal"])
BY DEF Hopeless

LEMMA BigIs == NoFd(Big) /\ NoFd(-Big) /\ Big \in Int /\ -Big \in Int
BY SizeAssumption, DescriptorAssumption DEF NoFd, Big, Stdin

LEMMA BadConcat ==
  ASSUME NEW s \in Seq(Bad), NEW t \in Seq(Bad)
  PROVE  s \o t \in Seq(Bad) /\ Len(s \o t) = Len(s) + Len(t)
BY ConcatProperties

LEMMA NegAndBig ==
  /\ ErrNegFd \in Seq(Bad) /\ Len(ErrNegFd) = 3
  /\ ErrBigFd \in Seq(Bad) /\ Len(ErrBigFd) = 3
<1>1. ASSUME NEW fd \in Int, NoFd(fd)
      PROVE  LET s == Calls("read", <<fd>>) \o Calls("write", <<fd>>) \o Calls("close", <<fd>>)
             IN  s \in Seq(Bad) /\ Len(s) = 3
  <2> DEFINE r == Calls("read", <<fd>>)
             w == Calls("write", <<fd>>)
             c == Calls("close", <<fd>>)
  <2>1. /\ r \in Seq(Bad) /\ Len(r) = 1
        /\ w \in Seq(Bad) /\ Len(w) = 1
        /\ c \in Seq(Bad) /\ Len(c) = 1
    BY <1>1, OneCall, FdHopeless
  <2> HIDE DEF r, w, c
  <2> DEFINE t == r \o w
  <2>2. t \in Seq(Bad) /\ Len(t) = Len(r) + Len(w)
    BY <2>1, BadConcat, Zenon
  <2> HIDE DEF t
  <2>3. t \o c \in Seq(Bad) /\ Len(t \o c) = Len(t) + Len(c)
    BY <2>1, <2>2, BadConcat, Zenon
  <2>4. Len(t \o c) = 3
    BY <2>1, <2>2, <2>3
  <2>5. QED
    BY <2>3, <2>4 DEF r, w, c, t
<1>2. QED
  BY <1>1, BigIs, Zenon DEF ErrNegFd, ErrBigFd

LEMMA OpenLotsIs ==
  /\ ErrOpenLots \in Seq(CallSet) /\ Len(ErrOpenLots) = 1 + 2 * Count
  /\ \A i \in 1..(1 + Count) : ErrOpenLots[i] = TheOpen
  /\ \A i \in 1..Count : ErrOpenLots[1 + Count + i] = TheClose(i)
<1> DEFINE a == [i \in 1..(HighFd - LowFd + 1) |-> TheOpen]
           b == [i \in 1..(HighFd - LowFd) |-> TheClose(i)]
<1>1. TheOpen \in CallSet /\ \A i \in 1..Count : TheClose(i) \in CallSet
  <2>1. Spell["."] \in Int \cup Seq(Letters)
    BY DirectoryFound
  <2>2. \A i \in 1..Count : LowFd + i - 1 \in Int
    BY CountIs
  <2>3. QED
    BY <2>1, <2>2 DEF TheOpen, TheClose, CallSet
<1>2. Count \in Nat /\ HighFd - LowFd = Count /\ HighFd - LowFd + 1 = 1 + Count
  BY CountIs
<1>3. /\ a \in Seq(CallSet) /\ Len(a) = 1 + Count /\ \A i \in 1..(1 + Count) : a[i] = TheOpen
      /\ b \in Seq(CallSet) /\ Len(b) = Count /\ \A i \in 1..Count : b[i] = TheClose(i)
  BY <1>1, <1>2
<1>4. ErrOpenLots = a \o b
  BY Zenon DEF ErrOpenLots, TheOpen, TheClose
<1> HIDE DEF a, b
<1>5. /\ a \o b \in Seq(CallSet) /\ Len(a \o b) = 1 + Count + Count
      /\ \A i \in 1..(1 + Count + Count) : (a \o b)[i] = IF i <= 1 + Count THEN a[i] ELSE b[i - (1 + Count)]
  <2>1. /\ a \o b \in Seq(CallSet) /\ Len(a \o b) = Len(a) + Len(b)
        /\ \A i \in 1..(Len(a) + Len(b)) : (a \o b)[i] = IF i <= Len(a) THEN a[i] ELSE b[i - Len(a)]
    BY <1>3, ConcatProperties
  <2>2. (1 + Count) + Count = 1 + Count + Count
    BY <1>2
  <2> DEFINE m == 1 + Count
  <2> HIDE DEF m
  <2>3. Len(a) = m /\ Len(b) = Count
    BY <1>3 DEF m
  <2>4. /\ a \o b \in Seq(CallSet) /\ Len(a \o b) = m + Count
        /\ \A i \in 1..(m + Count) : (a \o b)[i] = IF i <= m THEN a[i] ELSE b[i - m]
    BY <2>1, <2>3
  <2>5. QED
    BY <2>2, <2>4 DEF m
<1>6. \A i \in 1..(1 + Count) : ErrOpenLots[i] = TheOpen
  <2>1. \A i \in 1..(1 + Count) : i \in 1..(1 + Count + Count) /\ i <= 1 + Count
    BY <1>2
  <2>2. QED
    BY <1>3, <1>4, <1>5, <2>1
<1>7. \A i \in 1..Count : ErrOpenLots[1 + Count + i] = TheClose(i)
  <2> SUFFICES ASSUME NEW i \in 1..Count PROVE ErrOpenLots[1 + Count + i] = TheClose(i)
    OBVIOUS
  <2> DEFINE j == 1 + Count + i
  <2>1. j \in 1..(1 + Count + Count) /\ ~(j <= 1 + Count) /\ j - (1 + Count) = i
    BY <1>2
  <2> HIDE DEF j
  <2>2. ErrOpenLots[j] = b[i]
    BY <1>4, <1>5, <2>1
  <2>3. QED
    BY <1>3, <2>2 DEF j
<1>8. QED
  BY <1>2, <1>4, <1>5, <1>6, <1>7

LEMMA ScriptBegins == Scripted(ErrNegFd \o ErrBigFd \o ErrOpenLots)
<1> DEFINE p == ErrNegFd \o ErrBigFd
           s == p \o ErrOpenLots
<1>1. p \in Seq(Bad) /\ Len(p) = 6
  <2>1. ErrNegFd \in Seq(Bad) /\ ErrBigFd \in Seq(Bad) /\ Len(ErrNegFd) + Len(ErrBigFd) = 6
    BY NegAndBig
  <2>2. QED
    BY <2>1, BadConcat
<1> HIDE DEF p
<1>2. p \in Seq(CallSet) /\ Count \in Nat
  BY <1>1, BadCall, CountIs
<1>3. /\ s \in Seq(CallSet) /\ Len(s) = 7 + 2 * Count
      /\ \A i \in 1..(7 + 2 * Count) : s[i] = IF i <= 6 THEN p[i] ELSE ErrOpenLots[i - 6]
  <2>1. /\ s \in Seq(CallSet) /\ Len(s) = Len(p) + Len(ErrOpenLots)
        /\ \A i \in 1..(Len(p) + Len(ErrOpenLots)) :
             s[i] = IF i <= Len(p) THEN p[i] ELSE ErrOpenLots[i - Len(p)]
    BY <1>2, OpenLotsIs, ConcatProperties
  <2>2. Len(ErrOpenLots) = 1 + 2 * Count
    BY OpenLotsIs
  <2> HIDE DEF s
  <2>3. QED
    BY <1>1, <1>2, <2>1, <2>2
<1> HIDE DEF s
<1>4. \A i \in 1..6 : s[i] \in Bad
  <2>1. \A i \in 1..6 : i \in 1..(7 + 2 * Count) /\ i <= 6
    BY <1>2
  <2>2. \A i \in 1..6 : p[i] \in Bad
    BY <1>1, ElementOfSeq
  <2>3. QED
    BY <1>3, <2>1, <2>2
<1>5. \A i \in 7..(7 + Count) : s[i] = TheOpen
  <2>1. \A i \in 7..(7 + Count) : i \in 1..(7 + 2 * Count) /\ ~(i <= 6) /\ i - 6 \in 1..(1 + Count)
    BY <1>2
  <2>2. QED
    BY <1>3, <2>1, OpenLotsIs
<1>6. \A i \in 1..Count : s[7 + Count + i] = TheClose(i)
  <2> SUFFICES ASSUME NEW i \in 1..Count PROVE s[7 + Count + i] = TheClose(i)
    OBVIOUS
  <2> DEFINE j == 7 + Count + i
  <2>1. j \in 1..(7 + 2 * Count) /\ ~(j <= 6) /\ j - 6 = 1 + Count + i
    BY <1>2
  <2> HIDE DEF j
  <2>2. s[j] = ErrOpenLots[1 + Count + i]
    BY <1>3, <2>1
  <2>3. QED
    BY <2>2, OpenLotsIs DEF j
<1>7. \A i \in (8 + 2 * Count)..Len(s) : s[i] \in Bad
  BY <1>2, <1>3
<1>8. Len(s) >= 7 + 2 * Count
  BY <1>2, <1>3
<1>9. QED
  BY <1>3, <1>4, <1>5, <1>6, <1>7, <1>8 DEF Scripted, s, p

\* The calls after the closes.
LEMMA OpenBad == ErrOpen \in Seq(Bad)
<1> DEFINE e == <<>>
           args == <<Helloo, Shel, e>>
<1>1. Found(Helloo) = {} /\ Found(Shel) = {} /\ Found(e) = {}
  BY NothingFound
<1>2. Helloo \in Seq(Letters) /\ Shel \in Seq(Letters) /\ e \in Seq(Letters)
  BY NothingFound
<1> HIDE DEF e
<1>3. /\ args \in Seq(Int \cup Seq(Letters)) /\ Len(args) = 3
      /\ \A i \in 1..3 : args[i] \in {Helloo, Shel, e}
  BY <1>2
<1> HIDE DEF args
<1>4. \A i \in 1..3 : Hopeless([op |-> "open", arg |-> args[i], want |-> "refusal"])
  BY <1>1, <1>3 DEF Hopeless
<1>5. Calls("open", args) \in Seq(Bad)
  BY <1>3, <1>4, CallsAre
<1>6. QED
  BY <1>5, Zenon DEF ErrOpen, args, e

\* A call on every descriptor from one on.
LEMMA UptoBad ==
  ASSUME NEW op \in {"read", "write", "close"}, NEW lo \in {0, LowFd}, lo = LowFd \/ op = "close"
  PROVE  Calls(op, Upto(lo, HighFd - 1)) \in Seq(Bad)
<1> DEFINE u == Upto(lo, HighFd - 1)
           n == HighFd - 1 - lo + 1
<1>1. HighFd \in Nat /\ HighFd > 2 /\ LowFd = 2 /\ lo \in {0, 2} /\ n \in Nat
  BY SizeAssumption DEF LowFd
<1>2. u = [i \in 1..n |-> lo + i - 1]
  BY DEF Upto
<1>3. \A i \in 1..n : lo + i - 1 \in lo..(HighFd - 1) /\ lo + i - 1 \in Int
  BY <1>1
<1> HIDE DEF n, u
<1>4. u \in Seq(Int \cup Seq(Letters)) /\ Len(u) = n /\ \A i \in 1..n : u[i] \in lo..(HighFd - 1)
  BY <1>1, <1>2, <1>3
<1>5. ASSUME NEW fd \in lo..(HighFd - 1)
      PROVE  Hopeless([op |-> op, arg |-> fd, want |-> "refusal"])
  <2>1. fd \in Int /\ (fd < LowFd \/ fd \in Fds)
    BY <1>1 DEF Fds
  <2>2. lo = LowFd => fd \in Fds
    BY <1>1 DEF Fds
  <2>3. CASE fd \in Fds
    BY <2>1, <2>3, FdHopeless DEF NoFd
  <2>4. CASE fd < LowFd /\ op = "close"
    BY <2>4 DEF Hopeless
  <2>5. QED
    BY <2>1, <2>2, <2>3, <2>4
<1>6. Calls(op, u) \in Seq(Bad)
  BY <1>4, <1>5, CallsAre
<1>7. QED
  BY <1>6 DEF u

LEMMA UnopenedBad == ErrUnopened \in Seq(Bad)
<1> DEFINE c == Calls("close", Upto(0, HighFd - 1))
           r == Calls("read", Upto(LowFd, HighFd - 1))
           w == Calls("write", Upto(LowFd, HighFd - 1))
<1>1. c \in Seq(Bad) /\ r \in Seq(Bad) /\ w \in Seq(Bad)
  BY UptoBad
<1> HIDE DEF c, r, w
<1>2. (c \o r) \o w \in Seq(Bad)
  BY <1>1, BadConcat
<1>3. QED
  BY <1>2 DEF ErrUnopened, c, r, w

\* vidmap below the second FOURMEG, stdin and stdout the wrong way round, and
\* numbers that no call has.
LEMMA RestBad ==
  ErrVidmap \in Seq(Bad) /\ ErrStdinOut \in Seq(Bad) /\ ErrSyscallNum \in Seq(Bad)
<1>1. ErrVidmap \in Seq(Bad)
  <2> DEFINE args == <<0, 1>>
  <2>1. args \in Seq(Int \cup Seq(Letters)) /\ Len(args) = 2 /\ \A i \in 1..2 : args[i] \in {0, 1}
    OBVIOUS
  <2> HIDE DEF args
  <2>2. \A i \in 1..2 : Hopeless([op |-> "vidmap", arg |-> args[i], want |-> "refusal"])
    BY <2>1 DEF Hopeless, NoScreen
  <2>3. Calls("vidmap", args) \in Seq(Bad)
    BY <2>1, <2>2, CallsAre
  <2>4. QED
    BY <2>3 DEF ErrVidmap, args
<1>2. ErrStdinOut \in Seq(Bad)
  <2>1. /\ Hopeless([op |-> "write", arg |-> Stdin, want |-> "refusal"])
        /\ Hopeless([op |-> "read", arg |-> Stdout, want |-> "refusal"])
        /\ Stdin \in Int /\ Stdout \in Int
    BY DEF Hopeless, Stdin, Stdout
  <2>2. Calls("write", <<Stdin>>) \in Seq(Bad) /\ Calls("read", <<Stdout>>) \in Seq(Bad)
    BY <2>1, OneCall
  <2>3. QED
    BY <2>2, BadConcat DEF ErrStdinOut
<1>3. ErrSyscallNum \in Seq(Bad)
  <2> DEFINE args == <<Big, -Big, 0>>
  <2>1. Big \in Int /\ -Big \in Int /\ Big > 17 /\ -Big <= 0
    BY DEF Big
  <2>2. /\ args \in Seq(Int \cup Seq(Letters)) /\ Len(args) = 3
        /\ \A i \in 1..3 : NoCallNumber(args[i])
    BY <2>1 DEF NoCallNumber
  <2> HIDE DEF args
  <2>3. \A i \in 1..3 : Hopeless([op |-> "number", arg |-> args[i], want |-> "refusal"])
    BY <2>2 DEF Hopeless
  <2>4. Calls("number", args) \in Seq(Bad)
    BY <2>2, <2>3, CallsAre
  <2>5. QED
    BY <2>4 DEF ErrSyscallNum, args
<1>4. QED
  BY <1>1, <1>2, <1>3

LEMMA TestsAre == Scripted(Tests)
<1>1. Scripted((((((ErrNegFd \o ErrBigFd \o ErrOpenLots) \o ErrOpen) \o ErrUnopened)
                  \o ErrVidmap) \o ErrStdinOut) \o ErrSyscallNum)
  BY ScriptBegins, ScriptGoesOn, OpenBad, UnopenedBad, RestBad, Zenon
<1>2. QED
  BY <1>1, Zenon DEF Tests

(***************************************************************************)
(* Syserr's invariant: at each call which descriptors are open, and that   *)
(* one open is refused.                                                    *)
(***************************************************************************)
\* The first and past the last descriptor open before call i.
FirstOpen(i) == IF i < 8 + Count THEN LowFd
                ELSE IF i < 8 + 2 * Count THEN LowFd + (i - (8 + Count)) ELSE HighFd
PastOpen(i) == IF i <= 7 THEN LowFd ELSE IF i <= 7 + Count THEN LowFd + (i - 7) ELSE HighFd

IsDescriptor(d) ==
  /\ d = [fops |-> d.fops, inode |-> d.inode, pos |-> d.pos, flags |-> d.flags]
  /\ d.flags \in {0, 1}

DescriptorsInv == /\ fileDesc = [fd \in Fds |-> fileDesc[fd]]
                  /\ \A fd \in Fds : IsDescriptor(fileDesc[fd])

TestInv ==
  /\ test \in 0..(Len(Tests) + 1)
  /\ ~fail
  /\ test # 0 =>
       /\ \A fd \in Fds : fileDesc[fd].flags =
            IF FirstOpen(test) <= fd /\ fd < PastOpen(test) THEN 1 ELSE 0
       /\ refused = IF test <= 7 + Count THEN 0 ELSE 1

\* A descriptor with other flags, and with other operations too.
LEMMA WithFlags ==
  ASSUME NEW x, NEW v, IsDescriptor(x)
  PROVE  [x EXCEPT !.flags = v] =
           [fops |-> x.fops, inode |-> x.inode, pos |-> x.pos, flags |-> v]
<1>1. \E a, b, c, e : x = [fops |-> a, inode |-> b, pos |-> c, flags |-> e]
  BY Zenon DEF IsDescriptor
<1>2. PICK a, b, c, e : x = [fops |-> a, inode |-> b, pos |-> c, flags |-> e]
  BY <1>1
<1>3. QED
  BY <1>2

SetUp(x, o, v) == [[x EXCEPT !.fops = o] EXCEPT !.flags = v]

LEMMA SetUpIs ==
  ASSUME NEW x, NEW o, NEW v, IsDescriptor(x)
  PROVE  SetUp(x, o, v) = [fops |-> o, inode |-> x.inode, pos |-> x.pos, flags |-> v]
<1>1. \E a, b, c, e : x = [fops |-> a, inode |-> b, pos |-> c, flags |-> e]
  BY Zenon DEF IsDescriptor
<1>2. PICK a, b, c, e : x = [fops |-> a, inode |-> b, pos |-> c, flags |-> e]
  BY <1>1
<1> DEFINE y == [fops |-> o, inode |-> b, pos |-> c, flags |-> e]
<1>3. [x EXCEPT !.fops = o] = y
  BY <1>2
<1>4. [y EXCEPT !.flags = v] = [fops |-> o, inode |-> b, pos |-> c, flags |-> v]
  OBVIOUS
<1>5. x.inode = b /\ x.pos = c
  BY <1>2
<1>6. QED
  BY <1>3, <1>4, <1>5 DEF SetUp

\* What open and close do to the flags.
LEMMA OpenFlags ==
  ASSUME DescriptorsInv, NEW name, NEW fops, OpenSpecial(name, fops)
  PROVE  /\ DescriptorsInv' /\ FreeFds # {} /\ Min(FreeFds) \in FreeFds
         /\ \A fd \in FreeFds : Min(FreeFds) <= fd
         /\ \A fd \in Fds : fileDesc'[fd].flags =
              IF fd = Min(FreeFds) THEN 1 ELSE fileDesc[fd].flags
         /\ ret' # Error
<1> DEFINE m == Min(FreeFds)
<1>1. FreeFds # {} /\ FreeFds \in SUBSET Nat
  BY SizeAssumption DEF OpenSpecial, FreeFds, Fds, LowFd
<1>2. m \in FreeFds /\ \A fd \in FreeFds : m <= fd
  BY <1>1, MinIsLeast
<1>3. /\ fileDesc' = [fileDesc EXCEPT ![m].fops = fops, ![m].flags = 1]
      /\ ret' = [val |-> m, data |-> <<>>]
  BY DEF OpenSpecial, Opened
<1>4. m \in Fds /\ m >= 2
  BY <1>2, SizeAssumption DEF FreeFds, Fds, LowFd
<1> HIDE DEF m
<1>5. DOMAIN fileDesc = Fds /\ IsDescriptor(fileDesc[m])
  BY <1>4 DEF DescriptorsInv
<1> DEFINE d == [fops |-> fops, inode |-> fileDesc[m].inode, pos |-> fileDesc[m].pos, flags |-> 1]
<1>6. fileDesc' = [f \in Fds |-> IF f = m THEN d ELSE fileDesc[f]]
  <2>1. [[fileDesc[m] EXCEPT !.fops = fops] EXCEPT !.flags = 1] = d
    <3>1. SetUp(fileDesc[m], fops, 1) = d
      BY <1>5, SetUpIs
    <3>2. QED
      BY <3>1 DEF SetUp
  <2> HIDE DEF d
  <2>2. fileDesc' = [fileDesc EXCEPT ![m] =
                       [[fileDesc[m] EXCEPT !.fops = fops] EXCEPT !.flags = 1]]
    BY <1>3, <1>4, <1>5
  <2>3. QED
    BY <1>5, <2>1, <2>2
<1>7. \A f \in Fds : fileDesc'[f] = IF f = m THEN d ELSE fileDesc[f]
  BY <1>6
<1>8. IsDescriptor(d) /\ d.flags = 1
  BY DEF IsDescriptor
<1> HIDE DEF d
<1>9. DescriptorsInv'
  BY <1>6, <1>7, <1>8 DEF DescriptorsInv, IsDescriptor
<1>10. ret' # Error
  BY <1>3, <1>4 DEF Error
<1>11. \A f \in Fds : fileDesc'[f].flags = IF f = m THEN 1 ELSE fileDesc[f].flags
  BY <1>7, <1>8
<1>12. QED
  BY <1>1, <1>2, <1>9, <1>10, <1>11 DEF m

LEMMA CloseFlags ==
  ASSUME DescriptorsInv, NEW c \in Fds, Close(c)
  PROVE  /\ DescriptorsInv'
         /\ \A fd \in Fds : fileDesc'[fd].flags = IF fd = c THEN 0 ELSE fileDesc[fd].flags
<1> DEFINE d == [fops |-> fileDesc[c].fops, inode |-> fileDesc[c].inode,
                 pos |-> fileDesc[c].pos, flags |-> 0]
<1>1. DOMAIN fileDesc = Fds /\ IsDescriptor(fileDesc[c])
  BY DEF DescriptorsInv
<1>2. fileDesc' = [fileDesc EXCEPT ![c].flags = 0]
  BY DEF Close
<1>3. fileDesc' = [f \in Fds |-> IF f = c THEN d ELSE fileDesc[f]]
  <2>1. [fileDesc[c] EXCEPT !.flags = 0] = d
    BY <1>1, WithFlags
  <2> HIDE DEF d
  <2>2. fileDesc' = [fileDesc EXCEPT ![c] = [fileDesc[c] EXCEPT !.flags = 0]]
    BY <1>1, <1>2
  <2>3. QED
    BY <1>1, <2>1, <2>2
<1>4. \A f \in Fds : fileDesc'[f] = IF f = c THEN d ELSE fileDesc[f]
  BY <1>3
<1>5. IsDescriptor(d) /\ d.flags = 0
  BY DEF IsDescriptor
<1> HIDE DEF d
<1>6. QED
  BY <1>3, <1>4, <1>5 DEF DescriptorsInv, IsDescriptor

LEMMA AllFlags ==
  ASSUME DescriptorsInv, fileDesc' = [fd \in Fds |-> [fileDesc[fd] EXCEPT !.flags = 0]]
  PROVE  DescriptorsInv' /\ \A fd \in Fds : fileDesc'[fd].flags = 0
<1>1. ASSUME NEW fd \in Fds
      PROVE  IsDescriptor(fileDesc'[fd]) /\ fileDesc'[fd].flags = 0
  <2> DEFINE x == fileDesc[fd]
             y == [fops |-> x.fops, inode |-> x.inode, pos |-> x.pos, flags |-> 0]
  <2>1. fileDesc'[fd] = [x EXCEPT !.flags = 0] /\ IsDescriptor(x)
    BY DEF DescriptorsInv
  <2>2. fileDesc'[fd] = y
    BY <2>1, WithFlags
  <2>3. IsDescriptor(y) /\ y.flags = 0
    BY DEF IsDescriptor
  <2>4. QED
    BY <2>2, <2>3
<1>2. fileDesc' = [fd \in Fds |-> fileDesc'[fd]]
  OBVIOUS
<1>3. QED
  BY <1>1, <1>2 DEF DescriptorsInv, IsDescriptor

\* The steps of Files leave every descriptor one.
LEMMA NextDescriptors ==
  ASSUME DescriptorsInv, [Next]_vars
  PROVE  DescriptorsInv'
<1>1. DOMAIN fileDesc = Fds
  BY DEF DescriptorsInv
<1>2. CASE UNCHANGED fileDesc
  BY <1>2 DEF DescriptorsInv
<1>3. ASSUME NEW g, g = [fd \in Fds |-> g[fd]], fileDesc' = g,
             \A fd \in Fds : IsDescriptor(g[fd])
      PROVE  DescriptorsInv'
  BY <1>3 DEF DescriptorsInv
<1>4. CASE OpenSpecial(".", "dir") \/ OpenSpecial("rtc", "rtc")
  BY <1>4, OpenFlags
<1>5. CASE OpenFinish
  <2> DEFINE d == [fops |-> "file", inode |-> getEntry, pos |-> 0, flags |-> 1]
             g == [fileDesc EXCEPT ![Min(FreeFds)] = d]
  <2>1. fileDesc' = g
    BY <1>5 DEF OpenFinish
  <2>2. IsDescriptor(d)
    BY DEF IsDescriptor
  <2> HIDE DEF d
  <2>3. g = [fd \in Fds |-> g[fd]] /\ \A fd \in Fds : g[fd] = d \/ g[fd] = fileDesc[fd]
    BY <1>1
  <2> HIDE DEF g
  <2>4. \A fd \in Fds : IsDescriptor(g[fd])
    BY <2>2, <2>3 DEF DescriptorsInv
  <2>5. QED
    BY <1>3, <2>1, <2>3, <2>4
<1>6. ASSUME NEW fd \in Fds, NEW n \in Sizes, ReadFile(fd, n) PROVE DescriptorsInv'
  <2> DEFINE p == PosAfter(fileDesc[fd].pos, ReadData(fileDesc[fd].inode, fileDesc[fd].pos, n), n)
             d == [fileDesc[fd] EXCEPT !.pos = p]
             g == [fileDesc EXCEPT ![fd] = d]
  <2>1. fileDesc' = g
    <3>1. fileDesc' = [fileDesc EXCEPT ![fd].pos = p]
      BY <1>6, Zenon DEF ReadFile
    <3> HIDE DEF p
    <3>2. QED
      BY <1>1, <3>1
  <2> HIDE DEF p
  <2>2. IsDescriptor(d)
    <3> DEFINE x == fileDesc[fd]
    <3>1. IsDescriptor(x)
      BY DEF DescriptorsInv
    <3> HIDE DEF x
    <3>2. \E a, b, c, e : x = [fops |-> a, inode |-> b, pos |-> c, flags |-> e] /\ x.flags \in {0, 1}
      BY <3>1, Zenon DEF IsDescriptor
    <3>3. PICK a, b, c, e : x = [fops |-> a, inode |-> b, pos |-> c, flags |-> e] /\ x.flags \in {0, 1}
      BY <3>2
    <3>4. [x EXCEPT !.pos = p] = [fops |-> a, inode |-> b, pos |-> p, flags |-> e] /\ e \in {0, 1}
      BY <3>3
    <3>5. IsDescriptor([x EXCEPT !.pos = p])
      BY <3>4 DEF IsDescriptor
    <3>6. QED
      BY <3>5 DEF x
  <2> HIDE DEF d
  <2>3. g = [f \in Fds |-> g[f]] /\ \A f \in Fds : g[f] = d \/ g[f] = fileDesc[f]
    BY <1>1
  <2> HIDE DEF g
  <2>4. \A f \in Fds : IsDescriptor(g[f])
    BY <2>2, <2>3 DEF DescriptorsInv
  <2>5. QED
    BY <1>3, <2>1, <2>3, <2>4
<1>7. ASSUME NEW fd \in Fds, Close(fd) PROVE DescriptorsInv'
  BY <1>7, CloseFlags
<1>8. CASE HaltCloses \/ ExecLoad
  BY <1>8, AllFlags DEF HaltCloses, ExecLoad
<1>9. ASSUME NEW fd \in Fds, ReadDir(fd) \/ ReadRtc(fd) \/ BadFd(fd) PROVE UNCHANGED fileDesc
  BY <1>9 DEF ReadDir, ReadRtc, BadFd
<1>10. (\E name \in Names : OpenLookup(name) \/ ExecOpen(name)) \/ OpenFails \/ ExecHeader
         \/ Interrupt \/ UNCHANGED vars => UNCHANGED fileDesc
  BY DEF OpenLookup, ExecOpen, OpenFails, ExecHeader, Interrupt, vars
<1>11. QED
  BY <1>2, <1>4, <1>5, <1>6, <1>7, <1>8, <1>9, <1>10 DEF Next

\* What the numbers of the calls say of the descriptors.
LEMMA ScriptNumbers ==
  ASSUME NEW i \in Nat, i >= 1
  PROVE  /\ i <= 6 \/ i >= 8 + 2 * Count =>
              /\ \A fd \in Fds : ~(FirstOpen(i) <= fd /\ fd < PastOpen(i))
              /\ \A fd \in Fds : ~(FirstOpen(i + 1) <= fd /\ fd < PastOpen(i + 1))
              /\ i + 1 <= 7 + Count <=> i <= 7 + Count
         /\ 7 <= i /\ i < 7 + Count =>
              /\ LowFd + (i - 7) \in Fds /\ i + 1 <= 7 + Count
              /\ FirstOpen(i) = LowFd /\ PastOpen(i) = LowFd + (i - 7)
              /\ FirstOpen(i + 1) = LowFd /\ PastOpen(i + 1) = LowFd + (i - 7) + 1
         /\ i = 7 + Count =>
              /\ FirstOpen(i) = LowFd /\ PastOpen(i) = HighFd
              /\ FirstOpen(i + 1) = LowFd /\ PastOpen(i + 1) = HighFd
         /\ 8 + Count <= i /\ i < 8 + 2 * Count =>
              /\ LowFd + (i - (8 + Count)) \in Fds /\ i + 1 > 7 + Count
              /\ FirstOpen(i) = LowFd + (i - (8 + Count)) /\ PastOpen(i) = HighFd
              /\ FirstOpen(i + 1) = LowFd + (i - (8 + Count)) + 1 /\ PastOpen(i + 1) = HighFd
<1>1. Count \in Nat /\ Count >= 1 /\ HighFd = LowFd + Count /\ LowFd = 2
  BY CountIs
<1>2. Fds = LowFd..(HighFd - 1)
  BY DEF Fds
<1> DEFINE n == Count
           h == HighFd
           l == LowFd
<1>3. n \in Nat /\ n >= 1 /\ h = l + n /\ l = 2 /\ Fds = l..(h - 1)
  BY <1>1, <1>2
<1>4. \A j \in Nat : /\ FirstOpen(j) = IF j < 8 + n THEN l
                                        ELSE IF j < 8 + 2 * n THEN l + (j - (8 + n)) ELSE h
                     /\ PastOpen(j) = IF j <= 7 THEN l ELSE IF j <= 7 + n THEN l + (j - 7) ELSE h
  BY DEF FirstOpen, PastOpen
<1>5. i + 1 \in Nat
  OBVIOUS
<1> HIDE DEF n, h, l
<1>6. CASE i <= 6
  <2>1. FirstOpen(i) = l /\ PastOpen(i) = l /\ FirstOpen(i + 1) = l /\ PastOpen(i + 1) = l
    BY <1>3, <1>4, <1>5, <1>6
  <2>2. QED
    BY <1>3, <1>6, <2>1 DEF n, h, l
<1>7. CASE i >= 8 + 2 * n
  <2>1. FirstOpen(i) = h /\ PastOpen(i) = h /\ FirstOpen(i + 1) = h /\ PastOpen(i + 1) = h
    BY <1>3, <1>4, <1>5, <1>7
  <2>2. QED
    BY <1>3, <1>7, <2>1 DEF n, h, l
<1>8. CASE 7 <= i /\ i < 7 + n
  <2>1. /\ FirstOpen(i) = l /\ PastOpen(i) = l + (i - 7)
        /\ FirstOpen(i + 1) = l /\ PastOpen(i + 1) = l + (i - 7) + 1
    BY <1>3, <1>4, <1>5, <1>8
  <2>2. l + (i - 7) \in Fds /\ i + 1 <= 7 + n
    BY <1>3, <1>8
  <2>3. QED
    BY <1>3, <1>8, <2>1, <2>2 DEF n, h, l
<1>9. CASE i = 7 + n
  <2>1. FirstOpen(i) = l /\ PastOpen(i) = h /\ FirstOpen(i + 1) = l /\ PastOpen(i + 1) = h
    BY <1>3, <1>4, <1>5, <1>9
  <2>2. QED
    BY <1>3, <1>9, <2>1 DEF n, h, l
<1>10. CASE 8 + n <= i /\ i < 8 + 2 * n
  <2>1. /\ FirstOpen(i) = l + (i - (8 + n)) /\ PastOpen(i) = h
        /\ FirstOpen(i + 1) = l + (i - (8 + n)) + 1 /\ PastOpen(i + 1) = h
    BY <1>3, <1>4, <1>5, <1>10
  <2>2. l + (i - (8 + n)) \in Fds /\ i + 1 > 7 + n
    BY <1>3, <1>10
  <2>3. QED
    BY <1>3, <1>10, <2>1, <2>2 DEF n, h, l
<1>11. i <= 6 \/ i >= 8 + 2 * n \/ (7 <= i /\ i < 7 + n) \/ i = 7 + n
         \/ (8 + n <= i /\ i < 8 + 2 * n)
  BY <1>3
<1>12. QED
  BY <1>6, <1>7, <1>8, <1>9, <1>10, <1>11 DEF n

\* A call of the test: what it does is a step of Files, or nothing, and the
\* next one finds the descriptors as it should.
LEMMA StepTests ==
  ASSUME DescriptorsInv, TestInv, Step
  PROVE  DescriptorsInv' /\ TestInv' /\ [Next]_vars
<1> DEFINE c == Tests[test]
           i == test
<1>1. /\ Scripted(Tests) /\ Len(Tests) \in Nat /\ i \in 1..Len(Tests) /\ i \in Nat /\ i >= 1
      /\ Count \in Nat
  <2>1. Scripted(Tests) /\ Count \in Nat
    BY TestsAre, CountIs
  <2>2. Len(Tests) \in Nat
    BY <2>1 DEF Scripted
  <2>3. test \in 1..Len(Tests)
    BY DEF Step
  <2>4. QED
    BY <2>1, <2>2, <2>3
<1>2. /\ Perform(c)
      /\ refused' = IF c.want = "count" /\ ret' = Error THEN refused + 1 ELSE refused
      /\ fail' = (fail \/ (c.want = "refusal" /\ ret' # Error))
      /\ test' = i + 1
  BY Zenon DEF Step
<1>3. /\ i # 0
      /\ \A fd \in Fds : fileDesc[fd].flags = IF FirstOpen(i) <= fd /\ fd < PastOpen(i) THEN 1 ELSE 0
      /\ refused = IF i <= 7 + Count THEN 0 ELSE 1
      /\ ~fail
  BY <1>1 DEF TestInv
<1>4. i + 1 \in 0..(Len(Tests) + 1) /\ i + 1 # 0
  BY <1>1
<1>5. ASSUME ~fail', DescriptorsInv', [Next]_vars,
             \A fd \in Fds : fileDesc'[fd].flags =
               IF FirstOpen(i + 1) <= fd /\ fd < PastOpen(i + 1) THEN 1 ELSE 0,
             refused' = IF i + 1 <= 7 + Count THEN 0 ELSE 1
      PROVE  DescriptorsInv' /\ TestInv' /\ [Next]_vars
  <2>1. TestInv' <=> /\ test' \in 0..(Len(Tests) + 1)
                     /\ ~fail'
                     /\ test' # 0 =>
                          /\ \A fd \in Fds : fileDesc'[fd].flags =
                               IF FirstOpen(test') <= fd /\ fd < PastOpen(test') THEN 1 ELSE 0
                          /\ refused' = IF test' <= 7 + Count THEN 0 ELSE 1
    BY DEF TestInv, FirstOpen, PastOpen
  <2> HIDE DEF i
  <2>2. QED
    BY <1>2, <1>4, <1>5, <2>1
<1>6. ASSUME OpenFails
      PROVE  DescriptorsInv' /\ [Next]_vars /\ ret' = Error /\ fileDesc' = fileDesc
  BY <1>6 DEF OpenFails, Next, DescriptorsInv, IsDescriptor
<1>7. CASE i <= 6 \/ i >= 8 + 2 * Count
  <2>1. c \in Bad
    BY <1>1, <1>7 DEF Scripted
  <2> HIDE DEF c, i
  <2>2. /\ \A fd \in Fds : ~(FirstOpen(i) <= fd /\ fd < PastOpen(i))
        /\ \A fd \in Fds : ~(FirstOpen(i + 1) <= fd /\ fd < PastOpen(i + 1))
        /\ i + 1 <= 7 + Count <=> i <= 7 + Count
    BY <1>1, <1>7, ScriptNumbers
  <2>3. \A fd \in Fds : fileDesc[fd].flags = 0
    BY <1>3, <2>2
  <2>4. OpenFails
    BY <1>2, <2>1, <2>3, HopelessRefused DEF Perform
  <2>5. ret' = Error /\ fileDesc' = fileDesc /\ DescriptorsInv' /\ [Next]_vars
    BY <1>6, <2>4
  <2>6. ~fail' /\ refused' = refused
    BY <1>2, <1>3, <2>1, <2>5 DEF Bad
  <2>7. QED
    BY <1>3, <1>5, <2>2, <2>3, <2>5, <2>6
<1>8. CASE 7 <= i /\ i < 7 + Count
  <2>1. c = TheOpen
    BY <1>1, <1>8 DEF Scripted
  <2> HIDE DEF c, i
  <2> DEFINE m == LowFd + (i - 7)
  <2>2. /\ m \in Fds /\ i + 1 <= 7 + Count /\ i <= 7 + Count
        /\ FirstOpen(i) = LowFd /\ PastOpen(i) = m
        /\ FirstOpen(i + 1) = LowFd /\ PastOpen(i + 1) = m + 1
        /\ Fds \in SUBSET Int /\ \A fd \in Fds : LowFd <= fd
    BY <1>1, <1>8, ScriptNumbers, CountIs DEF Fds
  <2> HIDE DEF m
  <2>3. m \in FreeFds /\ \A fd \in Fds : fd \in FreeFds <=> m <= fd
    BY <1>3, <2>2 DEF FreeFds
  <2>4. c.op = "open" /\ c.arg = Spell["."] /\ c.want = "count"
    BY <2>1 DEF TheOpen
  <2>5. ~Refuses(c)
    BY <2>3, <2>4, DirectoryFound DEF Refuses
  <2>6. OpenSpecial(".", "dir")
    BY <1>2, <2>4, <2>5, DirectoryFound DEF Perform
  <2>7. /\ DescriptorsInv' /\ Min(FreeFds) \in FreeFds
        /\ \A fd \in FreeFds : Min(FreeFds) <= fd
        /\ \A fd \in Fds : fileDesc'[fd].flags =
             IF fd = Min(FreeFds) THEN 1 ELSE fileDesc[fd].flags
        /\ ret' # Error
    BY <2>6, OpenFlags
  <2>8. Min(FreeFds) = m
    <3> DEFINE z == Min(FreeFds)
    <3>1. z \in FreeFds /\ z <= m
      BY <2>3, <2>7
    <3>2. z \in Fds
      BY <3>1, Zenon DEF FreeFds
    <3> HIDE DEF z
    <3>3. m <= z /\ z \in Int /\ m \in Int
      BY <2>2, <2>3, <3>1, <3>2
    <3>4. z = m
      BY <3>1, <3>3
    <3>5. QED
      BY <3>4 DEF z
  <2>9. \A fd \in Fds : fileDesc'[fd].flags =
          IF FirstOpen(i + 1) <= fd /\ fd < PastOpen(i + 1) THEN 1 ELSE 0
    <3> SUFFICES ASSUME NEW fd \in Fds
                 PROVE  fileDesc'[fd].flags =
                          IF FirstOpen(i + 1) <= fd /\ fd < PastOpen(i + 1) THEN 1 ELSE 0
      OBVIOUS
    <3>1. /\ fd \in Int /\ m \in Int /\ LowFd <= fd
          /\ fileDesc[fd].flags = IF FirstOpen(i) <= fd /\ fd < PastOpen(i) THEN 1 ELSE 0
          /\ fileDesc'[fd].flags = IF fd = m THEN 1 ELSE fileDesc[fd].flags
      BY <1>3, <2>2, <2>7, <2>8
    <3>2. /\ FirstOpen(i) <= fd /\ fd < PastOpen(i) <=> fd < m
          /\ FirstOpen(i + 1) <= fd /\ fd < PastOpen(i + 1) <=> fd < m + 1
      BY <2>2, <3>1
    <3>3. CASE fd = m
      BY <3>1, <3>2, <3>3
    <3>4. CASE fd # m
      BY <3>1, <3>2, <3>4
    <3>5. QED
      BY <3>3, <3>4
  <2>10. [Next]_vars
    BY <2>6 DEF Next
  <2>11. ~fail' /\ refused' = refused
    BY <1>2, <1>3, <2>4, <2>7
  <2>12. QED
    BY <1>3, <1>5, <2>2, <2>7, <2>9, <2>10, <2>11
<1>9. CASE i = 7 + Count
  <2>1. c = TheOpen
    BY <1>1, <1>9 DEF Scripted
  <2> HIDE DEF c, i
  <2>2. /\ FirstOpen(i) = LowFd /\ PastOpen(i) = HighFd
        /\ FirstOpen(i + 1) = LowFd /\ PastOpen(i + 1) = HighFd
        /\ \A fd \in Fds : LowFd <= fd /\ fd < HighFd
        /\ i <= 7 + Count /\ ~(i + 1 <= 7 + Count)
    BY <1>1, <1>9, ScriptNumbers, CountIs DEF Fds
  <2>3. FreeFds = {}
    BY <1>3, <2>2 DEF FreeFds
  <2>4. c.op = "open" /\ c.want = "count"
    BY <2>1 DEF TheOpen
  <2>5. OpenFails
    BY <1>2, <2>3, <2>4 DEF Perform, Refuses
  <2>6. ret' = Error /\ fileDesc' = fileDesc /\ DescriptorsInv' /\ [Next]_vars
    BY <1>6, <2>5
  <2>7. ~fail' /\ refused' = 1
    <3>1. refused = 0
      BY <1>3, <2>2
    <3>2. c.want = "count" /\ ret' = Error
      BY <2>4, <2>6
    <3>3. refused' = refused + 1 /\ ~fail'
      BY <1>2, <1>3, <3>2
    <3>4. QED
      BY <3>1, <3>3
  <2>8. QED
    BY <1>3, <1>5, <2>2, <2>6, <2>7
<1>10. CASE 8 + Count <= i /\ i < 8 + 2 * Count
  <2> DEFINE m == LowFd + (i - (8 + Count))
             k == i - (7 + Count)
  <2>1. c = TheClose(k)
    <3>1. k \in 1..Count /\ 7 + Count + k = i
      BY <1>1, <1>10
    <3> HIDE DEF k
    <3>2. QED
      BY <1>1, <3>1 DEF Scripted
  <2>2. TheClose(k) = [op |-> "close", arg |-> m, want |-> "any"]
    <3>1. LowFd + k - 1 = m
      BY <1>1, CountIs
    <3>2. QED
      BY <3>1 DEF TheClose
  <2> HIDE DEF c, i, k
  <2>3. /\ m \in Fds /\ i + 1 > 7 + Count
        /\ FirstOpen(i) = m /\ PastOpen(i) = HighFd
        /\ FirstOpen(i + 1) = m + 1 /\ PastOpen(i + 1) = HighFd
    BY <1>1, <1>10, ScriptNumbers
  <2>4. /\ \A fd \in Fds : fd \in Int /\ LowFd <= fd /\ fd < HighFd
        /\ ~(i <= 7 + Count) /\ ~(i + 1 <= 7 + Count)
    BY <1>1, <1>10, CountIs DEF Fds
  <2> HIDE DEF m
  <2>5. c.op = "close" /\ c.arg = m /\ c.want = "any"
    BY <2>1, <2>2
  <2>6. fileDesc[m].flags = 1 /\ m >= LowFd /\ m <= HighFd - 1 /\ m >= Stdin
    BY <1>3, <2>3, <2>4, CountIs DEF Stdin
  <2>7. ~Refuses(c)
    <3>1. Refuses(c) <=> m < LowFd \/ NotOpen(m)
      BY <2>5 DEF Refuses
    <3>2. m \in Int /\ HighFd \in Int /\ LowFd \in Int /\ Stdin \in Int
      BY <2>3, <2>4, CountIs DEF Stdin
    <3>3. ~(m < LowFd) /\ ~(m < Stdin) /\ ~(m > HighFd - 1)
      BY <2>6, <3>2
    <3>4. fileDesc[m].flags # 0
      BY <2>6
    <3>5. QED
      BY <3>1, <3>3, <3>4 DEF NotOpen
  <2>8. Close(m)
    BY <1>2, <2>5, <2>7 DEF Perform
  <2>9. /\ DescriptorsInv'
        /\ \A fd \in Fds : fileDesc'[fd].flags = IF fd = m THEN 0 ELSE fileDesc[fd].flags
    BY <2>3, <2>8, CloseFlags
  <2>10. \A fd \in Fds : fileDesc'[fd].flags =
           IF FirstOpen(i + 1) <= fd /\ fd < PastOpen(i + 1) THEN 1 ELSE 0
    BY <1>3, <2>3, <2>4, <2>9
  <2>11. [Next]_vars
    BY <2>3, <2>8 DEF Next
  <2>12. ~fail' /\ refused' = refused
    BY <1>2, <1>3, <2>5
  <2>13. QED
    BY <1>3, <1>5, <2>4, <2>9, <2>10, <2>11, <2>12
<1>11. QED
  BY <1>1, <1>7, <1>8, <1>9, <1>10

\* The test's start and end, the steps of Files outside it, and interrupts.
LEMMA SysKeeps ==
  ASSUME DescriptorsInv, TestInv, [SysNext]_<<vars, testVars>>
  PROVE  DescriptorsInv' /\ TestInv' /\ [Next]_vars
<1>1. Len(Tests) \in Nat /\ Len(Tests) >= 7 + 2 * Count /\ Count \in Nat
  <2>1. Scripted(Tests) /\ Count \in Nat
    BY TestsAre, CountIs
  <2>2. QED
    BY <2>1 DEF Scripted
<1>2. CASE UNCHANGED <<vars, testVars>>
  <2>1. UNCHANGED vars /\ UNCHANGED testVars /\ UNCHANGED fileDesc
    BY <1>2 DEF vars, testVars
  <2>2. QED
    BY <2>1 DEF testVars, DescriptorsInv, TestInv
<1>3. CASE test = 0 /\ Next /\ UNCHANGED testVars
  <2>1. DescriptorsInv'
    BY <1>3, NextDescriptors
  <2>2. TestInv'
    BY <1>3 DEF TestInv, testVars
  <2>3. QED
    BY <1>3, <2>1, <2>2
<1>4. CASE Interrupt /\ UNCHANGED testVars
  <2>1. UNCHANGED fileDesc /\ Next
    BY <1>4 DEF Interrupt, Next
  <2>2. QED
    BY <1>4, <2>1 DEF testVars, DescriptorsInv, TestInv
<1>5. CASE Start
  <2>1. \A fd \in Fds : fileDesc[fd].flags = 0
    BY <1>5 DEF Start, FreeFds
  <2>2. \A fd \in Fds : ~(FirstOpen(1) <= fd /\ fd < PastOpen(1))
    BY ScriptNumbers
  <2>3. /\ UNCHANGED vars /\ UNCHANGED fileDesc
        /\ test' = 1 /\ refused' = 0 /\ fail' = FALSE
    BY <1>5 DEF Start, vars
  <2>4. 1 \in 0..(Len(Tests) + 1) /\ 1 <= 7 + Count
    BY <1>1
  <2>5. DescriptorsInv'
    BY <2>3 DEF DescriptorsInv
  <2>6. TestInv' <=> /\ test' \in 0..(Len(Tests) + 1)
                     /\ ~fail'
                     /\ test' # 0 =>
                          /\ \A fd \in Fds : fileDesc'[fd].flags =
                               IF FirstOpen(test') <= fd /\ fd < PastOpen(test') THEN 1 ELSE 0
                          /\ refused' = IF test' <= 7 + Count THEN 0 ELSE 1
    BY DEF TestInv, FirstOpen, PastOpen
  <2>7. TestInv'
    BY <2>1, <2>2, <2>3, <2>4, <2>6
  <2>8. QED
    BY <2>3, <2>5, <2>7
<1>6. CASE Step
  BY <1>6, StepTests
<1>7. CASE Finish
  <2>1. refused = 1 /\ ~fail
    BY <1>1, <1>7 DEF Finish, TestInv
  <2>2. HaltCloses /\ test' = 0 /\ ~fail'
    BY <1>7, <2>1 DEF Finish
  <2>3. DescriptorsInv'
    BY <2>2, AllFlags DEF HaltCloses
  <2>4. TestInv'
    BY <1>1, <2>2 DEF TestInv
  <2>5. QED
    BY <2>2, <2>3, <2>4 DEF Next
<1>8. QED
  BY <1>2, <1>3, <1>4, <1>5, <1>6, <1>7 DEF SysNext

LEMMA SysBegins == SysInit => DescriptorsInv /\ TestInv
<1> SUFFICES ASSUME SysInit PROVE DescriptorsInv /\ TestInv
  OBVIOUS
<1> DEFINE d == [fops |-> "file", inode |-> ".", pos |-> 0, flags |-> 0]
<1>1. fileDesc \in [Fds -> {d}] /\ test = 0 /\ ~fail
  BY DEF SysInit, Init, TestInit
<1>2. IsDescriptor(d)
  BY DEF IsDescriptor
<1> HIDE DEF d
<1>3. DescriptorsInv
  <2>1. fileDesc = [fd \in Fds |-> fileDesc[fd]] /\ \A fd \in Fds : fileDesc[fd] = d
    BY <1>1
  <2>2. QED
    BY <1>2, <2>1 DEF DescriptorsInv
<1>4. Len(Tests) \in Nat
  BY TestsAre DEF Scripted
<1>5. QED
  BY <1>1, <1>3, <1>4 DEF TestInv

\* "prints [TEST_NAME]: PASS if behavior is EXPECTED" (ece391syserr.c:29-330):
\* whatever programs and interrupts ran before the test, and whatever
\* interrupts it, every call it makes is refused that should be, and of the
\* files it opens one is. This holds with every hazard exposed, for any disk
\* without the names it asks for, and any number of descriptors.
THEOREM PassesCorrect == SysSpec => []Passes
<1>1. SysInit => DescriptorsInv /\ TestInv
  BY SysBegins
<1>2. DescriptorsInv /\ TestInv /\ [SysNext]_<<vars, testVars>> => DescriptorsInv' /\ TestInv'
  BY SysKeeps
<1>3. TestInv => Passes
  BY DEF TestInv, Passes
<1>4. QED
  BY <1>1, <1>2, <1>3, PTL DEF SysSpec

\* What the test does is what a program may do: each of its calls that is not
\* refused is a step of the file system (ece391syserr.c: err_open_lots).
THEOREM SysIsFiles == SysSpec => Spec
<1>1. SysInit => Init /\ DescriptorsInv /\ TestInv
  BY SysBegins DEF SysInit
<1>2. DescriptorsInv /\ TestInv /\ [SysNext]_<<vars, testVars>>
        => DescriptorsInv' /\ TestInv' /\ [Next]_vars
  BY SysKeeps
<1>3. QED
  BY <1>1, <1>2, PTL DEF SysSpec, Spec

\* So with the test among the programs that run, every descriptor still serves
\* its file, and execute loads the file named (file.c: file_open, read_data).
THEOREM SysServes ==
  ASSUME Exposed = {}
  PROVE  SysSpec => Serves /\ LoadsNamed
BY SysIsFiles, ServesCorrect, LoadsNamedCorrect, PTL
=============================================================================
