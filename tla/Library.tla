------------------------------ MODULE Library ------------------------------
(***************************************************************************)
(* Library: what printf makes of its format (itoa and strrev below it),    *)
(* and the memory and string functions of lib.c, which work by words of    *)
(* four bytes where they can.  A behaviour is one call.                    *)
(***************************************************************************)
EXTENDS Integers, Sequences, SequencesExt, FiniteSetsExt, Functions

CONSTANTS
  Bits,      (* of an int (32), a multiple of 4                             *)
  Size,      (* bytes of memory the calls may touch                         *)
  Formats,   (* one or two pieces: see Pieces                               *)
  Strings    (* the arguments of strncmp and strncpy, without their zero    *)

\* A piece of a format.
Pieces == {<<"a">>, <<"%", "%">>, <<"%", "x">>, <<"%", "#", "x">>, <<"%", "u">>,
           <<"%", "d">>}

ASSUME BitsAssumption == Bits \in {4 * k : k \in 1..8}
ASSUME MemoryAssumption == Size \in Nat
ASSUME FormatAssumption ==
  \A f \in Formats : f \in Seq(Pieces) /\ Len(f) \in 1..2
ASSUME StringAssumption == Strings \subseteq Seq((-128..127) \ {0})

Digit == <<"0", "1", "2", "3", "4", "5", "6", "7", "8", "9",
           "A", "B", "C", "D", "E", "F">>
TwoTo[n \in 0..Bits] == IF n = 0 THEN 1 ELSE 2 * TwoTo[n - 1]
Unsigned == 0..(TwoTo[Bits] - 1)
Signed(v) == IF v >= TwoTo[Bits - 1] THEN v - TwoTo[Bits] ELSE v
Neg(v) == (TwoTo[Bits] - v) % TwoTo[Bits]

VARIABLES call, result
libVars == <<call, result>>
None == [op |-> "none"]

(***************************************************************************)
(* Numbers.                                                                *)
(***************************************************************************)
\* strrev: the ends are swapped, then what is between them.
Swap(s, i, j) == [s EXCEPT ![i] = s[j], ![j] = s[i]]

Strrev(s) ==
  LET n == Len(s)
      after[k \in 0..(n \div 2)] ==
        IF k = 0 THEN s ELSE Swap(after[k - 1], k, n + 1 - k)
  IN after[n \div 2]

\* A round of itoa: one more digit, the lowest of what is left.
Divide(x, radix) ==
  IF x.left = 0 THEN x
  ELSE [left |-> x.left \div radix, out |-> Append(x.out, Digit[(x.left % radix) + 1])]

Digits(value, radix) ==
  LET after[k \in 0..Bits] ==
        IF k = 0 THEN [left |-> value, out |-> <<>>] ELSE Divide(after[k - 1], radix)
  IN after[Bits].out

Itoa(value, radix) == IF value = 0 THEN <<"0">> ELSE Strrev(Digits(value, radix))

\* "%#x": conv_buf from strlen on, where zeros up to its eighth character are
\* followed by the digits.
Padded(s) == [i \in 1..(Bits \div 4 - Len(s)) |-> "0"] \o s

Decimal(v) == IF Signed(v) < 0 THEN <<"-">> \o Itoa(Neg(v), 10) ELSE Itoa(v, 10)

Puts(x, next, taken, s) == [i |-> next, k |-> x.k + taken, out |-> x.out \o s]

\* A round of printf's loop, at character x.i of the format with x.k arguments
\* taken (esp); an unknown conversion prints nothing and takes none.
Round(format, args, x) ==
  LET alternate == x.i < Len(format) /\ format[x.i + 1] = "#"
      at  == IF alternate THEN x.i + 2 ELSE x.i + 1
      arg == args[x.k + 1]
  IN IF x.i > Len(format) THEN x
     ELSE IF format[x.i] # "%" THEN Puts(x, x.i + 1, 0, <<format[x.i]>>)
     ELSE CASE format[at] = "x" ->
                 Puts(x, at + 1, 1, IF alternate THEN Padded(Itoa(arg, 16)) ELSE Itoa(arg, 16))
            [] format[at] = "u" -> Puts(x, at + 1, 1, Itoa(arg, 10))
            [] format[at] = "d" -> Puts(x, at + 1, 1, Decimal(arg))
            [] format[at] = "%" -> Puts(x, at + 1, 0, <<"%">>)
            [] OTHER -> Puts(x, at + 1, 0, <<>>)

Printf(format, args) ==
  LET after[n \in 0..Len(format)] ==
        IF n = 0 THEN [i |-> 1, k |-> 0, out |-> <<>>]
        ELSE Round(format, args, after[n - 1])
  IN after[Len(format)].out

(***************************************************************************)
(* Memory.  A block is copied, or set, by single bytes up to the first     *)
(* address that is a multiple of four, by words, and by single bytes.      *)
(***************************************************************************)
\* Mutant: the bytes left after the last whole word are not handled.
Chunks_NoTail(to, n) ==
  LET head == Min({n, ((4 - (to % 4)) % 4)})
      words == (n - head) \div 4
  IN [i \in 1..head |-> 1] \o [i \in 1..words |-> 4]

Chunks(to, n) ==
  LET head == Min({n, ((4 - (to % 4)) % 4)})
      words == (n - head) \div 4
  IN [i \in 1..head |-> 1] \o [i \in 1..words |-> 4]
       \o [i \in 1..((n - head) % 4) |-> 1]

Store(mem, to, bytes) ==
  [a \in DOMAIN mem |-> IF a - to \in 0..(Len(bytes) - 1) THEN bytes[a - to + 1] ELSE mem[a]]

Load(mem, at, n) == [i \in 1..n |-> mem[at + i - 1]]

Memset(mem, to, c, n) ==
  LET chunks == Chunks(to, n)
      Set(x, k) == [mem |-> Store(x.mem, x.to, [i \in 1..k |-> c]), to |-> x.to + k]
      after[j \in 0..Len(chunks)] ==
        IF j = 0 THEN [mem |-> mem, to |-> to] ELSE Set(after[j - 1], chunks[j])
  IN after[Len(chunks)].mem

Memcpy(mem, to, src, n) ==
  LET chunks == Chunks(to, n)
      Copy(x, k) == [mem |-> Store(x.mem, x.to, Load(x.mem, x.src, k)),
                     to |-> x.to + k, src |-> x.src + k]
      after[j \in 0..Len(chunks)] ==
        IF j = 0 THEN [mem |-> mem, to |-> to, src |-> src] ELSE Copy(after[j - 1], chunks[j])
  IN after[Len(chunks)].mem

\* By bytes, from the end where the source is below the destination.
Memmove(mem, to, src, n) ==
  LET Move(m, k) == Store(m, to + k, <<m[src + k]>>)
      after[i \in 0..n] ==
        IF i = 0 THEN mem ELSE Move(after[i - 1], IF src < to THEN n - i ELSE i - 1)
  IN after[n]

(***************************************************************************)
(* Strings, as the characters before their zero.                           *)
(***************************************************************************)
CharAt(s, i) == IF i <= Len(s) THEN s[i] ELSE 0

Strncmp(s, t, n) ==
  LET stops == {i \in 1..n : CharAt(s, i) # CharAt(t, i) \/ CharAt(s, i) = 0}
  IN IF stops = {} THEN 0 ELSE CharAt(s, Min(stops)) - CharAt(t, Min(stops))

\* The n characters written: the rest of them zeros, none if s is longer.
Strncpy(s, n) == [i \in 1..n |-> CharAt(s, i)]

(***************************************************************************)
(* The calls.                                                              *)
(***************************************************************************)
Fresh == [a \in 0..(Size - 1) |-> a]      \* every byte tells where it was
Fill  == -1

Args(v) == <<v, Neg(v)>>

Calls ==
  [op : {"printf"}, format : Formats, v : Unsigned]
  \cup {c \in [op : {"memset", "memcpy", "memmove"}, to : 0..Size, src : 0..Size, n : 0..Size] :
          c.to + c.n <= Size /\ c.src + c.n <= Size /\ (c.op = "memset" => c.src = 0)}
  \cup [op : {"strncmp"}, s : Strings, t : Strings, n : 0..Size]
  \cup [op : {"strncpy"}, s : Strings, n : 0..Size]

Answer(c) ==
  CASE c.op = "printf"  -> Printf(FlattenSeq(c.format), Args(c.v))
    [] c.op = "memset"  -> Memset(Fresh, c.to, Fill, c.n)
    [] c.op = "memcpy"  -> Memcpy(Fresh, c.to, c.src, c.n)
    [] c.op = "memmove" -> Memmove(Fresh, c.to, c.src, c.n)
    [] c.op = "strncmp" -> Strncmp(c.s, c.t, c.n)
    [] c.op = "strncpy" -> Strncpy(c.s, c.n)

LibInit == call = None /\ result = <<>>
LibNext == call = None /\ call' \in Calls /\ result' = Answer(call')

(***************************************************************************)
(* Property: what each call is for.                                        *)
(***************************************************************************)
Figure(d) == (CHOOSE i \in 1..16 : Digit[i] = d) - 1
Value(s, radix) ==
  LET upto[i \in 0..Len(s)] ==
        IF i = 0 THEN 0 ELSE upto[i - 1] * radix + Figure(s[i])
  IN upto[Len(s)]

Plain(s, v, radix) == Value(s, radix) = v /\ (Len(s) > 1 => s[1] # "0") /\ s # <<>>

Takes(piece) == piece \notin {<<"a">>, <<"%", "%">>}

\* s is a text of the piece with argument v.
Means(piece, v, s) ==
  CASE piece = <<"%", "x">> -> Plain(s, v, 16)
    [] piece = <<"%", "u">> -> Plain(s, v, 10)
    [] piece = <<"%", "#", "x">> -> Len(s) = Bits \div 4 /\ Value(s, 16) = v
    [] piece = <<"%", "d">> -> IF Signed(v) >= 0 THEN Plain(s, v, 10)
                               ELSE s # <<>> /\ Head(s) = "-" /\ Plain(Tail(s), -Signed(v), 10)
    [] piece = <<"%", "%">> -> s = <<"%">>
    [] OTHER -> s = piece

\* printf prints its pieces one after the other, a number so that it reads as
\* the number and "%#x" in full width; memset and memmove, and memcpy where
\* the destination is not inside the source, as scroll_up uses it, leave each
\* byte what it should be, for every alignment and length; strncmp orders,
\* and strncpy cuts and fills (lib.c:55-163, 453-489, 554-626, 643-707).
CallsRight ==
  CASE call.op = "none" -> TRUE
    [] call.op = "printf" ->
         \E cut \in 0..Len(result) :
           /\ Means(call.format[1], call.v, SubSeq(result, 1, cut))
           /\ IF Len(call.format) = 1 THEN cut = Len(result)
              ELSE Means(call.format[2],
                         Args(call.v)[IF Takes(call.format[1]) THEN 2 ELSE 1],
                         SubSeq(result, cut + 1, Len(result)))
    [] call.op = "memset" ->
         \A a \in DOMAIN result : result[a] = (IF a - call.to \in 0..(call.n - 1) THEN Fill ELSE a)
    [] call.op \in {"memcpy", "memmove"} ->
         \/ call.op = "memcpy" /\ call.to \in (call.src + 1)..(call.src + call.n - 1)
         \/ \A a \in DOMAIN result :
              result[a] = (IF a - call.to \in 0..(call.n - 1) THEN (a - call.to) + call.src ELSE a)
    [] call.op = "strncmp" ->
         LET s == Strncpy(call.s, call.n)
             t == Strncpy(call.t, call.n)
         IN /\ (result = 0) = (s = t)
            /\ s # t => LET i == Min({k \in 1..call.n : s[k] # t[k]})
                        IN (result < 0) = (s[i] < t[i])
    [] call.op = "strncpy" ->
         /\ Len(result) = call.n
         /\ \A i \in 1..call.n : result[i] = IF i <= Len(call.s) THEN call.s[i] ELSE 0
=============================================================================
