---------------------------- MODULE DesktopProofs ----------------------------
(***************************************************************************)
(* Proofs about Windows and Desktop, for every arrangement of icons and    *)
(* every size of screen, images and movements: first the list of windows,  *)
(* then the packets and places, then the two together.                     *)
(***************************************************************************)
EXTENDS Desktop, FiniteSetTheorems, TLAPS

(***************************************************************************)
(* Walks along pointers.                                                   *)
(***************************************************************************)
\* The least number of a nonempty set.
LEMMA MinIsLeast ==
  ASSUME NEW S \in SUBSET Nat, S # {}
  PROVE  Min(S) \in S /\ \A y \in S : Min(S) <= y
<1>1. PICK x \in S : \A y \in S : ~(<<y, x>> \in OpToRel(<, Nat))
  BY NatLessThanWellFounded, WFMin
<1>2. \A y \in S : x <= y
  <2> SUFFICES ASSUME NEW y \in S PROVE x <= y
    OBVIOUS
  <2>1. x \in Nat /\ y \in Nat
    BY <1>1
  <2>2. ~(y < x)
    BY <1>1, <2>1 DEF OpToRel
  <2>3. QED
    BY <2>1, <2>2
<1>3. \E z \in S : \A y \in S : z <= y
  BY <1>1, <1>2
<1>4. QED
  BY <1>3 DEF Min

\* What the walk's recursion says of a function that answers for up to n steps.
Unfolds(f, pointer, n) ==
  f = [k \in 0..n |->
        [v \in Nodes \cup {Null} |->
           IF v = Null \/ k = 0 THEN <<v>> ELSE <<v>> \o f[k - 1][pointer[v]]]]

\* There is such a function, whatever the pointers are.
LEMMA UnfoldingExists ==
  ASSUME NEW pointer, NEW n \in Nat
  PROVE  \E f : Unfolds(f, pointer, n)
<1> DEFINE bad == {k \in Nat : ~ \E f : Unfolds(f, pointer, k)}
           m == Min(bad)
<1>1. SUFFICES ASSUME bad # {} PROVE FALSE
  OBVIOUS
<1>2. m \in bad /\ \A k \in bad : m <= k
  BY <1>1, MinIsLeast
<1> HIDE DEF m
<1>3. m \in Nat
  BY <1>2
<1>4. CASE m = 0
  <2> DEFINE f == [k \in 0..0 |-> [v \in Nodes \cup {Null} |-> <<v>>]]
  <2>1. \A k \in 0..0 : [v \in Nodes \cup {Null} |-> <<v>>]
             = [v \in Nodes \cup {Null} |->
                  IF v = Null \/ k = 0 THEN <<v>> ELSE <<v>> \o f[k - 1][pointer[v]]]
    OBVIOUS
  <2>2. Unfolds(f, pointer, 0)
    BY <2>1, Zenon DEF Unfolds
  <2>3. QED
    BY <1>2, <1>4, <2>2
<1>5. CASE m # 0
  <2>1. m - 1 \in Nat /\ m - 1 \notin bad
    BY <1>2, <1>3, <1>5
  <2>2. PICK g : Unfolds(g, pointer, m - 1)
    BY <2>1
  <2> DEFINE last == [v \in Nodes \cup {Null} |->
                        IF v = Null THEN <<v>> ELSE <<v>> \o g[m - 1][pointer[v]]]
             f == [k \in 0..m |-> IF k = m THEN last ELSE g[k]]
             Body(k) == [v \in Nodes \cup {Null} |->
                           IF v = Null \/ k = 0 THEN <<v>> ELSE <<v>> \o f[k - 1][pointer[v]]]
  <2>3. \A k \in 0..(m - 1) : f[k] = g[k]
    BY <1>3
  <2>4. ASSUME NEW k \in 0..m PROVE f[k] = Body(k)
    <3>1. CASE k = m
      <4>1. f[k] = last /\ f[k - 1] = g[m - 1]
        BY <1>3, <1>5, <2>3, <3>1
      <4> HIDE DEF f
      <4>2. QED
        BY <1>5, <3>1, <4>1
    <3>2. CASE k # m
      <4>1. k \in 0..(m - 1) /\ (k # 0 => k - 1 \in 0..(m - 1))
        BY <1>3, <3>2
      <4>2. g[k] = [v \in Nodes \cup {Null} |->
                      IF v = Null \/ k = 0 THEN <<v>> ELSE <<v>> \o g[k - 1][pointer[v]]]
        BY <2>2, <4>1 DEF Unfolds
      <4>3. f[k] = g[k] /\ (k # 0 => f[k - 1] = g[k - 1])
        BY <2>3, <4>1
      <4> HIDE DEF f
      <4>4. QED
        BY <4>2, <4>3
    <3>3. QED
      BY <3>1, <3>2
  <2>5. f = [k \in 0..m |-> f[k]]
    OBVIOUS
  <2>6. f = [k \in 0..m |-> Body(k)]
    <3> HIDE DEF f
    <3>1. QED
      BY <2>4, <2>5, Zenon
  <2>7. Unfolds(f, pointer, m)
    BY <2>6, Zenon DEF Unfolds
  <2>8. QED
    BY <1>2, <2>7
<1>6. QED
  BY <1>4, <1>5

\* The icons are some of four.
LEMMA FiniteNodes ==
  IsFiniteSet(Nodes) /\ Null \notin Nodes /\ "desk" \notin Images /\ "mouse" \notin Images
<1>1. Range(Icons) \subseteq {"term", "folder", "pacman", "paint"}
  BY IconsAssumption DEF Range
<1> DEFINE all == <<"term", "folder", "pacman", "paint", "img1", "file", "img2", "gif",
                      "easel", "desk", "mouse">>
<1>3. Nodes \subseteq {all[i] : i \in 1..11}
  <2>1. Nodes \subseteq {all[1], all[2], all[3], all[4], all[5], all[6], all[7], all[8], all[9],
                        all[10], all[11]}
    BY <1>1 DEF Nodes, Images, Opens
  <2> HIDE DEF all
  <2>2. QED
    BY <2>1
<1>4. IsFiniteSet(Nodes)
  <2> HIDE DEF all
  <2> DEFINE named == {all[i] : i \in 1..11}
             f == [i \in 1..11 |-> all[i]]
  <2>1. f \in Surjection(1..11, named)
    BY DEF Surjection
  <2>2. IsFiniteSet(named)
    <3>1. IsFiniteSet(1..11)
      <4>1. 1 \in Int /\ 11 \in Int
        OBVIOUS
      <4>2. QED
        BY <4>1, FS_Interval, Zenon
    <3> HIDE DEF f, named
    <3>2. QED
      BY <2>1, <3>1, FS_Surjection
  <2>3. QED
    BY <1>3, <2>2, FS_Subset
<1>5. QED
  BY <1>1, <1>4 DEF Nodes, Images, Opens, Null

\* The nodes of t in the order in which the pointers lead through them.
Path(pointer, t) ==
  /\ t \in Seq(Nodes) /\ t # <<>>
  /\ \A i, j \in 1..Len(t) : t[i] = t[j] => i = j
  /\ \A i \in 1..(Len(t) - 1) : pointer[t[i]] = t[i + 1]
  /\ pointer[t[Len(t)]] = Null

\* A walk meets them one by one, and then the end.
LEMMA WalkIs ==
  ASSUME NEW pointer, NEW t, Path(pointer, t)
  PROVE  Walk(pointer, t[1]) = Append(t, Null)
<1> DEFINE most == Cardinality(Nodes)
           N == Len(t)
           u == Append(t, Null)
<1>1. /\ N \in Nat \ {0} /\ t \in [1..N -> Nodes]
      /\ u = [i \in 1..(N + 1) |-> IF i <= N THEN t[i] ELSE Null]
  <2>1. t \in Seq(Nodes) /\ t # <<>>
    BY DEF Path
  <2>2. N \in Nat /\ t \in [1..N -> Nodes]
    BY <2>1
  <2>3. N # 0
    BY <2>1
  <2>4. Len(u) = N + 1 /\ u \in Seq(Nodes \cup {Null})
    BY <2>1
  <2>6. \A i \in 1..(N + 1) : u[i] = IF i <= N THEN t[i] ELSE Null
    BY <2>1, <2>2
  <2> HIDE DEF u, N
  <2>5. u = [i \in 1..(N + 1) |-> u[i]]
    BY <2>2, <2>4
  <2>7. u = [i \in 1..(N + 1) |-> IF i <= N THEN t[i] ELSE Null]
    BY <2>5, <2>6, Zenon
  <2>8. QED
    BY <2>2, <2>3, <2>7
<1>2. most \in Nat /\ N <= most
  <2>1. t \in Injection(1..N, Nodes)
    BY <1>1 DEF Path, Injection, IsInjective
  <2>2. Cardinality(1..N) = N
    BY <1>1, FS_Interval
  <2>3. QED
    BY <2>1, <2>2, FiniteNodes, FS_Injection, FS_CardinalityType
<1> DEFINE from == CHOOSE f : Unfolds(f, pointer, most)
<1>3. Walk(pointer, t[1]) = from[most][t[1]]
  BY Zenon DEF Walk, Unfolds
<1>4. Unfolds(from, pointer, most)
  BY <1>2, UnfoldingExists
<1> HIDE DEF from
<1> HIDE DEF N, u
<1>5. \A k \in 0..most : \A v \in Nodes \cup {Null} :
        from[k][v] = IF v = Null \/ k = 0 THEN <<v>> ELSE <<v>> \o from[k - 1][pointer[v]]
  <2> DEFINE Body(k, v) == IF v = Null \/ k = 0 THEN <<v>> ELSE <<v>> \o from[k - 1][pointer[v]]
  <2>1. from = [k \in 0..most |-> [v \in Nodes \cup {Null} |-> Body(k, v)]]
    BY <1>4, Zenon DEF Unfolds
  <2> HIDE DEF Body, most
  <2>2. \A k \in 0..most : \A v \in Nodes \cup {Null} : from[k][v] = Body(k, v)
    BY <2>1
  <2>3. QED
    BY <2>2, Zenon DEF Body
<1> HIDE DEF most
<1> DEFINE Rest(i) == [n \in 1..(N + 2 - i) |-> u[n + i - 1]]
           bad == {b \in 0..N : from[most - (N - b)][u[N + 1 - b]] # Rest(N + 1 - b)}
<1>6. bad = {}
  <2> SUFFICES ASSUME bad # {} PROVE FALSE
    OBVIOUS
  <2> DEFINE b == Min(bad)
  <2>1. b \in bad /\ \A c \in bad : b <= c
    <3>1. bad \in SUBSET Nat
      BY <1>1
    <3>2. QED
      BY <3>1, MinIsLeast
  <2> HIDE DEF b
  <2>2. b \in 0..N /\ from[most - (N - b)][u[N + 1 - b]] # Rest(N + 1 - b)
    BY <2>1
  <2>3. CASE b = 0
    <3>1. u[N + 1 - b] = Null /\ N + 1 - b = N + 1
      BY <1>1, <2>3
    <3>2. from[most - (N - b)][Null] = <<Null>>
      <4>1. most - (N - b) \in 0..most /\ Null \in Nodes \cup {Null}
        BY <1>1, <1>2, <2>3
      <4>2. QED
        BY <1>5, <4>1, Zenon
    <3>3. Rest(N + 1) = <<Null>>
      BY <1>1
    <3>4. QED
      BY <2>2, <3>1, <3>2, <3>3
  <2>4. CASE b # 0
    <3> DEFINE i == N + 1 - b
               k == most - (N - b)
    <3>1. /\ i \in 1..N /\ k \in 1..most
          /\ b - 1 \in 0..N /\ N + 1 - (b - 1) = i + 1 /\ most - (N - (b - 1)) = k - 1
          /\ ~(b <= b - 1)
      BY <1>1, <1>2, <2>2, <2>4
    <3>2. from[k - 1][u[i + 1]] = Rest(i + 1)
      <4>1. b - 1 \notin bad
        BY <2>1, <3>1
      <4>2. from[most - (N - (b - 1))][u[N + 1 - (b - 1)]] = Rest(N + 1 - (b - 1))
        BY <3>1, <4>1
      <4> HIDE DEF Rest, i, k
      <4>3. QED
        BY <3>1, <4>2
    <3> HIDE DEF i, k
    <3>3. u[i] = t[i] /\ u[i] \in Nodes /\ u[i] # Null /\ pointer[u[i]] = u[i + 1]
      BY <1>1, <3>1, FiniteNodes DEF Path
    <3>4. from[k][u[i]] = <<u[i]>> \o Rest(i + 1)
      <4>1. k \in 0..most /\ k # 0 /\ u[i] \in Nodes \cup {Null}
        BY <1>2, <3>1, <3>3
      <4>2. from[k][u[i]] = <<u[i]>> \o from[k - 1][pointer[u[i]]]
        BY <1>5, <3>3, <4>1, Zenon
      <4>3. QED
        BY <3>2, <3>3, <4>2, Zenon
    <3>5. <<u[i]>> \o Rest(i + 1) = Rest(i)
      <4>1. u \in [1..(N + 1) -> Nodes \cup {Null}]
        BY <1>1
      <4> DEFINE M == N + 1 - i
      <4>2. M \in Nat /\ M + 1 \in Nat /\ N + 2 - (i + 1) = M /\ N + 2 - i = M + 1
        BY <1>1, <3>1
      <4>3. /\ Rest(i + 1) = [n \in 1..M |-> u[n + i]]
            /\ Rest(i) = [n \in 1..(M + 1) |-> u[n + i - 1]]
        BY <3>1, <4>2
      <4>4. /\ \A n \in 1..M : n + i \in 1..(N + 1)
            /\ \A n \in 1..(M + 1) : n + i - 1 \in 1..(N + 1)
        <5>1. N \in Nat /\ i \in 1..N
          BY <1>1, <3>1
        <5> HIDE DEF Rest
        <5>2. \A n \in 1..M : n + i \in 1..(N + 1)
          BY <5>1
        <5>3. \A n \in 1..(M + 1) : n + i - 1 \in 1..(N + 1)
          BY <5>1
        <5>4. QED
          BY <5>2, <5>3
      <4>5. /\ Rest(i + 1) \in [1..M -> Nodes \cup {Null}]
            /\ Rest(i) \in [1..(M + 1) -> Nodes \cup {Null}]
        BY <4>1, <4>3, <4>4
      <4> HIDE DEF M, Rest
      <4>6. /\ Rest(i + 1) \in Seq(Nodes \cup {Null}) /\ Len(Rest(i + 1)) = M
            /\ Rest(i) \in Seq(Nodes \cup {Null}) /\ Len(Rest(i)) = M + 1
        BY <4>2, <4>5
      <4>7. /\ Rest(i)[1] = u[i]
            /\ \A n \in 1..M : Rest(i)[n + 1] = Rest(i + 1)[n]
        <5>1. i \in Nat /\ M \in Nat
          BY <3>1, <4>2
        <5>2. \A n \in 1..M : n + 1 \in 1..(M + 1) /\ (n + 1) + i - 1 = n + i
          BY <5>1
        <5>3. \A n \in 1..(M + 1) : Rest(i)[n] = u[n + i - 1]
          BY <4>3, Zenon
        <5>4. \A n \in 1..M : Rest(i + 1)[n] = u[n + i]
          BY <4>3, Zenon
        <5>5. 1 \in 1..(M + 1) /\ 1 + i - 1 = i
          BY <5>1
        <5>6. QED
          BY <5>2, <5>3, <5>4, <5>5
      <4>8. QED
        BY <3>3, <4>2, <4>6, <4>7
    <3>6. QED
      BY <2>2, <3>4, <3>5 DEF i, k
  <2>5. QED
    BY <2>3, <2>4
<1>7. from[most][u[1]] = Rest(1)
  <2>1. N \in 0..N /\ N \notin bad /\ most - (N - N) = most /\ N + 1 - N = 1
    <3> HIDE DEF bad
    <3>1. QED
      BY <1>1, <1>2, <1>6
  <2>2. from[most - (N - N)][u[N + 1 - N]] = Rest(N + 1 - N)
    BY <2>1
  <2> HIDE DEF Rest
  <2>3. QED
    BY <2>1, <2>2
<1>8. Rest(1) = u /\ u[1] = t[1]
  BY <1>1
<1>9. QED
  BY <1>3, <1>7, <1>8 DEF u

(***************************************************************************)
(* The list as two chains of pointers.                                     *)
(***************************************************************************)
\* The nodes of the list when m is what lies between the desk and the pointer.
At(m, i) == IF i = 0 THEN "desk" ELSE IF i = Len(m) + 1 THEN "mouse" ELSE m[i]
Full(m)  == [i \in 1..(Len(m) + 2) |-> At(m, i - 1)]
On(m, w) == \E i \in 1..Len(m) : m[i] = w

Pointers == [Nodes -> Nodes \cup {Null}]

\* l links them in both directions, and no image that is not on it; of free
\* nothing is said.
Chain(l, m, free) ==
  /\ l \in [next : Pointers, prev : Pointers]
  /\ m \in Seq(Images)
  /\ \A i, j \in 1..Len(m) : m[i] = m[j] => i = j
  /\ \A i \in 0..Len(m) : l.next[At(m, i)] = At(m, i + 1) /\ l.prev[At(m, i + 1)] = At(m, i)
  /\ l.next["mouse"] = Null /\ l.prev["desk"] = Null
  /\ \A w \in Images : ~On(m, w) /\ w # free => l.next[w] = Null /\ l.prev[w] = Null

\* No node is twice on such a list.
LEMMA AtInjective ==
  ASSUME NEW m \in Seq(Images), \A i, j \in 1..Len(m) : m[i] = m[j] => i = j
  PROVE  /\ Len(m) \in Nat /\ m \in [1..Len(m) -> Images]
         /\ \A i \in 0..(Len(m) + 1) : At(m, i) \in Nodes /\ At(m, i) # Null
         /\ \A i \in 1..Len(m) : At(m, i) = m[i] /\ m[i] \in Images
         /\ \A i, j \in 0..(Len(m) + 1) : At(m, i) = At(m, j) => i = j
<1>1. Len(m) \in Nat /\ m \in [1..Len(m) -> Images]
  OBVIOUS
<1>2. \A i \in 1..Len(m) : At(m, i) = m[i] /\ m[i] \in Images
  BY <1>1 DEF At
<1>3. At(m, 0) = "desk" /\ At(m, Len(m) + 1) = "mouse"
  BY <1>1 DEF At
<1>4. \A i \in 0..(Len(m) + 1) : i = 0 \/ i = Len(m) + 1 \/ i \in 1..Len(m)
  BY <1>1
<1>5. \A i \in 0..(Len(m) + 1) : At(m, i) \in Nodes /\ At(m, i) # Null
  BY <1>2, <1>3, <1>4, FiniteNodes DEF Nodes
<1>6. \A i, j \in 0..(Len(m) + 1) : At(m, i) = At(m, j) => i = j
  BY <1>2, <1>3, <1>4, FiniteNodes
<1>7. QED
  BY <1>1, <1>2, <1>5, <1>6

\* What a walk along either pointer meets.
LEMMA Readings ==
  ASSUME NEW l, NEW m, NEW free, Chain(l, m, free)
  PROVE  /\ Walk(l.next, "desk") = Append(Full(m), Null)
         /\ Walk(l.prev, "mouse") = Append(Reverse(Full(m)), Null)
<1> DEFINE n == Len(m)
           s == Full(m)
           r == Reverse(s)
<1>1. /\ n \in Nat
      /\ \A i \in 0..(n + 1) : At(m, i) \in Nodes
      /\ \A i, j \in 0..(n + 1) : At(m, i) = At(m, j) => i = j
  BY AtInjective DEF Chain
<1>2. At(m, 0) = "desk" /\ At(m, n + 1) = "mouse"
  BY <1>1 DEF At
<1>3. /\ \A i \in 0..n : l.next[At(m, i)] = At(m, i + 1) /\ l.prev[At(m, i + 1)] = At(m, i)
      /\ l.next["mouse"] = Null /\ l.prev["desk"] = Null
  BY DEF Chain
<1> HIDE DEF n
<1>4. s = [i \in 1..(n + 2) |-> At(m, i - 1)]
  BY DEF Full, n
<1>5. s \in [1..(n + 2) -> Nodes]
  BY <1>1, <1>4
<1> HIDE DEF s
<1>6. s \in Seq(Nodes) /\ Len(s) = n + 2 /\ s # <<>>
  <2>1. s \in Seq(Nodes) /\ Len(s) = n + 2
    BY <1>1, <1>5
  <2>2. QED
    BY <1>1, <2>1
<1>7. r = [i \in 1..(n + 2) |-> At(m, n + 2 - i)]
  <2>1. \A i \in 1..(n + 2) : s[n + 2 - i + 1] = At(m, n + 2 - i)
    BY <1>1, <1>4
  <2>2. r = [i \in 1..(n + 2) |-> s[n + 2 - i + 1]]
    <3>1. r = [i \in 1..Len(s) |-> s[(Len(s) - i) + 1]]
      BY DEF Reverse
    <3> HIDE DEF r
    <3>2. \A i \in 1..(n + 2) : r[i] = s[n + 2 - i + 1]
      BY <1>1, <1>6, <3>1
    <3>5. r = [i \in 1..(n + 2) |-> r[i]]
      BY <1>1, <1>6, <3>1
    <3>4. QED
      BY <3>2, <3>5, Zenon
  <2> HIDE DEF r
  <2>3. QED
    BY <2>1, <2>2
<1>8. r \in [1..(n + 2) -> Nodes]
  BY <1>1, <1>7
<1> HIDE DEF r
<1>9. r \in Seq(Nodes) /\ Len(r) = n + 2 /\ r # <<>>
  <2>1. r \in Seq(Nodes) /\ Len(r) = n + 2
    BY <1>1, <1>8
  <2>2. QED
    BY <1>1, <2>1
<1>10. Path(l.next, s)
  <2>1. \A i, j \in 1..(n + 2) : s[i] = s[j] => i = j
    BY <1>1, <1>4
  <2>2. \A i \in 1..(n + 1) : l.next[s[i]] = s[i + 1]
    <3>1. \A i \in 1..(n + 1) : /\ i - 1 \in 0..n /\ i \in 1..(n + 2) /\ i + 1 \in 1..(n + 2)
                                /\ (i - 1) + 1 = (i + 1) - 1
      BY <1>1
    <3>2. QED
      BY <1>3, <1>4, <3>1
  <2>3. s[n + 2] = "mouse"
    BY <1>1, <1>2, <1>4
  <2>4. /\ \A i, j \in 1..Len(s) : s[i] = s[j] => i = j
        /\ \A i \in 1..(Len(s) - 1) : l.next[s[i]] = s[i + 1]
        /\ l.next[s[Len(s)]] = Null
    BY <1>1, <1>3, <1>6, <2>1, <2>2, <2>3
  <2>5. QED
    BY <1>6, <2>4, Zenon DEF Path
<1>11. Path(l.prev, r)
  <2>1. \A i, j \in 1..(n + 2) : r[i] = r[j] => i = j
    BY <1>1, <1>7
  <2>2. \A i \in 1..(n + 1) : l.prev[r[i]] = r[i + 1]
    <3>1. \A i \in 1..(n + 1) : /\ n + 1 - i \in 0..n /\ i \in 1..(n + 2) /\ i + 1 \in 1..(n + 2)
                                /\ n + 2 - i = (n + 1 - i) + 1 /\ n + 2 - (i + 1) = n + 1 - i
      BY <1>1
    <3>2. QED
      BY <1>3, <1>7, <3>1
  <2>3. r[n + 2] = "desk"
    BY <1>1, <1>2, <1>7
  <2>4. /\ \A i, j \in 1..Len(r) : r[i] = r[j] => i = j
        /\ \A i \in 1..(Len(r) - 1) : l.prev[r[i]] = r[i + 1]
        /\ l.prev[r[Len(r)]] = Null
    BY <1>1, <1>3, <1>9, <2>1, <2>2, <2>3
  <2>5. QED
    BY <1>9, <2>4, Zenon DEF Path
<1>12. s[1] = "desk" /\ r[1] = "mouse"
  BY <1>1, <1>2, <1>4, <1>7
<1>13. Walk(l.next, s[1]) = Append(s, Null) /\ Walk(l.prev, r[1]) = Append(r, Null)
  BY <1>10, <1>11, WalkIs
<1>14. QED
  BY <1>12, <1>13 DEF s, r

-----------------------------------------------------------------------------
\* m without its k-th image.
Out(m, k) == [i \in 1..(Len(m) - 1) |-> IF i < k THEN m[i] ELSE m[i + 1]]

\* What is left is each of the others once.
LEMMA OutIs ==
  ASSUME NEW m \in Seq(Images), \A i, j \in 1..Len(m) : m[i] = m[j] => i = j,
         NEW k \in 1..Len(m)
  PROVE  /\ Out(m, k) \in Seq(Images) /\ Len(Out(m, k)) = Len(m) - 1
         /\ \A i, j \in 1..Len(Out(m, k)) : Out(m, k)[i] = Out(m, k)[j] => i = j
         /\ \A w : On(Out(m, k), w) <=> On(m, w) /\ w # m[k]
         /\ \A i \in 0..Len(m) : At(Out(m, k), i) = At(m, IF i < k THEN i ELSE i + 1)
<1> DEFINE n == Len(m)
           r == Out(m, k)
<1>1. n \in Nat \ {0} /\ n - 1 \in Nat /\ m \in [1..n -> Images]
  OBVIOUS
<1>2. \A i, j \in 1..n : m[i] = m[j] => i = j
  OBVIOUS
<1> HIDE DEF n
<1>3. r = [i \in 1..(n - 1) |-> IF i < k THEN m[i] ELSE m[i + 1]]
  BY DEF Out, n
<1>4. k \in 1..n
  BY DEF n
<1>5. r \in [1..(n - 1) -> Images]
  BY <1>1, <1>3, <1>4
<1> HIDE DEF r
<1>6. r \in Seq(Images) /\ Len(r) = n - 1
  BY <1>1, <1>5
<1>7. \A i, j \in 1..(n - 1) : r[i] = r[j] => i = j
  BY <1>1, <1>2, <1>3, <1>4
<1>8. \A w : On(r, w) <=> On(m, w) /\ w # m[k]
  <2> SUFFICES ASSUME NEW w PROVE On(r, w) <=> On(m, w) /\ w # m[k]
    OBVIOUS
  <2>1. On(r, w) => On(m, w) /\ w # m[k]
    <3> SUFFICES ASSUME NEW i \in 1..(n - 1), r[i] = w PROVE On(m, w) /\ w # m[k]
      BY <1>6 DEF On
    <3>1. PICK j \in 1..n : m[j] = w /\ j # k
      <4>1. i < k => i \in 1..n /\ m[i] = w /\ i # k
        BY <1>1, <1>3, <1>4
      <4>2. ~(i < k) => i + 1 \in 1..n /\ m[i + 1] = w /\ i + 1 # k
        BY <1>1, <1>3, <1>4
      <4>3. QED
        BY <4>1, <4>2
    <3>2. QED
      BY <1>2, <1>4, <3>1 DEF On, n
  <2>2. On(m, w) /\ w # m[k] => On(r, w)
    <3> SUFFICES ASSUME NEW j \in 1..n, m[j] = w, w # m[k] PROVE \E i \in 1..(n - 1) : r[i] = w
      BY <1>6 DEF On, n
    <3>1. j < k => j \in 1..(n - 1) /\ r[j] = w
      BY <1>1, <1>3, <1>4
    <3>2. ~(j < k) => j - 1 \in 1..(n - 1) /\ r[j - 1] = w
      BY <1>1, <1>3, <1>4
    <3>3. QED
      BY <3>1, <3>2
  <2>3. QED
    BY <2>1, <2>2
<1>9. ASSUME NEW i \in 0..n PROVE At(r, i) = At(m, IF i < k THEN i ELSE i + 1)
  <2>1. At(r, i) = IF i = 0 THEN "desk" ELSE IF i = n THEN "mouse" ELSE r[i]
    BY <1>1, <1>6 DEF At
  <2>2. \A j : At(m, j) = IF j = 0 THEN "desk" ELSE IF j = n + 1 THEN "mouse" ELSE m[j]
    BY DEF At, n
  <2>3. QED
    BY <1>1, <1>3, <1>4, <2>1, <2>2
<1>10. QED
  BY <1>6, <1>7, <1>8, <1>9 DEF n, r

\* Unlinking takes it out of the list and leaves its own pointers.
LEMMA UnlinkChain ==
  ASSUME NEW l, NEW m, NEW k \in 1..Len(m), Chain(l, m, Null)
  PROVE  Chain(Unlink(l, m[k]), Out(m, k), m[k])
<1> DEFINE n == Len(m)
           r == Out(m, k)
           w == m[k]
           a == At(m, k - 1)
           b == At(m, k + 1)
           f == [l.next EXCEPT ![a] = b]
           g == [l.prev EXCEPT ![b] = a]
<1>1. /\ n \in Nat /\ k \in 1..n
      /\ \A i \in 0..(n + 1) : At(m, i) \in Nodes
      /\ \A i \in 1..n : At(m, i) = m[i] /\ m[i] \in Images
      /\ \A i, j \in 0..(n + 1) : At(m, i) = At(m, j) => i = j
  BY AtInjective DEF Chain
<1>2. /\ r \in Seq(Images) /\ Len(r) = n - 1
      /\ \A i, j \in 1..Len(r) : r[i] = r[j] => i = j
      /\ \A v : On(r, v) <=> On(m, v) /\ v # m[k]
      /\ \A i \in 0..n : At(r, i) = At(m, IF i < k THEN i ELSE i + 1)
  BY OutIs DEF Chain
<1>3. /\ l.next \in Pointers /\ l.prev \in Pointers
      /\ \A i \in 0..n : l.next[At(m, i)] = At(m, i + 1) /\ l.prev[At(m, i + 1)] = At(m, i)
      /\ l.next["mouse"] = Null /\ l.prev["desk"] = Null
      /\ \A v \in Images : ~On(m, v) => l.next[v] = Null /\ l.prev[v] = Null
  BY FiniteNodes DEF Chain, Nodes
<1>4. l.prev[w] = a /\ l.next[w] = b
  <2>1. k \in 0..n /\ k - 1 \in 0..n /\ (k - 1) + 1 = k /\ At(m, k) = w
    BY <1>1
  <2>2. QED
    BY <1>3, <2>1
<1>5. Unlink(l, w) = [next |-> f, prev |-> g]
  <2>1. l = [next |-> l.next, prev |-> l.prev]
    BY DEF Chain
  <2>2. Unlink(l, w) = [l EXCEPT !.next[a] = b, !.prev[b] = a]
    BY <1>4, Zenon DEF Unlink
  <2>3. QED
    BY <2>1, <2>2
<1>6. a \in Nodes /\ b \in Nodes /\ f \in Pointers /\ g \in Pointers
  BY <1>1, <1>3 DEF Pointers
<1>7. ASSUME NEW i \in 0..(n - 1)
      PROVE  f[At(r, i)] = At(r, i + 1) /\ g[At(r, i + 1)] = At(r, i)
  <2>1. CASE i < k - 1
    <3>1. At(r, i) = At(m, i) /\ At(r, i + 1) = At(m, i + 1)
      BY <1>1, <1>2, <2>1
    <3>2. At(m, i) # a /\ At(m, i + 1) # b
      BY <1>1, <2>1
    <3>3. QED
      BY <1>1, <1>3, <3>1, <3>2 DEF Pointers
  <2>2. CASE i = k - 1
    <3>1. At(r, i) = a /\ At(r, i + 1) = b
      BY <1>1, <1>2, <2>2
    <3>2. QED
      BY <1>3, <1>6, <3>1 DEF Pointers
  <2>3. CASE i > k - 1
    <3>1. At(r, i) = At(m, i + 1) /\ At(r, i + 1) = At(m, i + 2)
      BY <1>1, <1>2, <2>3
    <3>2. At(m, i + 1) # a /\ At(m, i + 2) # b
      BY <1>1, <2>3
    <3>3. i + 1 \in 0..n /\ (i + 1) + 1 = i + 2
      BY <1>1
    <3>4. QED
      BY <1>1, <1>3, <3>1, <3>2, <3>3 DEF Pointers
  <2>4. QED
    BY <1>1, <2>1, <2>2, <2>3
<1>8. f["mouse"] = Null /\ g["desk"] = Null
  <2>1. At(m, 0) = "desk" /\ At(m, n + 1) = "mouse"
    BY <1>1 DEF At
  <2>2. a # "mouse" /\ b # "desk"
    BY <1>1, <2>1
  <2>3. QED
    BY <1>3, <2>2 DEF Pointers, Nodes
<1>9. ASSUME NEW v \in Images, ~On(r, v), v # w PROVE f[v] = Null /\ g[v] = Null
  <2>1. ~On(m, v)
    BY <1>2, <1>9
  <2>2. v # a /\ v # b
    <3>1. /\ k - 1 = 0 \/ k - 1 \in 1..n
          /\ k + 1 = n + 1 \/ k + 1 \in 1..n
      BY <1>1
    <3>2. At(m, 0) = "desk" /\ At(m, n + 1) = "mouse"
      BY <1>1 DEF At
    <3>3. QED
      BY <1>1, <2>1, <3>1, <3>2, FiniteNodes DEF On
  <2>3. QED
    BY <1>3, <2>1, <2>2 DEF Pointers, Nodes
<1> DEFINE u == [next |-> f, prev |-> g]
<1>10. u \in [next : Pointers, prev : Pointers] /\ u.next = f /\ u.prev = g
  BY <1>6
<1> HIDE DEF f, g, u, w, n, r
<1>11. Chain(u, r, w)
  BY <1>2, <1>7, <1>8, <1>9, <1>10 DEF Chain
<1>12. QED
  BY <1>5, <1>11 DEF u, r, w

\* What lies under the pointer when w has come on top.
LEMMA AppendIs ==
  ASSUME NEW m \in Seq(Images), \A i, j \in 1..Len(m) : m[i] = m[j] => i = j,
         NEW w \in Images, ~On(m, w)
  PROVE  /\ Append(m, w) \in Seq(Images) /\ Len(Append(m, w)) = Len(m) + 1
         /\ \A i, j \in 1..Len(Append(m, w)) : Append(m, w)[i] = Append(m, w)[j] => i = j
         /\ \A v : On(Append(m, w), v) <=> On(m, v) \/ v = w
         /\ \A i \in 0..Len(m) : At(Append(m, w), i) = At(m, i)
         /\ At(Append(m, w), Len(m) + 1) = w /\ At(Append(m, w), Len(m) + 2) = "mouse"
<1> DEFINE n == Len(m)
           r == Append(m, w)
<1>1. n \in Nat /\ m \in [1..n -> Images]
  OBVIOUS
<1>2. \A i, j \in 1..n : m[i] = m[j] => i = j
  OBVIOUS
<1>3. r \in Seq(Images) /\ Len(r) = n + 1
  OBVIOUS
<1>4. (\A i \in 1..n : r[i] = m[i]) /\ r[n + 1] = w
  OBVIOUS
<1>5. \A v : On(m, v) <=> \E i \in 1..n : m[i] = v
  BY DEF On
<1>6. \A i : At(m, i) = IF i = 0 THEN "desk" ELSE IF i = n + 1 THEN "mouse" ELSE m[i]
  BY DEF At
<1> HIDE DEF n, r
<1>7. \A i, j \in 1..(n + 1) : r[i] = r[j] => i = j
  <2>1. \A i \in 1..(n + 1) : i = n + 1 \/ i \in 1..n
    BY <1>1
  <2>2. \A i \in 1..n : m[i] # w
    BY <1>5
  <2>3. QED
    BY <1>2, <1>4, <2>1, <2>2
<1>8. \A v : On(r, v) <=> On(m, v) \/ v = w
  <2>1. \A i : i \in 1..(n + 1) <=> i = n + 1 \/ i \in 1..n
    BY <1>1
  <2>2. \A v : On(r, v) <=> \E i \in 1..(n + 1) : r[i] = v
    BY <1>3 DEF On
  <2>3. QED
    BY <1>4, <1>5, <2>1, <2>2
<1>9. \A i : At(r, i) = IF i = 0 THEN "desk" ELSE IF i = n + 1 + 1 THEN "mouse" ELSE r[i]
  BY <1>3 DEF At
<1>10. \A i \in 0..n : At(r, i) = At(m, i)
  BY <1>1, <1>4, <1>6, <1>9
<1>11. At(r, n + 1) = w /\ At(r, n + 2) = "mouse"
  BY <1>1, <1>4, <1>9
<1>12. QED
  BY <1>3, <1>7, <1>8, <1>10, <1>11 DEF n, r

\* Linking puts an image that is not on the list in front of the others.
LEMMA LinkChain ==
  ASSUME NEW l, NEW m, NEW free, Chain(l, m, free),
         NEW w \in Images, ~On(m, w), free \in {Null, w}
  PROVE  Chain(LinkLast(l, w), Append(m, w), Null)
<1> DEFINE n == Len(m)
           r == Append(m, w)
           a == At(m, n)
           f == [[l.next EXCEPT ![w] = "mouse"] EXCEPT ![a] = w]
           g == [[l.prev EXCEPT ![w] = a] EXCEPT !["mouse"] = w]
<1>1. /\ n \in Nat
      /\ \A i \in 0..(n + 1) : At(m, i) \in Nodes
      /\ \A i \in 1..n : At(m, i) = m[i] /\ m[i] \in Images
      /\ \A i, j \in 0..(n + 1) : At(m, i) = At(m, j) => i = j
  BY AtInjective DEF Chain
<1>2. /\ r \in Seq(Images) /\ Len(r) = n + 1
      /\ \A i, j \in 1..Len(r) : r[i] = r[j] => i = j
      /\ \A v : On(r, v) <=> On(m, v) \/ v = w
      /\ \A i \in 0..n : At(r, i) = At(m, i)
      /\ At(r, n + 1) = w /\ At(r, n + 2) = "mouse"
  BY AppendIs DEF Chain
<1>3. /\ l.next \in Pointers /\ l.prev \in Pointers
      /\ \A i \in 0..n : l.next[At(m, i)] = At(m, i + 1) /\ l.prev[At(m, i + 1)] = At(m, i)
      /\ l.next["mouse"] = Null /\ l.prev["desk"] = Null
      /\ \A v \in Images : ~On(m, v) /\ v # free => l.next[v] = Null /\ l.prev[v] = Null
  BY DEF Chain
<1>4. At(m, 0) = "desk" /\ At(m, n + 1) = "mouse"
  BY <1>1 DEF At
<1>5. /\ w \in Nodes /\ a \in Nodes /\ "mouse" \in Nodes /\ "desk" \in Nodes
      /\ w # "mouse" /\ w # "desk" /\ a # "mouse"
  BY <1>1, <1>4, FiniteNodes DEF Nodes
<1>6. \A i \in 0..(n + 1) : At(m, i) # w
  <2>1. \A i \in 0..(n + 1) : i = 0 \/ i = n + 1 \/ i \in 1..n
    BY <1>1
  <2>2. \A i \in 1..n : m[i] # w
    BY DEF On
  <2>3. QED
    BY <1>1, <1>4, <1>5, <2>1, <2>2
<1>7. LinkLast(l, w) = [next |-> f, prev |-> g]
  <2>1. l.prev["mouse"] = a
    <3>1. n \in 0..n
      BY <1>1
    <3>2. QED
      BY <1>3, <1>4, <3>1
  <2>2. l = [next |-> l.next, prev |-> l.prev]
    BY DEF Chain
  <2>3. LinkLast(l, w) = [l EXCEPT !.next[w] = "mouse", !.prev[w] = a,
                                   !.next[a] = w, !.prev["mouse"] = w]
    BY <2>1, Zenon DEF LinkLast
  <2>4. QED
    BY <2>2, <2>3
<1>8. /\ f \in Pointers /\ g \in Pointers
      /\ \A v \in Nodes : /\ f[v] = IF v = a THEN w ELSE IF v = w THEN "mouse" ELSE l.next[v]
                          /\ g[v] = IF v = "mouse" THEN w ELSE IF v = w THEN a ELSE l.prev[v]
  <2>1. l.next \in [Nodes -> Nodes \cup {Null}] /\ l.prev \in [Nodes -> Nodes \cup {Null}]
    BY <1>3 DEF Pointers
  <2>2. QED
    BY <1>5, <2>1 DEF Pointers
<1> HIDE DEF f, g
<1>9. ASSUME NEW i \in 0..(n + 1)
      PROVE  f[At(r, i)] = At(r, i + 1) /\ g[At(r, i + 1)] = At(r, i)
  <2>1. CASE i < n
    <3>1. At(r, i) = At(m, i) /\ At(r, i + 1) = At(m, i + 1)
      BY <1>1, <1>2, <2>1
    <3>2. At(m, i) # a /\ At(m, i + 1) # "mouse"
      BY <1>1, <1>4, <2>1
    <3>3. i \in 0..n /\ i \in 0..(n + 1) /\ i + 1 \in 0..(n + 1)
      BY <1>1, <2>1
    <3>4. QED
      BY <1>1, <1>3, <1>6, <1>8, <3>1, <3>2, <3>3
  <2>2. CASE i = n
    <3>1. At(r, i) = a /\ At(r, i + 1) = w
      BY <1>1, <1>2, <2>2
    <3>2. QED
      BY <1>5, <1>6, <1>8, <3>1
  <2>3. CASE i = n + 1
    <3>1. At(r, i) = w /\ At(r, i + 1) = "mouse"
      BY <1>1, <1>2, <2>3
    <3>2. a # w
      BY <1>1, <1>6
    <3>3. QED
      BY <1>5, <1>8, <3>1, <3>2
  <2>4. QED
    BY <1>1, <2>1, <2>2, <2>3
<1>10. f["mouse"] = Null /\ g["desk"] = Null
  BY <1>3, <1>5, <1>8
<1>11. ASSUME NEW v \in Images, ~On(r, v) PROVE f[v] = Null /\ g[v] = Null
  <2>1. ~On(m, v) /\ v # w /\ v # free
    BY <1>2, <1>11, FiniteNodes DEF Nodes
  <2>2. v # a /\ v # "mouse" /\ v \in Nodes
    <3>1. n = 0 \/ n \in 1..n
      BY <1>1
    <3>2. QED
      BY <1>1, <1>4, <2>1, <3>1, FiniteNodes DEF On, Nodes
  <2>3. QED
    BY <1>3, <1>8, <2>1, <2>2
<1> DEFINE u == [next |-> f, prev |-> g]
<1>12. u \in [next : Pointers, prev : Pointers] /\ u.next = f /\ u.prev = g
  BY <1>8
<1> HIDE DEF u, n, r
<1>13. Chain(u, r, Null)
  BY <1>2, <1>9, <1>10, <1>11, <1>12 DEF Chain
<1>14. QED
  BY <1>7, <1>13 DEF u, r

\* Dropping takes an image out of the list and leaves no pointer behind.
LEMMA DropChain ==
  ASSUME NEW l, NEW m, NEW k \in 1..Len(m), Chain(l, m, Null)
  PROVE  Chain(Dropped(l, m[k]), Out(m, k), Null)
<1> DEFINE u == Unlink(l, m[k])
           r == Out(m, k)
           w == m[k]
           f == [u.next EXCEPT ![w] = Null]
           g == [u.prev EXCEPT ![w] = Null]
           d == [next |-> f, prev |-> g]
<1>1. Chain(u, r, w)
  BY UnlinkChain
<1>2. w \in Images /\ ~On(r, w) /\ r \in Seq(Images)
  BY OutIs, AtInjective DEF Chain
<1> HIDE DEF r, u, w
<1>3. Dropped(l, w) = d
  <2>1. Dropped(l, w) = [u EXCEPT !.next[w] = Null, !.prev[w] = Null]
    BY Zenon DEF Dropped, u, w
  <2>2. u = [next |-> u.next, prev |-> u.prev]
    BY <1>1 DEF Chain
  <2>3. QED
    BY <2>1, <2>2
<1>4. u.next \in [Nodes -> Nodes \cup {Null}] /\ u.prev \in [Nodes -> Nodes \cup {Null}]
  BY <1>1 DEF Chain, Pointers
<1>5. /\ f \in Pointers /\ g \in Pointers
      /\ \A v \in Nodes : /\ f[v] = IF v = w THEN Null ELSE u.next[v]
                          /\ g[v] = IF v = w THEN Null ELSE u.prev[v]
  BY <1>4 DEF Pointers
<1>6. d \in [next : Pointers, prev : Pointers] /\ d.next = f /\ d.prev = g
  BY <1>5
<1>7. \A i \in 0..(Len(r) + 1) : At(r, i) \in Nodes /\ At(r, i) # w
  <2>1. /\ Len(r) \in Nat
        /\ \A i \in 0..(Len(r) + 1) : At(r, i) \in Nodes
        /\ \A i \in 1..Len(r) : At(r, i) = r[i]
    BY <1>1, AtInjective DEF Chain
  <2>2. \A i \in 0..(Len(r) + 1) : i = 0 \/ i = Len(r) + 1 \/ i \in 1..Len(r)
    BY <2>1
  <2>3. At(r, 0) = "desk" /\ At(r, Len(r) + 1) = "mouse"
    BY <2>1 DEF At
  <2>4. QED
    BY <1>2, <2>1, <2>2, <2>3, FiniteNodes DEF On
<1> HIDE DEF f, g, d
<1>8. \A i \in 0..Len(r) : f[At(r, i)] = At(r, i + 1) /\ g[At(r, i + 1)] = At(r, i)
  <2>1. Len(r) \in Nat
    BY <1>2
  <2>2. \A i \in 0..Len(r) : i \in 0..(Len(r) + 1) /\ i + 1 \in 0..(Len(r) + 1)
    BY <2>1
  <2>3. QED
    BY <1>1, <1>5, <1>7, <2>2 DEF Chain
<1>9. f["mouse"] = Null /\ g["desk"] = Null
  BY <1>1, <1>5 DEF Chain, Nodes
<1>10. \A v \in Images : ~On(r, v) => f[v] = Null /\ g[v] = Null
  BY <1>1, <1>5 DEF Chain, Nodes
<1>11. Chain(d, r, Null)
  BY <1>1, <1>6, <1>8, <1>9, <1>10 DEF Chain
<1>12. QED
  BY <1>3, <1>11 DEF r, w

-----------------------------------------------------------------------------
\* The window of the images and the icon of the file come and go together.
Family(m) == On(m, "img1") <=> On(m, "file")

\* The button's flags, and the two chains of pointers.
ListInv ==
  /\ clk \in BOOLEAN /\ drag \in BOOLEAN
  /\ \E m \in Seq(Images) : Chain(list, m, Null) /\ Family(m)

\* The list as the code reads it: on it is what has a pointer back, and what
\* either walk meets.
LEMMA ReadsAs ==
  ASSUME NEW l, NEW m, Chain(l, m, Null)
  PROVE  /\ Between(Walk(l.next, "desk")) = m
         /\ Walk(l.next, "desk") = Append(Tail(Reverse(Walk(l.prev, "mouse"))), Null)
         /\ \A w \in Images : /\ l.prev[w] # Null <=> On(m, w)
                              /\ w \in Range(Walk(l.next, "desk")) <=> On(m, w)
                              /\ w \in Range(Walk(l.prev, "mouse")) <=> On(m, w)
         /\ "desk" \in Range(Walk(l.prev, "mouse"))
<1> DEFINE n == Len(m)
           drawn == Walk(l.next, "desk")
           behind == Walk(l.prev, "mouse")
           s == Full(m)
           r == Reverse(s)
           d == Append(s, Null)
           b == Append(r, Null)
<1>1. drawn = d /\ behind = b
  BY Readings
<1> HIDE DEF drawn, behind
<1>2. /\ n \in Nat /\ m \in Seq(Images)
      /\ \A i \in 0..(n + 1) : At(m, i) \in Nodes /\ At(m, i) # Null
      /\ \A i \in 1..n : At(m, i) = m[i] /\ m[i] \in Images
  BY AtInjective DEF Chain
<1>3. s = [i \in 1..(n + 2) |-> At(m, i - 1)] /\ m = [i \in 1..n |-> m[i]]
  BY <1>2 DEF Full
<1>4. \A v : On(m, v) <=> \E i \in 1..n : m[i] = v
  BY DEF On
<1>5. At(m, 0) = "desk" /\ At(m, n + 1) = "mouse"
  BY <1>2 DEF At
<1> HIDE DEF n, s
<1>6. s \in [1..(n + 2) -> Nodes]
  BY <1>2, <1>3
<1>7. s \in Seq(Nodes \cup {Null}) /\ Len(s) = n + 2
  BY <1>2, <1>6
<1>8. /\ d \in Seq(Nodes \cup {Null}) /\ Len(d) = n + 3
      /\ \A i \in 1..(n + 2) : d[i] = s[i]
      /\ d[n + 3] = Null
  BY <1>2, <1>7
<1>9. /\ r \in Seq(Nodes \cup {Null}) /\ Len(r) = n + 2
      /\ \A i \in 1..(n + 2) : r[i] = s[n + 3 - i]
  <2>1. r = [i \in 1..Len(s) |-> s[(Len(s) - i) + 1]]
    BY DEF Reverse
  <2> HIDE DEF r
  <2>2. \A i \in 1..(n + 2) : r[i] = s[n + 3 - i] /\ r[i] \in Nodes
    BY <1>2, <1>6, <1>7, <2>1
  <2>3. DOMAIN r = 1..(n + 2) /\ r = [i \in 1..(n + 2) |-> r[i]]
    BY <1>7, <2>1
  <2>4. r \in [1..(n + 2) -> Nodes \cup {Null}]
    BY <2>2, <2>3
  <2>5. QED
    BY <1>2, <2>2, <2>4
<1> HIDE DEF r, d
<1>10. /\ b \in Seq(Nodes \cup {Null}) /\ Len(b) = n + 3
       /\ \A i \in 1..(n + 2) : b[i] = s[n + 3 - i]
       /\ b[n + 3] = Null
  BY <1>2, <1>9
<1> HIDE DEF b
<1>11. Between(drawn) = m
  <2> DEFINE q == SubSeq(d, 2, n + 1)
  <2>1. Between(drawn) = q
    <3>1. Len(d) - 2 = n + 1
      BY <1>2, <1>8
    <3>2. QED
      BY <1>1, <3>1 DEF Between
  <2>2. q \in Seq(Nodes \cup {Null}) /\ Len(q) = n /\ \A i \in 1..n : q[i] = d[i + 1]
    BY <1>2, <1>8
  <2>3. \A i \in 1..n : d[i + 1] = m[i]
    <3>1. \A i \in 1..n : i + 1 \in 1..(n + 2) /\ i + 1 - 1 = i
      BY <1>2
    <3>2. \A i \in 1..n : s[i + 1] = m[i]
      BY <1>2, <1>3, <3>1
    <3> HIDE DEF q
    <3>3. QED
      BY <1>8, <3>1, <3>2
  <2> HIDE DEF q
  <2>4. q = [i \in 1..n |-> q[i]]
    BY <2>2
  <2>5. \A i \in 1..n : q[i] = m[i]
    BY <2>2, <2>3
  <2>6. QED
    BY <1>3, <2>1, <2>4, <2>5, Zenon
<1>12. drawn = Append(Tail(Reverse(behind)), Null)
  <2> DEFINE t == Reverse(b)
             h == Tail(t)
  <2>1. /\ t \in Seq(Nodes \cup {Null}) /\ Len(t) = n + 3
        /\ \A i \in 2..(n + 3) : t[i] = s[i - 1]
    <3>1. t = [i \in 1..Len(b) |-> b[(Len(b) - i) + 1]]
      BY DEF Reverse
    <3> HIDE DEF t
    <3>2. \A i \in 1..(n + 3) : t[i] = b[n + 4 - i] /\ b[n + 4 - i] \in Nodes \cup {Null}
      BY <1>2, <1>10, <3>1
    <3>3. t = [i \in 1..(n + 3) |-> t[i]]
      BY <1>2, <1>10, <3>1
    <3>4. t \in [1..(n + 3) -> Nodes \cup {Null}]
      BY <3>2, <3>3
    <3>5. t \in Seq(Nodes \cup {Null}) /\ Len(t) = n + 3
      BY <1>2, <3>4
    <3>6. \A i \in 2..(n + 3) : /\ n + 4 - i \in 1..(n + 2) /\ n + 3 - (n + 4 - i) = i - 1
                                /\ i \in 1..(n + 3)
      BY <1>2
    <3>7. QED
      BY <1>10, <3>2, <3>5, <3>6
  <2> HIDE DEF t
  <2>2. h \in Seq(Nodes \cup {Null}) /\ Len(h) = n + 2 /\ \A i \in 1..(n + 2) : h[i] = t[i + 1]
    BY <1>2, <2>1
  <2> HIDE DEF h
  <2>3. \A i \in 1..(n + 2) : h[i] = s[i]
    <3>1. \A i \in 1..(n + 2) : i + 1 \in 2..(n + 3) /\ i + 1 - 1 = i
      BY <1>2
    <3>2. QED
      BY <2>1, <2>2, <3>1
  <2>4. h = [i \in 1..(n + 2) |-> h[i]] /\ s = [i \in 1..(n + 2) |-> s[i]]
    BY <1>6, <2>2
  <2>5. h = s
    BY <2>3, <2>4, Zenon
  <2>6. QED
    BY <1>1, <2>5 DEF d, h, t
<1>13. \A w \in Images : l.prev[w] # Null <=> On(m, w)
  <2>1. \A i \in 1..n : l.prev[m[i]] # Null
    <3>1. \A i \in 1..n : i - 1 \in 0..n /\ (i - 1) + 1 = i /\ i - 1 \in 0..(n + 1)
      BY <1>2
    <3>2. \A i \in 0..n : l.prev[At(m, i + 1)] = At(m, i)
      BY DEF Chain, n
    <3>3. QED
      BY <1>2, <3>1, <3>2
  <2>2. \A w \in Images : ~On(m, w) => l.prev[w] = Null
    BY FiniteNodes DEF Chain, Nodes
  <2>3. QED
    BY <1>4, <2>1, <2>2
<1>14. \A v \in Nodes : (\E i \in 1..(n + 2) : s[i] = v) <=> On(m, v) \/ v \in {"desk", "mouse"}
  <2>1. \A i \in 1..(n + 2) : i = 1 \/ i = n + 2 \/ i - 1 \in 1..n
    BY <1>2
  <2>2. \A i \in 1..n : i + 1 \in 1..(n + 2) /\ s[i + 1] = m[i]
    <3>1. \A i \in 1..n : i + 1 \in 1..(n + 2) /\ i + 1 - 1 = i
      BY <1>2
    <3>2. QED
      BY <1>2, <1>3, <3>1
  <2>3. s[1] = "desk" /\ s[n + 2] = "mouse" /\ 1 \in 1..(n + 2) /\ n + 2 \in 1..(n + 2)
    BY <1>2, <1>3, <1>5
  <2>4. \A i \in 1..(n + 2) : i - 1 \in 1..n => s[i] = m[i - 1]
    BY <1>2, <1>3
  <2>5. QED
    BY <1>4, <2>1, <2>2, <2>3, <2>4
<1>15. \A v \in Nodes : v \in Range(d) <=> \E i \in 1..(n + 2) : s[i] = v
  <2>1. \A i : i \in 1..(n + 3) <=> i \in 1..(n + 2) \/ i = n + 3
    BY <1>2
  <2>2. DOMAIN d = 1..(n + 3)
    BY <1>8
  <2>3. QED
    BY <1>8, <2>1, <2>2, FiniteNodes DEF Range
<1>16. \A v \in Nodes : v \in Range(b) <=> \E i \in 1..(n + 2) : s[i] = v
  <2>1. \A i : i \in 1..(n + 3) <=> i \in 1..(n + 2) \/ i = n + 3
    BY <1>2
  <2>2. DOMAIN b = 1..(n + 3)
    BY <1>10
  <2>3. \A i \in 1..(n + 2) : n + 3 - i \in 1..(n + 2) /\ n + 3 - (n + 3 - i) = i
    BY <1>2
  <2>4. QED
    BY <1>10, <2>1, <2>2, <2>3, FiniteNodes DEF Range
<1>17. /\ \A w \in Images : w \in Nodes /\ w \notin {"desk", "mouse"}
       /\ "desk" \in Nodes
  BY FiniteNodes DEF Nodes
<1>18. QED
  BY <1>1, <1>11, <1>12, <1>13, <1>14, <1>15, <1>16, <1>17 DEF drawn, behind

\* The same of the list as it is.
LEMMA OnIs ==
  ASSUME NEW m, Chain(list, m, Null)
  PROVE  /\ Between(Drawn) = m
         /\ Linked
         /\ \A w \in Images : /\ list.prev[w] # Null <=> On(m, w)
                              /\ w \in Range(Drawn) <=> On(m, w)
                              /\ w \in Range(Behind) <=> On(m, w)
         /\ "desk" \in Range(Behind)
BY ReadsAs DEF Drawn, Behind, Linked

-----------------------------------------------------------------------------
\* r is s without the images of G, in the same order.
Keeps(s, G, r) ==
  /\ Range(r) = Range(s) \ G
  /\ \A i, j \in DOMAIN r : \A k, l \in DOMAIN s :
       i < j /\ r[i] = s[k] /\ r[j] = s[l] => k < l

\* One image is taken out.
LEMMA OutKeeps ==
  ASSUME NEW m \in Seq(Images), \A i, j \in 1..Len(m) : m[i] = m[j] => i = j,
         NEW k \in 1..Len(m)
  PROVE  Keeps(m, {m[k]}, Out(m, k))
<1> DEFINE n == Len(m)
           r == Out(m, k)
<1>1. /\ r \in Seq(Images) /\ Len(r) = n - 1
      /\ \A w : On(r, w) <=> On(m, w) /\ w # m[k]
  BY OutIs
<1>2. n \in Nat /\ DOMAIN m = 1..n /\ DOMAIN r = 1..(n - 1)
  BY <1>1
<1>3. /\ \A w : On(r, w) <=> w \in Range(r)
      /\ \A w : On(m, w) <=> w \in Range(m)
  BY <1>1, <1>2 DEF On, Range
<1>4. \A i, j \in 1..n : m[i] = m[j] => i = j
  OBVIOUS
<1>5. r = [i \in 1..(n - 1) |-> IF i < k THEN m[i] ELSE m[i + 1]]
  BY DEF Out
<1>6. k \in 1..n
  OBVIOUS
<1> HIDE DEF n, r
<1>7. ASSUME NEW i \in 1..(n - 1), NEW j \in 1..(n - 1), NEW p \in 1..n, NEW q \in 1..n,
             i < j, r[i] = m[p], r[j] = m[q]
      PROVE  p < q
  <2> DEFINE e(x) == IF x < k THEN x ELSE x + 1
  <2>1. e(i) \in 1..n /\ e(j) \in 1..n /\ e(i) < e(j)
    BY <1>2, <1>6, <1>7
  <2>2. r[i] = m[e(i)] /\ r[j] = m[e(j)]
    BY <1>5
  <2>3. e(i) = p /\ e(j) = q
    BY <1>4, <1>7, <2>1, <2>2
  <2>4. QED
    BY <2>1, <2>3
<1>8. QED
  BY <1>1, <1>2, <1>3, <1>7 DEF Keeps, r

\* One image after the other is taken out.
LEMMA KeepsTwice ==
  ASSUME NEW s, NEW G, NEW r, NEW F, NEW q, Keeps(s, G, r), Keeps(r, F, q)
  PROVE  Keeps(s, G \cup F, q)
<1>1. Range(q) = Range(s) \ (G \cup F)
  BY DEF Keeps
<1>2. ASSUME NEW i \in DOMAIN q, NEW j \in DOMAIN q, NEW k \in DOMAIN s, NEW l \in DOMAIN s,
             i < j, q[i] = s[k], q[j] = s[l]
      PROVE  k < l
  <2>1. q[i] \in Range(r) /\ q[j] \in Range(r)
    BY DEF Keeps, Range
  <2>2. PICK a \in DOMAIN r, b \in DOMAIN r : r[a] = q[i] /\ r[b] = q[j]
    BY <2>1 DEF Range
  <2>3. a < b
    BY <1>2, <2>2 DEF Keeps
  <2>4. QED
    BY <1>2, <2>2, <2>3 DEF Keeps
<1>3. QED
  BY <1>1, <1>2 DEF Keeps

Sets == {<<w>> : w \in Images \ {"img1"}} \cup {<<"img1", "file">>}

\* In a stack the same is told by neighbours.
LEMMA WithoutIs ==
  ASSUME NEW s, NEW g, NEW r \in Seq(Images), Keeps(s, Range(g), r)
  PROVE  Z!Without(s, g, r)
<1>1. \A i \in 1..(Len(r) - 1) : i \in DOMAIN r /\ i + 1 \in DOMAIN r /\ i < i + 1
  OBVIOUS
<1>2. QED
  BY <1>1 DEF Keeps, Z!Without, Range, Z!Range

\* Out and on top again: raised.
LEMMA RaiseIs ==
  ASSUME NEW s, NEW g \in Seq(Images), NEW r \in Seq(Images), Keeps(s, Range(g), r),
         Range(g) \subseteq Range(s)
  PROVE  Z!Raise(s, r \o g, g)
<1> DEFINE t == r \o g
           q == SubSeq(t, 1, Len(t) - Len(g))
<1>1. t \in Seq(Images) /\ Len(t) = Len(r) + Len(g) /\ Len(r) \in Nat /\ Len(g) \in Nat
  OBVIOUS
<1>2. \A i \in 1..Len(r) : t[i] = r[i]
  OBVIOUS
<1> HIDE DEF t
<1>3. Len(t) - Len(g) = Len(r)
  BY <1>1
<1>4. q \in Seq(Images) /\ Len(q) = Len(r) /\ \A i \in 1..Len(r) : q[i] = r[i]
  BY <1>1, <1>2, <1>3
<1> HIDE DEF q
<1>5. q = [i \in 1..Len(r) |-> q[i]] /\ r = [i \in 1..Len(r) |-> r[i]]
  BY <1>4
<1>6. q = r
  BY <1>4, <1>5, Zenon
<1>7. Z!Without(s, g, r)
  BY WithoutIs
<1>8. t = q \o g
  BY <1>6 DEF t
<1>9. Z!Range(g) \subseteq Z!Range(s)
  BY DEF Range, Z!Range
<1>10. Z!Raise(s, t, g)
  BY <1>6, <1>7, <1>8, <1>9, Zenon DEF Z!Raise, q
<1>11. QED
  BY <1>10 DEF t

-----------------------------------------------------------------------------
\* What an action does to the stack m of a list, and to the list l.
Steps(m, n)  == n = m \/ \E g \in Sets : Z!Open(m, n, g) \/ Z!Raise(m, n, g) \/ Z!Close(m, n, g)
Leads(l, m)  == \E n \in Seq(Images) : Chain(l, n, Null) /\ Family(n) /\ Steps(m, n)

\* On the list, for the code and for the stack.
LEMMA RangeIs ==
  ASSUME NEW m \in Seq(Images)
  PROVE  /\ \A w : On(m, w) <=> w \in Range(m)
         /\ \A w : Range(<<w>>) = {w} /\ Z!Range(<<w>>) = {w}
         /\ Range(<<"img1", "file">>) = {"img1", "file"}
         /\ Z!Range(<<"img1", "file">>) = {"img1", "file"}
         /\ Z!Range(m) = Range(m)
<1>1. DOMAIN m = 1..Len(m)
  OBVIOUS
<1>2. QED
  BY <1>1 DEF On, Range, Z!Range

\* The images are nine, and five of them not icons of the desk.
LEMMA ImagesAre ==
  /\ {"img1", "file", "img2", "gif", "easel"} \subseteq Images
  /\ Images \subseteq {"term", "folder", "pacman", "paint", "img1", "file", "img2", "gif", "easel"}
<1>1. Range(Icons) \subseteq {"term", "folder", "pacman", "paint"}
  BY IconsAssumption DEF Range
<1>2. QED
  BY <1>1 DEF Images, Opens

\* bring_to_front raises an image, with the icon of the file if it is its window.
LEMMA RaiseLeads ==
  ASSUME NEW m, Chain(list, m, Null), Family(m), NEW w \in Images, On(m, w)
  PROVE  Leads(BringToFront(w), m)
<1>1. /\ m \in Seq(Images) /\ \A i, j \in 1..Len(m) : m[i] = m[j] => i = j
      /\ w \in Range(Drawn)
  BY OnIs DEF Chain
<1>2. CASE list.prev["mouse"] = w
  BY <1>1, <1>2 DEF BringToFront, Leads, Steps
<1>3. CASE list.prev["mouse"] # w
  <2>1. PICK k \in 1..Len(m) : m[k] = w
    BY DEF On
  <2> DEFINE r == Out(m, k)
             n == Append(r, w)
             l == LinkLast(Unlink(list, w), w)
  <2>2. /\ r \in Seq(Images) /\ Len(r) = Len(m) - 1
        /\ \A i, j \in 1..Len(r) : r[i] = r[j] => i = j
        /\ \A v : On(r, v) <=> On(m, v) /\ v # w
    BY <1>1, <2>1, OutIs
  <2>3. Keeps(m, {w}, r)
    BY <1>1, <2>1, OutKeeps
  <2>4. Chain(Unlink(list, w), r, w)
    BY <2>1, UnlinkChain
  <2> HIDE DEF r
  <2>5. Chain(l, n, Null)
    BY <2>2, <2>4, LinkChain
  <2>6. /\ n \in Seq(Images) /\ Len(n) = Len(r) + 1
        /\ \A v : On(n, v) <=> On(m, v)
    BY <2>2, AppendIs
  <2>7. CASE w # "img1"
    <3>1. BringToFront(w) = l
      BY <1>1, <1>3, <2>7 DEF BringToFront
    <3>2. n = r \o <<w>> /\ <<w>> \in Seq(Images) /\ <<w>> \in Sets
      BY <2>2, <2>7 DEF Sets
    <3>3. Range(<<w>>) = {w} /\ Range(<<w>>) \subseteq Range(m)
      BY <1>1, RangeIs
    <3>4. Z!Raise(m, n, <<w>>)
      <4>1. Z!Raise(m, r \o <<w>>, <<w>>)
        <5> DEFINE g == <<w>>
        <5>1. g \in Seq(Images) /\ Keeps(m, Range(g), r) /\ Range(g) \subseteq Range(m)
          BY <2>3, <3>2, <3>3
        <5> HIDE DEF g
        <5>2. Z!Raise(m, r \o g, g)
          BY <2>2, <5>1, RaiseIs
        <5>3. QED
          BY <5>2 DEF g
      <4>2. QED
        BY <3>2, <4>1
    <3>5. Steps(m, n) /\ Family(n)
      BY <2>6, <3>2, <3>4 DEF Steps, Family
    <3>6. QED
      BY <2>5, <2>6, <3>1, <3>5 DEF Leads
  <2>8. CASE w = "img1"
    <3>1. On(r, "file") /\ On(n, "file")
      BY <2>2, <2>6, <2>8 DEF Family
    <3>2. PICK p \in 1..Len(r) : r[p] = "file"
      BY <3>1 DEF On
    <3> DEFINE q == Out(r, p)
               t == Append(Append(q, w), "file")
               g == <<"img1", "file">>
    <3>3. /\ q \in Seq(Images) /\ Len(q) = Len(r) - 1
          /\ \A v : On(q, v) <=> On(r, v) /\ v # "file"
      BY <2>2, <3>2, OutIs
    <3>4. Keeps(r, {"file"}, q)
      BY <2>2, <3>2, OutKeeps
    <3>5. Keeps(m, Range(g), q)
      <4>1. Keeps(m, {"img1"} \cup {"file"}, q)
        BY <2>3, <2>8, <3>4, KeepsTwice
      <4>2. Range(g) = {"img1"} \cup {"file"}
        BY <1>1, RangeIs
      <4>3. QED
        BY <4>1, <4>2
    <3>6. p \in 1..Len(n) /\ n[p] = "file"
      BY <2>2, <2>6, <3>2
    <3>7. Out(n, p) = Append(q, w)
      <4>1. Len(r) \in Nat \ {0} /\ p \in 1..Len(r)
        <5>1. Len(r) \in Nat
          BY <2>2
        <5> HIDE DEF q, n
        <5>2. QED
          BY <3>2, <5>1
      <4>2. \A i \in 1..Len(r) : n[i] = r[i]
        BY <2>2
      <4>3. n[Len(r) + 1] = w /\ Len(n) - 1 = Len(r)
        BY <2>2, <2>6
      <4>4. Len(Append(q, w)) = Len(r) /\ Append(q, w) \in Seq(Images)
        BY <3>3, <4>1
      <4>5. \A i \in 1..(Len(r) - 1) : Append(q, w)[i] = IF i < p THEN r[i] ELSE r[i + 1]
        <5>1. \A i \in 1..(Len(r) - 1) : q[i] = IF i < p THEN r[i] ELSE r[i + 1]
          BY DEF Out
        <5> HIDE DEF q
        <5>2. QED
          BY <3>3, <4>1, <5>1
      <4>6. Append(q, w)[Len(r)] = w
        BY <3>3, <4>1
      <4> HIDE DEF q, n
      <4>7. Out(n, p) = [i \in 1..Len(r) |-> IF i < p THEN n[i] ELSE n[i + 1]]
        BY <4>3, Zenon DEF Out
      <4> DEFINE o == Out(n, p)
                 c == Append(q, w)
      <4>8. \A i \in 1..Len(r) : o[i] = c[i]
        <5>1. \A i \in 1..Len(r) : i = Len(r) \/ i \in 1..(Len(r) - 1)
          BY <4>1
        <5>2. \A i \in 1..Len(r) : o[i] = IF i < p THEN n[i] ELSE n[i + 1]
          BY <4>7
        <5> HIDE DEF o, c
        <5>3. \A i \in 1..(Len(r) - 1) : o[i] = IF i < p THEN r[i] ELSE r[i + 1]
          BY <4>1, <4>2, <5>2
        <5>4. o[Len(r)] = w
          BY <4>1, <4>3, <5>2
        <5>5. QED
          BY <4>5, <4>6, <5>1, <5>3, <5>4 DEF c
      <4>9. o = [i \in 1..Len(r) |-> o[i]] /\ c = [i \in 1..Len(r) |-> c[i]]
        <5>1. o = [i \in 1..Len(r) |-> o[i]]
          BY <4>7
        <5> HIDE DEF c
        <5>2. c \in Seq(Images) /\ Len(c) = Len(r)
          BY <4>4 DEF c
        <5>3. QED
          BY <5>1, <5>2
      <4>10. QED
        BY <4>8, <4>9, Zenon
    <3>8. Chain(Unlink(l, "file"), Append(q, w), "file")
      BY <2>5, <3>6, <3>7, UnlinkChain
    <3>9. "file" \in Images /\ "img1" \in Images
      BY ImagesAre
    <3>10. /\ Append(q, w) \in Seq(Images)
           /\ \A v : On(Append(q, w), v) <=> On(n, v) /\ v # "file"
      <4>1. \A i, j \in 1..Len(n) : n[i] = n[j] => i = j
        BY <2>5 DEF Chain
      <4>2. /\ Out(n, p) \in Seq(Images)
            /\ \A v : On(Out(n, p), v) <=> On(n, v) /\ v # "file"
        BY <2>6, <3>6, <4>1, OutIs
      <4>3. QED
        BY <3>7, <4>2
    <3> HIDE DEF q, n, l
    <3>11. Chain(LinkLast(Unlink(l, "file"), "file"), t, Null)
      BY <3>8, <3>9, <3>10, LinkChain
    <3>12. /\ t \in Seq(Images)
           /\ \A v : On(t, v) <=> On(m, v)
      <4>1. \A i, j \in 1..Len(Append(q, w)) : Append(q, w)[i] = Append(q, w)[j] => i = j
        BY <3>8 DEF Chain
      <4>2. /\ t \in Seq(Images)
            /\ \A v : On(t, v) <=> On(Append(q, w), v) \/ v = "file"
        BY <3>9, <3>10, <4>1, AppendIs
      <4>3. QED
        BY <2>6, <3>1, <3>10, <4>2
    <3>13. t = q \o g /\ g \in Seq(Images) /\ g \in Sets
      <4>1. g \in Seq(Images) /\ g \in Sets
        BY <3>9 DEF Sets
      <4>2. t = q \o g
        BY <2>8, <3>3, <3>9
      <4>3. QED
        BY <4>1, <4>2
    <3>14. Range(g) \subseteq Range(m)
      BY <1>1, <2>8, RangeIs DEF Family
    <3>15. Z!Raise(m, t, g)
      <4> HIDE DEF g, t
      <4>1. QED
        BY <3>3, <3>5, <3>13, <3>14, RaiseIs
    <3>16. BringToFront(w) = LinkLast(Unlink(l, "file"), "file")
      BY <1>1, <1>3, <2>8 DEF BringToFront, l
    <3>17. Steps(m, t) /\ Family(t)
      BY <3>12, <3>13, <3>15 DEF Steps, Family
    <3>18. QED
      BY <3>11, <3>12, <3>16, <3>17 DEF Leads
  <2>9. QED
    BY <2>7, <2>8
<1>4. QED
  BY <1>2, <1>3

\* Closing takes a window from the list, and the icon of the file with its own.
LEMMA CloseLeads ==
  ASSUME NEW m, Chain(list, m, Null), Family(m), NEW w \in Images, w # "file", On(m, w)
  PROVE  Leads(CloseWindow(w), m)
<1>1. /\ m \in Seq(Images) /\ \A i, j \in 1..Len(m) : m[i] = m[j] => i = j
      /\ w \in Range(Drawn)
  BY OnIs DEF Chain
<1>2. PICK k \in 1..Len(m) : m[k] = w
  BY DEF On
<1> DEFINE r == Out(m, k)
           l == Dropped(list, w)
<1>3. /\ r \in Seq(Images) /\ Len(r) = Len(m) - 1
      /\ \A i, j \in 1..Len(r) : r[i] = r[j] => i = j
      /\ \A v : On(r, v) <=> On(m, v) /\ v # w
  BY <1>1, <1>2, OutIs
<1>4. Keeps(m, {w}, r)
  BY <1>1, <1>2, OutKeeps
<1>5. Chain(l, r, Null)
  BY <1>2, DropChain
<1> HIDE DEF r, l
<1>6. CASE w # "img1"
  <2>1. CloseWindow(w) = l
    BY <1>1, <1>6 DEF CloseWindow, l
  <2>2. <<w>> \in Sets /\ Range(<<w>>) = {w} /\ Z!Range(<<w>>) \subseteq Z!Range(m)
    BY <1>1, <1>6, RangeIs DEF Sets
  <2>3. Z!Close(m, r, <<w>>)
    BY <1>3, <1>4, <2>2, WithoutIs DEF Z!Close
  <2>4. Steps(m, r) /\ Family(r)
    BY <1>3, <1>6, <2>2, <2>3 DEF Steps, Family
  <2>5. QED
    BY <1>3, <1>5, <2>1, <2>4 DEF Leads
<1>7. CASE w = "img1"
  <2>1. On(r, "file")
    BY <1>3, <1>7 DEF Family
  <2>2. PICK p \in 1..Len(r) : r[p] = "file"
    BY <2>1 DEF On
  <2> DEFINE q == Out(r, p)
             g == <<"img1", "file">>
  <2>3. /\ q \in Seq(Images)
        /\ \A v : On(q, v) <=> On(r, v) /\ v # "file"
    BY <1>3, <2>2, OutIs
  <2>4. Keeps(r, {"file"}, q)
    BY <1>3, <2>2, OutKeeps
  <2>5. Range(g) = {"img1"} \cup {"file"} /\ Z!Range(g) \subseteq Z!Range(m) /\ g \in Sets
    BY <1>1, <1>7, RangeIs DEF Family, Sets
  <2>6. Keeps(m, Range(g), q)
    <3>1. Keeps(m, {"img1"} \cup {"file"}, q)
      BY <1>4, <1>7, <2>4, KeepsTwice
    <3>2. QED
      BY <2>5, <3>1
  <2>7. Chain(Dropped(l, "file"), q, Null)
    BY <1>5, <2>2, DropChain
  <2> HIDE DEF q, g
  <2>8. Z!Close(m, q, g)
    BY <2>3, <2>5, <2>6, WithoutIs DEF Z!Close
  <2>9. Steps(m, q) /\ Family(q)
    BY <1>3, <1>7, <2>3, <2>5, <2>8 DEF Steps, Family
  <2>10. CloseWindow(w) = Dropped(l, "file")
    BY <1>1, <1>7 DEF CloseWindow, l
  <2>11. QED
    BY <2>3, <2>7, <2>9, <2>10 DEF Leads
<1>8. QED
  BY <1>6, <1>7

\* What is opened comes on top.
LEMMA LinkLeads ==
  ASSUME NEW m, Chain(list, m, Null), Family(m), NEW w \in Images, w \notin {"img1", "file"},
         list.prev[w] = Null
  PROVE  Leads(LinkLast(list, w), m)
<1> DEFINE n == Append(m, w)
<1>1. /\ m \in Seq(Images) /\ \A i, j \in 1..Len(m) : m[i] = m[j] => i = j
      /\ ~On(m, w)
  BY OnIs DEF Chain
<1>2. Chain(LinkLast(list, w), n, Null)
  BY <1>1, LinkChain
<1>3. n \in Seq(Images) /\ \A v : On(n, v) <=> On(m, v) \/ v = w
  BY <1>1, AppendIs
<1>4. <<w>> \in Sets /\ Z!Range(<<w>>) \cap Z!Range(m) = {}
  BY <1>1, RangeIs DEF Sets
<1>5. n = m \o <<w>>
  BY <1>1
<1> HIDE DEF n
<1>6. Z!Open(m, n, <<w>>)
  BY <1>4, <1>5, Zenon DEF Z!Open
<1>7. Steps(m, n) /\ Family(n)
  BY <1>3, <1>4, <1>6 DEF Steps, Family
<1>8. QED
  BY <1>2, <1>3, <1>7 DEF Leads

\* add_img opens the first window with the icon in it, then the second.
LEMMA AddLeads ==
  ASSUME NEW m, Chain(list, m, Null), Family(m)
  PROVE  Leads(AddImg, m)
<1>1. /\ m \in Seq(Images) /\ \A i, j \in 1..Len(m) : m[i] = m[j] => i = j
      /\ {"img1", "file", "img2", "gif", "easel"} \subseteq Images
  BY ImagesAre DEF Chain
<1>2. CASE list.prev["img1"] = Null
  <2> DEFINE r == Append(m, "img1")
             n == Append(r, "file")
             g == <<"img1", "file">>
  <2>1. ~On(m, "img1") /\ ~On(m, "file")
    BY <1>1, <1>2, OnIs DEF Family
  <2>2. Chain(LinkLast(list, "img1"), r, Null)
    BY <1>1, <2>1, LinkChain
  <2>3. r \in Seq(Images) /\ \A v : On(r, v) <=> On(m, v) \/ v = "img1"
    BY <1>1, <2>1, AppendIs
  <2> HIDE DEF r
  <2>4. Chain(LinkLast(LinkLast(list, "img1"), "file"), n, Null)
    BY <1>1, <2>1, <2>2, <2>3, LinkChain
  <2>5. n \in Seq(Images) /\ \A v : On(n, v) <=> On(r, v) \/ v = "file"
    <3>1. \A i, j \in 1..Len(r) : r[i] = r[j] => i = j
      BY <2>2 DEF Chain
    <3>2. QED
      BY <1>1, <2>1, <2>3, <3>1, AppendIs
  <2>6. g \in Sets /\ Z!Range(g) \cap Z!Range(m) = {}
    BY <1>1, <2>1, RangeIs DEF Sets
  <2>7. n = m \o g
    BY <1>1 DEF r
  <2> HIDE DEF n, g
  <2>8. Z!Open(m, n, g)
    BY <2>6, <2>7, Zenon DEF Z!Open
  <2>9. Steps(m, n) /\ Family(n)
    BY <2>3, <2>5, <2>6, <2>8 DEF Steps, Family
  <2>10. QED
    BY <1>2, <2>4, <2>5, <2>9 DEF Leads, AddImg
<1>3. CASE list.prev["img1"] # Null /\ list.prev["img2"] = Null
  BY <1>1, <1>3, LinkLeads DEF AddImg
<1>4. CASE list.prev["img1"] # Null /\ list.prev["img2"] # Null
  BY <1>1, <1>4 DEF AddImg, Leads, Steps
<1>5. QED
  BY <1>2, <1>3, <1>4

-----------------------------------------------------------------------------
\* init_modex links the icons.
LEMMA InitList == Init => ListInv /\ Between(Drawn) = Icons
<1> SUFFICES ASSUME Init PROVE ListInv /\ Between(Drawn) = Icons
  OBVIOUS
<1> DEFINE m == Icons
           n == Len(m)
           s == <<Null, "desk">> \o Icons \o <<"mouse", Null>>
           Beside(w, d) == IF w \notin Range(s) THEN Null
                           ELSE s[(CHOOSE i \in 2..(Len(s) - 1) : s[i] = w) + d]
           f == [w \in Nodes |-> Beside(w, 1)]
           g == [w \in Nodes |-> Beside(w, -1)]
<1>1. list = [next |-> f, prev |-> g] /\ clk \in BOOLEAN /\ drag \in BOOLEAN
  BY DEF Init
<1>2. m \in Seq(Images) /\ \A i, j \in 1..n : m[i] = m[j] => i = j
  <2>1. m \in Seq({"term", "folder", "pacman", "paint"})
    BY IconsAssumption
  <2>2. \A i \in 1..n : m[i] \in Images
    BY <2>1 DEF Images, Range
  <2>3. QED
    BY <2>1, <2>2, IconsAssumption DEF IsInjective
<1>3. ~On(m, "img1") /\ ~On(m, "file")
  BY IconsAssumption DEF On
<1>4. /\ n \in Nat
      /\ \A i \in 0..(n + 1) : At(m, i) \in Nodes /\ At(m, i) # Null
      /\ \A i \in 1..n : At(m, i) = m[i] /\ m[i] \in Images
      /\ \A i, j \in 0..(n + 1) : At(m, i) = At(m, j) => i = j
  BY <1>2, AtInjective
<1>5. At(m, 0) = "desk" /\ At(m, n + 1) = "mouse"
  BY <1>4 DEF At
<1>6. /\ Len(s) = n + 4 /\ DOMAIN s = 1..(n + 4)
      /\ s[1] = Null /\ s[n + 4] = Null
      /\ \A i \in 0..(n + 1) : s[i + 2] = At(m, i)
  <2>1. m \in Seq(Nodes \cup {Null}) /\ <<Null, "desk">> \in Seq(Nodes \cup {Null})
        /\ <<"mouse", Null>> \in Seq(Nodes \cup {Null})
    BY <1>2 DEF Nodes
  <2>2. Len(s) = n + 4 /\ DOMAIN s = 1..(n + 4)
    BY <2>1
  <2>3. s[1] = Null /\ s[2] = "desk" /\ s[n + 3] = "mouse" /\ s[n + 4] = Null
    BY <1>4, <2>1
  <2>4. \A i \in 1..n : s[i + 2] = m[i]
    BY <1>4, <2>1
  <2> HIDE DEF s, n, m
  <2>5. \A i \in 0..(n + 1) : i = 0 \/ i = n + 1 \/ i \in 1..n
    BY <1>4
  <2>6. 0 + 2 = 2 /\ n + 1 + 2 = n + 3
    BY <1>4
  <2>7. QED
    BY <1>4, <1>5, <2>2, <2>3, <2>4, <2>5, <2>6
<1> HIDE DEF s, n, m
<1>7. ASSUME NEW i \in 0..(n + 1)
      PROVE  Beside(At(m, i), 1) = s[i + 3] /\ Beside(At(m, i), -1) = s[i + 1]
  <2> DEFINE w == At(m, i)
             k == CHOOSE j \in 2..(Len(s) - 1) : s[j] = w
  <2>1. i + 2 \in 2..(Len(s) - 1) /\ i + 2 \in DOMAIN s /\ s[i + 2] = w
    BY <1>4, <1>6
  <2>2. k \in 2..(Len(s) - 1) /\ s[k] = w
    BY <2>1
  <2> HIDE DEF k
  <2>3. k = i + 2
    <3>1. k - 2 \in 0..(n + 1) /\ (k - 2) + 2 = k
      BY <1>4, <1>6, <2>2
    <3>2. At(m, k - 2) = At(m, i)
      BY <1>6, <2>2, <3>1
    <3>3. k - 2 = i
      BY <1>4, <3>1, <3>2
    <3>4. QED
      BY <3>1, <3>3
  <2>4. w \in Range(s)
    BY <2>1 DEF Range
  <2>5. Beside(w, 1) = s[k + 1] /\ Beside(w, -1) = s[k + (-1)]
    BY <2>4 DEF k
  <2>6. k + 1 = i + 3 /\ k + (-1) = i + 1
    BY <1>4, <2>3
  <2>7. QED
    BY <2>5, <2>6
<1>8. \A w \in Images : ~On(m, w) => w \notin Range(s)
  <2> SUFFICES ASSUME NEW w \in Images, NEW j \in 1..(n + 4), s[j] = w PROVE On(m, w)
    BY <1>6 DEF Range
  <2>1. j = 1 \/ j = n + 4 \/ j - 2 \in 0..(n + 1)
    BY <1>4
  <2>2. w # Null /\ w # "desk" /\ w # "mouse"
    BY FiniteNodes DEF Nodes
  <2>3. j - 2 \in 0..(n + 1) /\ At(m, j - 2) = w
    <3>1. j - 2 \in 0..(n + 1)
      BY <1>6, <2>1, <2>2
    <3>2. (j - 2) + 2 = j
      BY <1>4
    <3>3. QED
      BY <1>6, <3>1, <3>2
  <2>4. j - 2 \in 1..n
    BY <1>4, <1>5, <2>2, <2>3
  <2>5. QED
    BY <1>4, <2>3, <2>4 DEF On, n
<1>9. \A w \in Images : ~On(m, w) => Beside(w, 1) = Null /\ Beside(w, -1) = Null
  BY <1>8
<1>10. \A w \in Nodes : f[w] = Beside(w, 1) /\ g[w] = Beside(w, -1)
  OBVIOUS
<1> HIDE DEF Beside
<1>11. \A i \in 0..n : f[At(m, i)] = At(m, i + 1) /\ g[At(m, i + 1)] = At(m, i)
  <2> SUFFICES ASSUME NEW i \in 0..n PROVE f[At(m, i)] = At(m, i + 1) /\ g[At(m, i + 1)] = At(m, i)
    OBVIOUS
  <2>1. i \in 0..(n + 1) /\ i + 1 \in 0..(n + 1) /\ (i + 1) + 2 = i + 3 /\ (i + 1) + 1 = i + 2
    BY <1>4
  <2>2. f[At(m, i)] = s[i + 3] /\ g[At(m, i + 1)] = s[(i + 1) + 1]
    BY <1>4, <1>7, <1>10, <2>1
  <2>3. QED
    BY <1>6, <2>1, <2>2
<1>12. f["mouse"] = Null /\ g["desk"] = Null
  <2>1. 0 \in 0..(n + 1) /\ n + 1 \in 0..(n + 1) /\ (n + 1) + 3 = n + 4 /\ 0 + 1 = 1
    BY <1>4
  <2>2. f["mouse"] = s[(n + 1) + 3] /\ g["desk"] = s[0 + 1]
    BY <1>4, <1>5, <1>7, <1>10, <2>1
  <2>3. QED
    BY <1>6, <2>1, <2>2
<1>13. \A w \in Nodes : Beside(w, 1) \in Nodes \cup {Null} /\ Beside(w, -1) \in Nodes \cup {Null}
  <2> SUFFICES ASSUME NEW w \in Nodes
               PROVE  Beside(w, 1) \in Nodes \cup {Null} /\ Beside(w, -1) \in Nodes \cup {Null}
    OBVIOUS
  <2>1. \A j \in 1..(n + 4) : s[j] \in Nodes \cup {Null}
    <3>1. \A j \in 1..(n + 4) : j = 1 \/ j = n + 4 \/ (j - 2 \in 0..(n + 1) /\ (j - 2) + 2 = j)
      BY <1>4
    <3>2. \A i \in 0..(n + 1) : s[i + 2] \in Nodes
      BY <1>4, <1>6
    <3>3. QED
      BY <1>6, <3>1, <3>2
  <2>2. CASE w \in Images /\ ~On(m, w)
    BY <1>9, <2>2
  <2>3. CASE \E i \in 0..(n + 1) : w = At(m, i)
    <3>1. PICK i \in 0..(n + 1) : w = At(m, i)
      BY <2>3
    <3>2. i + 3 \in 1..(n + 4) /\ i + 1 \in 1..(n + 4)
      BY <1>4
    <3>3. QED
      BY <1>7, <2>1, <3>1, <3>2
  <2>4. w \in Images /\ On(m, w) => \E i \in 0..(n + 1) : w = At(m, i)
    BY <1>4 DEF On, n
  <2>5. w \notin Images => \E i \in 0..(n + 1) : w = At(m, i)
    BY <1>4, <1>5 DEF Nodes
  <2>6. QED
    BY <2>2, <2>3, <2>4, <2>5
<1>14. f \in Pointers /\ g \in Pointers
  BY <1>13 DEF Pointers
<1>15. list \in [next : Pointers, prev : Pointers] /\ list.next = f /\ list.prev = g
  BY <1>1, <1>14
<1> HIDE DEF f, g
<1>16. \A w \in Images : ~On(m, w) => f[w] = Null /\ g[w] = Null
  BY <1>9, <1>10 DEF Nodes
<1>17. Chain(list, m, Null)
  BY <1>2, <1>11, <1>12, <1>15, <1>16 DEF Chain, n
<1>18. QED
  BY <1>1, <1>2, <1>3, <1>17, OnIs DEF ListInv, Family, m

\* Every step of the mouse handler leads from a chain to a chain, and from a
\* stack to the next.
LEMMA NextLeads ==
  ASSUME Exposed = {}, NEW m, Chain(list, m, Null), Family(m),
         clk \in BOOLEAN, drag \in BOOLEAN, [Next]_vars
  PROVE  Leads(list', m) /\ clk' \in BOOLEAN /\ drag' \in BOOLEAN
<1>1. m \in Seq(Images)
  BY DEF Chain
<1>2. Leads(list, m)
  BY <1>1 DEF Leads, Steps
<1>3. ASSUME NEW w \in Images \cup {"desk"}, Hold(w)
      PROVE  Leads(list', m) /\ clk' \in BOOLEAN /\ drag' \in BOOLEAN
  <2>1. clk' \in BOOLEAN /\ drag' \in BOOLEAN
    BY <1>3 DEF Hold
  <2>2. CASE w # "desk" /\ list' = BringToFront(w)
    <3>1. w \in Images /\ w \in Range(Behind)
      BY <1>3, <2>2 DEF Hold, Hit
    <3>2. On(m, w)
      BY <3>1, OnIs
    <3>3. QED
      BY <2>1, <2>2, <3>1, <3>2, RaiseLeads
  <2>3. CASE UNCHANGED list
    BY <1>2, <2>1, <2>3
  <2>4. QED
    BY <1>3, <2>2, <2>3 DEF Hold
<1>4. ASSUME NEW w \in Images \cup {"desk"}, Click(w)
      PROVE  Leads(list', m) /\ clk' \in BOOLEAN /\ drag' \in BOOLEAN
  <2>1. clk' \in BOOLEAN /\ drag' \in BOOLEAN
    BY <1>4 DEF Click
  <2>2. CASE list' = AddImg
    BY <2>1, <2>2, AddLeads
  <2>3. CASE w = "file" /\ list' = Start("gif")
    <3>1. list.prev["gif"] = Null
      BY <1>4, <2>3 DEF Click
    <3>2. QED
      BY <2>1, <2>3, <3>1, ImagesAre, LinkLeads DEF Start
  <2>4. CASE w = "paint" /\ list' = Start("easel")
    <3>1. list.prev["easel"] = Null
      BY <1>4, <2>4 DEF Click
    <3>2. QED
      BY <2>1, <2>4, <3>1, ImagesAre, LinkLeads DEF Start
  <2>5. CASE w \in {"img1", "img2", "gif", "easel"} /\ list' = CloseWindow(w)
    <3>1. w \in Images /\ w # "file" /\ w \in Range(Behind)
      BY <1>4, <2>5, ImagesAre DEF Click, Hit
    <3>2. On(m, w)
      BY <3>1, OnIs
    <3>3. QED
      BY <2>1, <2>5, <3>1, <3>2, CloseLeads
  <2>6. CASE UNCHANGED list
    BY <1>2, <2>1, <2>6
  <2>7. QED
    BY <1>4, <2>2, <2>3, <2>4, <2>5, <2>6 DEF Click
<1>5. CASE Drop
  BY <1>2, <1>5 DEF Drop
<1>6. CASE UNCHANGED vars
  BY <1>2, <1>6 DEF vars
<1>7. QED
  BY <1>3, <1>4, <1>5, <1>6 DEF Next

\* So the list stays one, and what it does is a step of the stack.
LEMMA NextList ==
  ASSUME Exposed = {}, ListInv, [Next]_vars
  PROVE  ListInv' /\ [Z!Next]_(Between(Drawn))
<1>1. PICK m \in Seq(Images) : Chain(list, m, Null) /\ Family(m)
  BY DEF ListInv
<1>2. Leads(list', m) /\ clk' \in BOOLEAN /\ drag' \in BOOLEAN
  BY <1>1, NextLeads DEF ListInv
<1>3. PICK n \in Seq(Images) : Chain(list', n, Null) /\ Family(n) /\ Steps(m, n)
  BY <1>2 DEF Leads
<1>4. ListInv'
  BY <1>2, <1>3 DEF ListInv
<1>5. Between(Drawn) = m /\ Between(Drawn)' = n
  <2>1. Between(Drawn) = m
    BY <1>1, OnIs
  <2>2. Between(Drawn)' = Between(Walk(list'.next, "desk"))
    BY DEF Drawn
  <2>3. Between(Walk(list'.next, "desk")) = n
    BY <1>3, ReadsAs
  <2>4. QED
    BY <2>1, <2>2, <2>3
<1>6. n = m \/ Z!Next
  BY <1>3, <1>5, Zenon DEF Steps, Z!Next, Sets
<1>7. QED
  BY <1>4, <1>5, <1>6

\* The list is always one chain, in both directions.
LEMMA ListInvariance == ASSUME Exposed = {} PROVE Spec => []ListInv
<1>1. ListInv /\ [Next]_vars => ListInv'
  BY NextList
<1>2. QED
  BY <1>1, InitList, PTL DEF Spec

\* Unless a viewer or the easel is opened twice, what is drawn on top is what
\* a click finds first: the list read along next is the list read back along
\* prev (draw_mouse's two loops, mouse.c).
THEOREM LinkedCorrect == ASSUME Exposed = {} PROVE Spec => []Linked
<1>1. ListInv => Linked
  BY OnIs DEF ListInv
<1>2. QED
  BY <1>1, ListInvariance, PTL

\* And the list is a stack of windows: clicks and drags raise, open and close
\* them, and the icon of the file comes and goes with its window (modex.c:
\* bring_to_front, close_window, add_img, start_gif, start_paint).
THEOREM StacksCorrect == ASSUME Exposed = {} PROVE Spec => Stacks
<1>1. ListInv /\ [Next]_vars => [Z!Next]_(Between(Drawn))
  BY NextList
<1>2. Init => Z!Init
  BY InitList DEF Z!Init
<1>3. QED
  BY <1>1, <1>2, ListInvariance, PTL DEF Spec, Stacks, Z!Spec

(***************************************************************************)
(* The mouse's packets and the handler's.                                  *)
(***************************************************************************)
Names == {"none", "ack", "status", "dx", "dy"}

\* How far the mouse is into its packet, and the handler into its own, which
\* is one byte ahead.
FrameInv ==
  /\ byte \in [0..2 -> Names \X Int]
  /\ \/ cycle = 0 /\ sent = "dy"
     \/ cycle = 1 /\ sent = "status" /\ byte[0][1] \in {"ack", "dy"}
     \/ cycle = 2 /\ sent = "dx" /\ byte[0][1] \in {"ack", "dy"} /\ byte[1][1] = "status"

\* The driver starts with its acknowledgement read and the mouse idle.
LEMMA InitFrame == DInit => FrameInv
<1> SUFFICES ASSUME DInit PROVE FrameInv
  OBVIOUS
<1>1. Used \in [0..2 -> Names \X Int]
  BY DEF Used, Names
<1>2. byte \in [0..2 -> Names \X Int] /\ byte[0] = <<"ack", -6>>
  BY <1>1 DEF DInit, Names
<1>3. QED
  BY <1>2 DEF DInit, FrameInv

\* A byte moves the mouse and the handler on together.
LEMMA NextFrame == FrameInv /\ [DNext]_<<vars, mouseVars>> => FrameInv'
<1> SUFFICES ASSUME FrameInv, [DNext]_<<vars, mouseVars>> PROVE FrameInv'
  OBVIOUS
<1>1. ASSUME NEW v \in Values(sent), Byte(v) PROVE FrameInv'
  <2>1. v \in Int
    BY DeltaAssumption DEF Values
  <2>2. /\ byte' = (IF cycle = 2 THEN Used ELSE [byte EXCEPT ![cycle] = <<sent, v>>])
        /\ cycle' = (cycle + 1) % 3 /\ sent' = Next3[sent]
    BY <1>1 DEF Byte
  <2>3. Used \in [0..2 -> Names \X Int]
    BY DEF Used, Names
  <2>4. <<sent, v>> \in Names \X Int
    BY <2>1 DEF FrameInv, Names
  <2>5. CASE cycle = 0 /\ sent = "dy"
    BY <2>2, <2>4, <2>5 DEF FrameInv, Next3
  <2>6. CASE cycle = 1 /\ sent = "status" /\ byte[0][1] \in {"ack", "dy"}
    BY <2>2, <2>4, <2>6 DEF FrameInv, Next3
  <2>7. CASE cycle = 2 /\ sent = "dx"
    BY <2>2, <2>3, <2>7 DEF FrameInv, Next3
  <2>8. QED
    BY <2>5, <2>6, <2>7 DEF FrameInv
<1>2. CASE UNCHANGED <<sent, cycle, byte>>
  BY <1>2 DEF FrameInv
<1>3. QED
  BY <1>1, <1>2 DEF DNext, Clock, Mode, mouseVars

\* The handler is always one byte ahead of the mouse's packet.
LEMMA FrameInvariance == DSpec => []FrameInv
BY InitFrame, NextFrame, PTL DEF DSpec

\* mouse_handler draws from a frame whose bytes are an acknowledgement or the
\* last packet's dy, then status and dx, whatever the mouse sends
\* (mouse.c:48, mouse_handler).
THEOREM FramedCorrect == DSpec => []Framed
<1>1. FrameInv => Framed
  BY DEF FrameInv, Framed
<1>2. QED
  BY <1>1, FrameInvariance, PTL

-----------------------------------------------------------------------------
\* Every window has a place, and the icon lies in the window it belongs to.
PlaceInv == at \in [Images -> Int \X Int] /\ IconInside

\* The first layout puts the icon in its window.
LEMMA InitPlace == DInit => PlaceInv
<1> SUFFICES ASSUME DInit PROVE PlaceInv
  OBVIOUS
<1>1. at \in [Images -> Int \X Int]
  BY SizesAssumption DEF DInit
<1>2. IconInside
  BY FileAssumption DEF DInit, IconInside
<1>3. QED
  BY <1>1, <1>2 DEF PlaceInv

\* A drag moves the icon with its window, or inside its frame.
LEMMA MoveWindowInside ==
  ASSUME PlaceInv, NEW w, NEW dx \in Int, NEW dy \in Int,
         w = "img1" => (dx # 0 => FreeX) /\ (dy # 0 => FreeY),
         at' = MoveWindow(w, dx, dy)
  PROVE  PlaceInv'
<1> DEFINE x == IF FreeX THEN dx ELSE 0
           y == IF FreeY THEN dy ELSE 0
           f == at["file"]
           a == at["img1"]
           s == Size["file"]
           t == Size["img1"]
<1>1. "file" \in Images /\ "img1" \in Images
  BY DEF Images, Opens
<1>2. /\ x \in Int /\ y \in Int
      /\ f[1] \in Int /\ f[2] \in Int /\ a[1] \in Int /\ a[2] \in Int
      /\ s[1] \in Nat /\ s[2] \in Nat /\ t[1] \in Nat /\ t[2] \in Nat
      /\ Margin \in Nat /\ Title \in Nat
      /\ at \in [Images -> Int \X Int]
  BY <1>1, SizesAssumption, FrameAssumption DEF PlaceInv
<1>3. /\ f[1] > a[1] + Margin /\ f[1] + s[1] < a[1] + t[1] - Margin
      /\ f[2] > a[2] + Title /\ f[2] + s[2] < a[2] + t[2] - Margin
  BY DEF PlaceInv, IconInside
<1>4. SUFFICES /\ at' \in [Images -> Int \X Int]
               /\ at'["file"][1] > at'["img1"][1] + Margin
               /\ at'["file"][1] + s[1] < at'["img1"][1] + t[1] - Margin
               /\ at'["file"][2] > at'["img1"][2] + Title
               /\ at'["file"][2] + s[2] < at'["img1"][2] + t[2] - Margin
  BY DEF PlaceInv, IconInside
<1>5. CASE w = "img1"
  <2>1. at' = [at EXCEPT !["img1"] = <<a[1] + x, a[2] - y>>,
                         !["file"] = <<f[1] + dx, f[2] - dy>>]
    BY <1>1, <1>5, Zenon DEF MoveWindow
  <2>2. x = dx /\ y = dy
    BY <1>5
  <2> HIDE DEF x, y, f, a, s, t
  <2>3. QED
    BY <1>1, <1>2, <1>3, <2>1, <2>2
<1>6. CASE w = "file"
  <2> DEFINE fitsX == f[1] + dx > a[1] + Margin /\ f[1] + s[1] + dx < a[1] + t[1] - Margin
             fitsY == f[2] - dy > a[2] + Title /\ f[2] + s[2] - dy < a[2] + t[2] - Margin
             p == << IF FreeX /\ fitsX THEN f[1] + dx ELSE f[1],
                     IF my > 0 /\ fitsY THEN f[2] - dy ELSE f[2] >>
  <2>1. at' = [at EXCEPT !["file"] = p]
    BY <1>1, <1>2, <1>6 DEF MoveWindow
  <2>4. /\ p \in Int \X Int
        /\ p[1] = f[1] \/ (p[1] = f[1] + dx /\ fitsX)
        /\ p[2] = f[2] \/ (p[2] = f[2] - dy /\ fitsY)
    BY <1>2
  <2> HIDE DEF p
  <2>2. at' \in [Images -> Int \X Int] /\ at'["file"] = p /\ at'["img1"] = at["img1"]
    BY <1>1, <1>2, <2>1, <2>4
  <2>3. QED
    BY <1>2, <1>3, <2>2, <2>4 DEF a
<1>7. CASE w # "img1" /\ w # "file"
  <2>1. at' = [at EXCEPT ![w] = <<at[w][1] + x, at[w][2] - y>>]
    BY <1>7, Zenon DEF MoveWindow
  <2>2. w \in Images => <<at[w][1] + x, at[w][2] - y>> \in Int \X Int
    BY <1>2
  <2>3. /\ at' \in [Images -> Int \X Int]
        /\ at'["file"] = f /\ at'["img1"] = a
    <3> DEFINE q == <<at[w][1] + x, at[w][2] - y>>
    <3> HIDE DEF q, x, y
    <3>1. QED
      BY <1>1, <1>2, <1>7, <2>1, <2>2 DEF q
  <2>4. QED
    BY <1>3, <2>3
<1>8. QED
  BY <1>5, <1>6, <1>7

\* A byte of the mouse leaves the icon in its window.
LEMMA NextPlace ==
  ASSUME ~EdgeDrags, FrameInv, PlaceInv, [DNext]_<<vars, mouseVars>>
  PROVE  PlaceInv'
<1>1. ASSUME NEW v \in Values(sent), Byte(v), at' # at PROVE PlaceInv'
  <2> DEFINE new == [byte EXCEPT ![cycle] = <<sent, v>>]
             dx  == Cut(new[2][2])
             dy  == Cut(new[0][2])
             w   == Under
  <2>1. DrawMouse(new[1][2] % 2 = 1, dx, dy)
    BY <1>1 DEF Byte
  <2>2. dx \in Int /\ dy \in Int
    <3>1. v \in Int
      BY DeltaAssumption DEF Values
    <3>2. new[2][2] \in Int /\ new[0][2] \in Int
      BY <3>1 DEF FrameInv, Names
    <3>3. QED
      BY <3>2, DeltaAssumption DEF Cut
  <2> HIDE DEF new, dx, dy
  <2>3. Holds(dx, dy)
    BY <1>1, <2>1 DEF DrawMouse, Drops, Clicks, Idles
  <2>4. /\ at' = MoveWindow(w, dx, dy)
        /\ w = "img1" => (dx # 0 => FreeX) /\ (dy # 0 => FreeY)
    BY <1>1, <2>3 DEF Holds
  <2> HIDE DEF w
  <2>5. QED
    BY <2>2, <2>4, MoveWindowInside
<1>2. CASE UNCHANGED at
  BY <1>2 DEF PlaceInv, IconInside
<1>3. QED
  BY <1>1, <1>2 DEF DNext, Clock, Mode, mouseVars

\* While no drag is clamped on one axis at the edge of the screen, the icon of
\* the file never leaves the frame of its window, whichever of the two is
\* dragged, how far and how often (modex.c:459, move_window).
THEOREM IconInsideCorrect == ASSUME ~EdgeDrags PROVE DSpec => []IconInside
<1>1. FrameInv /\ PlaceInv /\ [DNext]_<<vars, mouseVars>> => PlaceInv'
  BY NextPlace
<1>2. PlaceInv => IconInside
  BY DEF PlaceInv
<1>3. QED
  BY <1>1, <1>2, InitPlace, FrameInvariance, PTL DEF DSpec

(***************************************************************************)
(* What packets do to the list.                                            *)
(***************************************************************************)
\* What the pointer finds is an image on the list, or the desk.
LEMMA UnderHit ==
  ASSUME ListInv
  PROVE  Under \in Hit
<1>1. PICK m \in Seq(Images) : Chain(list, m, Null) /\ Family(m)
  BY DEF ListInv
<1>2. "desk" \in Hit
  BY <1>1, OnIs DEF Hit
<1> DEFINE images == {w \in Images : Inside(w)}
           met == {i \in DOMAIN Behind : Behind[i] \in images}
<1>3. CASE met = {}
  BY <1>2, <1>3 DEF Under, Topmost
<1>4. CASE met # {}
  <2>1. met \in SUBSET Nat
    <3>1. Behind = Append(Reverse(Full(m)), Null)
      BY <1>1, Readings DEF Behind
    <3>2. Full(m) \in Seq(Nodes)
      <4>1. Len(m) + 2 \in Nat /\ \A i \in 1..(Len(m) + 2) : At(m, i - 1) \in Nodes
        <5>1. Len(m) \in Nat /\ \A i \in 0..(Len(m) + 1) : At(m, i) \in Nodes
          BY <1>1, AtInjective DEF Chain
        <5>2. QED
          BY <5>1
      <4>2. Full(m) \in [1..(Len(m) + 2) -> Nodes]
        BY <4>1 DEF Full
      <4>3. QED
        BY <4>1, <4>2
    <3> DEFINE r == Reverse(Full(m))
    <3>3. DOMAIN r = 1..Len(Full(m)) /\ r = [i \in 1..Len(Full(m)) |-> r[i]]
      BY DEF Reverse
    <3>4. \A i \in 1..Len(Full(m)) : r[i] \in Nodes
      BY <3>2 DEF Reverse
    <3> HIDE DEF r
    <3>5. r \in Seq(Nodes \cup {Null})
      BY <3>2, <3>3, <3>4
    <3>6. QED
      BY <3>1, <3>5 DEF r
  <2>2. Min(met) \in met
    BY <1>4, <2>1, MinIsLeast
  <2>3. Under = Behind[Min(met)]
    BY <1>4, Zenon DEF Under, Topmost
  <2> HIDE DEF met
  <2>4. Under \in images /\ Under \in Range(Behind)
    BY <2>2, <2>3 DEF met, Range
  <2>5. QED
    BY <2>4 DEF Hit
<1>5. QED
  BY <1>3, <1>4

\* A packet that presses the button raises what the pointer finds, or nothing.
LEMMA HoldsHold ==
  ASSUME ListInv, NEW dx, NEW dy, Holds(dx, dy)
  PROVE  Next
<1>1. Under \in Hit
  BY UnderHit
<1> DEFINE w == Under
<1> HIDE DEF w
<1>2. w \in Hit /\ w \in Images \cup {"desk"}
  BY <1>1 DEF w, Hit
<1>3. clk' = TRUE
  BY DEF Holds
<1>4. \/ w # "desk" /\ list' = BringToFront(w) /\ drag' \in {drag, TRUE}
      \/ w \in {"desk", "easel"} /\ UNCHANGED <<list, drag>>
  <2>1. CASE w # "desk" /\ ~(w = "easel" /\ InEasel)
    <3>1. list' = BringToFront(w) /\ drag' = (drag \/ dx # 0 \/ dy # 0)
      BY <2>1, Zenon DEF Holds, w
    <3>2. drag' \in {drag, TRUE}
      BY <3>1 DEF ListInv
    <3>3. QED
      BY <2>1, <3>1, <3>2
  <2>2. CASE w = "desk" \/ (w = "easel" /\ InEasel)
    <3>1. UNCHANGED <<list, drag>>
      BY <2>2, Zenon DEF Holds, w
    <3>2. QED
      BY <2>2, <3>1
  <2>3. QED
    BY <2>1, <2>2
<1>5. Hold(w)
  BY <1>2, <1>3, <1>4 DEF Hold
<1>6. QED
  BY <1>2, <1>5 DEF Next

\* One that releases it without a drag is a click on it.
LEMMA ClicksClick ==
  ASSUME ListInv, clk, ~drag, Clicks
  PROVE  Next
<1>1. Under \in Hit
  BY UnderHit
<1> DEFINE w == Under
<1>2. /\ w = "file" /\ list.prev["gif"] # Null    => "reopen" \in Exposed
      /\ w = "paint" /\ list.prev["easel"] # Null => "reopen" \in Exposed
      /\ list' = CASE w = "folder" -> AddImg
                   [] w = "file"   -> Start("gif")
                   [] w = "paint"  -> Start("easel")
                   [] w \in {"img1", "img2", "gif", "easel"} /\ InClose(w) -> CloseWindow(w)
                   [] OTHER -> list
      /\ clk' = FALSE /\ UNCHANGED drag
  BY DEF Clicks
<1> HIDE DEF w
<1>3. w \in Hit /\ w \in Images \cup {"desk"}
  BY <1>1 DEF w, Hit
<1>4. \/ w = "folder" /\ list' = AddImg
      \/ w = "file"   /\ list' = Start("gif")
      \/ w = "paint"  /\ list' = Start("easel")
      \/ w \in {"img1", "img2", "gif", "easel"} /\ list' \in {list, CloseWindow(w)}
      \/ w \in {"desk", "term", "pacman"} /\ UNCHANGED list
  <2>1. CASE w = "folder"
    BY <1>2, <2>1
  <2>2. CASE w = "file"
    BY <1>2, <2>2
  <2>3. CASE w = "paint"
    BY <1>2, <2>3
  <2>4. CASE w \in {"img1", "img2", "gif", "easel"}
    <3>1. CASE InClose(w)
      BY <1>2, <2>4, <3>1
    <3>2. CASE ~InClose(w)
      BY <1>2, <2>4, <3>2
    <3>3. QED
      BY <3>1, <3>2
  <2>5. CASE w \in {"desk", "term", "pacman"}
    BY <1>2, <2>5
  <2>6. QED
    BY <1>3, <2>1, <2>2, <2>3, <2>4, <2>5, ImagesAre
<1>5. Click(w)
  BY <1>2, <1>3, <1>4 DEF Click
<1>6. QED
  BY <1>3, <1>5 DEF Next

\* Every interrupt does to the list what clicks and drags may do, or nothing.
LEMMA NextClicks ==
  ASSUME ListInv, [DNext]_<<vars, mouseVars>>
  PROVE  [Next]_vars
<1>1. ASSUME NEW v \in Values(sent), Byte(v) PROVE [Next]_vars
  <2> DEFINE new == [byte EXCEPT ![cycle] = <<sent, v>>]
             dx  == Cut(new[2][2])
             dy  == Cut(new[0][2])
             button == new[1][2] % 2 = 1
  <2>1. CASE mode = "desk" /\ cycle = 2
    <3>1. DrawMouse(button, dx, dy)
      BY <1>1, <2>1 DEF Byte
    <3> HIDE DEF dx, dy, new
    <3>2. CASE button
      <4>1. Holds(dx, dy)
        BY <3>1, <3>2, Zenon DEF DrawMouse
      <4>2. QED
        BY <4>1, HoldsHold
    <3>3. CASE ~button /\ clk /\ drag
      <4>1. Drops
        BY <3>1, <3>3 DEF DrawMouse
      <4>2. Drop
        BY <3>3, <4>1 DEF Drops, Drop
      <4>3. QED
        BY <4>2 DEF Next
    <3>4. CASE ~button /\ clk /\ ~drag
      <4>1. Clicks
        BY <3>1, <3>4 DEF DrawMouse
      <4>2. QED
        BY <3>4, <4>1, ClicksClick
    <3>5. CASE ~button /\ ~clk
      <4>1. Idles
        BY <3>1, <3>5 DEF DrawMouse
      <4>2. UNCHANGED vars
        BY <3>5, <4>1 DEF Idles, vars, ListInv
      <4>3. QED
        BY <4>2
    <3>6. QED
      BY <3>2, <3>3, <3>4, <3>5
  <2>2. CASE ~(mode = "desk" /\ cycle = 2)
    <3>1. UNCHANGED <<list, clk, drag>>
      BY <1>1, <2>2 DEF Byte
    <3>2. QED
      BY <3>1 DEF vars
  <2>3. QED
    BY <2>1, <2>2
<1>2. CASE UNCHANGED <<list, clk, drag>>
  BY <1>2 DEF vars
<1>3. QED
  BY <1>1, <1>2 DEF DNext, Clock, Mode, mouseVars, vars

\* Under the mouse's packets too.
LEMMA DesktopList == ASSUME Exposed = {} PROVE DSpec => []ListInv
<1>1. ListInv /\ [DNext]_<<vars, mouseVars>> => ListInv'
  BY NextClicks, NextList
<1>2. DInit => ListInv
  BY InitList DEF DInit
<1>3. QED
  BY <1>1, <1>2, PTL DEF DSpec

\* mouse_handler and draw_mouse do to the list of windows what module Windows
\* says clicks and drags may do: every packet, with its hit test, is one of its
\* steps or none (mouse.c:draw_mouse).
THEOREM ClickedCorrect == ASSUME Exposed = {} PROVE DSpec => Clicked
<1>1. ListInv /\ [DNext]_<<vars, mouseVars>> => [Next]_vars
  BY NextClicks
<1>2. DInit => Init
  BY DEF DInit
<1>3. QED
  BY <1>1, <1>2, DesktopList, PTL DEF DSpec, Spec, Clicked

(***************************************************************************)
(* What is drawn.                                                          *)
(***************************************************************************)
\* Every image has a place.
Placed == at \in [Images -> Int \X Int]

\* A move leaves an image somewhere, whatever the pointer's place.
LEMMA MovePlaced ==
  ASSUME Placed, NEW w, NEW dx \in Int, NEW dy \in Int, at' = MoveWindow(w, dx, dy)
  PROVE  Placed'
<1> DEFINE x == IF FreeX THEN dx ELSE 0
           y == IF FreeY THEN dy ELSE 0
           f == at["file"]
           a == at["img1"]
<1>1. "file" \in Images /\ "img1" \in Images
  BY DEF Images, Opens
<1>2. /\ x \in Int /\ y \in Int
      /\ f[1] \in Int /\ f[2] \in Int /\ a[1] \in Int /\ a[2] \in Int
      /\ at \in [Images -> Int \X Int]
  BY <1>1 DEF Placed
<1>3. SUFFICES at' \in [Images -> Int \X Int]
  BY DEF Placed
<1>4. CASE w = "img1"
  <2>1. at' = [at EXCEPT !["img1"] = <<a[1] + x, a[2] - y>>,
                         !["file"] = <<f[1] + dx, f[2] - dy>>]
    BY <1>1, <1>4, Zenon DEF MoveWindow
  <2> HIDE DEF x, y, f, a
  <2>2. QED
    BY <1>1, <1>2, <2>1
<1>5. CASE w = "file"
  <2>1. \E p \in Int \X Int : at' = [at EXCEPT !["file"] = p]
    <3> DEFINE s == Size["file"]
               t == Size["img1"]
               fitsX == f[1] + dx > a[1] + Margin /\ f[1] + s[1] + dx < a[1] + t[1] - Margin
               fitsY == f[2] - dy > a[2] + Title /\ f[2] + s[2] - dy < a[2] + t[2] - Margin
               p == << IF FreeX /\ fitsX THEN f[1] + dx ELSE f[1],
                       IF my > 0 /\ fitsY THEN f[2] - dy ELSE f[2] >>
    <3>1. at' = [at EXCEPT !["file"] = p]
      BY <1>1, <1>2, <1>5 DEF MoveWindow
    <3> HIDE DEF fitsX, fitsY
    <3>2. p \in Int \X Int
      BY <1>2
    <3>3. QED
      BY <3>1, <3>2
  <2>2. QED
    BY <1>2, <2>1
<1>6. CASE w # "img1" /\ w # "file"
  <2> DEFINE q == <<at[w][1] + x, at[w][2] - y>>
  <2>1. at' = [at EXCEPT ![w] = q]
    BY <1>6, Zenon DEF MoveWindow
  <2>2. w \in Images => q \in Int \X Int
    BY <1>2
  <2> HIDE DEF q
  <2>3. QED
    BY <1>2, <2>1, <2>2
<1>7. QED
  BY <1>4, <1>5, <1>6

\* And so does every interrupt.
LEMMA NextPlaced ==
  ASSUME FrameInv, Placed, [DNext]_<<vars, mouseVars>>
  PROVE  Placed'
<1>1. ASSUME NEW v \in Values(sent), Byte(v), at' # at PROVE Placed'
  <2> DEFINE new == [byte EXCEPT ![cycle] = <<sent, v>>]
             dx  == Cut(new[2][2])
             dy  == Cut(new[0][2])
             w   == Under
  <2>1. DrawMouse(new[1][2] % 2 = 1, dx, dy)
    BY <1>1 DEF Byte
  <2>2. dx \in Int /\ dy \in Int
    <3>1. v \in Int
      BY DeltaAssumption DEF Values
    <3>2. new[2][2] \in Int /\ new[0][2] \in Int
      BY <3>1 DEF FrameInv, Names
    <3>3. QED
      BY <3>2, DeltaAssumption DEF Cut
  <2> HIDE DEF new, dx, dy
  <2>3. Holds(dx, dy)
    BY <1>1, <2>1 DEF DrawMouse, Drops, Clicks, Idles
  <2>4. at' = MoveWindow(w, dx, dy)
    BY <1>1, <2>3 DEF Holds
  <2> HIDE DEF w
  <2>5. QED
    BY <2>2, <2>4, MovePlaced
<1>2. CASE UNCHANGED at
  BY <1>2 DEF Placed
<1>3. QED
  BY <1>1, <1>2 DEF DNext, Clock, Mode, mouseVars

-----------------------------------------------------------------------------
\* The nearest of some images in a walk from the pointer, and the last drawn of
\* them in a walk from the desk.
Nearest(behind, images) ==
  LET met == {i \in DOMAIN behind : behind[i] \in images}
  IN IF met = {} THEN "desk" ELSE behind[Min(met)]
LastOf(drawn, images, other) ==
  LET on == {i \in DOMAIN drawn : drawn[i] \in images}
  IN IF on # {} THEN drawn[Max(on)] ELSE other

\* They are the same.
LEMMA LastIsNearest ==
  ASSUME NEW l, NEW m, Chain(l, m, Null), NEW images \in SUBSET Images, NEW other,
         other = "desk" \/ other = Nearest(Walk(l.prev, "mouse"), images)
  PROVE  /\ LastOf(Walk(l.next, "desk"), images, other) = Nearest(Walk(l.prev, "mouse"), images)
         /\ Nearest(Walk(l.prev, "mouse"), images) \in Images \cup {"desk"}
<1> DEFINE s == Full(m)
           N == Len(s)
           r == Reverse(s)
           d == Append(s, Null)
           b == Append(r, Null)
           on == {i \in DOMAIN d : d[i] \in images}
           met == {i \in DOMAIN b : b[i] \in images}
<1>1. Walk(l.next, "desk") = d /\ Walk(l.prev, "mouse") = b
  BY Readings
<1>2. s \in Seq(Nodes) /\ N \in Nat
  <2>1. Len(m) \in Nat /\ \A i \in 0..(Len(m) + 1) : At(m, i) \in Nodes
    BY AtInjective DEF Chain
  <2>2. s \in [1..(Len(m) + 2) -> Nodes]
    BY <2>1 DEF Full
  <2> HIDE DEF s
  <2>3. s \in Seq(Nodes)
    BY <2>1, <2>2
  <2>4. QED
    BY <2>3
<1> HIDE DEF s
<1>3. r \in Seq(Nodes) /\ Len(r) = N /\ \A i \in 1..N : r[i] = s[N + 1 - i]
  <2>1. r = [i \in 1..N |-> s[(N - i) + 1]]
    BY DEF Reverse
  <2>2. \A i \in 1..N : s[(N - i) + 1] \in Nodes /\ (N - i) + 1 = N + 1 - i
    BY <1>2
  <2> HIDE DEF r
  <2>3. r \in [1..N -> Nodes] /\ \A i \in 1..N : r[i] = s[N + 1 - i]
    BY <2>1, <2>2
  <2> HIDE DEF N
  <2>4. QED
    BY <1>2, <2>3
<1>4. Null \notin images
  BY FiniteNodes DEF Nodes
<1>5. /\ DOMAIN d = 1..(N + 1) /\ d[N + 1] = Null
      /\ \A i \in 1..N : d[i] = s[i]
  BY <1>2
<1>6. /\ DOMAIN b = 1..(N + 1) /\ b[N + 1] = Null
      /\ \A i \in 1..N : b[i] = s[N + 1 - i]
  <2> HIDE DEF r, N
  <2>1. DOMAIN b = 1..(N + 1) /\ b[N + 1] = Null /\ \A i \in 1..N : b[i] = r[i]
    BY <1>2, <1>3
  <2>2. QED
    BY <1>3, <2>1
<1> HIDE DEF N, d, b
<1>7. on = {i \in 1..N : s[i] \in images} /\ met = {i \in 1..N : s[N + 1 - i] \in images}
  <2>1. \A i : i \in 1..(N + 1) <=> i \in 1..N \/ i = N + 1
    BY <1>2
  <2>2. QED
    BY <1>4, <1>5, <1>6, <2>1
<1> HIDE DEF on, met
<1>8. CASE met = {}
  <2>1. on = {}
    <3> SUFFICES ASSUME NEW i \in on PROVE FALSE
      OBVIOUS
    <3>1. N + 1 - i \in 1..N /\ N + 1 - (N + 1 - i) = i
      BY <1>2, <1>7
    <3>2. N + 1 - i \in met
      BY <1>7, <3>1
    <3>3. QED
      BY <1>8, <3>2
  <2>2. Nearest(b, images) = "desk" /\ LastOf(d, images, other) = other
    BY <1>8, <2>1, Zenon DEF Nearest, LastOf, on, met
  <2>3. QED
    BY <1>1, <2>2
<1>9. CASE met # {}
  <2> DEFINE k == Min(met)
             j == N + 1 - k
  <2>1. k \in met /\ \A i \in met : k <= i
    <3>1. met \in SUBSET Nat
      BY <1>7
    <3>2. QED
      BY <1>9, <3>1, MinIsLeast
  <2> HIDE DEF k
  <2>2. k \in 1..N /\ j \in 1..N /\ s[j] \in images
    BY <1>2, <1>7, <2>1
  <2>3. j \in on
    BY <1>7, <2>2
  <2>4. ASSUME NEW i \in on PROVE j >= i
    <3>1. i \in 1..N /\ N + 1 - i \in 1..N /\ N + 1 - (N + 1 - i) = i
      BY <1>2, <1>7
    <3>2. N + 1 - i \in met
      BY <1>7, <3>1
    <3>3. k <= N + 1 - i
      BY <2>1, <3>2
    <3>4. QED
      BY <1>2, <2>2, <3>1, <3>3
  <2>5. Max(on) = j
    <3>1. \A x \in on : (\A y \in on : x >= y) => x = j
      <4>1. \A x \in on : x \in Nat
        BY <1>7
      <4>2. QED
        BY <2>2, <2>3, <2>4, <4>1
    <3>2. QED
      BY <2>3, <2>4, <3>1, Zenon DEF Max
  <2>6. Nearest(b, images) = b[k] /\ LastOf(d, images, other) = d[j]
    BY <1>9, <2>3, <2>5, Zenon DEF Nearest, LastOf, on, met, k
  <2>7. b[k] = s[j] /\ d[j] = s[j]
    BY <1>5, <1>6, <2>2
  <2>8. QED
    BY <1>1, <2>2, <2>6, <2>7
<1>10. QED
  BY <1>8, <1>9

\* A pixel cut at the screen's edges is one of the image, on the screen.
LEMMA DrawsCovers ==
  ASSUME Placed', NEW w \in Images, NEW p \in Watched
  PROVE  Draws(w, p) <=> Covers(w, p)'
<1> DEFINE a == at'[w]
           z == Size[w]
<1>1. /\ a[1] \in Int /\ a[2] \in Int /\ z[1] \in Nat /\ z[2] \in Nat
      /\ p[1] \in 0..(W - 1) /\ p[2] \in 0..(H - 1) /\ W \in Nat /\ H \in Nat
  BY SizesAssumption, ScreenAssumption DEF Placed
<1>2. \A x, size, limit, v : x \in Int /\ size \in Nat /\ limit \in Nat /\ v \in 0..(limit - 1)
        => (v \in Clipped(x, size, limit) <=> v - x \in 0..(size - 1))
  BY DEF Clipped
<1>3. /\ p[1] \in Clipped(a[1], z[1], W) <=> p[1] - a[1] \in 0..(z[1] - 1)
      /\ p[2] \in Clipped(a[2], z[2], H) <=> p[2] - a[2] \in 0..(z[2] - 1)
  BY <1>1, <1>2
<1>4. QED
  BY <1>3 DEF Draws, Covers, Opaque

\* What was under the pointer is there again when it has been shown.
LEMMA PointerGone ==
  ASSUME NEW over \in Images \cup {"desk"}, NEW p
  PROVE  Restored(WithPointer(over, p), Kept(over, p)) = over
<1>1. over # "none"
  BY ImagesAre
<1>2. QED
  BY <1>1 DEF Restored, WithPointer, Kept

\* The picture, pixel by pixel.
LEMMA PictureIs ==
  /\ Picture = [p \in Watched |-> Nearest(Behind, {w \in Images : Covers(w, p)})]
  /\ Picture' = [p \in Watched |-> Nearest(Behind', {w \in Images : Covers(w, p)'})]
BY DEF Picture, Topmost, Nearest

\* A redraw of all images leaves the picture, whatever it began with that is
\* not seen in the end.
LEMMA RedrawPaints ==
  ASSUME ListInv', Placed', NEW c, Redraw(c, TRUE),
         \A p \in Watched : c[p] = "desk" \/ c[p] = Picture'[p]
  PROVE  build' = Picture'
<1> DEFINE Over(p) ==
      LET on == {i \in DOMAIN Drawn' : Drawn'[i] \in Images /\ Draws(Drawn'[i], p)}
      IN IF TRUE /\ on # {} THEN Drawn'[Max(on)] ELSE c[p]
<1>1. build' = [p \in Watched |-> Restored(WithPointer(Over(p), p), Kept(Over(p), p))]
  BY Zenon DEF Redraw
<1>2. PICK m \in Seq(Images) : Chain(list', m, Null)
  BY DEF ListInv
<1>3. Drawn' = Walk(list'.next, "desk") /\ Behind' = Walk(list'.prev, "mouse")
  BY DEF Drawn, Behind
<1>4. ASSUME NEW p \in Watched
      PROVE  Over(p) = Picture'[p] /\ Picture'[p] \in Images \cup {"desk"}
  <2> DEFINE S == {w \in Images : Covers(w, p)'}
  <2>1. Picture'[p] = Nearest(Behind', S)
    BY PictureIs
  <2>2. {i \in DOMAIN Drawn' : Drawn'[i] \in Images /\ Draws(Drawn'[i], p)}
          = {i \in DOMAIN Drawn' : Drawn'[i] \in S}
    BY DrawsCovers
  <2>3. Over(p) = LastOf(Drawn', S, c[p])
    BY <2>2, Zenon DEF LastOf
  <2>4. c[p] = "desk" \/ c[p] = Nearest(Behind', S)
    BY <2>1
  <2>5. S \in SUBSET Images
    OBVIOUS
  <2> HIDE DEF S, Over
  <2>6. /\ LastOf(Drawn', S, c[p]) = Nearest(Behind', S)
        /\ Nearest(Behind', S) \in Images \cup {"desk"}
    BY <1>2, <1>3, <2>4, <2>5, LastIsNearest
  <2>7. QED
    BY <2>1, <2>3, <2>6
<1> HIDE DEF Over
<1>5. \A p \in Watched : Restored(WithPointer(Over(p), p), Kept(Over(p), p)) = Picture'[p]
  BY <1>4, PointerGone
<1>6. Picture' = [p \in Watched |-> Picture'[p]]
  BY PictureIs
<1>7. QED
  BY <1>1, <1>5, <1>6, Zenon

\* On the desktop the buffer is the background or the picture.
LEMMA NextPainted ==
  ASSUME ListInv, ListInv', Placed', Painted, [DNext]_<<vars, mouseVars>>
  PROVE  Painted'
<1>1. SUFFICES ASSUME mode' = "desk" PROVE build' = Blank \/ build' = Picture'
  BY DEF Painted, Blank
<1>2. \A p \in Watched : Blank[p] = "desk"
  BY DEF Blank
<1>3. ASSUME UNCHANGED <<list, at>> PROVE Picture' = Picture
  BY <1>3 DEF Picture, Topmost, Behind, Covers, Opaque
<1>4. CASE Redraw(Blank, TRUE)
  BY <1>2, <1>4, RedrawPaints
<1>5. CASE mode = "desk" /\ UNCHANGED <<list, at>> /\ Redraw(build, TRUE)
  <2>1. \A p \in Watched : build[p] = "desk" \/ build[p] = Picture'[p]
    BY <1>2, <1>3, <1>5 DEF Painted
  <2>2. QED
    BY <1>5, <2>1, RedrawPaints
<1>6. CASE mode = "desk" /\ UNCHANGED <<list, at>> /\ Redraw(build, FALSE)
  <2>1. build = [p \in Watched |-> build[p]]
    BY <1>6, PictureIs DEF Painted, Blank
  <2>2. \A p \in Watched : build[p] \in Images \cup {"desk"}
    <3>1. PICK m \in Seq(Images) : Chain(list, m, Null)
      BY DEF ListInv
    <3>2. ASSUME NEW p \in Watched PROVE Picture[p] \in Images \cup {"desk"}
      <4> DEFINE S == {w \in Images : Covers(w, p)}
      <4>1. Picture[p] = Nearest(Behind, S)
        BY PictureIs
      <4>2. S \in SUBSET Images
        OBVIOUS
      <4> HIDE DEF S
      <4>3. Nearest(Walk(list.prev, "mouse"), S) \in Images \cup {"desk"}
        BY <3>1, <4>2, LastIsNearest
      <4>4. QED
        BY <4>1, <4>3 DEF Behind
    <3>3. QED
      BY <1>2, <1>6, <3>2 DEF Painted
  <2>3. build' = [p \in Watched |-> Restored(WithPointer(build[p], p), Kept(build[p], p))]
    BY <1>6 DEF Redraw
  <2>4. build' = build
    BY <2>1, <2>2, <2>3, PointerGone
  <2>5. QED
    BY <1>3, <1>6, <2>4 DEF Painted
<1>7. CASE mode = "desk" /\ UNCHANGED <<list, at, build>>
  BY <1>3, <1>7 DEF Painted
<1>8. ASSUME NEW v \in Values(sent), Byte(v) PROVE build' = Blank \/ build' = Picture'
  <2> DEFINE new == [byte EXCEPT ![cycle] = <<sent, v>>]
             dx  == Cut(new[2][2])
             dy  == Cut(new[0][2])
             button == new[1][2] % 2 = 1
  <2>1. CASE mode = "desk" /\ cycle = 2
    <3>1. DrawMouse(button, dx, dy)
      BY <1>8, <2>1 DEF Byte
    <3> HIDE DEF dx, dy, button
    <3>2. Holds(dx, dy) \/ Drops \/ Clicks \/ Idles
      BY <3>1 DEF DrawMouse
    <3>3. QED
      BY <1>1, <1>4, <1>6, <2>1, <3>2 DEF Holds, Drops, Clicks, Idles
  <2>2. CASE ~(mode = "desk" /\ cycle = 2)
    BY <1>1, <1>7, <1>8, <2>2 DEF Byte
  <2>3. QED
    BY <2>1, <2>2
<1>9. CASE Clock
  BY <1>5, <1>9 DEF Clock
<1>10. ASSUME NEW k, Mode(k) PROVE build' = Blank \/ build' = Picture'
  BY <1>1, <1>10 DEF Mode
<1>11. CASE UNCHANGED <<vars, mouseVars>>
  BY <1>1, <1>7, <1>11 DEF vars, mouseVars
<1>12. QED
  BY <1>8, <1>9, <1>10, <1>11 DEF DNext

\* On the desktop the build buffer is the background, or the images in their
\* order, each where it lies, cut at the screen's edges and seen through where
\* it is 0, with no trace of the pointer or of an image's last place (mouse.c:draw_mouse, modex.c:clock).
THEOREM PaintedCorrect == ASSUME Exposed = {} PROVE DSpec => []Painted
<1>1. DInit => Placed /\ Painted
  BY SizesAssumption DEF DInit, Placed, Painted
<1>2. ListInv /\ ListInv' /\ FrameInv /\ Placed /\ Painted /\ [DNext]_<<vars, mouseVars>>
        => Placed' /\ Painted'
  BY NextPlaced, NextPainted
<1>3. QED
  BY <1>1, <1>2, DesktopList, FrameInvariance, PTL DEF DSpec
=============================================================================
