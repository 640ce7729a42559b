--------------------------- MODULE SocketIoProofs ---------------------------
(***************************************************************************)
(* The invariants of SocketIo, for every kind of socket, every size of the *)
(* buffers and every number of bytes.                                      *)
(***************************************************************************)
EXTENDS SocketIo, Iterations, SequenceTheorems

-----------------------------------------------------------------------------
(***************************************************************************)
(* The bytes of a stream from one place to another.                        *)
(***************************************************************************)
Bytes(a, b) == [i \in 1 .. b - a |-> a + i]

LEMMA BytesType ==
  ASSUME NEW a \in Nat, NEW b \in Nat, a <= b
  PROVE  /\ Bytes(a, b) \in Seq(Nat) /\ Len(Bytes(a, b)) = b - a
         /\ \A i \in 1 .. b - a : Bytes(a, b)[i] = a + i
<1>1. b - a \in Nat /\ \A i \in 1 .. b - a : a + i \in Nat
  OBVIOUS
<1>2. Bytes(a, b) \in [1 .. b - a -> Nat]
  BY <1>1 DEF Bytes
<1> QED BY <1>1, <1>2 DEF Bytes

\* Two sequences are the same when their lengths and elements are.
LEMMA BytesAre ==
  ASSUME NEW a \in Nat, NEW b \in Nat, a <= b,
         NEW s \in Seq(Nat), Len(s) = b - a,
         \A i \in 1 .. b - a : s[i] = a + i
  PROVE  s = Bytes(a, b)
<1> DEFINE t == Bytes(a, b)
<1>1. /\ t \in Seq(Nat) /\ Len(t) = b - a
      /\ \A i \in 1 .. b - a : t[i] = a + i
  BY BytesType
<1> HIDE DEF t
<1>2. Len(s) = Len(t) /\ \A i \in 1 .. Len(s) : s[i] = t[i]
  BY <1>1
<1>3. s = t
  BY <1>1, <1>2, SeqEqual
<1> QED BY <1>3 DEF t

LEMMA BytesConcat ==
  ASSUME NEW a \in Nat, NEW b \in Nat, NEW c \in Nat, a <= b, b <= c
  PROVE  Bytes(a, b) \o Bytes(b, c) = Bytes(a, c)
<1> DEFINE p == Bytes(a, b)
           q == Bytes(b, c)
           s == p \o q
<1>1. /\ p \in Seq(Nat) /\ Len(p) = b - a /\ \A i \in 1 .. b - a : p[i] = a + i
      /\ q \in Seq(Nat) /\ Len(q) = c - b /\ \A i \in 1 .. c - b : q[i] = b + i
  BY BytesType
<1> HIDE DEF p, q
<1>2. /\ s \in Seq(Nat) /\ Len(s) = Len(p) + Len(q)
      /\ \A i \in 1 .. Len(p) + Len(q) :
            s[i] = IF i <= Len(p) THEN p[i] ELSE q[i - Len(p)]
  BY <1>1, ConcatProperties
<1> HIDE DEF s
<1>3. \A i \in 1 .. c - a : s[i] = a + i
  <2> TAKE i \in 1 .. c - a
  <2>1. s[i] = IF i <= b - a THEN p[i] ELSE q[i - (b - a)]
    BY <1>1, <1>2
  <2>2. CASE i <= b - a
    BY <1>1, <2>1, <2>2
  <2>3. CASE ~(i <= b - a)
    <3>1. i - (b - a) \in 1 .. c - b
      BY <2>3
    <3> QED BY <1>1, <2>1, <2>3, <3>1
  <2> QED BY <2>2, <2>3
<1>4. Len(s) = c - a
  BY <1>1, <1>2
<1>5. s = Bytes(a, c)
  BY <1>2, <1>3, <1>4, BytesAre
<1> QED BY <1>5 DEF s, p, q

(***************************************************************************)
(* The bytes from c to d are those numbered m to n of the bytes from a to  *)
(* b.                                                                      *)
(***************************************************************************)
Spans(a, b, c, d, m, n) ==
  a <= c /\ c <= d /\ d <= b /\ a + m = c + 1 /\ a + n = d

Part(s, m, n) == SubSeq(s, m, n)

LEMMA BytesPart ==
  ASSUME NEW a \in Nat, NEW b \in Nat, NEW c \in Nat, NEW d \in Nat,
         NEW m \in Nat, NEW n \in Nat, Spans(a, b, c, d, m, n)
  PROVE  Part(Bytes(a, b), m, n) = Bytes(c, d)
<1> USE DEF Spans
<1> DEFINE p == Bytes(a, b)
           s == SubSeq(p, m, n)
<1>1. \A i \in 1 .. b - a : p[i] = a + i
  BY BytesType
<1> HIDE DEF p
<1>2. \A i \in m .. n : p[i] = a + i /\ p[i] \in Nat
  BY <1>1
<1>3. /\ s \in Seq(Nat)
      /\ Len(s) = IF m <= n THEN n - m + 1 ELSE 0
      /\ \A i \in 1 .. n - m + 1 : s[i] = p[m + i - 1]
  BY <1>2, SubSeqProperties
<1> HIDE DEF s
<1>4. Len(s) = d - c
  BY <1>3
<1>5. \A i \in 1 .. d - c : s[i] = c + i
  <2> TAKE i \in 1 .. d - c
  <2>1. i \in 1 .. n - m + 1 /\ m + i - 1 \in m .. n
    OBVIOUS
  <2>2. s[i] = p[m + i - 1]
    BY <1>3, <2>1
  <2>3. p[m + i - 1] = a + (m + i - 1)
    BY <1>2, <2>1
  <2> QED BY <2>2, <2>3
<1>6. s = Bytes(c, d)
  BY <1>3, <1>4, <1>5, BytesAre
<1> QED BY <1>6 DEF s, p, Part

\* Where n bytes from a on end, if there are no more than up to b.
Upto(a, b, n) == IF n < b - a THEN a + n ELSE b

LEMMA UptoType ==
  ASSUME NEW a \in Nat, NEW b \in Nat, a <= b, NEW n \in Nat
  PROVE  /\ Upto(a, b, n) \in Nat /\ a <= Upto(a, b, n) /\ Upto(a, b, n) <= b
         /\ n > 0 /\ a < b => a < Upto(a, b, n)
         /\ Upto(a, b, n) - a <= n
BY DEF Upto

LEMMA FirstBytes ==
  ASSUME NEW a \in Nat, NEW b \in Nat, a <= b, NEW n \in Nat
  PROVE  First(n, Bytes(a, b)) = Bytes(a, Upto(a, b, n))
<1> DEFINE k == IF n < b - a THEN n ELSE b - a
<1>1. k \in Nat /\ Spans(a, b, a, Upto(a, b, n), 1, k)
  BY DEF Upto, Spans
<1> HIDE DEF k
<1>2. Part(Bytes(a, b), 1, k) = Bytes(a, Upto(a, b, n))
  <2>1. Upto(a, b, n) \in Nat /\ 1 \in Nat
    BY UptoType
  <2> QED BY <1>1, <2>1, BytesPart
<1>3. First(n, Bytes(a, b)) = SubSeq(Bytes(a, b), 1, k)
  BY BytesType DEF First, k
<1> QED BY <1>2, <1>3 DEF Part

\* What is left of a sequence without its first n elements.
Rest(s, n) == SubSeq(s, n + 1, Len(s))

LEMMA RestOfBytes ==
  ASSUME NEW a \in Nat, NEW b \in Nat, NEW n \in Nat, a + n <= b
  PROVE  Rest(Bytes(a, b), n) = Bytes(a + n, b)
<1> DEFINE m == n + 1
           l == b - a
           c == a + n
<1>1. c \in Nat /\ m \in Nat /\ l \in Nat /\ Spans(a, b, c, b, m, l)
  BY DEF Spans
<1>2. Len(Bytes(a, b)) = l
  BY BytesType
<1> HIDE DEF m, l, c
<1>3. Part(Bytes(a, b), m, l) = Bytes(c, b)
  BY <1>1, BytesPart
<1> QED BY <1>2, <1>3 DEF Part, m, c, Rest

LEMMA AppendByte ==
  ASSUME NEW a \in Nat, NEW b \in Nat, a <= b
  PROVE  Append(Bytes(a, b), b + 1) = Bytes(a, b + 1)
<1> DEFINE p == Bytes(a, b)
           s == Append(p, b + 1)
<1>1. /\ p \in Seq(Nat) /\ Len(p) = b - a
      /\ \A i \in 1 .. b - a : p[i] = a + i
  BY BytesType
<1> HIDE DEF p
<1>2. /\ s \in Seq(Nat) /\ Len(s) = Len(p) + 1
      /\ \A i \in 1 .. Len(p) : s[i] = p[i]
      /\ s[Len(p) + 1] = b + 1
  BY <1>1, AppendProperties
<1> HIDE DEF s
<1>3. Len(s) = b + 1 - a /\ \A i \in 1 .. b + 1 - a : s[i] = a + i
  <2>1. ASSUME NEW i \in 1 .. b + 1 - a PROVE s[i] = a + i
    <3>1. CASE i = Len(p) + 1
      BY <1>1, <1>2, <3>1
    <3>2. CASE i # Len(p) + 1
      <4>1. i \in 1 .. Len(p)
        BY <1>1, <3>2
      <4> QED BY <1>1, <1>2, <4>1
    <3> QED BY <3>1, <3>2
  <2> QED BY <1>1, <1>2, <2>1
<1>4. s = Bytes(a, b + 1)
  BY <1>2, <1>3, BytesAre
<1> QED BY <1>4 DEF s, p

LEMMA NoBytes ==
  ASSUME NEW a \in Nat
  PROVE  Bytes(a, a) = <<>>
<1>1. a - a = 0
  OBVIOUS
<1>2. Bytes(a, a) \in Seq(Nat) /\ Len(Bytes(a, a)) = 0
  BY <1>1, BytesType
<1> QED BY <1>2, EmptySeq

-----------------------------------------------------------------------------
(***************************************************************************)
(* The buffers of a call.                                                  *)
(***************************************************************************)
LEMMA EndsSum ==
  ASSUME NEW lens \in Seq(Nat)
  PROVE  /\ Ends(lens) \in [0 .. Len(lens) -> Nat]
         /\ Ends(lens)[0] = 0
         /\ \A i \in 1 .. Len(lens) : Ends(lens)[i] = Ends(lens)[i - 1] + lens[i]
<1> DEFINE N == Len(lens)
           step == [i \in 1 .. N |-> [a \in Nat |-> a + lens[i]]]
           ends[n \in 0 .. N] == IF n = 0 THEN 0 ELSE ends[n - 1] + lens[n]
<1>1. step \in [1 .. N -> [Nat -> Nat]] /\ N \in Nat /\ 0 \in Nat
  OBVIOUS
<1>2. PICK f : Iterates(f, N, Nat, 0, step)
  <2> HIDE DEF step, N, ends
  <2> QED BY <1>1, Iteration, Zenon
<1> USE DEF Iterates
<1>3. ASSUME NEW i \in 1 .. N PROVE f[i] = f[i - 1] + lens[i]
  <2>1. i - 1 \in 0 .. N
    BY <1>1
  <2>2. f[i - 1] \in Nat
    BY <1>2, <2>1
  <2> QED BY <1>2, <2>2
<1>4. f = [n \in 0 .. N |-> IF n = 0 THEN 0 ELSE f[n - 1] + lens[n]]
  BY <1>2, <1>3
<1>5. ends = [n \in 0 .. N |-> IF n = 0 THEN 0 ELSE ends[n - 1] + lens[n]]
  BY <1>4
<1>6. Ends(lens) = ends
  BY Zenon DEF Ends
<1> HIDE DEF ends
<1>7. /\ ends[0] = 0
      /\ \A i \in 1 .. N : ends[i] = ends[i - 1] + lens[i]
  BY <1>1, <1>5
<1>8. \A i \in 0 .. N : ends[i] \in Nat
  <2>1. \A i \in 1 .. N : ends[i - 1] \in Nat => ends[i] \in Nat
    BY <1>7
  <2> HIDE DEF N
  <2> QED BY <1>1, <1>7, <2>1, Along
<1>9. ends \in [0 .. N -> Nat]
  BY <1>5, <1>8
<1> QED BY <1>6, <1>7, <1>9

\* A call asks for no less than any of its buffers holds.
LEMMA TotalHolds ==
  ASSUME NEW lens \in Seq(Nat)
  PROVE  Total(lens) \in Nat /\ \A j \in DOMAIN lens : lens[j] <= Total(lens)
<1> DEFINE N == Len(lens)
           ends == Ends(lens)
           P == [n \in 0 .. N |-> {v \in Nat : \A j \in 1 .. n : lens[j] <= v}]
<1>1. /\ ends \in [0 .. N -> Nat] /\ ends[0] = 0
      /\ \A i \in 1 .. N : ends[i] = ends[i - 1] + lens[i]
      /\ N \in Nat
  BY EndsSum
<1> HIDE DEF ends
<1>2. ends[0] \in P[0]
  BY <1>1
<1>3. ASSUME NEW i \in 1 .. N, ends[i - 1] \in P[i - 1] PROVE ends[i] \in P[i]
  <2>1. i - 1 \in 0 .. N /\ i \in 0 .. N
    BY <1>1
  <2>2. ends[i - 1] \in Nat /\ \A j \in 1 .. i - 1 : lens[j] <= ends[i - 1]
    BY <1>3, <2>1
  <2>3. ends[i] = ends[i - 1] + lens[i] /\ lens[i] \in Nat /\ ends[i] \in Nat
    BY <1>1, <2>1
  <2>4. \A j \in 1 .. i : lens[j] <= ends[i]
    <3> TAKE j \in 1 .. i
    <3>1. lens[j] \in Nat
      OBVIOUS
    <3>2. j = i \/ j \in 1 .. i - 1
      OBVIOUS
    <3> QED BY <2>2, <2>3, <3>1, <3>2
  <2> QED BY <2>1, <2>3, <2>4
<1>4. ends[N] \in P[N]
  <2>1. \A i \in 0 .. N : ends[i] \in P[i]
    <3> HIDE DEF N, P
    <3> QED BY <1>1, <1>2, <1>3, AlongEach
  <2> QED BY <1>1, <2>1
<1> QED BY <1>1, <1>4 DEF Total, ends

\* What a library operator on sequences of sequences comes to.
LEMMA FlattenSteps ==
  ASSUME NEW S, NEW seqs \in Seq(Seq(S)), Len(seqs) # 0
  PROVE  \E f \in [0 .. Len(seqs) -> Seq(S)] :
            /\ f[0] = <<>> /\ FlattenSeq(seqs) = f[Len(seqs)]
            /\ \A i \in 1 .. Len(seqs) : f[i] = f[i - 1] \o seqs[i]
<1> DEFINE N == Len(seqs)
           step == [i \in 1 .. N |-> [a \in Seq(S) |-> a \o seqs[i]]]
           flatten[i \in 1 .. N] ==
               IF i = 1 THEN seqs[i] ELSE flatten[i - 1] \o seqs[i]
<1>1. step \in [1 .. N -> [Seq(S) -> Seq(S)]] /\ N \in Nat \ {0} /\ <<>> \in Seq(S)
  OBVIOUS
<1>2. PICK f : Iterates(f, N, Seq(S), <<>>, step)
  <2> HIDE DEF step, N, flatten
  <2> QED BY <1>1, Iteration, Zenon
<1> USE DEF Iterates
<1>3. ASSUME NEW i \in 1 .. N PROVE f[i] = f[i - 1] \o seqs[i]
  <2>1. i - 1 \in 0 .. N
    BY <1>1
  <2>2. f[i - 1] \in Seq(S)
    BY <1>2, <2>1
  <2> QED BY <1>2, <2>2
<1> DEFINE g == [i \in 1 .. N |-> f[i]]
<1>4. f[1] = seqs[1]
  <2>1. seqs[1] \in Seq(S) /\ 1 \in 1 .. N /\ 1 - 1 = 0
    BY <1>1
  <2>2. f[1] = <<>> \o seqs[1]
    BY <1>2, <1>3, <2>1
  <2> QED BY <2>1, <2>2, ConcatEmptySeq
<1>5. g = [i \in 1 .. N |-> IF i = 1 THEN seqs[i] ELSE g[i - 1] \o seqs[i]]
  <2>1. ASSUME NEW i \in 1 .. N
        PROVE  f[i] = IF i = 1 THEN seqs[i] ELSE g[i - 1] \o seqs[i]
    <3>1. CASE i = 1
      BY <1>4, <3>1
    <3>2. CASE i # 1
      <4>1. i - 1 \in 1 .. N
        BY <1>1, <3>2
      <4>2. g[i - 1] = f[i - 1]
        BY <4>1
      <4> QED BY <1>3, <3>2, <4>2
    <3> QED BY <3>1, <3>2
  <2> QED BY <2>1
<1>6. flatten = [i \in 1 .. N |->
                    IF i = 1 THEN seqs[i] ELSE flatten[i - 1] \o seqs[i]]
  BY <1>5
<1>7. FlattenSeq(seqs) = flatten[N]
  BY Zenon DEF FlattenSeq
<1> HIDE DEF flatten, g
<1>8. \A i \in 1 .. N : flatten[i] = f[i]
  <2> DEFINE off == [i \in 0 .. N |-> IF i = 0 \/ flatten[i] = f[i] THEN 0 ELSE 1]
  <2>1. off[0] \in {0}
    BY <1>1
  <2>2. ASSUME NEW i \in 1 .. N, off[i - 1] \in {0} PROVE off[i] \in {0}
    <3>1. i - 1 \in 0 .. N /\ i \in 0 .. N /\ i # 0
      BY <1>1
    <3>2. i = 1 \/ flatten[i - 1] = f[i - 1]
      BY <2>2, <3>1
    <3>3. flatten[i] = IF i = 1 THEN seqs[i] ELSE flatten[i - 1] \o seqs[i]
      BY <1>6
    <3>4. flatten[i] = f[i]
      BY <1>3, <1>4, <3>2, <3>3
    <3> QED BY <3>1, <3>4
  <2>3. \A i \in 0 .. N : off[i] \in {0}
    <3>1. N \in Nat
      BY <1>1
    <3> HIDE DEF N, off
    <3> QED BY <2>1, <2>2, <3>1, Along
  <2> QED BY <1>1, <2>3
<1>9. FlattenSeq(seqs) = f[N]
  BY <1>1, <1>7, <1>8
<1> QED BY <1>2, <1>3, <1>9

(***************************************************************************)
(* readv() copies to its buffers the bytes that read() gave, in order, all *)
(* of them, when they have room for them.                                  *)
(***************************************************************************)
LEMMA SlicesGiveAll ==
  ASSUME NEW a \in Nat, NEW b \in Nat, a <= b,
         NEW lens \in Seq(Nat), Len(lens) # 0, b - a <= Total(lens)
  PROVE  FlattenSeq(Slices(Bytes(a, b), lens)) = Bytes(a, b)
<1> DEFINE N == Len(lens)
           ends == Ends(lens)
           seqs == Slices(Bytes(a, b), lens)
<1>1. /\ ends \in [0 .. N -> Nat] /\ ends[0] = 0 /\ N \in Nat \ {0}
      /\ \A i \in 1 .. N : ends[i] = ends[i - 1] + lens[i]
      /\ \A i \in 1 .. N : i - 1 \in 0 .. N /\ i \in 0 .. N /\ lens[i] \in Nat
  BY EndsSum
<1>2. ends[N] = Total(lens) /\ DOMAIN lens = 1 .. N
  BY DEF Total
<1> HIDE DEF ends
<1>3. seqs = [i \in 1 .. N |->
                 First(lens[i], SubSeq(Bytes(a, b), ends[i - 1] + 1, Len(Bytes(a, b))))]
  BY <1>2 DEF Slices, ends
<1> HIDE DEF seqs, N
<1>3a. \A i \in 0 .. N : Upto(a, b, ends[i]) \in Nat /\ a <= Upto(a, b, ends[i])
  BY <1>1, UptoType
<1>4. ASSUME NEW i \in 1 .. N
      PROVE  /\ seqs[i] = Bytes(Upto(a, b, ends[i - 1]), Upto(a, b, ends[i]))
             /\ Upto(a, b, ends[i - 1]) <= Upto(a, b, ends[i])
  <2> DEFINE e == ends[i - 1]
             n == lens[i]
             k == ends[i]
             m == e + 1
             l == b - a
             c == Upto(a, b, e)
             slice == seqs[i]
  <2>1. slice = First(n, SubSeq(Bytes(a, b), m, Len(Bytes(a, b))))
    BY <1>3
  <2>2. e \in Nat /\ n \in Nat /\ k \in Nat /\ e + n = k
    BY <1>1
  <2> HIDE DEF e, n, k, slice
  <2>3. Upto(a, b, e) <= Upto(a, b, k)
    BY <2>2 DEF Upto
  <2>4. Len(Bytes(a, b)) = l /\ l \in Nat
    BY BytesType
  <2>5. CASE e <= l
    <3>1. m \in Nat /\ l \in Nat /\ c \in Nat /\ c <= b
      BY <2>4, <2>5, <2>2 DEF Upto
    <3>2. Upto(a, b, k) = Upto(c, b, n)
      BY <2>5, <2>2 DEF Upto
    <3>3. SubSeq(Bytes(a, b), m, Len(Bytes(a, b))) = Bytes(c, b)
      <4>1. a + e <= b /\ c = a + e
        BY <2>2, <2>5 DEF Upto
      <4>2. Rest(Bytes(a, b), e) = Bytes(a + e, b)
        BY <2>2, <4>1, RestOfBytes
      <4> QED BY <4>1, <4>2 DEF Rest
    <3> HIDE DEF m, c, l
    <3>4. First(n, Bytes(c, b)) = Bytes(c, Upto(c, b, n))
      BY <2>2, <3>1, FirstBytes
    <3>5. slice = Bytes(c, Upto(a, b, k))
      BY <2>1, <3>2, <3>3, <3>4
    <3> QED BY <2>3, <3>5 DEF c, e, k, slice
  <2>6. CASE ~(e <= l)
    <3>1. Upto(a, b, e) = b /\ Upto(a, b, k) = b /\ Upto(b, b, n) = b
      BY <2>6, <2>2 DEF Upto
    <3>2. m \in Int /\ l \in Int /\ l < m
      BY <2>6, <2>2
    <3> HIDE DEF m, l
    <3>3. SubSeq(Bytes(a, b), m, l) = <<>>
      BY <3>2, SubSeqEmpty
    <3>4. First(n, Bytes(b, b)) = Bytes(b, Upto(b, b, n))
      BY <2>2, FirstBytes
    <3>5. slice = Bytes(Upto(a, b, e), Upto(a, b, k))
      BY <2>4, <2>1, <3>1, <3>3, <3>4, NoBytes
    <3> QED BY <2>3, <3>5 DEF e, k, slice
  <2> QED BY <2>5, <2>6
<1>5. seqs \in Seq(Seq(Nat)) /\ Len(seqs) = N
  <2>1. ASSUME NEW i \in 1 .. N PROVE seqs[i] \in Seq(Nat)
    <3> DEFINE c == Upto(a, b, ends[i - 1])
               d == Upto(a, b, ends[i])
    <3>1. seqs[i] = Bytes(c, d) /\ c \in Nat /\ d \in Nat /\ c <= d
      BY <1>1, <1>4, <1>3a
    <3> HIDE DEF c, d
    <3> QED BY <3>1, BytesType
  <2>2. seqs \in [1 .. N -> Seq(Nat)]
    BY <1>3, <2>1
  <2> QED BY <1>1, <2>2
<1>6. PICK f \in [0 .. Len(seqs) -> Seq(Nat)] :
          /\ f[0] = <<>> /\ FlattenSeq(seqs) = f[Len(seqs)]
          /\ \A i \in 1 .. Len(seqs) : f[i] = f[i - 1] \o seqs[i]
  <2>1. Len(seqs) # 0
    BY <1>1, <1>5
  <2> QED BY <1>5, <2>1, FlattenSteps
<1> DEFINE P == [i \in 0 .. N |-> {Bytes(a, Upto(a, b, ends[i]))}]
<1>7. f[0] \in P[0]
  <2>1. Upto(a, b, 0) = a
    BY DEF Upto
  <2> QED BY <1>1, <1>6, <2>1, NoBytes
<1>8. ASSUME NEW i \in 1 .. N, f[i - 1] \in P[i - 1] PROVE f[i] \in P[i]
  <2> DEFINE c == Upto(a, b, ends[i - 1])
             d == Upto(a, b, ends[i])
  <2>1. i - 1 \in 0 .. N /\ i \in 0 .. N
    BY <1>1
  <2>2. f[i - 1] = Bytes(a, c)
    BY <1>8, <2>1
  <2>3. seqs[i] = Bytes(c, d) /\ c \in Nat /\ d \in Nat /\ a <= c /\ c <= d
    BY <1>4, <1>3a, <2>1
  <2>4. P[i] = {Bytes(a, d)}
    BY <2>1
  <2> HIDE DEF c, d, P
  <2>5. f[i] = Bytes(a, c) \o Bytes(c, d)
    BY <1>5, <1>6, <2>2, <2>3
  <2>6. f[i] = Bytes(a, d)
    BY <2>3, <2>5, BytesConcat
  <2> QED BY <2>4, <2>6
<1>9. f[N] \in P[N]
  <2>1. \A i \in 0 .. N : f[i] \in P[i]
    <3>1. N \in Nat
      BY <1>1
    <3> HIDE DEF P
    <3> QED BY <3>1, <1>7, <1>8, AlongEach
  <2> QED BY <1>1, <2>1
<1>10. Upto(a, b, Total(lens)) = b
  BY TotalHolds DEF Upto
<1>11. f[N] = Bytes(a, b)
  BY <1>1, <1>2, <1>9, <1>10
<1> QED BY <1>5, <1>6, <1>11 DEF seqs
-----------------------------------------------------------------------------
(***************************************************************************)
(* The inductive invariant.                                                *)
(***************************************************************************)
Writes == {"write", "send", "writev"}
Transfers == Reads \cup Writes
Stages == {"flip", "vxd", "wait", "again", "restore", "done"}
Events == {"read", "write", "except"}
Errors == {"ok", "again", "error"}

Descriptors == [iface : {"wsock", "csock"}, version : Nat, blocking : BOOLEAN,
                inbound : BOOLEAN, outbound : BOOLEAN]
Devices == [nonblock : BOOLEAN, rx : Seq(Nat), eof : BOOLEAN, reset : BOOLEAN,
            tx : Nat, out : Seq(Nat)]
Calls == [op : Transfers \cup {"none", "ready"},
          at : Stages \cup Events \cup {"none", "told"},
          lens : Lengths \cup {<<>>}, peek : BOOLEAN, flag : BOOLEAN,
          ready : SUBSET Events, failed : BOOLEAN, rv : Int,
          err : Errors, data : Seq(Nat)]
Histories == [got : Seq(Nat), wrote : Nat, peeked : Seq(Nat), asked : BOOLEAN,
              slipped : BOOLEAN, ready : SUBSET Events,
              reply : [rv : Int, err : Errors]]

Types ==
  /\ lsd \in Descriptors /\ vxd \in Devices /\ call \in Calls
  /\ seen \in Histories /\ SocketD \in Seq(Nat) /\ sent \in Nat

\* Which calls come to which stages.
Staged ==
  /\ call.op \in Transfers => call.lens \in Lengths /\ call.ready = {}
  /\ call.at \in Stages <=> call.op \in Transfers
  /\ call.at \in {"flip", "restore", "done"} => Flips(call.op)
  /\ call.at \in {"wait", "again"} => lsd.iface = "wsock" /\ call.op \in Reads
  /\ call.peek => lsd.iface = "wsock"

\* A socket that could be read may be read by the call in progress, and one
\* that could be written, written.
ReadyUntilUsed ==
  /\ \A c \in seen.ready :
       \/ Ready(c)
       \/ c = "read" /\ call.op \in Reads
       \/ c = "write" /\ call.op \in Writes
  /\ \A c \in call.ready : Ready(c)

\* Inverted says that recvfrom() has the mode the other way round.
Inverted == Flips(call.op) /\ call.at \in {"vxd", "restore"}

\* The mode is the one asked for, except while recvfrom() inverts it, when it
\* is kept in call.flag, unless a switch failed.
ModeAsAsked ==
  /\ lsd.blocking = ~vxd.nonblock
  /\ seen.asked /\ ~seen.slipped =>
       IF Inverted THEN call.flag /\ ~lsd.blocking ELSE lsd.blocking

\* What makes SOCK.VXD or the end of the wait answer as it does.
Reasons ==
  /\ call.at = "again" => Arrived \/ vxd.reset
  /\ call.at \in {"restore", "done"} =>
       /\ call.err = "again" => ~seen.asked \/ seen.slipped
       /\ call.rv = 0 /\ call.err # "again" => vxd.eof

\* The bytes that are in recvfrom() on their way to the program.
Held == IF call.at \in {"restore", "done"} THEN call.data ELSE <<>>

\* The bytes of the peer are those the program got, those held for it and
\* those to come, in this order; those it has peeked at follow what it got.
Stream(got, held, peeked, rx, reset, n) ==
  \E g, h, p \in 0 .. n :
    /\ g <= h /\ g <= p
    /\ got = Bytes(0, g) /\ held = Bytes(g, h) /\ peeked = Bytes(g, p)
    /\ ~reset => rx = Bytes(h, n)

Streams ==
  /\ Stream(seen.got, Held, seen.peeked, vxd.rx, vxd.reset, sent)
  /\ vxd.out = Bytes(0, seen.wrote)

IInv ==
  /\ Types /\ Staged /\ ReadyUntilUsed /\ ModeAsAsked /\ Reasons /\ Streams
  /\ ReadsWait

-----------------------------------------------------------------------------
(***************************************************************************)
(* What a call does to the bytes.                                          *)
(***************************************************************************)
LEMMA FirstType ==
  ASSUME NEW s \in Seq(Nat), NEW n \in Nat
  PROVE  /\ First(n, s) \in Seq(Nat)
         /\ Len(First(n, s)) = IF n < Len(s) THEN n ELSE Len(s)
         /\ \A i \in 1 .. Len(First(n, s)) : First(n, s)[i] = s[i]
<1> DEFINE m == IF n < Len(s) THEN n ELSE Len(s)
           t == SubSeq(s, 1, m)
<1>1. m \in Nat /\ m <= Len(s)
  OBVIOUS
<1> HIDE DEF m
<1>2. \A i \in 1 .. m : s[i] \in Nat
  BY <1>1
<1>3. /\ t \in Seq(Nat)
      /\ Len(t) = IF 1 <= m THEN m - 1 + 1 ELSE 0
      /\ \A i \in 1 .. m - 1 + 1 : t[i] = s[1 + i - 1]
  BY <1>1, <1>2, SubSeqProperties
<1> HIDE DEF t
<1>4. Len(t) = m /\ \A i \in 1 .. Len(t) : t[i] = s[i]
  BY <1>1, <1>3
<1>5. First(n, s) = t
  BY DEF First, t, m
<1> QED BY <1>3, <1>4, <1>5 DEF m

\* The first bytes that fit both the buffers of the call and the shared one.
LEMMA FirstOfFirst ==
  ASSUME NEW s \in Seq(Nat), NEW m \in Nat, NEW n \in Nat
  PROVE  First(m, First(n, s)) = First(IF m < n THEN m ELSE n, s)
<1> DEFINE k == IF m < n THEN m ELSE n
           t == First(n, s)
           u == First(m, t)
           v == First(k, s)
<1>1. k \in Nat
  OBVIOUS
<1>2. /\ t \in Seq(Nat) /\ Len(t) = IF n < Len(s) THEN n ELSE Len(s)
      /\ \A i \in 1 .. Len(t) : t[i] = s[i]
  BY FirstType
<1> HIDE DEF t
<1>3. /\ u \in Seq(Nat) /\ Len(u) = IF m < Len(t) THEN m ELSE Len(t)
      /\ \A i \in 1 .. Len(u) : u[i] = t[i]
  BY <1>2, FirstType
<1> HIDE DEF u
<1>4. /\ v \in Seq(Nat) /\ Len(v) = IF k < Len(s) THEN k ELSE Len(s)
      /\ \A i \in 1 .. Len(v) : v[i] = s[i]
  <2> HIDE DEF k
  <2> QED BY <1>1, FirstType
<1> HIDE DEF v
<1>5. Len(u) = Len(v)
  BY <1>2, <1>3, <1>4
<1>6. \A i \in 1 .. Len(u) : u[i] = v[i]
  <2> TAKE i \in 1 .. Len(u)
  <2>1. i \in 1 .. Len(t) /\ i \in 1 .. Len(v)
    BY <1>2, <1>3, <1>5
  <2> QED BY <1>2, <1>3, <1>4, <2>1
<1>7. u = v
  BY <1>3, <1>4, <1>5, <1>6, SeqEqual
<1> QED BY <1>7 DEF u, v, t

\* What is copied into the shared buffer is what is copied out of it.
LEMMA CopiedBack ==
  ASSUME NEW s \in Seq(Nat), NEW t \in Seq(Nat)
  PROVE  First(Len(s), s \o t) = s
<1> DEFINE u == s \o t
           v == First(Len(s), u)
<1>1. /\ u \in Seq(Nat) /\ Len(u) = Len(s) + Len(t)
      /\ \A i \in 1 .. Len(s) + Len(t) :
            u[i] = IF i <= Len(s) THEN s[i] ELSE t[i - Len(s)]
  BY ConcatProperties
<1> HIDE DEF u
<1>2. /\ v \in Seq(Nat) /\ Len(v) = IF Len(s) < Len(u) THEN Len(s) ELSE Len(u)
      /\ \A i \in 1 .. Len(v) : v[i] = u[i]
  BY <1>1, FirstType
<1> HIDE DEF v
<1>3. Len(v) = Len(s)
  BY <1>1, <1>2
<1>4. \A i \in 1 .. Len(s) : v[i] = s[i]
  <2> TAKE i \in 1 .. Len(s)
  <2>1. i \in 1 .. Len(v) /\ i \in 1 .. Len(s) + Len(t) /\ i <= Len(s)
    BY <1>3
  <2> QED BY <1>1, <1>2, <2>1
<1>5. v = s
  BY <1>2, <1>3, <1>4, SeqEqual
<1> QED BY <1>5 DEF u, v

\* Some of the bytes of a stream, in their order.
IsBytes(s) == \E a, b \in Nat : a <= b /\ s = Bytes(a, b)

LEMMA SlicesGiveBack ==
  ASSUME NEW d, IsBytes(d), NEW lens \in Lengths, Len(d) <= Total(lens)
  PROVE  FlattenSeq(Slices(d, lens)) = d
<1>1. PICK a \in Nat, b \in Nat : a <= b /\ d = Bytes(a, b)
  BY DEF IsBytes
<1>2. lens \in Seq(Nat) /\ Len(lens) # 0
  BY IoAssumption
<1>3. b - a <= Total(lens)
  BY <1>1, BytesType
<1> QED BY <1>1, <1>2, <1>3, SlicesGiveAll

LEMMA NothingIsBytes == IsBytes(<<>>) /\ Len(<<>>) = 0 /\ <<>> \in Seq(Nat)
BY NoBytes DEF IsBytes

-----------------------------------------------------------------------------
(***************************************************************************)
(* The steps of a stream.                                                  *)
(***************************************************************************)
LEMMA StreamArrives ==
  ASSUME NEW got, NEW held, NEW peeked, NEW rx, NEW reset, NEW n \in Nat,
         Stream(got, held, peeked, rx, reset, n), ~reset
  PROVE  Stream(got, held, peeked, Append(rx, n + 1), reset, n + 1)
<1>1. PICK g \in 0 .. n, h \in 0 .. n, p \in 0 .. n :
         /\ g <= h /\ g <= p
         /\ got = Bytes(0, g) /\ held = Bytes(g, h) /\ peeked = Bytes(g, p)
         /\ ~reset => rx = Bytes(h, n)
  BY DEF Stream
<1>2. Append(rx, n + 1) = Bytes(h, n + 1)
  <2>1. h \in Nat /\ h <= n /\ rx = Bytes(h, n)
    BY <1>1
  <2>2. Append(Bytes(h, n), n + 1) = Bytes(h, n + 1)
    BY <2>1, AppendByte
  <2> QED BY <2>1, <2>2
<1>3. g \in 0 .. n + 1 /\ h \in 0 .. n + 1 /\ p \in 0 .. n + 1
  OBVIOUS
<1> QED BY <1>1, <1>2, <1>3 DEF Stream

\* d is what there is of the first m bytes, and what is left without it.
Leads(d, m, rx) == d = First(m, rx)
Behind(d, rx) == SubSeq(rx, Len(d) + 1, Len(rx))

LEMMA StreamHolds ==
  ASSUME NEW got, NEW peeked, NEW rx, NEW reset, NEW n \in Nat,
         Stream(got, <<>>, peeked, rx, reset, n), ~reset,
         NEW m \in Nat, NEW d, Leads(d, m, rx)
  PROVE  /\ Stream(got, d, peeked, Behind(d, rx), reset, n)
         /\ Stream(got, <<>>, d, rx, reset, n)
         /\ IsBytes(d)
<1>1. PICK g \in 0 .. n, h \in 0 .. n, p \in 0 .. n :
         /\ g <= h /\ g <= p
         /\ got = Bytes(0, g) /\ <<>> = Bytes(g, h) /\ peeked = Bytes(g, p)
         /\ ~reset => rx = Bytes(h, n)
  BY DEF Stream
<1>2. Len(<<>>) = h - g
  <2>1. g \in Nat /\ h \in Nat /\ g <= h
    BY <1>1
  <2>2. Len(Bytes(g, h)) = h - g
    BY <2>1, BytesType
  <2> QED BY <1>1, <2>2
<1>3. g = h /\ rx = Bytes(g, n)
  BY <1>1, <1>2
<1> DEFINE e == Upto(g, n, m)
<1>4. e \in 0 .. n /\ g <= e /\ e \in Nat /\ g \in Nat
  BY DEF Upto
<1>5. d = Bytes(g, e)
  BY <1>3, FirstBytes DEF Leads
<1> HIDE DEF e
<1>6. Len(d) = e - g
  BY <1>4, <1>5, BytesType
<1>7. Behind(d, rx) = Bytes(e, n)
  <2> DEFINE l == e - g
  <2>1. l \in Nat /\ g + l = e /\ g + l <= n
    BY <1>4
  <2> HIDE DEF l
  <2>2. Rest(Bytes(g, n), l) = Bytes(g + l, n)
    BY <1>4, <2>1, RestOfBytes
  <2> QED BY <1>3, <1>6, <2>1, <2>2 DEF Rest, l, Behind
<1>8. Stream(got, d, peeked, Behind(d, rx), reset, n)
  BY <1>1, <1>4, <1>5, <1>7 DEF Stream
<1>9. Stream(got, <<>>, d, rx, reset, n)
  BY <1>1, <1>3, <1>4, <1>5 DEF Stream
<1>10. IsBytes(d)
  BY <1>4, <1>5 DEF IsBytes
<1> QED BY <1>8, <1>9, <1>10

LEMMA StreamGives ==
  ASSUME NEW got, NEW held, NEW peeked, NEW rx, NEW reset, NEW n \in Nat,
         Stream(got, held, peeked, rx, reset, n)
  PROVE  Stream(got \o held, <<>>, IF held # <<>> THEN <<>> ELSE peeked,
                rx, reset, n)
<1>1. PICK g \in 0 .. n, h \in 0 .. n, p \in 0 .. n :
         /\ g <= h /\ g <= p
         /\ got = Bytes(0, g) /\ held = Bytes(g, h) /\ peeked = Bytes(g, p)
         /\ ~reset => rx = Bytes(h, n)
  BY DEF Stream
<1>2. got \o held = Bytes(0, h)
  <2>1. g \in Nat /\ h \in Nat /\ 0 \in Nat /\ 0 <= g /\ g <= h
    BY <1>1
  <2>2. Bytes(0, g) \o Bytes(g, h) = Bytes(0, h)
    BY <2>1, BytesConcat
  <2> QED BY <1>1, <2>2
<1>3. <<>> = Bytes(h, h)
  BY NoBytes
<1>4. CASE held # <<>>
  BY <1>1, <1>2, <1>3, <1>4 DEF Stream
<1>5. CASE held = <<>>
  <2>1. g \in Nat /\ h \in Nat /\ g <= h
    BY <1>1
  <2>2. Len(Bytes(g, h)) = h - g
    BY <2>1, BytesType
  <2>3. Len(<<>>) = h - g
    BY <1>1, <1>5, <2>2
  <2>4. g = h
    BY <2>1, <2>3
  <2> QED BY <1>1, <1>2, <1>3, <1>5, <2>4 DEF Stream
<1> QED BY <1>4, <1>5

\* What is held is part of the stream.
LEMMA HeldIsBytes ==
  ASSUME NEW got, NEW held, NEW peeked, NEW rx, NEW reset, NEW n \in Nat,
         Stream(got, held, peeked, rx, reset, n)
  PROVE  IsBytes(held) /\ held \in Seq(Nat)
<1>1. PICK g \in 0 .. n, h \in 0 .. n : g <= h /\ held = Bytes(g, h)
  BY DEF Stream
<1>2. g \in Nat /\ h \in Nat
  OBVIOUS
<1> QED BY <1>1, <1>2, BytesType DEF IsBytes

LEMMA StreamIsPrefix ==
  ASSUME NEW got, NEW held, NEW peeked, NEW rx, NEW reset, NEW n \in Nat,
         Stream(got, held, peeked, rx, reset, n)
  PROVE  IsPrefix(got \o peeked, OneTo(n))
<1>1. PICK g \in 0 .. n, h \in 0 .. n, p \in 0 .. n :
         g <= p /\ got = Bytes(0, g) /\ peeked = Bytes(g, p)
  BY DEF Stream
<1>2. got \o peeked = Bytes(0, p)
  <2>1. g \in Nat /\ p \in Nat /\ 0 \in Nat /\ 0 <= g /\ g <= p
    BY <1>1
  <2>2. Bytes(0, g) \o Bytes(g, p) = Bytes(0, p)
    BY <2>1, BytesConcat
  <2> QED BY <1>1, <2>2
<1>3. OneTo(n) = Bytes(0, n)
  BY DEF OneTo, Bytes
<1>4. /\ Bytes(0, p) \in Seq(Nat) /\ Len(Bytes(0, p)) = p
      /\ Bytes(0, n) \in Seq(Nat) /\ Len(Bytes(0, n)) = n
  <2>1. p \in Nat /\ 0 \in Nat /\ 0 <= p /\ 0 <= n /\ p - 0 = p /\ n - 0 = n
    OBVIOUS
  <2> QED BY <2>1, BytesType
<1>5. Spans(0, n, 0, p, 1, p) /\ 0 \in Nat /\ 1 \in Nat /\ p \in Nat
  BY DEF Spans
<1>6. Part(Bytes(0, n), 1, p) = Bytes(0, p)
  BY <1>5, BytesPart
<1>7. Spans(0, p, 0, p, 1, p)
  BY DEF Spans
<1>8. Part(Bytes(0, p), 1, p) = Bytes(0, p)
  BY <1>5, <1>7, BytesPart
<1> QED BY <1>2, <1>3, <1>4, <1>6, <1>8 DEF IsPrefix, Part

-----------------------------------------------------------------------------
(***************************************************************************)
(* What a call that ends gives the program.                                *)
(***************************************************************************)
\* What a call is asked to return, and the bytes with it.
Result(c, rv, err, d) ==
  /\ c \in Calls /\ c.op \in Transfers /\ c.lens \in Lengths
  /\ rv \in Int /\ err \in Errors
  /\ IsBytes(d) /\ d \in Seq(Nat)
  /\ c.op = "readv" => Len(d) <= Total(c.lens)

LEMMA IdleIsCall ==
  /\ Idle \in Calls /\ Idle.op = "none" /\ Idle.at = "none" /\ ~Idle.peek
  /\ Idle.ready = {} /\ Idle.lens = <<>>
BY NothingIsBytes DEF Idle, Calls, Transfers, Reads, Writes, Stages, Events, Errors

LEMMA AnswerIs ==
  ASSUME NEW op \in Transfers, NEW rv \in Int, NEW err \in Errors
  PROVE  /\ Answer(Under(op), rv, err) \in [rv : Int, err : Errors]
         /\ op \in Reads => Answer(Under(op), rv, err).err = err
         /\ op \in Reads /\ Answer(Under(op), rv, err).rv = 0
              => rv = 0 \/ err = "again"
         /\ (Answer(Under(op), rv, err).rv > 0) = (rv > 0)
         /\ rv > 0 => Answer(Under(op), rv, err).rv = rv
<1>1. CASE Under(op) = "write" \/ Under(op) = "read"
  BY <1>1 DEF Answer, Under, Transfers, Reads, Writes, Errors
<1>2. CASE ~(Under(op) = "write" \/ Under(op) = "read")
  BY <1>2 DEF Answer
<1> QED BY <1>1, <1>2

LEMMA ReturnGives ==
  ASSUME seen \in Histories, NEW c, NEW rv, NEW err, NEW d,
         Result(c, rv, err, d), Return(c, rv, err, d)
  PROVE  /\ call' = Idle /\ seen' \in Histories
         /\ seen'.asked = seen.asked /\ seen'.slipped = seen.slipped
         /\ seen'.ready = seen.ready \ {IF c.op \in Reads THEN "read" ELSE "write"}
         /\ seen'.got = IF c.peek THEN seen.got ELSE seen.got \o d
         /\ seen'.peeked = IF c.peek THEN d
                           ELSE IF d # <<>> THEN <<>> ELSE seen.peeked
         /\ seen'.wrote = seen.wrote + IF c.op \notin Reads /\ rv > 0 THEN rv ELSE 0
         /\ c.op \in Reads => /\ seen'.reply.err = err
                              /\ seen'.reply.rv = 0 => rv = 0 \/ err = "again"
         /\ c.op \notin Reads => seen'.reply = NoReply
<1> DEFINE a == Answer(Under(c.op), rv, err)
           given == IF c.op = "readv" THEN FlattenSeq(Slices(d, c.lens)) ELSE d
           n == IF c.op \notin Reads /\ a.rv > 0 THEN a.rv ELSE 0
           reply == IF c.op \in Reads THEN a ELSE NoReply
           got == IF c.peek THEN seen.got ELSE seen.got \o given
           peeked == IF c.peek THEN given
                     ELSE IF given # <<>> THEN <<>> ELSE seen.peeked
           ready == seen.ready \ {IF c.op \in Reads THEN "read" ELSE "write"}
<1>1. given = d
  BY SlicesGiveBack DEF Result
<1>2. /\ a \in [rv : Int, err : Errors]
      /\ c.op \in Reads => a.err = err /\ (a.rv = 0 => rv = 0 \/ err = "again")
      /\ (a.rv > 0) = (rv > 0) /\ (rv > 0 => a.rv = rv)
  BY AnswerIs DEF Result
<1>3. NoReply \in [rv : Int, err : Errors]
  BY DEF NoReply, Errors
<1>4. /\ call' = Idle
      /\ seen' = [seen EXCEPT !.reply = reply, !.got = got, !.peeked = peeked,
                              !.wrote = seen.wrote + n, !.ready = ready]
  <2> HIDE DEF given, a
  <2> QED BY DEF Return, given, a
<1>5. /\ seen.got \in Seq(Nat) /\ seen.peeked \in Seq(Nat) /\ seen.wrote \in Nat
      /\ seen.ready \in SUBSET Events /\ <<>> \in Seq(Nat)
      /\ d \in Seq(Nat) /\ rv \in Int
  BY DEF Histories, Result
<1> HIDE DEF given, a
<1>6. n \in Nat /\ n = IF c.op \notin Reads /\ rv > 0 THEN rv ELSE 0
  BY <1>2, <1>5
<1>7. /\ reply \in [rv : Int, err : Errors]
      /\ c.op \in Reads => reply.err = err /\ (reply.rv = 0 => rv = 0 \/ err = "again")
      /\ c.op \notin Reads => reply = NoReply
  BY <1>2, <1>3
<1>8. seen.got \o d \in Seq(Nat)
  BY <1>5, ConcatProperties
<1>9. /\ got \in Seq(Nat) /\ got = IF c.peek THEN seen.got ELSE seen.got \o d
      /\ peeked \in Seq(Nat)
      /\ peeked = IF c.peek THEN d ELSE IF d # <<>> THEN <<>> ELSE seen.peeked
  BY <1>1, <1>5, <1>8
<1>10. ready \in SUBSET Events
  BY <1>5
<1>11. seen.wrote + n \in Nat
  BY <1>5, <1>6
<1> HIDE DEF n, reply, got, peeked, ready
<1>12. /\ seen'.reply = reply /\ seen'.got = got /\ seen'.peeked = peeked
       /\ seen'.wrote = seen.wrote + n /\ seen'.ready = ready
       /\ seen'.asked = seen.asked /\ seen'.slipped = seen.slipped
       /\ seen' \in Histories
  BY <1>4, <1>7, <1>9, <1>10, <1>11 DEF Histories
<1> QED BY <1>4, <1>6, <1>7, <1>9, <1>12 DEF ready

-----------------------------------------------------------------------------
(***************************************************************************)
(* Each step keeps the invariant.  A step that ends a call does, if the    *)
(* VxD is left with the bytes that follow what the call gave.              *)
(***************************************************************************)
\* What a condition of readiness says of the VxD.
Readiness(v, condition) ==
  \/ condition = "read" /\ (v.rx # <<>> \/ v.eof \/ v.reset)
  \/ condition = "write" /\ (v.tx < ROOM \/ v.reset)
  \/ condition = "except" /\ v.reset

LEMMA ReadyIs ==
  /\ \A c \in Events : Ready(c) <=> Readiness(vxd, c)
  /\ \A c \in Events : Ready(c)' <=> Readiness(vxd', c)
BY DEF Ready, Readiness, Arrived, Events

\* The bytes after a call that gave d.
After(c, d, v) ==
  IF c.peek THEN Stream(seen.got, <<>>, d, v.rx, v.reset, sent)
  ELSE Stream(seen.got \o d, <<>>, IF d # <<>> THEN <<>> ELSE seen.peeked,
              v.rx, v.reset, sent)

LEMMA ReturnKeeps ==
  ASSUME IInv, NEW c, NEW rv, NEW err, NEW d,
         Result(c, rv, err, d), Return(c, rv, err, d),
         lsd' = lsd, sent' = sent, vxd' \in Devices, SocketD' \in Seq(Nat),
         vxd'.nonblock = vxd.nonblock,
         seen.asked /\ ~seen.slipped => lsd.blocking,
         After(c, d, vxd'),
         vxd'.out = Bytes(0, seen.wrote + IF c.op \notin Reads /\ rv > 0
                                          THEN rv ELSE 0),
         \A x \in seen.ready :
            \/ Readiness(vxd', x)
            \/ x = "read" /\ c.op \in Reads
            \/ x = "write" /\ c.op \in Writes,
         c.op \in Reads => /\ err = "again" => ~seen.asked \/ seen.slipped
                           /\ rv = 0 /\ err # "again" => vxd'.eof \/ ~lsd.inbound
  PROVE  IInv'
<1>1. /\ call' = Idle /\ seen' \in Histories
      /\ seen'.asked = seen.asked /\ seen'.slipped = seen.slipped
      /\ seen'.ready = seen.ready \ {IF c.op \in Reads THEN "read" ELSE "write"}
      /\ seen'.got = IF c.peek THEN seen.got ELSE seen.got \o d
      /\ seen'.peeked = IF c.peek THEN d
                        ELSE IF d # <<>> THEN <<>> ELSE seen.peeked
      /\ seen'.wrote = seen.wrote + IF c.op \notin Reads /\ rv > 0 THEN rv ELSE 0
      /\ c.op \in Reads => /\ seen'.reply.err = err
                           /\ seen'.reply.rv = 0 => rv = 0 \/ err = "again"
      /\ c.op \notin Reads => seen'.reply = NoReply
  BY ReturnGives DEF IInv, Types
<1>2. /\ call' \in Calls /\ call'.op = "none" /\ call'.at = "none"
      /\ ~call'.peek /\ call'.ready = {}
  BY <1>1, IdleIsCall
<1>3. Types'
  BY <1>1, <1>2 DEF IInv, Types
<1>4. Staged'
  BY <1>2 DEF Staged, Transfers, Reads, Writes, Stages
<1>5. ReadyUntilUsed'
  <2>1. \A x \in seen'.ready : Readiness(vxd', x) /\ x \in Events
    <3> TAKE x \in seen'.ready
    <3>1. x \in seen.ready /\ x # IF c.op \in Reads THEN "read" ELSE "write"
      BY <1>1
    <3>2. x \in Events
      BY <3>1 DEF IInv, Types, Histories
    <3>3. c.op \in Reads => c.op \notin Writes
      BY DEF Reads, Writes
    <3> QED BY <3>1, <3>2, <3>3 DEF Writes
  <2>2. \A x \in seen'.ready : Ready(x)'
    BY <2>1, ReadyIs
  <2> QED BY <1>2, <2>2 DEF ReadyUntilUsed
<1>6. ModeAsAsked'
  BY <1>1, <1>2 DEF ModeAsAsked, IInv, Inverted, Flips
<1>7. Reasons'
  BY <1>2 DEF Reasons
<1>8. Streams'
  <2>1. Held' = <<>>
    BY <1>2 DEF Held
  <2>2. Stream(seen'.got, <<>>, seen'.peeked, vxd'.rx, vxd'.reset, sent)
    BY <1>1 DEF After
  <2> QED BY <1>1, <2>1, <2>2 DEF Streams
<1>9. ReadsWait'
  <2>1. CASE c.op \in Reads
    BY <1>1, <2>1 DEF ReadsWait
  <2>2. CASE c.op \notin Reads
    BY <1>1, <2>2 DEF ReadsWait, NoReply
  <2> QED BY <2>1, <2>2
<1> QED BY <1>3, <1>4, <1>5, <1>6, <1>7, <1>8, <1>9 DEF IInv

\* The bytes after a call that gave nothing.
LEMMA AfterNothing ==
  ASSUME Types, Streams, Held = <<>>, NEW c
  PROVE  After(c, <<>>, vxd)
<1>1. seen.got \o <<>> = seen.got
  BY ConcatEmptySeq DEF Types, Histories
<1>2. Stream(seen.got, <<>>, <<>>, vxd.rx, vxd.reset, sent)
  <2>1. PICK g \in 0 .. sent, h \in 0 .. sent :
          /\ g <= h /\ seen.got = Bytes(0, g) /\ <<>> = Bytes(g, h)
          /\ ~vxd.reset => vxd.rx = Bytes(h, sent)
    BY DEF Streams, Stream
  <2>2. <<>> = Bytes(g, g)
    BY NoBytes DEF Types
  <2> QED BY <2>1, <2>2 DEF Stream, Types
<1> QED BY <1>1, <1>2 DEF After, Streams

LEMMA LengthsHold ==
  ASSUME NEW lens \in Lengths
  PROVE  Total(lens) \in Nat /\ Total(lens) > 0
<1>1. lens \in Seq(Nat) /\ \E i \in DOMAIN lens : lens[i] > 0
  BY IoAssumption
<1> QED BY <1>1, TotalHolds

\* A call that gives nothing, leaving all as it is.
LEMMA EmptyReturnKeeps ==
  ASSUME IInv, Held = <<>>, ~Inverted,
         NEW c \in Calls, c.op \in Transfers, c.lens \in Lengths,
         c.op \in Reads => call.op \notin Writes,
         c.op \in Writes => call.op \notin Reads,
         NEW rv \in {-1, 0}, NEW err \in Errors, Return(c, rv, err, <<>>),
         UNCHANGED <<lsd, vxd, SocketD, sent>>,
         c.op \in Reads => /\ err = "again" => ~seen.asked \/ seen.slipped
                           /\ rv = 0 /\ err # "again" => vxd.eof \/ ~lsd.inbound
  PROVE  IInv'
<1>1. Result(c, rv, err, <<>>)
  BY NothingIsBytes, LengthsHold DEF Result
<1>2. After(c, <<>>, vxd')
  BY AfterNothing DEF IInv
<1>3. vxd'.out = Bytes(0, seen.wrote + IF c.op \notin Reads /\ rv > 0
                                       THEN rv ELSE 0)
  <2>1. seen.wrote + 0 = seen.wrote /\ ~(rv > 0)
    BY DEF IInv, Types, Histories
  <2> QED BY <2>1 DEF IInv, Streams
<1>4. ASSUME NEW x \in seen.ready
      PROVE  \/ Readiness(vxd', x)
             \/ x = "read" /\ c.op \in Reads
             \/ x = "write" /\ c.op \in Writes
  <2>1. x \in Events
    BY DEF IInv, Types, Histories
  <2>2. \/ Readiness(vxd, x)
        \/ x = "read" /\ call.op \in Reads
        \/ x = "write" /\ call.op \in Writes
    BY <2>1, ReadyIs DEF IInv, ReadyUntilUsed
  <2> QED BY <2>2 DEF Transfers
<1>5. seen.asked /\ ~seen.slipped => lsd.blocking
  BY DEF IInv, ModeAsAsked
<1>6. /\ lsd' = lsd /\ sent' = sent /\ vxd' \in Devices
      /\ SocketD' \in Seq(Nat) /\ vxd'.nonblock = vxd.nonblock
  BY DEF IInv, Types
<1>7. c.op \in Reads => /\ err = "again" => ~seen.asked \/ seen.slipped
                        /\ rv = 0 /\ err # "again" => vxd'.eof \/ ~lsd.inbound
  OBVIOUS
<1> QED BY <1>1, <1>2, <1>3, <1>4, <1>5, <1>6, <1>7, ReturnKeeps

LEMMA FailsKeeps ==
  ASSUME IInv, NEW err \in {"again", "error"}, Fails(err),
         call.at \in {"vxd", "wait", "again"}, ~Flips(call.op),
         call.op \in Reads /\ err = "again" => ~seen.asked \/ seen.slipped
  PROVE  IInv'
<1>1. /\ call \in Calls /\ call.op \in Transfers /\ call.lens \in Lengths
      /\ Held = <<>> /\ ~Inverted
  BY DEF IInv, Types, Staged, Stages, Held, Inverted
<1>2. /\ call.op \in Reads => call.op \notin Writes
      /\ call.op \in Writes => call.op \notin Reads
  BY DEF Reads, Writes
<1>3. Return(call, -1, err, <<>>) /\ UNCHANGED <<lsd, vxd, SocketD, sent>>
  BY DEF Fails
<1>4. -1 \in {-1, 0} /\ err \in Errors
  BY DEF Errors
<1> QED BY <1>1, <1>2, <1>3, <1>4, EmptyReturnKeeps

\* The start of a call.
LEMMA StartedKeeps ==
  ASSUME IInv, call = Idle, NEW c \in Calls, Started(c),
         c.op # "none", c.op \in Transfers => c.lens \in Lengths, c.ready = {},
         c.at \in {"flip", "vxd", "read"},
         c.at = "read" <=> c.op = "ready",
         c.at = "flip" <=> Flips(c.op),
         c.peek => lsd.iface = "wsock"
  PROVE  IInv'
<1>1. /\ call' = c /\ lsd' = lsd /\ vxd' = vxd /\ SocketD' = SocketD
      /\ sent' = sent /\ seen' = seen
  BY DEF Started
<1>2. /\ call.op = "none" /\ call.at = "none" /\ c.op \in Transfers \cup {"ready"}
  BY IdleIsCall DEF Calls
<1>3. Types'
  BY <1>1 DEF IInv, Types
<1>4. Staged'
  BY <1>1, <1>2
     DEF IInv, Types, Staged, Stages, Transfers, Reads, Writes, Flips
<1>5. ReadyUntilUsed'
  <2>1. \A x \in seen.ready : Ready(x)
    BY <1>2 DEF IInv, ReadyUntilUsed, Reads, Writes
  <2>2. \A x \in seen.ready : Ready(x)'
    BY <1>1, <2>1, ReadyIs DEF IInv, Types, Histories
  <2> QED BY <1>1, <2>2 DEF ReadyUntilUsed
<1>6. ModeAsAsked'
  BY <1>1, <1>2 DEF IInv, ModeAsAsked, Inverted, Flips
<1>7. Reasons'
  BY <1>1 DEF Reasons
<1>8. Streams'
  BY <1>1, <1>2 DEF IInv, Streams, Held
<1>9. ReadsWait'
  BY <1>1 DEF IInv, ReadsWait
<1> QED BY <1>3, <1>4, <1>5, <1>6, <1>7, <1>8, <1>9 DEF IInv

LEMMA InitHolds == Init => IInv
<1> SUFFICES ASSUME Init PROVE IInv
  OBVIOUS
<1>1. Types
  <2>1. PICK k \in Sockets :
          lsd = [iface |-> k[1], version |-> k[2], blocking |-> TRUE,
                 inbound |-> TRUE, outbound |-> TRUE]
    BY DEF Init
  <2>2. k[1] \in {"wsock", "csock"} /\ k[2] \in Nat
    BY IoAssumption
  <2>3. lsd \in Descriptors
    BY <2>1, <2>2 DEF Descriptors
  <2>4. vxd \in Devices /\ SocketD \in Seq(Nat) /\ sent \in Nat
    BY NothingIsBytes DEF Init, Devices
  <2>5. call \in Calls
    BY IdleIsCall DEF Init
  <2>6. seen \in Histories
    BY NothingIsBytes DEF Init, Histories, NoReply, Errors
  <2> QED BY <2>3, <2>4, <2>5, <2>6 DEF Types
<1>2. call.op = "none" /\ call.at = "none" /\ ~call.peek /\ call.ready = {}
  BY IdleIsCall DEF Init
<1>3. Staged
  BY <1>2 DEF Staged, Transfers, Reads, Writes, Stages
<1>4. ReadyUntilUsed
  BY <1>2 DEF ReadyUntilUsed, Init
<1>5. ModeAsAsked
  <2>1. lsd.blocking = TRUE /\ vxd.nonblock = FALSE
    BY DEF Init
  <2>2. ~Inverted
    BY <1>2 DEF Inverted
  <2> QED BY <2>1, <2>2 DEF ModeAsAsked
<1>6. Reasons
  BY <1>2 DEF Reasons
<1>7. Streams
  <2>1. Bytes(0, 0) = <<>> /\ 0 \in 0 .. 0
    BY NoBytes
  <2>2. Stream(<<>>, <<>>, <<>>, <<>>, FALSE, 0)
    BY <2>1 DEF Stream
  <2> QED BY <1>2, <2>1, <2>2 DEF Streams, Held, Init
<1>8. ReadsWait
  BY DEF ReadsWait, Init, NoReply
<1> QED BY <1>1, <1>3, <1>4, <1>5, <1>6, <1>7, <1>8 DEF IInv

LEMMA NetworkKeeps ==
  ASSUME IInv, Network
  PROVE  IInv'
<1>1. /\ lsd' = lsd /\ SocketD' = SocketD /\ call' = call /\ seen' = seen
      /\ ~vxd.reset /\ vxd \in Devices /\ sent \in Nat
  BY DEF Network, IInv, Types
<1>2. /\ vxd' \in Devices /\ vxd'.nonblock = vxd.nonblock /\ vxd'.out = vxd.out
      /\ sent' \in Nat /\ (vxd.eof => vxd'.eof)
      /\ vxd'.rx = vxd.rx \/ vxd'.reset \/ vxd'.rx # <<>>
      /\ vxd'.tx <= vxd.tx
      /\ Stream(seen.got, Held, seen.peeked, vxd'.rx, vxd'.reset, sent')
  <2>1. CASE sent' = sent + 1 /\ vxd' = [vxd EXCEPT !.rx = Append(@, sent + 1)]
    <3>1. vxd.rx \in Seq(Nat) /\ sent + 1 \in Nat
      BY <1>1 DEF Devices
    <3>2. /\ Append(vxd.rx, sent + 1) \in Seq(Nat)
          /\ Append(vxd.rx, sent + 1) # <<>>
      BY <3>1, AppendProperties
    <3>3. Stream(seen.got, Held, seen.peeked, Append(vxd.rx, sent + 1), vxd.reset,
                 sent + 1)
      BY <1>1, StreamArrives DEF IInv, Streams
    <3>4. vxd'.rx = Append(vxd.rx, sent + 1) /\ vxd'.reset = vxd.reset
      BY <1>1, <2>1 DEF Devices
    <3>5. /\ vxd' \in Devices /\ vxd'.nonblock = vxd.nonblock
          /\ vxd'.out = vxd.out /\ vxd'.eof = vxd.eof /\ vxd'.tx = vxd.tx
          /\ vxd.tx \in Nat
      BY <1>1, <2>1, <3>2 DEF Devices
    <3> QED BY <2>1, <3>1, <3>2, <3>3, <3>4, <3>5
  <2>2. CASE vxd' = [vxd EXCEPT !.eof = TRUE] /\ sent' = sent
    <3>1. /\ vxd' \in Devices /\ vxd'.nonblock = vxd.nonblock
          /\ vxd'.out = vxd.out /\ vxd'.eof /\ vxd'.tx = vxd.tx
          /\ vxd.tx \in Nat /\ vxd'.rx = vxd.rx /\ vxd'.reset = vxd.reset
      BY <1>1, <2>2 DEF Devices
    <3> QED BY <1>1, <2>2, <3>1 DEF IInv, Streams
  <2>3. CASE vxd.tx > 0 /\ vxd' = [vxd EXCEPT !.tx = @ - 1] /\ sent' = sent
    <3>1. vxd.tx \in Nat /\ vxd.tx - 1 \in Nat
      BY <1>1, <2>3 DEF Devices
    <3>2. /\ vxd' \in Devices /\ vxd'.nonblock = vxd.nonblock
          /\ vxd'.out = vxd.out /\ vxd'.eof = vxd.eof /\ vxd'.tx = vxd.tx - 1
          /\ vxd'.rx = vxd.rx /\ vxd'.reset = vxd.reset
      BY <1>1, <2>3, <3>1 DEF Devices
    <3> QED BY <1>1, <2>3, <3>1, <3>2 DEF IInv, Streams
  <2>4. CASE vxd' = [vxd EXCEPT !.reset = TRUE, !.rx = <<>>] /\ sent' = sent
    <3>1. /\ vxd' \in Devices /\ vxd'.nonblock = vxd.nonblock
          /\ vxd'.out = vxd.out /\ vxd'.eof = vxd.eof /\ vxd'.tx = vxd.tx
          /\ vxd.tx \in Nat /\ vxd'.reset
      BY <1>1, <2>4, NothingIsBytes DEF Devices
    <3>2. Stream(seen.got, Held, seen.peeked, vxd'.rx, vxd'.reset, sent)
      <4>1. Stream(seen.got, Held, seen.peeked, vxd.rx, vxd.reset, sent)
        BY DEF IInv, Streams
      <4> QED BY <3>1, <4>1 DEF Stream
    <3>3. sent' = sent /\ sent' \in Nat
      BY <1>1, <2>4
    <3>4. Stream(seen.got, Held, seen.peeked, vxd'.rx, vxd'.reset, sent')
      BY <3>2, <3>3
    <3>5. vxd'.tx <= vxd.tx
      BY <3>1
    <3>6. vxd.eof => vxd'.eof
      BY <3>1
    <3> QED BY <3>1, <3>3, <3>4, <3>5, <3>6, Zenon
  <2> QED BY <2>1, <2>2, <2>3, <2>4 DEF Network
<1>3. Types'
  BY <1>1, <1>2 DEF IInv, Types
<1>4. Staged'
  BY <1>1 DEF IInv, Staged, Flips
<1>5. ReadyUntilUsed'
  <2>1. \A x \in Events : Readiness(vxd, x) => Readiness(vxd', x)
    <3>1. vxd.tx < ROOM => vxd'.tx < ROOM
      BY <1>1, <1>2, IoAssumption DEF Devices
    <3> QED BY <1>1, <1>2, <3>1 DEF Readiness
  <2>2. \A x \in Events : Ready(x) => Ready(x)'
    BY <2>1, ReadyIs
  <2>3. seen.ready \in SUBSET Events /\ call.ready \in SUBSET Events
    BY DEF IInv, Types, Histories, Calls
  <2> QED BY <1>1, <2>2, <2>3 DEF IInv, ReadyUntilUsed
<1>6. ModeAsAsked'
  BY <1>1, <1>2 DEF IInv, ModeAsAsked, Inverted, Flips
<1>7. Reasons'
  BY <1>1, <1>2 DEF IInv, Reasons, Arrived
<1>8. Streams'
  <2>1. Held' = Held
    BY <1>1 DEF Held
  <2> QED BY <1>1, <1>2, <2>1 DEF IInv, Streams
<1>9. ReadsWait'
  BY <1>1, <1>2 DEF IInv, ReadsWait
<1> QED BY <1>3, <1>4, <1>5, <1>6, <1>7, <1>8, <1>9 DEF IInv

LEMMA ReadKeeps ==
  ASSUME IInv, NEW op \in Reads, NEW lens \in Lengths, NEW peek \in BOOLEAN,
         Read(op, lens, peek)
  PROVE  IInv'
<1> DEFINE c == [Idle EXCEPT !.op = op, !.lens = lens, !.peek = peek,
                             !.at = IF Flips(op) THEN "flip" ELSE "vxd"]
<1>1. /\ call = Idle /\ call.op = "none" /\ call.at = "none"
      /\ peek => lsd.iface = "wsock"
  BY IdleIsCall DEF Read
<1>2. /\ c \in Calls /\ c.op = op /\ c.lens = lens /\ c.peek = peek
      /\ c.at = IF Flips(op) THEN "flip" ELSE "vxd"
      /\ c.ready = {}
  BY IdleIsCall DEF Calls, Transfers, Stages
<1>3. op \in Transfers /\ op \notin {"none", "ready"} /\ op \notin Writes
  BY DEF Transfers, Reads, Writes
<1>4. IF lsd.inbound THEN Started(c)
      ELSE Return(c, 0, "ok", <<>>) /\ UNCHANGED <<lsd, vxd, SocketD, sent>>
  BY DEF Read
<1> HIDE DEF c
<1>5. CASE lsd.inbound
  BY <1>1, <1>2, <1>3, <1>4, <1>5, StartedKeeps
<1>6. CASE ~lsd.inbound
  <2>1. Held = <<>> /\ ~Inverted /\ call.op \notin Reads \cup Writes
    BY <1>1 DEF Held, Inverted, Reads, Writes
  <2>2. 0 \in {-1, 0} /\ "ok" \in Errors /\ "ok" # "again"
    BY DEF Errors
  <2>3. Return(c, 0, "ok", <<>>) /\ UNCHANGED <<lsd, vxd, SocketD, sent>>
    BY <1>4, <1>6
  <2> QED BY <1>2, <1>3, <1>6, <2>1, <2>2, <2>3, EmptyReturnKeeps
<1> QED BY <1>5, <1>6

LEMMA WriteKeeps ==
  ASSUME IInv, NEW op \in Writes, NEW lens \in Lengths, Write(op, lens)
  PROVE  IInv'
<1> DEFINE c == [Idle EXCEPT !.op = op, !.lens = lens, !.at = "vxd"]
<1>1. call = Idle /\ call.op = "none" /\ call.at = "none"
  BY IdleIsCall DEF Write
<1>2. /\ c \in Calls /\ c.op = op /\ c.lens = lens /\ ~c.peek
      /\ c.at = "vxd" /\ c.ready = {}
  BY IdleIsCall DEF Calls, Transfers, Stages
<1>3. /\ op \in Transfers /\ op \notin {"none", "ready"} /\ op \notin Reads
      /\ ~Flips(op)
  BY DEF Transfers, Reads, Writes, Flips
<1>4. IF lsd.outbound THEN Started(c)
      ELSE Return(c, -1, "error", <<>>) /\ UNCHANGED <<lsd, vxd, SocketD, sent>>
  BY DEF Write
<1> HIDE DEF c
<1>5. CASE lsd.outbound
  BY <1>1, <1>2, <1>3, <1>4, <1>5, StartedKeeps
<1>6. CASE ~lsd.outbound
  <2>1. Held = <<>> /\ ~Inverted /\ call.op \notin Reads \cup Writes
    BY <1>1 DEF Held, Inverted, Reads, Writes
  <2>2. -1 \in {-1, 0} /\ "error" \in Errors
    BY DEF Errors
  <2>3. Return(c, -1, "error", <<>>) /\ UNCHANGED <<lsd, vxd, SocketD, sent>>
    BY <1>4, <1>6
  <2> QED BY <1>2, <1>3, <2>1, <2>2, <2>3, EmptyReturnKeeps
<1> QED BY <1>5, <1>6

LEMMA RestType ==
  ASSUME NEW s \in Seq(Nat), NEW n \in Nat
  PROVE  SubSeq(s, n + 1, Len(s)) \in Seq(Nat)
<1> DEFINE m == n + 1
           l == Len(s)
<1>1. m \in Nat /\ l \in Nat /\ m >= 1
  OBVIOUS
<1>2. \A i \in m .. l : s[i] \in Nat
  OBVIOUS
<1> HIDE DEF m, l
<1>3. SubSeq(s, m, l) \in Seq(Nat)
  BY <1>1, <1>2, SubSeqProperties
<1> QED BY <1>3 DEF m, l

\* The VxD gives up to m bytes.
LEMMA ConsumedGives ==
  ASSUME IInv, ~vxd.reset, Held = <<>>,
         NEW m \in Nat, NEW d, d = First(m, vxd.rx), vxd' = Consumed(d)
  PROVE  /\ vxd' \in Devices /\ vxd'.nonblock = vxd.nonblock
         /\ vxd'.eof = vxd.eof /\ vxd'.reset = vxd.reset /\ vxd'.tx = vxd.tx
         /\ vxd'.out = vxd.out
         /\ After(call, d, vxd')
         /\ ~call.peek =>
              Stream(seen.got, d, seen.peeked, vxd'.rx, vxd'.reset, sent)
         /\ IsBytes(d) /\ d \in Seq(Nat)
         /\ Len(d) = IF m < Len(vxd.rx) THEN m ELSE Len(vxd.rx)
<1> DEFINE rest == SubSeq(vxd.rx, Len(d) + 1, Len(vxd.rx))
<1>1. vxd \in Devices /\ vxd.rx \in Seq(Nat) /\ sent \in Nat
  BY DEF IInv, Types, Devices
<1>2. /\ d \in Seq(Nat)
      /\ Len(d) = IF m < Len(vxd.rx) THEN m ELSE Len(vxd.rx)
  BY <1>1, FirstType
<1>3. rest \in Seq(Nat)
  <2> DEFINE k == Len(d)
  <2>1. k \in Nat
    BY <1>2
  <2> HIDE DEF k
  <2>2. SubSeq(vxd.rx, k + 1, Len(vxd.rx)) \in Seq(Nat)
    BY <1>1, <2>1, RestType
  <2> QED BY <2>2 DEF k
<1>4. Stream(seen.got, <<>>, seen.peeked, vxd.rx, vxd.reset, sent)
  BY DEF IInv, Streams
<1>5. /\ Stream(seen.got, d, seen.peeked, rest, vxd.reset, sent)
      /\ Stream(seen.got, <<>>, d, vxd.rx, vxd.reset, sent)
      /\ IsBytes(d)
  <2>1. Leads(d, m, vxd.rx) /\ rest = Behind(d, vxd.rx)
    BY DEF Leads, Behind
  <2> HIDE DEF rest
  <2> QED BY <1>1, <1>4, <2>1, StreamHolds
<1>6. Stream(seen.got \o d, <<>>, IF d # <<>> THEN <<>> ELSE seen.peeked,
             rest, vxd.reset, sent)
  BY <1>1, <1>5, StreamGives
<1>7. vxd' = IF call.peek THEN vxd ELSE [vxd EXCEPT !.rx = rest]
  BY DEF Consumed
<1> HIDE DEF rest
<1>8. /\ vxd' \in Devices /\ vxd'.nonblock = vxd.nonblock
      /\ vxd'.eof = vxd.eof /\ vxd'.reset = vxd.reset /\ vxd'.tx = vxd.tx
      /\ vxd'.out = vxd.out
      /\ vxd'.rx = IF call.peek THEN vxd.rx ELSE rest
  BY <1>1, <1>3, <1>7 DEF Devices
<1>9. After(call, d, vxd')
  BY <1>5, <1>6, <1>8 DEF After
<1> QED BY <1>2, <1>5, <1>8, <1>9

\* What the VxD gives less, the program has, and nothing else changes.
LEMMA StillReady ==
  ASSUME IInv, vxd'.eof = vxd.eof, vxd'.reset = vxd.reset,
         vxd'.tx = vxd.tx \/ call.op \in Writes,
         vxd'.rx = vxd.rx \/ call.op \in Reads
  PROVE  \A x \in seen.ready :
            \/ Readiness(vxd', x)
            \/ x = "read" /\ call.op \in Reads
            \/ x = "write" /\ call.op \in Writes
<1> TAKE x \in seen.ready
<1>1. x \in Events
  BY DEF IInv, Types, Histories
<1>2. \/ Readiness(vxd, x)
      \/ x = "read" /\ call.op \in Reads
      \/ x = "write" /\ call.op \in Writes
  BY <1>1, ReadyIs DEF IInv, ReadyUntilUsed
<1>3. CASE Readiness(vxd, x)
  BY <1>3 DEF Readiness
<1> QED BY <1>2, <1>3

LEMMA WsockRecvKeeps ==
  ASSUME IInv, WsockRecv
  PROVE  IInv'
<1>1. /\ call.at \in {"vxd", "again"} /\ call.op \in Reads /\ lsd.iface = "wsock"
      /\ call \in Calls /\ call.op \in Transfers /\ call.lens \in Lengths
      /\ ~Flips(call.op) /\ ~Inverted /\ Held = <<>> /\ vxd.rx \in Seq(Nat)
  BY DEF WsockRecv, IInv, Types, Staged, Stages, Flips, Inverted, Held, Devices
<1>2. seen.asked /\ ~seen.slipped => lsd.blocking
  BY <1>1 DEF IInv, ModeAsAsked
<1>3. CASE WsockReceives
  <2> DEFINE total == Total(call.lens)
             m == IF BUFFER < total THEN BUFFER ELSE total
             d == First(BUFFER, First(total, vxd.rx))
             rest == SubSeq(SocketD, Len(d) + 1, Len(SocketD))
  <2>1. m \in Nat /\ m > 0 /\ m <= total /\ BUFFER \in Nat /\ total \in Nat
    BY <1>1, LengthsHold, IoAssumption
  <2>2. d = First(m, vxd.rx)
    <3> HIDE DEF total
    <3> QED BY <1>1, <2>1, FirstOfFirst
  <2>3. /\ SocketD' = d \o rest /\ vxd' = Consumed(d)
        /\ Return(call, Len(d), "ok", First(Len(d), SocketD'))
        /\ lsd' = lsd /\ sent' = sent /\ Arrived /\ ~vxd.reset
    BY <1>3 DEF WsockReceives
  <2> HIDE DEF d, m, total
  <2>4. /\ vxd' \in Devices /\ vxd'.nonblock = vxd.nonblock
        /\ vxd'.eof = vxd.eof /\ vxd'.reset = vxd.reset /\ vxd'.tx = vxd.tx
        /\ vxd'.out = vxd.out
        /\ After(call, d, vxd')
        /\ IsBytes(d) /\ d \in Seq(Nat)
        /\ Len(d) = IF m < Len(vxd.rx) THEN m ELSE Len(vxd.rx)
    BY <1>1, <2>1, <2>2, <2>3, ConsumedGives
  <2>5. rest \in Seq(Nat)
    <3> DEFINE k == Len(d)
    <3>1. k \in Nat /\ SocketD \in Seq(Nat)
      BY <2>4 DEF IInv, Types
    <3> HIDE DEF k
    <3>2. SubSeq(SocketD, k + 1, Len(SocketD)) \in Seq(Nat)
      BY <3>1, RestType
    <3> QED BY <3>2 DEF k
  <2> HIDE DEF rest
  <2>6. SocketD' \in Seq(Nat) /\ First(Len(d), SocketD') = d
    BY <2>3, <2>4, <2>5, CopiedBack, ConcatProperties
  <2>7. Len(d) \in Int /\ Len(d) <= total
    BY <1>1, <2>1, <2>4
  <2>8. Result(call, Len(d), "ok", d)
    BY <1>1, <2>4, <2>7 DEF Result, Errors, total
  <2>9. vxd'.out = Bytes(0, seen.wrote + IF call.op \notin Reads /\ Len(d) > 0
                                         THEN Len(d) ELSE 0)
    <3>1. seen.wrote + 0 = seen.wrote
      BY DEF IInv, Types, Histories
    <3> QED BY <1>1, <2>4, <3>1 DEF IInv, Streams
  <2>10. \A x \in seen.ready :
            \/ Readiness(vxd', x)
            \/ x = "read" /\ call.op \in Reads
            \/ x = "write" /\ call.op \in Writes
    BY <1>1, <2>4, StillReady
  <2>11. Len(d) = 0 => vxd'.eof
    <3>1. Len(d) = 0 => Len(vxd.rx) = 0
      BY <1>1, <2>1, <2>4
    <3>2. Len(vxd.rx) = 0 => vxd.rx = <<>>
      BY <1>1, EmptySeq
    <3> QED BY <2>3, <2>4, <3>1, <3>2 DEF Arrived
  <2>12. Return(call, Len(d), "ok", d)
    BY <2>3, <2>6
  <2> DEFINE n == Len(d)
  <2> HIDE DEF n
  <2> QED BY <1>2, <2>3, <2>4, <2>6, <2>8, <2>9, <2>10, <2>11, <2>12, ReturnKeeps
<1>4. CASE vxd.reset /\ Fails("error")
  BY <1>1, <1>4, FailsKeeps
<1>5. CASE /\ ~Arrived /\ ~vxd.reset
           /\ call.at = "again" \/ ~lsd.blocking
           /\ Fails("again")
  <2>1. call.at # "again"
    BY <1>5 DEF IInv, Reasons
  <2>2. ~seen.asked \/ seen.slipped
    BY <1>2, <1>5, <2>1 DEF IInv, Types, Histories
  <2> QED BY <1>1, <1>5, <2>2, FailsKeeps
<1>6. CASE /\ call.at = "vxd"
           /\ call' = [call EXCEPT !.at = "wait"]
           /\ UNCHANGED <<lsd, vxd, SocketD, sent, seen>>
  <2>1. /\ call' \in Calls /\ call'.at = "wait" /\ call'.op = call.op
        /\ call'.lens = call.lens /\ call'.peek = call.peek
        /\ call'.ready = call.ready
    BY <1>1, <1>6 DEF Calls, Stages
  <2>2. lsd' = lsd /\ vxd' = vxd /\ sent' = sent /\ seen' = seen
    BY <1>6
  <2>3. SocketD' \in Seq(Nat)
    BY <1>6 DEF IInv, Types
  <2>4. Types'
    BY <2>1, <2>2, <2>3 DEF IInv, Types
  <2>5. Staged'
    BY <1>1, <2>1, <2>2 DEF IInv, Staged, Stages, Flips
  <2>6. ReadyUntilUsed'
    BY <2>1, <2>2, ReadyIs DEF IInv, ReadyUntilUsed, Types, Histories, Calls
  <2>7. ModeAsAsked'
    BY <1>1, <2>1, <2>2 DEF IInv, ModeAsAsked, Inverted, Flips
  <2>8. Reasons'
    BY <2>1 DEF Reasons
  <2>9. Streams'
    BY <1>1, <2>1, <2>2 DEF IInv, Streams, Held
  <2>10. ReadsWait'
    BY <2>2 DEF IInv, ReadsWait
  <2> QED BY <2>4, <2>5, <2>6, <2>7, <2>8, <2>9, <2>10 DEF IInv
<1> QED BY <1>3, <1>4, <1>5, <1>6 DEF WsockRecv, Started

LEMMA WsockWaitKeeps ==
  ASSUME IInv, WsockWait
  PROVE  IInv'
<1>1. /\ call.at = "wait" /\ call.op \in Reads /\ lsd.iface = "wsock"
      /\ call \in Calls /\ ~Flips(call.op)
  BY DEF WsockWait, IInv, Types, Staged, Flips
<1>2. CASE Fails("error")
  BY <1>1, <1>2, FailsKeeps
<1>3. CASE /\ Arrived \/ vxd.reset
           /\ call' = [call EXCEPT !.at = "again"]
           /\ UNCHANGED <<lsd, vxd, SocketD, sent, seen>>
  <2>1. /\ call' \in Calls /\ call'.at = "again" /\ call'.op = call.op
        /\ call'.lens = call.lens /\ call'.peek = call.peek
        /\ call'.ready = call.ready
    BY <1>1, <1>3 DEF Calls, Stages
  <2>2. /\ lsd' = lsd /\ vxd' = vxd /\ sent' = sent /\ seen' = seen
        /\ SocketD' = SocketD
    BY <1>3
  <2>3. Types'
    BY <2>1, <2>2 DEF IInv, Types
  <2>4. Staged'
    BY <1>1, <2>1, <2>2 DEF IInv, Staged, Stages, Flips
  <2>5. ReadyUntilUsed'
    BY <2>1, <2>2, ReadyIs DEF IInv, ReadyUntilUsed, Types, Histories, Calls
  <2>6. ModeAsAsked'
    BY <1>1, <2>1, <2>2 DEF IInv, ModeAsAsked, Inverted, Flips
  <2>7. Reasons'
    BY <1>3, <2>1, <2>2 DEF Reasons, Arrived
  <2>8. Streams'
    BY <1>1, <2>1, <2>2 DEF IInv, Streams, Held
  <2>9. ReadsWait'
    BY <2>2 DEF IInv, ReadsWait
  <2> QED BY <2>3, <2>4, <2>5, <2>6, <2>7, <2>8, <2>9 DEF IInv
<1> QED BY <1>2, <1>3 DEF WsockWait

\* SOCK.VXD answers.  recvfrom() holds the answer until the mode is restored.
LEMMA CsockResultKeeps ==
  ASSUME IInv, call.at = "vxd", call.op \in Reads, lsd.iface = "csock",
         UNCHANGED <<lsd, SocketD, sent>>,
         vxd' \in Devices, vxd'.nonblock = vxd.nonblock, vxd'.eof = vxd.eof,
         vxd'.reset = vxd.reset, vxd'.tx = vxd.tx, vxd'.out = vxd.out,
         NEW rv \in Int, NEW err \in Errors, NEW d,
         Result(call, rv, err, d), CsockResult(rv, err, d),
         Stream(seen.got, d, seen.peeked, vxd'.rx, vxd'.reset, sent),
         err = "again" => ~Waits,
         rv = 0 /\ err # "again" => vxd.eof
  PROVE  IInv'
<1>1. /\ call \in Calls /\ call.op \in Transfers /\ call.lens \in Lengths
      /\ ~call.peek /\ call.ready = {} /\ lsd \in Descriptors
      /\ lsd.blocking = ~vxd.nonblock
  BY DEF IInv, Types, Staged, Transfers, ModeAsAsked
<1>2. err = "again" => ~seen.asked \/ seen.slipped
  <2>1. CASE Flips(call.op)
    BY <1>1, <2>1 DEF Waits, IInv, ModeAsAsked, Inverted, Types, Histories, Devices
  <2>2. CASE ~Flips(call.op)
    BY <1>1, <2>2 DEF Waits, IInv, ModeAsAsked, Inverted, Types, Histories, Devices
  <2> QED BY <2>1, <2>2
<1>3. \A x \in seen.ready :
        \/ Readiness(vxd', x)
        \/ x = "read" /\ call.op \in Reads
        \/ x = "write" /\ call.op \in Writes
  BY StillReady
<1>4. CASE Flips(call.op)
  <2>1. /\ call' = [call EXCEPT !.at = "restore", !.rv = rv, !.err = err,
                                !.data = d]
        /\ seen' = seen
    BY <1>4 DEF CsockResult
  <2>2. /\ call' \in Calls /\ call'.at = "restore" /\ call'.op = call.op
        /\ call'.lens = call.lens /\ call'.peek = call.peek
        /\ call'.ready = call.ready /\ call'.flag = call.flag
        /\ call'.rv = rv /\ call'.err = err /\ call'.data = d
    BY <1>1, <2>1 DEF Calls, Stages, Result
  <2>3. lsd' = lsd /\ sent' = sent /\ seen' = seen /\ SocketD' = SocketD
    BY <2>1
  <2>4. Types'
    BY <2>2, <2>3 DEF IInv, Types
  <2>5. Staged'
    BY <1>1, <1>4, <2>2, <2>3 DEF IInv, Staged, Stages, Flips
  <2>6. ReadyUntilUsed'
    <3>1. \A x \in seen.ready : x \in Events
      BY DEF IInv, Types, Histories
    <3>2. \A x \in seen.ready :
            \/ Ready(x)'
            \/ x = "read" /\ call.op \in Reads
            \/ x = "write" /\ call.op \in Writes
      BY <1>3, <3>1, ReadyIs
    <3> QED BY <1>1, <2>2, <2>3, <3>2 DEF ReadyUntilUsed
  <2>7. ModeAsAsked'
    BY <1>4, <2>2, <2>3 DEF IInv, ModeAsAsked, Inverted, Flips
  <2>8. Reasons'
    BY <1>2, <2>2, <2>3 DEF Reasons
  <2>9. Streams'
    BY <2>2, <2>3 DEF IInv, Streams, Held
  <2>10. ReadsWait'
    BY <2>3 DEF IInv, ReadsWait
  <2> QED BY <2>4, <2>5, <2>6, <2>7, <2>8, <2>9, <2>10 DEF IInv
<1>5. CASE ~Flips(call.op)
  <2>1. Return(call, rv, err, d)
    BY <1>5 DEF CsockResult
  <2>2. Stream(seen.got \o d, <<>>, IF d # <<>> THEN <<>> ELSE seen.peeked,
               vxd'.rx, vxd'.reset, sent)
    BY StreamGives DEF IInv, Types
  <2>3. After(call, d, vxd')
    BY <1>1, <2>2 DEF After
  <2>4. vxd'.out = Bytes(0, seen.wrote + IF call.op \notin Reads /\ rv > 0
                                         THEN rv ELSE 0)
    <3>1. seen.wrote + 0 = seen.wrote
      BY DEF IInv, Types, Histories
    <3> QED BY <3>1 DEF IInv, Streams
  <2>5. seen.asked /\ ~seen.slipped => lsd.blocking
    BY <1>5 DEF IInv, ModeAsAsked, Inverted
  <2>6. lsd' = lsd /\ sent' = sent /\ SocketD' \in Seq(Nat)
    BY DEF IInv, Types
  <2>7. call.op \in Reads => /\ err = "again" => ~seen.asked \/ seen.slipped
                             /\ rv = 0 /\ err # "again" => vxd'.eof \/ ~lsd.inbound
    BY <1>2
  <2> QED BY <1>3, <2>1, <2>3, <2>4, <2>5, <2>6, <2>7, ReturnKeeps
<1> QED BY <1>4, <1>5

LEMMA CsockRecvKeeps ==
  ASSUME IInv, CsockRecv
  PROVE  IInv'
<1>1. /\ call.at = "vxd" /\ call.op \in Reads /\ lsd.iface = "csock"
      /\ lsd' = lsd /\ SocketD' = SocketD /\ sent' = sent
  BY DEF CsockRecv
<1>2. /\ call \in Calls /\ call.op \in Transfers /\ call.lens \in Lengths
      /\ ~call.peek /\ Held = <<>> /\ vxd \in Devices /\ vxd.rx \in Seq(Nat)
  BY <1>1 DEF IInv, Types, Staged, Transfers, Held, Devices
<1> DEFINE m == Total(call.lens)
           d == First(m, vxd.rx)
<1>3. CASE /\ Arrived /\ ~vxd.reset
           /\ vxd' = Consumed(d) /\ CsockResult(Len(d), "ok", d)
  <2>1. m \in Nat /\ m > 0
    BY <1>2, LengthsHold
  <2>2. vxd' = Consumed(d) /\ CsockResult(Len(d), "ok", d) /\ d = First(m, vxd.rx)
    BY <1>3
  <2> HIDE DEF d, m
  <2>3. /\ vxd' \in Devices /\ vxd'.nonblock = vxd.nonblock
        /\ vxd'.eof = vxd.eof /\ vxd'.reset = vxd.reset /\ vxd'.tx = vxd.tx
        /\ vxd'.out = vxd.out
        /\ Stream(seen.got, d, seen.peeked, vxd'.rx, vxd'.reset, sent)
        /\ IsBytes(d) /\ d \in Seq(Nat)
        /\ Len(d) = IF m < Len(vxd.rx) THEN m ELSE Len(vxd.rx)
    BY <1>2, <1>3, <2>1, <2>2, ConsumedGives
  <2>4. Len(d) \in Int /\ Len(d) <= m
    BY <1>2, <2>1, <2>3
  <2>5. Result(call, Len(d), "ok", d)
    BY <1>2, <2>3, <2>4 DEF Result, Errors, m
  <2>6. Len(d) = 0 => vxd.eof
    <3>1. Len(d) = 0 => Len(vxd.rx) = 0
      BY <1>2, <2>1, <2>3
    <3>2. Len(vxd.rx) = 0 => vxd.rx = <<>>
      BY <1>2, EmptySeq
    <3> QED BY <1>3, <3>1, <3>2 DEF Arrived
  <2>7. "ok" \in Errors /\ "ok" # "again"
    BY DEF Errors
  <2> QED BY <1>1, <2>2, <2>3, <2>4, <2>5, <2>6, <2>7, CsockResultKeeps
<1>4. ASSUME NEW err \in {"error", "again"}, CsockResult(-1, err, <<>>), vxd' = vxd,
             err = "again" => ~Waits
      PROVE  IInv'
  <2>1. Result(call, -1, err, <<>>) /\ err \in Errors /\ -1 \in Int
    BY <1>2, NothingIsBytes, LengthsHold DEF Result, Errors
  <2>2. Stream(seen.got, <<>>, seen.peeked, vxd'.rx, vxd'.reset, sent)
    BY <1>2, <1>4 DEF IInv, Streams
  <2>3. /\ vxd' \in Devices /\ vxd'.nonblock = vxd.nonblock
        /\ vxd'.eof = vxd.eof /\ vxd'.reset = vxd.reset /\ vxd'.tx = vxd.tx
        /\ vxd'.out = vxd.out
    BY <1>2, <1>4
  <2> QED BY <1>1, <1>4, <2>1, <2>2, <2>3, CsockResultKeeps
<1>5. CASE vxd.reset /\ CsockResult(-1, "error", <<>>) /\ vxd' = vxd
  BY <1>4, <1>5
<1>6. CASE ~Waits /\ CsockResult(-1, "again", <<>>) /\ vxd' = vxd
  BY <1>4, <1>6
<1> QED BY <1>3, <1>5, <1>6 DEF CsockRecv

\* A switch of the mode, by the program or within recvfrom().
LEMMA ModeSet ==
  ASSUME Types, NEW param \in 0 .. 2, FionbioOk(param)
  PROVE  /\ vxd' \in Devices /\ vxd'.rx = vxd.rx /\ vxd'.eof = vxd.eof
         /\ vxd'.reset = vxd.reset /\ vxd'.tx = vxd.tx /\ vxd'.out = vxd.out
         /\ vxd'.nonblock = Nonblocking(param)
         /\ lsd' \in Descriptors /\ lsd'.iface = lsd.iface
         /\ lsd'.version = lsd.version /\ lsd'.inbound = lsd.inbound
         /\ lsd'.outbound = lsd.outbound
         /\ lsd'.blocking = ~Nonblocking(param)
         /\ param = 0 => lsd'.blocking
         /\ param = 1 => ~lsd'.blocking
<1> DEFINE b == Nonblocking(param)
<1>1. b \in BOOLEAN /\ (param = 0 => ~b) /\ (param = 1 => b)
  <2>1. CASE lsd.iface = "csock"
    BY <2>1 DEF Nonblocking
  <2>2. CASE lsd.iface # "csock"
    BY <2>2 DEF Nonblocking
  <2> QED BY <2>1, <2>2
<1>2. vxd' = [vxd EXCEPT !.nonblock = b] /\ lsd' = [lsd EXCEPT !.blocking = ~b]
  BY DEF FionbioOk
<1> HIDE DEF b
<1>3. /\ vxd' \in Devices /\ vxd'.rx = vxd.rx /\ vxd'.eof = vxd.eof
      /\ vxd'.reset = vxd.reset /\ vxd'.tx = vxd.tx /\ vxd'.out = vxd.out
      /\ vxd'.nonblock = b
  BY <1>1, <1>2 DEF Types, Devices
<1>4. /\ lsd' \in Descriptors /\ lsd'.iface = lsd.iface
      /\ lsd'.version = lsd.version /\ lsd'.inbound = lsd.inbound
      /\ lsd'.outbound = lsd.outbound /\ lsd'.blocking = ~b
  BY <1>1, <1>2 DEF Types, Descriptors
<1> QED BY <1>1, <1>3, <1>4 DEF b

\* What does not depend on the mode stays.
LEMMA ReadyWhateverMode ==
  ASSUME IInv, vxd'.rx = vxd.rx, vxd'.eof = vxd.eof, vxd'.reset = vxd.reset,
         vxd'.tx = vxd.tx, seen'.ready = seen.ready, call'.op = call.op,
         call'.ready = call.ready
  PROVE  ReadyUntilUsed'
<1>1. \A x \in Events : Ready(x) => Ready(x)'
  BY ReadyIs DEF Readiness
<1>2. seen.ready \in SUBSET Events /\ call.ready \in SUBSET Events
  BY DEF IInv, Types, Histories, Calls
<1> QED BY <1>1, <1>2 DEF IInv, ReadyUntilUsed

LEMMA FionbioKeeps ==
  ASSUME IInv, NEW param \in 0 .. 2, Fionbio(param)
  PROVE  IInv'
<1>1. /\ call' = call /\ SocketD' = SocketD /\ sent' = sent
      /\ call.op = "none" /\ call.at = "none" /\ seen \in Histories
  BY IdleIsCall DEF Fionbio, IInv, Types
<1>2. CASE UNCHANGED <<lsd, vxd, seen>>
  <2>1. lsd' = lsd /\ vxd' = vxd /\ seen' = seen
    BY <1>2
  <2>2. ReadyUntilUsed'
    BY <1>1, <2>1, ReadyWhateverMode
  <2> QED BY <1>1, <2>1, <2>2
          DEF IInv, Types, Staged, ModeAsAsked, Reasons, Streams, ReadsWait, Flips,
              Inverted, Arrived, Held
<1>3. CASE /\ FionbioOk(param)
           /\ seen' = [seen EXCEPT !.asked = (param = 0), !.slipped = FALSE,
                                   !.reply = NoReply]
  <2>1. /\ vxd' \in Devices /\ vxd'.rx = vxd.rx /\ vxd'.eof = vxd.eof
        /\ vxd'.reset = vxd.reset /\ vxd'.tx = vxd.tx /\ vxd'.out = vxd.out
        /\ vxd'.nonblock = Nonblocking(param)
        /\ lsd' \in Descriptors /\ lsd'.iface = lsd.iface
        /\ lsd'.version = lsd.version /\ lsd'.inbound = lsd.inbound
        /\ lsd'.blocking = ~Nonblocking(param)
        /\ param = 0 => lsd'.blocking
    BY <1>3, ModeSet DEF IInv
  <2>2. /\ seen' \in Histories /\ seen'.asked = (param = 0) /\ ~seen'.slipped
        /\ seen'.reply = NoReply /\ seen'.got = seen.got
        /\ seen'.peeked = seen.peeked /\ seen'.wrote = seen.wrote
        /\ seen'.ready = seen.ready
    <3> DEFINE asked == (param = 0)
    <3>1. /\ asked \in BOOLEAN /\ NoReply \in [rv : Int, err : Errors]
          /\ seen' = [seen EXCEPT !.asked = asked, !.slipped = FALSE,
                                  !.reply = NoReply]
      BY <1>3 DEF NoReply, Errors
    <3> HIDE DEF asked
    <3>2. /\ seen' \in Histories /\ seen'.asked = asked /\ ~seen'.slipped
          /\ seen'.reply = NoReply /\ seen'.got = seen.got
          /\ seen'.peeked = seen.peeked /\ seen'.wrote = seen.wrote
          /\ seen'.ready = seen.ready
      BY <1>1, <3>1 DEF Histories
    <3> QED BY <3>2 DEF asked
  <2>3. Types'
    BY <1>1, <2>1, <2>2 DEF IInv, Types
  <2>4. Staged'
    BY <1>1, <2>1 DEF IInv, Staged, Flips
  <2>5. ReadyUntilUsed'
    BY <1>1, <2>1, <2>2, ReadyWhateverMode
  <2>6. ModeAsAsked'
    <3>1. ~Inverted'
      BY <1>1 DEF Inverted
    <3>2. lsd'.blocking = ~vxd'.nonblock
      BY <2>1
    <3> QED BY <2>1, <2>2, <3>1, <3>2 DEF ModeAsAsked
  <2>7. Reasons'
    BY <1>1 DEF Reasons
  <2>8. Streams'
    BY <1>1, <2>1, <2>2 DEF IInv, Streams, Held
  <2>9. ReadsWait'
    BY <2>2 DEF ReadsWait, NoReply
  <2> QED BY <2>3, <2>4, <2>5, <2>6, <2>7, <2>8, <2>9 DEF IInv
<1> QED BY <1>2, <1>3 DEF Fionbio

LEMMA SetflKeeps ==
  ASSUME IInv, NEW nonblock \in BOOLEAN, Setfl(nonblock)
  PROVE  IInv'
<1>1. SetflParam(nonblock) \in 0 .. 2
  BY DEF SetflParam
<1> QED BY <1>1, FionbioKeeps DEF Setfl

\* A switch within recvfrom(), which may fail.
LEMMA Switched ==
  ASSUME IInv, NEW flag \in BOOLEAN, Switch(flag)
  PROVE  /\ vxd' \in Devices /\ vxd'.rx = vxd.rx /\ vxd'.eof = vxd.eof
         /\ vxd'.reset = vxd.reset /\ vxd'.tx = vxd.tx /\ vxd'.out = vxd.out
         /\ lsd' \in Descriptors /\ lsd'.iface = lsd.iface
         /\ lsd'.version = lsd.version /\ lsd'.inbound = lsd.inbound
         /\ lsd'.blocking = ~vxd'.nonblock
         /\ seen' \in Histories /\ seen'.asked = seen.asked
         /\ seen'.reply = seen.reply /\ seen'.got = seen.got
         /\ seen'.peeked = seen.peeked /\ seen'.wrote = seen.wrote
         /\ seen'.ready = seen.ready
         /\ seen.slipped => seen'.slipped
         /\ ~seen'.slipped => lsd'.blocking = ~flag
<1>1. vxd \in Devices /\ lsd \in Descriptors /\ seen \in Histories
  BY DEF IInv, Types
<1>2. CASE FionbioOk(IF flag THEN 1 ELSE 0) /\ seen' = seen
  <2> DEFINE param == IF flag THEN 1 ELSE 0
  <2>1. param \in 0 .. 2 /\ FionbioOk(param) /\ (flag => param = 1) /\ (~flag => param = 0)
    BY <1>2
  <2> HIDE DEF param
  <2>2. /\ vxd' \in Devices /\ vxd'.rx = vxd.rx /\ vxd'.eof = vxd.eof
        /\ vxd'.reset = vxd.reset /\ vxd'.tx = vxd.tx /\ vxd'.out = vxd.out
        /\ vxd'.nonblock = Nonblocking(param)
        /\ lsd' \in Descriptors /\ lsd'.iface = lsd.iface
        /\ lsd'.version = lsd.version /\ lsd'.inbound = lsd.inbound
        /\ lsd'.blocking = ~Nonblocking(param)
        /\ param = 0 => lsd'.blocking
        /\ param = 1 => ~lsd'.blocking
    BY <2>1, ModeSet DEF IInv
  <2>3. lsd'.blocking = ~vxd'.nonblock
    BY <2>2
  <2>4. lsd'.blocking = ~flag
    BY <2>1, <2>2 DEF Descriptors
  <2> QED BY <1>1, <1>2, <2>2, <2>3, <2>4
<1>3. CASE seen' = [seen EXCEPT !.slipped = TRUE] /\ UNCHANGED <<lsd, vxd>>
  <2>1. /\ seen' \in Histories /\ seen'.asked = seen.asked
        /\ seen'.reply = seen.reply /\ seen'.got = seen.got
        /\ seen'.peeked = seen.peeked /\ seen'.wrote = seen.wrote
        /\ seen'.ready = seen.ready /\ seen'.slipped
    BY <1>1, <1>3 DEF Histories
  <2>2. lsd' = lsd /\ vxd' = vxd /\ lsd.blocking = ~vxd.nonblock
    BY <1>3 DEF IInv, ModeAsAsked
  <2> QED BY <1>1, <2>1, <2>2
<1> QED BY <1>2, <1>3 DEF Switch

LEMMA CsockFlipKeeps ==
  ASSUME IInv, CsockFlip
  PROVE  IInv'
<1>1. /\ call.at = "flip" /\ Flips(call.op) /\ call \in Calls
      /\ call.op = "recvfrom" /\ lsd.blocking \in BOOLEAN
      /\ SocketD' = SocketD /\ sent' = sent /\ Switch(lsd.blocking)
      /\ call' = [call EXCEPT !.at = "vxd", !.flag = lsd.blocking]
  BY DEF CsockFlip, IInv, Types, Staged, Flips, Descriptors
<1>2. /\ call' \in Calls /\ call'.at = "vxd" /\ call'.op = call.op
      /\ call'.lens = call.lens /\ call'.peek = call.peek
      /\ call'.ready = call.ready /\ call'.flag = lsd.blocking
  BY <1>1 DEF Calls, Stages
<1> DEFINE flag == lsd.blocking
<1>3. /\ vxd' \in Devices /\ vxd'.rx = vxd.rx /\ vxd'.eof = vxd.eof
      /\ vxd'.reset = vxd.reset /\ vxd'.tx = vxd.tx /\ vxd'.out = vxd.out
      /\ lsd' \in Descriptors /\ lsd'.iface = lsd.iface
      /\ lsd'.version = lsd.version /\ lsd'.inbound = lsd.inbound
      /\ lsd'.blocking = ~vxd'.nonblock
      /\ seen' \in Histories /\ seen'.asked = seen.asked
      /\ seen'.reply = seen.reply /\ seen'.got = seen.got
      /\ seen'.peeked = seen.peeked /\ seen'.wrote = seen.wrote
      /\ seen'.ready = seen.ready
      /\ seen.slipped => seen'.slipped
      /\ ~seen'.slipped => lsd'.blocking = ~flag
  <2>1. flag \in BOOLEAN /\ Switch(flag)
    BY <1>1
  <2> HIDE DEF flag
  <2> QED BY <2>1, Switched
<1>4. Types'
  BY <1>1, <1>2, <1>3 DEF IInv, Types
<1>5. Staged'
  BY <1>1, <1>2, <1>3 DEF IInv, Staged, Stages, Flips
<1>6. ReadyUntilUsed'
  BY <1>2, <1>3, ReadyWhateverMode
<1>7. ModeAsAsked'
  <2>1. Flips(call.op)' /\ Inverted' /\ ~Inverted
    BY <1>1, <1>2, <1>3 DEF Inverted, Flips
  <2>2. seen'.asked /\ ~seen'.slipped => call'.flag /\ ~lsd'.blocking
    BY <1>2, <1>3, <2>1 DEF IInv, ModeAsAsked
  <2> QED BY <1>3, <2>1, <2>2 DEF ModeAsAsked
<1>8. Reasons'
  BY <1>2 DEF Reasons
<1>9. Streams'
  BY <1>1, <1>2, <1>3 DEF IInv, Streams, Held
<1>10. ReadsWait'
  BY <1>3 DEF IInv, ReadsWait
<1> QED BY <1>4, <1>5, <1>6, <1>7, <1>8, <1>9, <1>10 DEF IInv

LEMMA CsockRestoreKeeps ==
  ASSUME IInv, CsockRestore
  PROVE  IInv'
<1> DEFINE flag == RestoredFlag(call.flag)
<1>1. /\ call.at = "restore" /\ Flips(call.op) /\ call \in Calls
      /\ call.op = "recvfrom" /\ flag \in BOOLEAN /\ flag = ~call.flag
      /\ SocketD' = SocketD /\ sent' = sent /\ Switch(flag)
      /\ call' = [call EXCEPT !.at = "done"]
  BY DEF CsockRestore, IInv, Types, Staged, Flips, RestoredFlag
<1> HIDE DEF flag
<1>2. /\ call' \in Calls /\ call'.at = "done" /\ call'.op = call.op
      /\ call'.lens = call.lens /\ call'.peek = call.peek
      /\ call'.ready = call.ready /\ call'.flag = call.flag
      /\ call'.rv = call.rv /\ call'.err = call.err /\ call'.data = call.data
  BY <1>1 DEF Calls, Stages
<1>3. /\ vxd' \in Devices /\ vxd'.rx = vxd.rx /\ vxd'.eof = vxd.eof
      /\ vxd'.reset = vxd.reset /\ vxd'.tx = vxd.tx /\ vxd'.out = vxd.out
      /\ lsd' \in Descriptors /\ lsd'.iface = lsd.iface
      /\ lsd'.version = lsd.version /\ lsd'.inbound = lsd.inbound
      /\ lsd'.blocking = ~vxd'.nonblock
      /\ seen' \in Histories /\ seen'.asked = seen.asked
      /\ seen'.reply = seen.reply /\ seen'.got = seen.got
      /\ seen'.peeked = seen.peeked /\ seen'.wrote = seen.wrote
      /\ seen'.ready = seen.ready
      /\ seen.slipped => seen'.slipped
      /\ ~seen'.slipped => lsd'.blocking = ~flag
  BY <1>1, Switched
<1>4. Types'
  BY <1>1, <1>2, <1>3 DEF IInv, Types
<1>5. Staged'
  BY <1>1, <1>2, <1>3 DEF IInv, Staged, Stages, Flips
<1>6. ReadyUntilUsed'
  BY <1>2, <1>3, ReadyWhateverMode
<1>7. ModeAsAsked'
  <2>1. ~Inverted' /\ Inverted
    BY <1>1, <1>2 DEF Inverted
  <2>2. seen'.asked /\ ~seen'.slipped => lsd'.blocking
    BY <1>1, <1>3, <2>1 DEF IInv, ModeAsAsked
  <2> QED BY <1>3, <2>1, <2>2 DEF ModeAsAsked
<1>8. Reasons'
  BY <1>1, <1>2, <1>3 DEF IInv, Reasons
<1>9. Streams'
  BY <1>1, <1>2, <1>3 DEF IInv, Streams, Held
<1>10. ReadsWait'
  BY <1>3 DEF IInv, ReadsWait
<1> QED BY <1>4, <1>5, <1>6, <1>7, <1>8, <1>9, <1>10 DEF IInv

LEMMA CsockDoneKeeps ==
  ASSUME IInv, CsockDone
  PROVE  IInv'
<1> DEFINE d == call.data
           rv == call.rv
           err == call.err
<1>1. /\ call.at = "done" /\ Flips(call.op) /\ call \in Calls
      /\ call.op = "recvfrom" /\ call.op \in Transfers /\ call.lens \in Lengths
      /\ ~call.peek /\ Held = d /\ rv \in Int /\ err \in Errors
      /\ call.op \in Reads
      /\ lsd' = lsd /\ vxd' = vxd /\ SocketD' = SocketD /\ sent' = sent
      /\ Return(call, rv, err, d)
  BY DEF CsockDone, IInv, Types, Staged, Flips, Calls, Transfers, Reads, Held
<1>2. Stream(seen.got, d, seen.peeked, vxd.rx, vxd.reset, sent)
  BY <1>1 DEF IInv, Streams
<1>3. /\ err = "again" => ~seen.asked \/ seen.slipped
      /\ rv = 0 /\ err # "again" => vxd.eof
  BY <1>1 DEF IInv, Reasons
<1> HIDE DEF d, rv, err
<1>4. IsBytes(d) /\ d \in Seq(Nat)
  BY <1>2, HeldIsBytes DEF IInv, Types
<1>5. Result(call, rv, err, d)
  BY <1>1, <1>4 DEF Result
<1>6. Stream(seen.got \o d, <<>>, IF d # <<>> THEN <<>> ELSE seen.peeked,
             vxd.rx, vxd.reset, sent)
  BY <1>2, StreamGives DEF IInv, Types
<1>7. After(call, d, vxd')
  BY <1>1, <1>6 DEF After
<1>8. vxd'.out = Bytes(0, seen.wrote + IF call.op \notin Reads /\ rv > 0
                                       THEN rv ELSE 0)
  <2>1. seen.wrote + 0 = seen.wrote
    BY DEF IInv, Types, Histories
  <2> QED BY <1>1, <2>1 DEF IInv, Streams
<1>9. seen.asked /\ ~seen.slipped => lsd.blocking
  BY <1>1 DEF IInv, ModeAsAsked, Inverted
<1>10. \A x \in seen.ready :
         \/ Readiness(vxd', x)
         \/ x = "read" /\ call.op \in Reads
         \/ x = "write" /\ call.op \in Writes
  BY <1>1, StillReady
<1>11. vxd' \in Devices /\ SocketD' \in Seq(Nat) /\ vxd'.nonblock = vxd.nonblock
  BY <1>1 DEF IInv, Types
<1>12. call.op \in Reads => /\ err = "again" => ~seen.asked \/ seen.slipped
                            /\ rv = 0 /\ err # "again" => vxd'.eof \/ ~lsd.inbound
  BY <1>1, <1>3
<1> QED BY <1>1, <1>5, <1>7, <1>8, <1>9, <1>10, <1>11, <1>12, ReturnKeeps

\* The bytes the program gives to be sent, and those that are offered.
LEMMA OutgoingBytes ==
  ASSUME Types, call.lens \in Lengths
  PROVE  \E b \in Nat : seen.wrote <= b /\ Outgoing = Bytes(seen.wrote, b)
<1> DEFINE a == seen.wrote
           t == Total(call.lens)
           b == a + t
<1>1. a \in Nat /\ t \in Nat /\ BUFFER \in Nat
  BY LengthsHold, IoAssumption DEF Types, Histories
<1>2. Given = Bytes(a, b)
  <2>1. Given = [i \in 1 .. t |-> a + i]
    BY DEF Given
  <2> HIDE DEF t, a
  <2>2. b - a = t
    BY <1>1
  <2> QED BY <2>1, <2>2 DEF Bytes
<1> HIDE DEF a, t
<1>3. b \in Nat /\ a <= b
  BY <1>1
<1> HIDE DEF b
<1>4. First(BUFFER, Bytes(a, b)) = Bytes(a, Upto(a, b, BUFFER))
  BY <1>1, <1>3, FirstBytes
<1>5. Upto(a, b, BUFFER) \in Nat /\ a <= Upto(a, b, BUFFER)
  BY <1>1, <1>3, UptoType
<1>6. CASE lsd.iface = "wsock"
  <2>1. Outgoing = Bytes(a, Upto(a, b, BUFFER))
    BY <1>2, <1>4, <1>6 DEF Outgoing
  <2> QED BY <1>5, <2>1 DEF a
<1>7. CASE lsd.iface # "wsock"
  <2>1. Outgoing = Bytes(a, b)
    BY <1>2, <1>7 DEF Outgoing
  <2> QED BY <1>3, <2>1 DEF a
<1> QED BY <1>6, <1>7

LEMMA SendKeeps ==
  ASSUME IInv, Send
  PROVE  IInv'
<1>1. /\ call.at = "vxd" /\ call.op \notin Reads
      /\ call \in Calls /\ call.op \in Transfers /\ call.op \in Writes
      /\ call.lens \in Lengths /\ ~Flips(call.op) /\ ~Inverted /\ Held = <<>>
      /\ vxd \in Devices /\ seen.wrote \in Nat
  BY DEF Send, IInv, Types, Staged, Stages, Flips, Inverted, Held, Transfers,
         Reads, Histories
<1>2. CASE vxd.reset /\ Fails("error")
  BY <1>1, <1>2, FailsKeeps
<1>3. CASE ~vxd.reset /\ vxd.tx = ROOM /\ vxd.nonblock /\ Fails("again")
  BY <1>1, <1>3, FailsKeeps
<1> DEFINE room == ROOM - vxd.tx
           d == First(room, Outgoing)
<1>4. CASE /\ ~vxd.reset /\ vxd.tx < ROOM
           /\ vxd' = [vxd EXCEPT !.tx = @ + Len(d), !.out = @ \o d]
           /\ Return(call, Len(d), "ok", <<>>)
           /\ SocketD' = IF lsd.iface = "wsock"
                         THEN Outgoing \o SubSeq(SocketD, Len(Outgoing) + 1,
                                                 Len(SocketD))
                         ELSE SocketD
           /\ UNCHANGED <<lsd, sent>>
  <2> DEFINE a == seen.wrote
             rest == SubSeq(SocketD, Len(Outgoing) + 1, Len(SocketD))
  <2>1. PICK b \in Nat : a <= b /\ Outgoing = Bytes(a, b)
    BY <1>1, OutgoingBytes DEF IInv
  <2>2. room \in Nat
    <3>1. vxd.tx < ROOM /\ vxd.tx \in Nat /\ ROOM \in Nat
      BY <1>1, <1>4, IoAssumption DEF Devices
    <3> QED BY <3>1
  <2> DEFINE e == Upto(a, b, room)
  <2>3. /\ vxd' = [vxd EXCEPT !.tx = @ + Len(d), !.out = @ \o d]
        /\ Return(call, Len(d), "ok", <<>>)
        /\ SocketD' = IF lsd.iface = "wsock" THEN Outgoing \o rest ELSE SocketD
        /\ lsd' = lsd /\ sent' = sent /\ a \in Nat
    BY <1>1, <1>4
  <2> HIDE DEF room, a
  <2>4. e \in Nat /\ a <= e
    BY <2>1, <2>2, <2>3, UptoType
  <2>5. d = Bytes(a, e)
    BY <2>1, <2>2, <2>3, FirstBytes
  <2> HIDE DEF d, e, rest
  <2>6. d \in Seq(Nat) /\ Len(d) = e - a /\ Outgoing \in Seq(Nat)
    BY <2>1, <2>3, <2>4, <2>5, BytesType
  <2>7. vxd.out \o d = Bytes(0, e)
    <3>1. vxd.out = Bytes(0, a)
      BY DEF IInv, Streams, a
    <3>2. 0 \in Nat /\ 0 <= a
      BY <2>3
    <3>3. Bytes(0, a) \o Bytes(a, e) = Bytes(0, e)
      BY <2>3, <2>4, <3>2, BytesConcat
    <3> QED BY <2>5, <3>1, <3>3
  <2>8. Bytes(0, e) \in Seq(Nat)
    <3>1. 0 \in Nat /\ 0 <= e
      BY <2>4
    <3> QED BY <2>4, <3>1, BytesType
  <2>9. /\ vxd' \in Devices /\ vxd'.nonblock = vxd.nonblock
        /\ vxd'.eof = vxd.eof /\ vxd'.reset = vxd.reset /\ vxd'.rx = vxd.rx
        /\ vxd'.out = Bytes(0, e)
    <3>1. vxd.tx + Len(d) \in Nat
      BY <1>1, <2>3, <2>4, <2>6 DEF Devices
    <3> DEFINE tx == vxd.tx + Len(d)
               out == vxd.out \o d
    <3>2. vxd' = [vxd EXCEPT !.tx = tx, !.out = out] /\ tx \in Nat /\ out \in Seq(Nat)
      BY <2>3, <2>7, <2>8, <3>1
    <3> HIDE DEF tx, out
    <3>3. /\ vxd' \in Devices /\ vxd'.nonblock = vxd.nonblock
          /\ vxd'.eof = vxd.eof /\ vxd'.reset = vxd.reset /\ vxd'.rx = vxd.rx
          /\ vxd'.out = out
      BY <1>1, <3>2 DEF Devices
    <3> QED BY <2>7, <3>3 DEF out
  <2>10. SocketD' \in Seq(Nat)
    <3> DEFINE k == Len(Outgoing)
    <3>1. k \in Nat /\ SocketD \in Seq(Nat)
      BY <2>6 DEF IInv, Types
    <3> HIDE DEF k
    <3>2. SubSeq(SocketD, k + 1, Len(SocketD)) \in Seq(Nat)
      BY <3>1, RestType
    <3>3. rest \in Seq(Nat)
      BY <3>2 DEF rest, k
    <3> QED BY <2>3, <2>6, <3>1, <3>3, ConcatProperties
  <2>11. Result(call, Len(d), "ok", <<>>)
    <3>1. Len(d) \in Int
      BY <2>3, <2>4, <2>6
    <3> QED BY <1>1, <3>1, NothingIsBytes DEF Result, Errors, Writes
  <2>12. After(call, <<>>, vxd')
    BY <1>1, <2>9, AfterNothing DEF After, IInv
  <2> DEFINE n == Len(d)
  <2>13. vxd'.out = Bytes(0, seen.wrote + IF call.op \notin Reads /\ n > 0
                                          THEN n ELSE 0)
    <3>1. n = e - a
      BY <2>6
    <3> HIDE DEF n
    <3>2. a + (IF call.op \notin Reads /\ n > 0 THEN n ELSE 0) = e
      BY <1>1, <2>3, <2>4, <3>1
    <3> QED BY <2>9, <3>2 DEF a
  <2>14. \A x \in seen.ready :
           \/ Readiness(vxd', x)
           \/ x = "read" /\ call.op \in Reads
           \/ x = "write" /\ call.op \in Writes
    BY <1>1, <2>9, StillReady
  <2>15. seen.asked /\ ~seen.slipped => lsd.blocking
    BY <1>1 DEF IInv, ModeAsAsked
  <2> HIDE DEF n
  <2>16. Return(call, n, "ok", <<>>) /\ Result(call, n, "ok", <<>>)
    BY <2>3, <2>11 DEF n
  <2> QED BY <1>1, <2>3, <2>9, <2>10, <2>12, <2>13, <2>14, <2>15, <2>16, ReturnKeeps
<1> QED BY <1>2, <1>3, <1>4 DEF Send

LEMMA AskReadyKeeps ==
  ASSUME IInv, AskReady
  PROVE  IInv'
<1> DEFINE c == [Idle EXCEPT !.op = "ready", !.at = "read"]
<1>1. call = Idle /\ Started(c)
  BY DEF AskReady
<1>2. /\ c \in Calls /\ c.op = "ready" /\ ~c.peek /\ c.at = "read" /\ c.ready = {}
  BY IdleIsCall DEF Calls, Events
<1> HIDE DEF c
<1>3. c.op \notin Transfers /\ ~Flips(c.op)
  BY <1>2 DEF Transfers, Reads, Writes, Flips
<1> QED BY <1>1, <1>2, <1>3, StartedKeeps

LEMMA SelectKeeps ==
  ASSUME IInv, Select
  PROVE  IInv'
<1>1. /\ call.op = "ready" /\ call.at \in Events /\ call \in Calls
      /\ call.op \notin Transfers /\ ~Flips(call.op)
      /\ lsd' = lsd /\ vxd' = vxd /\ sent' = sent /\ seen' = seen
  BY DEF Select, Events, IInv, Types, Transfers, Reads, Writes, Flips
<1>2. /\ call' \in Calls /\ call'.op = "ready"
      /\ call'.at \in {"write", "except", "told"}
      /\ call'.peek => lsd.iface = "wsock"
      /\ \A x \in call'.ready : x \in call.ready \/ (x = call.at /\ Ready(x))
  <2> DEFINE next == NextEvent(call.at)
             ready == IF Selected(call.at)
                      THEN call.ready \cup {call.at} ELSE call.ready
  <2>1. next \in {"write", "except", "told"}
    BY <1>1 DEF NextEvent, Events
  <2>2. ready \in SUBSET Events /\ call.ready \in SUBSET Events
    BY <1>1 DEF Calls
  <2>3. \A x \in ready : x \in call.ready \/ (x = call.at /\ Ready(x))
    BY DEF Selected, Listed
  <2>4. call.peek => lsd.iface = "wsock"
    BY DEF IInv, Staged
  <2>5. \/ call' = [call EXCEPT !.at = next, !.ready = ready]
        \/ call' = [call EXCEPT !.at = next, !.failed = TRUE]
    BY DEF Select
  <2> HIDE DEF next, ready
  <2>6. /\ call' \in Calls /\ call'.op = call.op /\ call'.at = next
        /\ call'.peek = call.peek
        /\ call'.ready = ready \/ call'.ready = call.ready
    <3>1. next \in Stages \cup Events \cup {"none", "told"}
      BY <2>1 DEF Events
    <3> QED BY <1>1, <2>2, <2>5, <3>1 DEF Calls
  <2>7. \A x \in call'.ready : x \in call.ready \/ (x = call.at /\ Ready(x))
    BY <2>3, <2>6
  <2> QED BY <1>1, <2>1, <2>4, <2>6, <2>7
<1>3. SocketD' \in Seq(Nat)
  BY DEF Select, IInv, Types
<1>4. Types'
  BY <1>1, <1>2, <1>3 DEF IInv, Types
<1>5. Staged'
  BY <1>1, <1>2 DEF Staged, Stages, Transfers, Reads, Writes
<1>6. ReadyUntilUsed'
  <2>1. \A x \in Events : Ready(x) => Ready(x)'
    BY <1>1, ReadyIs
  <2>2. \A x \in seen.ready \cup call'.ready : x \in Events
    BY <1>2 DEF IInv, Types, Histories, Calls
  <2>3. \A x \in call'.ready : Ready(x)
    BY <1>2 DEF IInv, ReadyUntilUsed
  <2>4. \A x \in seen.ready : Ready(x)
    BY <1>1 DEF IInv, ReadyUntilUsed, Reads, Writes
  <2> QED BY <1>1, <2>1, <2>2, <2>3, <2>4 DEF ReadyUntilUsed
<1>7. ModeAsAsked'
  BY <1>1, <1>2 DEF IInv, ModeAsAsked, Inverted, Flips
<1>8. Reasons'
  BY <1>2 DEF Reasons
<1>9. Streams'
  BY <1>1, <1>2 DEF IInv, Streams, Held, Events
<1>10. ReadsWait'
  BY <1>1 DEF IInv, ReadsWait
<1> QED BY <1>4, <1>5, <1>6, <1>7, <1>8, <1>9, <1>10 DEF IInv

LEMMA ToldKeeps ==
  ASSUME IInv, Told
  PROVE  IInv'
<1>1. /\ call.at = "told" /\ call' = Idle /\ call.op \notin Transfers
      /\ lsd' = lsd /\ vxd' = vxd /\ sent' = sent /\ SocketD' = SocketD
      /\ seen \in Histories /\ call.ready \in SUBSET Events
      /\ call'.op = "none" /\ call'.at = "none" /\ ~call'.peek
      /\ call'.ready = {} /\ call' \in Calls
  BY IdleIsCall DEF Told, IInv, Types, Staged, Stages, Calls
<1>2. /\ seen' \in Histories /\ seen'.asked = seen.asked
      /\ seen'.slipped = seen.slipped /\ seen'.reply = NoReply
      /\ seen'.got = seen.got /\ seen'.peeked = seen.peeked
      /\ seen'.wrote = seen.wrote /\ seen'.ready \subseteq call.ready
  <2> DEFINE ready == IF call.failed THEN {} ELSE call.ready
  <2>1. ready \in SUBSET Events /\ ready \subseteq call.ready
    BY <1>1
  <2>2. seen' = [seen EXCEPT !.ready = ready, !.reply = NoReply]
    BY DEF Told
  <2>3. NoReply \in [rv : Int, err : Errors]
    BY DEF NoReply, Errors
  <2> HIDE DEF ready
  <2> QED BY <1>1, <2>1, <2>2, <2>3 DEF Histories
<1>3. Types'
  BY <1>1, <1>2 DEF IInv, Types
<1>4. Staged'
  BY <1>1 DEF Staged, Transfers, Reads, Writes, Stages
<1>5. ReadyUntilUsed'
  <2>1. \A x \in seen'.ready : Ready(x) /\ x \in Events
    BY <1>1, <1>2 DEF IInv, ReadyUntilUsed
  <2>2. \A x \in Events : Ready(x) => Ready(x)'
    BY <1>1, ReadyIs
  <2> QED BY <1>1, <2>1, <2>2 DEF ReadyUntilUsed
<1>6. ModeAsAsked'
  BY <1>1, <1>2 DEF IInv, ModeAsAsked, Inverted, Flips, Transfers, Reads
<1>7. Reasons'
  BY <1>1 DEF Reasons
<1>8. Streams'
  BY <1>1, <1>2 DEF IInv, Streams, Held
<1>9. ReadsWait'
  BY <1>2 DEF ReadsWait, NoReply
<1> QED BY <1>3, <1>4, <1>5, <1>6, <1>7, <1>8, <1>9 DEF IInv

LEMMA ShutdownKeeps ==
  ASSUME IInv, Shutdown
  PROVE  IInv'
<1>1. /\ vxd' = vxd /\ SocketD' = SocketD /\ call' = call /\ sent' = sent
      /\ seen' = seen /\ lsd \in Descriptors
  BY DEF Shutdown, IInv, Types
<1>2. /\ lsd' \in Descriptors /\ lsd'.iface = lsd.iface
      /\ lsd'.version = lsd.version /\ lsd'.blocking = lsd.blocking
      /\ lsd'.inbound => lsd.inbound
  <2>1. PICK how \in SUBSET {"in", "out"} :
          lsd' = [lsd EXCEPT !.inbound = @ /\ "in" \notin how,
                             !.outbound = @ /\ "out" \notin how]
    BY DEF Shutdown
  <2> DEFINE in == lsd.inbound /\ "in" \notin how
             out == lsd.outbound /\ "out" \notin how
  <2>2. /\ in \in BOOLEAN /\ out \in BOOLEAN /\ (in => lsd.inbound)
        /\ lsd' = [lsd EXCEPT !.inbound = in, !.outbound = out]
    BY <2>1
  <2> HIDE DEF in, out
  <2> QED BY <1>1, <2>2 DEF Descriptors
<1>3. Types'
  BY <1>1, <1>2 DEF IInv, Types
<1>4. Staged'
  BY <1>1, <1>2 DEF IInv, Staged, Flips
<1>5. ReadyUntilUsed'
  BY <1>1, ReadyWhateverMode
<1>6. ModeAsAsked'
  BY <1>1, <1>2 DEF IInv, ModeAsAsked, Inverted, Flips
<1>7. Reasons'
  BY <1>1 DEF IInv, Reasons, Arrived
<1>8. Streams'
  BY <1>1 DEF IInv, Streams, Held
<1>9. ReadsWait'
  BY <1>1, <1>2 DEF IInv, ReadsWait, Types, Descriptors
<1> QED BY <1>3, <1>4, <1>5, <1>6, <1>7, <1>8, <1>9 DEF IInv

-----------------------------------------------------------------------------
LEMMA NextKeeps == IInv /\ [Next]_vars => IInv'
<1> SUFFICES ASSUME IInv, [Next]_vars PROVE IInv'
  OBVIOUS
<1>1. CASE Network
  BY <1>1, NetworkKeeps
<1>2. ASSUME NEW op \in Reads, NEW lens \in Buffers(op), NEW peek \in BOOLEAN,
             Read(op, lens, peek)
      PROVE  IInv'
  BY <1>2, ReadKeeps DEF Buffers
<1>3. ASSUME NEW op \in {"write", "send", "writev"}, NEW lens \in Buffers(op),
             Write(op, lens)
      PROVE  IInv'
  BY <1>3, WriteKeeps DEF Buffers, Writes
<1>4. CASE WsockRecv
  BY <1>4, WsockRecvKeeps
<1>5. CASE WsockWait
  BY <1>5, WsockWaitKeeps
<1>6. CASE CsockRecv
  BY <1>6, CsockRecvKeeps
<1>7. CASE CsockFlip
  BY <1>7, CsockFlipKeeps
<1>8. CASE CsockRestore
  BY <1>8, CsockRestoreKeeps
<1>9. CASE CsockDone
  BY <1>9, CsockDoneKeeps
<1>10. CASE Send
  BY <1>10, SendKeeps
<1>11. ASSUME NEW param \in 0 .. 2, Fionbio(param) PROVE IInv'
  BY <1>11, FionbioKeeps
<1>12. ASSUME NEW nonblock \in BOOLEAN, Setfl(nonblock) PROVE IInv'
  BY <1>12, SetflKeeps
<1>13. CASE AskReady
  BY <1>13, AskReadyKeeps
<1>14. CASE Select
  BY <1>14, SelectKeeps
<1>15. CASE Told
  BY <1>15, ToldKeeps
<1>16. CASE Shutdown
  BY <1>16, ShutdownKeeps
<1>17. CASE UNCHANGED vars
  <2>1. /\ lsd' = lsd /\ vxd' = vxd /\ SocketD' = SocketD /\ call' = call
        /\ sent' = sent /\ seen' = seen
    BY <1>17 DEF vars
  <2>2. ReadyUntilUsed'
    BY <2>1, ReadyWhateverMode
  <2> QED BY <2>1, <2>2
          DEF IInv, Types, Staged, ModeAsAsked, Reasons, Streams, ReadsWait, Flips,
              Inverted, Arrived, Held
<1> QED BY <1>1, <1>2, <1>3, <1>4, <1>5, <1>6, <1>7, <1>8, <1>9, <1>10, <1>11,
           <1>12, <1>13, <1>14, <1>15, <1>16, <1>17 DEF Next

THEOREM IInvHolds == Spec => []IInv
BY InitHolds, NextKeeps, PTL DEF Spec

\* Every program reads the bytes of its peer in their order, none twice and none
\* lost, and the VxD has the bytes the program believes written: readv.c and
\* writev.c, __wsock_recv(), __csock_recvfrom() and __lsck_socket_fsext().
THEOREM StreamAlwaysKept == Spec => []StreamKept
<1>1. IInv => StreamKept
  <2> SUFFICES ASSUME IInv PROVE StreamKept
    OBVIOUS
  <2>1. IsPrefix(seen.got \o seen.peeked, OneTo(sent))
    BY StreamIsPrefix DEF IInv, Streams, Types
  <2>2. vxd.out = OneTo(seen.wrote)
    <3>1. seen.wrote \in Nat /\ seen.wrote - 0 = seen.wrote
      BY DEF IInv, Types, Histories
    <3>2. vxd.out = [i \in 1 .. seen.wrote |-> 0 + i]
      BY <3>1 DEF IInv, Streams, Bytes
    <3>3. [i \in 1 .. seen.wrote |-> 0 + i] = [i \in 1 .. seen.wrote |-> i]
      BY <3>1
    <3> QED BY <3>2, <3>3 DEF OneTo
  <2> QED BY <2>1, <2>2 DEF StreamKept
<1> QED BY <1>1, IInvHolds, PTL

\* A read that gives nothing has the reason the program knows of, whatever the
\* interface, the version of the VxD and the calls that changed the mode before:
\* __csock_recvfrom() and __wsock_recv().
THEOREM ReadsAlwaysWait == Spec => []ReadsWait
<1>1. IInv => ReadsWait
  BY DEF IInv
<1> QED BY <1>1, IInvHolds, PTL

\* What select() answered through __FSEXT_ready is still so when the program
\* acts on it: the ready case of __lsck_socket_fsext().
THEOREM ReadyAlwaysTrue == Spec => []ReadyIsTrue
<1>1. IInv => ReadyIsTrue
  <2> SUFFICES ASSUME IInv, call = Idle, NEW c \in seen.ready PROVE Ready(c)
    BY DEF ReadyIsTrue
  <2>1. call.op \notin Reads \cup Writes
    BY IdleIsCall DEF Reads, Writes
  <2> QED BY <2>1 DEF IInv, ReadyUntilUsed
<1> QED BY <1>1, IInvHolds, PTL
=============================================================================
