----------------------------- MODULE Iterations ------------------------------
(***************************************************************************)
(* Lemmas about loops.  The loops of the models are functions that are     *)
(* defined by recursion on the number of turns done; such a definition is  *)
(* the choice of a function that satisfies its equation.  Iteration says   *)
(* that there is one, and Along and AlongEach carry an invariant of the    *)
(* loop from its start to every turn.                                      *)
(***************************************************************************)
EXTENDS Integers, WellFoundedInduction, TLAPS

\* The least-number principle of the library is about this relation.
LEMMA LessThan == \A i, j \in Nat : j < i => <<j, i>> \in OpToRel(<, Nat)
BY DEF OpToRel

\* A set of numbers that is closed under the successor has all of them.
LEMMA Climb ==
  ASSUME NEW T \in SUBSET Nat, 0 \in T, \A n \in T : n + 1 \in T
  PROVE  \A n \in Nat : n \in T
<1> DEFINE U == Nat \ T
<1> SUFFICES ASSUME U # {} PROVE FALSE
  OBVIOUS
<1>1. PICK n \in U : \A m \in U : ~(<<m, n>> \in OpToRel(<, Nat))
  BY WFMin, NatLessThanWellFounded, Zenon
<1>2. \A m \in U : ~(m < n)
  BY <1>1, LessThan
<1>3. n \in Nat /\ n \notin T
  OBVIOUS
<1>4. n - 1 \in Nat /\ n - 1 < n
  BY <1>3
<1>5. n - 1 \in T
  BY <1>2, <1>4
<1>6. n - 1 + 1 = n
  BY <1>3
<1> QED BY <1>3, <1>5, <1>6

(***************************************************************************)
(* f[i] is what N turns of a loop have made of x after the first i of      *)
(* them, step[i] being what its turn i does to a value of S.               *)
(***************************************************************************)
Iterates(f, N, S, x, step) ==
  /\ f \in [0 .. N -> S]
  /\ f[0] = x
  /\ \A i \in 1 .. N : f[i] = step[i][f[i - 1]]

LEMMA Iteration ==
  ASSUME NEW N \in Nat, NEW S, NEW x \in S, NEW step \in [1 .. N -> [S -> S]]
  PROVE  \E f : Iterates(f, N, S, x, step)
<1> DEFINE P(n) == \E f \in [0 .. n -> S] :
                      f[0] = x /\ \A i \in 1 .. n : f[i] = step[i][f[i - 1]]
           T == {n \in Nat : n <= N => P(n)}
<1>1. P(0)
  <2> DEFINE f == [i \in 0 .. 0 |-> x]
  <2>1. f \in [0 .. 0 -> S] /\ f[0] = x
    OBVIOUS
  <2>2. 1 .. 0 = {}
    OBVIOUS
  <2> HIDE DEF f
  <2> QED BY <2>1, <2>2
<1>2. ASSUME NEW n \in Nat, P(n), n + 1 <= N PROVE P(n + 1)
  <2>2. PICK f \in [0 .. n -> S] :
            f[0] = x /\ \A i \in 1 .. n : f[i] = step[i][f[i - 1]]
    BY <1>2
  <2> DEFINE g == [i \in 0 .. n + 1 |-> IF i = n + 1 THEN step[n + 1][f[n]] ELSE f[i]]
  <2>3. f[n] \in S /\ step[n + 1][f[n]] \in S
    BY <1>2
  <2>4. g \in [0 .. n + 1 -> S] /\ g[0] = x
    BY <2>2, <2>3
  <2>5. ASSUME NEW i \in 1 .. n + 1 PROVE g[i] = step[i][g[i - 1]]
    <3>1. i \in 0 .. n + 1 /\ i - 1 \in 0 .. n + 1 /\ i - 1 # n + 1
      BY <1>2
    <3>2. g[i - 1] = f[i - 1]
      BY <3>1
    <3>3. CASE i = n + 1
      <4>1. i - 1 = n
        BY <1>2, <3>3
      <4> QED BY <3>1, <3>2, <3>3, <4>1
    <3>4. CASE i # n + 1
      <4>1. i \in 1 .. n
        BY <1>2, <3>4
      <4> QED BY <2>2, <3>1, <3>2, <3>4, <4>1
    <3> QED BY <3>3, <3>4
  <2> HIDE DEF g
  <2> QED BY <2>4, <2>5
<1> HIDE DEF P
<1>3. 0 \in T /\ \A n \in T : n + 1 \in T
  BY <1>1, <1>2
<1>4. N \in T
  <2> HIDE DEF T
  <2>1. T \in SUBSET Nat
    BY DEF T
  <2> QED BY <1>3, <2>1, Climb
<1>5. P(N)
  BY <1>4
<1> QED BY <1>5 DEF P, Iterates

\* What holds before the loop and is kept by its turns holds after each.
LEMMA Along ==
  ASSUME NEW N \in Nat, NEW f, NEW P,
         f[0] \in P, \A i \in 1 .. N : f[i - 1] \in P => f[i] \in P
  PROVE  \A i \in 0 .. N : f[i] \in P
<1> DEFINE T == {n \in Nat : n <= N => f[n] \in P}
<1>1. 0 \in T
  OBVIOUS
<1>2. ASSUME NEW n \in T PROVE n + 1 \in T
  <2> SUFFICES ASSUME n + 1 <= N PROVE f[n + 1] \in P
    OBVIOUS
  <2>1. n \in Nat /\ f[n] \in P /\ n + 1 \in 1 .. N /\ n + 1 - 1 = n
    OBVIOUS
  <2> QED BY <2>1
<1>3. \A n \in Nat : n \in T
  <2> HIDE DEF T
  <2>1. T \in SUBSET Nat
    BY DEF T
  <2> QED BY <1>1, <1>2, <2>1, Climb
<1> QED BY <1>3

\* The same for an invariant P[i] that says what the first i turns have done.
LEMMA AlongEach ==
  ASSUME NEW N \in Nat, NEW f, NEW P,
         f[0] \in P[0], \A i \in 1 .. N : f[i - 1] \in P[i - 1] => f[i] \in P[i]
  PROVE  \A i \in 0 .. N : f[i] \in P[i]
<1> DEFINE T == {n \in Nat : n <= N => f[n] \in P[n]}
<1>1. 0 \in T
  OBVIOUS
<1>2. ASSUME NEW n \in T PROVE n + 1 \in T
  <2> SUFFICES ASSUME n + 1 <= N PROVE f[n + 1] \in P[n + 1]
    OBVIOUS
  <2>1. n \in Nat /\ f[n] \in P[n] /\ n + 1 \in 1 .. N /\ n + 1 - 1 = n
    OBVIOUS
  <2> QED BY <2>1
<1>3. \A n \in Nat : n \in T
  <2> HIDE DEF T
  <2>1. T \in SUBSET Nat
    BY DEF T
  <2> QED BY <1>1, <1>2, <2>1, Climb
<1> QED BY <1>3
=============================================================================
