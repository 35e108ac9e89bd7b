------------------------------ MODULE Induction ------------------------------
(***************************************************************************)
(* Induction and recursion over the natural numbers up to a bound, in forms *)
(* that have a set in the place of a predicate and a function in the place  *)
(* of an operator.                                                          *)
(***************************************************************************)
EXTENDS Integers, WellFoundedInduction, TLAPS

\* A set of natural numbers that is not empty has a least element.
LEMMA LeastElement ==
  ASSUME NEW T, T \subseteq Nat, T # {}
  PROVE  \E x \in T : \A y \in T : x <= y
<1> DEFINE R == OpToRel(<, Nat)
<1>1. IsWellFoundedOn(R, Nat)
  BY NatLessThanWellFounded
<1>2. \A x, y \in Nat : y < x => <<y, x>> \in R
  BY DEF OpToRel
<1> HIDE DEF R
<1>3. PICK x \in T : \A y \in T : ~ (<<y, x>> \in R)
  BY <1>1, WFMin, Zenon
<1>4. \A y \in T : ~ (y < x)
  BY <1>2, <1>3
<1> QED
  BY <1>4

\* What holds of 0, and of every number up to N that follows one of which it
\* holds, holds up to N.
LEMMA UpTo ==
  ASSUME NEW N \in Nat, NEW S, 0 \in S,
         \A i \in 1..N : i - 1 \in S => i \in S
  PROVE  \A i \in 0..N : i \in S
<1> SUFFICES ASSUME \E i \in 0..N : i \notin S
             PROVE  FALSE
  OBVIOUS
<1> DEFINE T == {i \in 0..N : i \notin S}
<1>1. PICK x \in T : \A y \in T : x <= y
  BY LeastElement, T \subseteq Nat, T # {}
<1>2. x \in 1..N /\ x - 1 \in 0..N
  OBVIOUS
<1>3. x - 1 \in S
  BY <1>1, <1>2
<1> QED
  BY <1>2, <1>3

\* f has the values, all in S, of a loop of N turns that starts with a and makes
\* step[<<x, i>>] of x in turn i.
IsLoop(f, N, S, a, step) ==
  /\ f \in [0..N -> S]
  /\ f[0] = a /\ \A i \in 1..N : f[i] = step[<<f[i - 1], i>>]

\* Every loop has such a function.
LEMMA LoopExists ==
  ASSUME NEW N \in Nat, NEW S, NEW a \in S, NEW step \in [S \X (1..N) -> S]
  PROVE  \E f : IsLoop(f, N, S, a, step)
<1> DEFINE Loops(f, n) == IsLoop(f, n, S, a, step)
           T == {n \in 0..N : \E f : Loops(f, n)}
<1>0. 0 \in 0..N /\ N \in 0..N
  OBVIOUS
<1>1. 0 \in T
  <2>1. Loops([i \in 0..0 |-> a], 0)
    BY DEF IsLoop
  <2> QED
    BY <2>1, <1>0, Zenon
<1>2. \A n \in 1..N : n - 1 \in T => n \in T
  <2> SUFFICES ASSUME NEW n \in 1..N, n - 1 \in T
               PROVE  n \in T
    OBVIOUS
  <2> PICK f : Loops(f, n - 1)
    OBVIOUS
  <2> DEFINE g == [i \in 0..n |-> IF i = n THEN step[<<f[n - 1], n>>] ELSE f[i]]
  <2>1. step[<<f[n - 1], n>>] \in S
    BY DEF IsLoop
  <2>2. g \in [0..n -> S] /\ g[0] = a
    BY <2>1 DEF IsLoop
  <2>3. ASSUME NEW i \in 1..n PROVE g[i] = step[<<g[i - 1], i>>]
    <3>1. /\ \A j \in 0..(n - 1) : g[j] = f[j]
          /\ g[n] = step[<<f[n - 1], n>>]
      OBVIOUS
    <3> HIDE DEF g
    <3>2. CASE i = n
      BY <3>1, <3>2
    <3>3. CASE i \in 1..(n - 1)
      <4>1. i \in 0..(n - 1) /\ i - 1 \in 0..(n - 1)
        BY <3>3
      <4>2. f[i] = step[<<f[i - 1], i>>]
        BY <3>3 DEF IsLoop
      <4> QED
        BY <4>1, <4>2, <3>1
    <3> QED
      BY <3>2, <3>3
  <2>4. Loops(g, n)
    BY <2>2, <2>3 DEF IsLoop
  <2> HIDE DEF g
  <2> QED
    BY <2>4
<1> HIDE DEF T
<1>3. N \in T
  BY <1>0, <1>1, <1>2, UpTo, Zenon
<1> QED
  BY <1>3 DEF T

\* f starts with a and has the values of such a loop as long as they are in S.
RunsIn(f, N, S, a, step) ==
  /\ f = [i \in 0..N |-> f[i]] /\ f[0] = a
  /\ \A i \in 1..N : f[i - 1] \in S => f[i] = step[<<f[i - 1], i>>]

\* They all are when every turn stays in S.
LEMMA LoopOf ==
  ASSUME NEW N \in Nat, NEW S, NEW a \in S, NEW step \in [S \X (1..N) -> S],
         NEW f, RunsIn(f, N, S, a, step)
  PROVE  f \in [0..N -> S]
<1> DEFINE T == {i \in 0..N : f[i] \in S}
<1>1. 0 \in T
  BY DEF RunsIn
<1>2. ASSUME NEW i \in 1..N, i - 1 \in T PROVE i \in T
  <2>1. f[i - 1] \in S /\ i \in 0..N
    BY <1>2
  <2>2. f[i] = step[<<f[i - 1], i>>] /\ <<f[i - 1], i>> \in S \X (1..N)
    BY <2>1 DEF RunsIn
  <2> QED
    BY <2>1, <2>2
<1> HIDE DEF T
<1>3. \A i \in 0..N : i \in T
  BY <1>1, <1>2, UpTo
<1> QED
  BY <1>3 DEF T, RunsIn
=============================================================================
