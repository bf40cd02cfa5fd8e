----------------------------- MODULE DataLemmas -----------------------------
(***************************************************************************)
(* Facts about numbers and functions that the proofs about queues and byte *)
(* streams share.  Induction is stated with sets: the counterexamples to a *)
(* claim about numbers have a least one.                                   *)
(***************************************************************************)
EXTENDS Naturals, Sequences, WellFoundedInduction, TLAPS

\* A set of numbers that is not empty has a least one.
LEMMA HasLeast ==
  ASSUME NEW T, T \subseteq Nat, T # {}
  PROVE  \E x \in T : \A y \in T : x <= y
<1>1. PICK x \in T : \A y \in T : ~(<<y, x>> \in OpToRel(<, Nat))
  BY NatLessThanWellFounded, WFMin, Zenon
<1>2. ASSUME NEW y \in T, y < x PROVE FALSE
  <2>1. <<y, x>> \in Nat \X Nat OBVIOUS
  <2>2. <<y, x>> \in OpToRel(<, Nat) BY <2>1, <1>2 DEF OpToRel
  <2> QED BY <2>2, <1>1
<1> QED BY <1>2

\* A set of numbers that is not empty and bounded has a greatest one.
LEMMA HasGreatest ==
  ASSUME NEW n \in Nat, NEW T, T \subseteq 0..n, T # {}
  PROVE  \E x \in T : \A y \in T : y <= x
<1> DEFINE M == {n - x : x \in T}
<1>1. M \subseteq Nat /\ M # {}
  <2>1. \A x \in T : n - x \in Nat OBVIOUS
  <2>2. PICK x : x \in T OBVIOUS
  <2>3. n - x \in M BY <2>2
  <2> QED BY <2>1, <2>3
<1>2. PICK m \in M : \A k \in M : m <= k BY <1>1, HasLeast
<1>3. PICK x \in T : m = n - x BY <1>2
<1>4. \A y \in T : n - x <= n - y BY <1>2, <1>3
<1> QED BY <1>3, <1>4

\* Induction up to n: a set of numbers that has 0 and the successor of each
\* of its members.
LEMMA UpTo ==
  ASSUME NEW n \in Nat, NEW T, 0 \in T, \A k \in 1..n : k - 1 \in T => k \in T
  PROVE  \A k \in 0..n : k \in T
<1> DEFINE Bad == {k \in 0..n : k \notin T}
<1>1. SUFFICES ASSUME Bad # {} PROVE FALSE OBVIOUS
<1>2. PICK k \in Bad : \A y \in Bad : k <= y
  <2>1. Bad \subseteq Nat OBVIOUS
  <2> QED BY <2>1, <1>1, HasLeast
<1>3. k \in 1..n /\ k - 1 \in 0..n BY <1>2
<1>4. k - 1 \in T BY <1>2, <1>3
<1> QED BY <1>2, <1>3, <1>4

\* f starts with v and goes on as step says, up to n.
Goes(f, n, v, step) == f[0] = v /\ \A i \in 1..n : f[i] = step[i][f[i - 1]]

\* There is such a function.
LEMMA Recursion ==
  ASSUME NEW n \in Nat, NEW V, NEW v \in V, NEW step \in [1..n -> [V -> V]]
  PROVE  \E f \in [0..n -> V] : Goes(f, n, v, step)
<1> DEFINE T == {k \in 0..n : \E f \in [0..k -> V] : Goes(f, k, v, step)}
<1>1. 0 \in T
  <2> DEFINE f == [i \in 0..0 |-> v]
  <2>1. f \in [0..0 -> V] OBVIOUS
  <2>2. Goes(f, 0, v, step) BY DEF Goes
  <2> HIDE DEF f
  <2>3. \E g \in [0..0 -> V] : Goes(g, 0, v, step) BY <2>1, <2>2
  <2> QED BY <2>3
<1>2. ASSUME NEW k \in 1..n, k - 1 \in T PROVE k \in T
  <2>1. PICK f \in [0..(k - 1) -> V] : Goes(f, k - 1, v, step) BY <1>2
  <2> DEFINE g == [i \in 0..k |-> IF i = k THEN step[k][f[k - 1]] ELSE f[i]]
  <2>2. f[k - 1] \in V /\ step[k] \in [V -> V] OBVIOUS
  <2>3. step[k][f[k - 1]] \in V BY <2>2
  <2>4. \A i \in 0..k : i # k => f[i] \in V OBVIOUS
  <2>5. g \in [0..k -> V] BY <2>3, <2>4
  <2>6. g[0] = v BY <2>1 DEF Goes
  <2>7. ASSUME NEW i \in 1..k PROVE g[i] = step[i][g[i - 1]]
    <3>1. g[i - 1] = f[i - 1] OBVIOUS
    <3>2. CASE i = k BY <3>1, <3>2
    <3>3. CASE i # k
      <4>1. i \in 1..(k - 1) BY <3>3
      <4>2. g[i] = f[i] BY <3>3
      <4>3. f[i] = step[i][f[i - 1]] BY <2>1, <4>1 DEF Goes
      <4> QED BY <3>1, <4>2, <4>3
    <3> QED BY <3>2, <3>3
  <2> HIDE DEF g
  <2>8. Goes(g, k, v, step) BY <2>6, <2>7 DEF Goes
  <2>9. \E h \in [0..k -> V] : Goes(h, k, v, step) BY <2>5, <2>8
  <2> QED BY <2>9
<1>3. n \in T
  <2> HIDE DEF T
  <2>1. \A k \in 0..n : k \in T BY <1>1, <1>2, UpTo
  <2> QED BY <2>1
<1> QED BY <1>3
=============================================================================
