---------------------------- MODULE LoopInduction ----------------------------
(***************************************************************************)
(* Induction over numbers, for what loops compute.  The provers cannot     *)
(* instantiate a theorem that takes a predicate; these take the set of the *)
(* numbers for which it holds, and a loop as a function.                   *)
(***************************************************************************)
EXTENDS Integers, WellFoundedInduction, TLAPS

\* A set of numbers has a least element.
LEMMA Least ==
  ASSUME NEW S \in SUBSET Nat, S # {}
  PROVE  \E x \in S : \A y \in S : x <= y
<1> DEFINE R == {ss \in Nat \X Nat : ss[1] < ss[2]}
<1>1. IsWellFoundedOn(R, Nat)
  BY NatLessThanWellFounded, Zenon DEF OpToRel
<1>2. PICK x \in S : \A y \in S : ~(<<y, x>> \in R)
  <2> HIDE DEF R
  <2> QED  BY <1>1, WFMin
<1>3. \A y \in S : ~(y < x)
  BY <1>2
<1> QED  BY <1>3

\* What holds of 0 and of the next of every number up to a bound.
LEMMA UpTo ==
  ASSUME NEW N \in Nat, NEW P, 0 \in P, \A n \in Nat : n < N /\ n \in P => n + 1 \in P
  PROVE  \A n \in 0..N : n \in P
<1> DEFINE Bad == (0..N) \ P
<1>1. SUFFICES ASSUME Bad # {}  PROVE FALSE
  OBVIOUS
<1>2. Bad \in SUBSET Nat
  OBVIOUS
<1>3. PICK x \in Bad : \A y \in Bad : x <= y
  <2> HIDE DEF Bad
  <2> QED  BY <1>1, <1>2, Least
<1>4. x \in 1..N /\ x - 1 \in Nat
  OBVIOUS
<1>5. x - 1 \in P
  BY <1>3, <1>4
<1> QED  BY <1>4, <1>5

\* What holds of N + 1 and of every number before one of which it holds.
LEMMA DownFrom ==
  ASSUME NEW N \in Nat, NEW P, N + 1 \in P, \A n \in 1..N : n + 1 \in P => n \in P
  PROVE  \A n \in 1..N + 1 : n \in P
<1> DEFINE Q == {m \in 0..N : N + 1 - m \in P}
<1>1. 0 \in Q
  OBVIOUS
<1>2. ASSUME NEW m \in Nat, m < N, m \in Q  PROVE m + 1 \in Q
  <2>1. N + 1 - (m + 1) \in 1..N /\ (N + 1 - (m + 1)) + 1 = N + 1 - m /\ m + 1 \in 0..N
    BY <1>2
  <2> QED  BY <1>2, <2>1
<1>3. \A m \in 0..N : m \in Q
  <2> HIDE DEF Q
  <2> QED  BY <1>1, <1>2, UpTo
<1>4. \A n \in 1..N + 1 : N + 1 - n \in 0..N /\ N + 1 - (N + 1 - n) = n
  OBVIOUS
<1> QED  BY <1>3, <1>4

\* What a loop computes: from a, by a step for each of its turns.
Computes(g, N, D, a, step) ==
  /\ g[0] = a /\ \A n \in 1..N : g[n] = step[n][g[n - 1]]
  /\ \A f : f[0] = a /\ (\A n \in 1..N : f[n - 1] \in D => f[n] = step[n][f[n - 1]])
              => \A n \in 0..N : f[n] = g[n]

LEMMA LoopComputes ==
  ASSUME NEW D, NEW a \in D, NEW N \in Nat, NEW step \in [1..N -> [D -> D]]
  PROVE  \E g \in [0..N -> D] : Computes(g, N, D, a, step)
<1> DEFINE Loop(n) == {g \in [0..n -> D] : g[0] = a /\ \A m \in 1..n : g[m] = step[m][g[m - 1]]}
           P == {n \in 0..N : Loop(n) # {}}
<1>1. 0 \in P
  <2>1. [m \in 0..0 |-> a] \in Loop(0)
    OBVIOUS
  <2> QED  BY <2>1
<1>2. ASSUME NEW n \in Nat, n < N, n \in P  PROVE n + 1 \in P
  <2>1. PICK k : k \in Loop(n)
    BY <1>2
  <2> DEFINE x == step[n + 1][k[n]]
             g == [m \in 0..n + 1 |-> IF m = n + 1 THEN x ELSE k[m]]
  <2>2. n + 1 \in 1..N /\ k[n] \in D /\ x \in D
    BY <1>2, <2>1
  <2>3. g \in [0..n + 1 -> D] /\ g[0] = a
    BY <1>2, <2>1, <2>2
  <2>4. ASSUME NEW m \in 1..n + 1  PROVE g[m] = step[m][g[m - 1]]
    <3>1. CASE m = n + 1
      BY <1>2, <3>1
    <3>2. CASE m \in 1..n
      <4>1. k[m] = step[m][k[m - 1]]
        BY <2>1, <3>2
      <4>2. g[m] = k[m] /\ g[m - 1] = k[m - 1]
        BY <1>2, <3>2
      <4> QED  BY <4>1, <4>2
    <3> QED  BY <1>2, <3>1, <3>2
  <2>5. g \in Loop(n + 1)
    BY <2>3, <2>4
  <2>6. n + 1 \in 0..N
    BY <1>2
  <2> HIDE DEF g, Loop
  <2> QED  BY <2>5, <2>6
<1>3. N \in P
  <2> HIDE DEF P
  <2>1. \A n \in 0..N : n \in P
    BY <1>1, <1>2, UpTo
  <2> QED  BY <2>1
<1>4. PICK g \in [0..N -> D] : g[0] = a /\ \A n \in 1..N : g[n] = step[n][g[n - 1]]
  BY <1>3
<1>5. ASSUME NEW f, f[0] = a, \A n \in 1..N : f[n - 1] \in D => f[n] = step[n][f[n - 1]]
      PROVE  \A n \in 0..N : f[n] = g[n]
  <2> DEFINE Q == {n \in 0..N : f[n] = g[n]}
  <2>1. 0 \in Q
    BY <1>4, <1>5
  <2>2. ASSUME NEW n \in Nat, n < N, n \in Q  PROVE n + 1 \in Q
    <3>1. n + 1 \in 1..N /\ (n + 1) - 1 = n /\ n \in 0..N
      BY <2>2
    <3>2. f[n] = g[n] /\ g[n] \in D
      BY <2>2
    <3>3. f[n + 1] = step[n + 1][f[n]] /\ g[n + 1] = step[n + 1][g[n]]
      BY <1>4, <1>5, <3>1, <3>2
    <3> QED  BY <3>1, <3>2, <3>3
  <2>3. \A n \in 0..N : n \in Q
    <3> HIDE DEF Q
    <3> QED  BY <2>1, <2>2, UpTo
  <2>4. \A n \in 0..N : f[n] = g[n]
    BY <2>3
  <2> QED  BY <2>4
<1>6. \A f : f[0] = a /\ (\A n \in 1..N : f[n - 1] \in D => f[n] = step[n][f[n - 1]])
              => \A n \in 0..N : f[n] = g[n]
  BY <1>5
<1>7. Computes(g, N, D, a, step)
  BY <1>4, <1>6, Zenon DEF Computes
<1> QED  BY <1>7

\* What is computed from the end, by steps that look at the two results before.
ComputesBack(g, N, D, a, step) ==
  /\ g \in [1..N + 2 -> D]
  /\ g[N + 1] = a /\ g[N + 2] = a
  /\ \A n \in 1..N : g[n] = step[n][g[n + 1]][g[n + 2]]

LEMMA BackwardsComputes ==
  ASSUME NEW D, NEW a \in D, NEW N \in Nat, NEW step \in [1..N -> [D -> [D -> D]]]
  PROVE  \E g : ComputesBack(g, N, D, a, step)
<1> DEFINE Loop(m) == {g \in [N + 1 - m..N + 2 -> D] :
                         /\ g[N + 1] = a /\ g[N + 2] = a
                         /\ \A n \in N + 1 - m..N : g[n] = step[n][g[n + 1]][g[n + 2]]}
           P == {m \in 0..N : Loop(m) # {}}
<1>1. 0 \in P
  <2>1. [m \in N + 1 - 0..N + 2 |-> a] \in Loop(0)
    OBVIOUS
  <2> QED  BY <2>1
<1>2. ASSUME NEW m \in Nat, m < N, m \in P  PROVE m + 1 \in P
  <2>1. PICK k : k \in Loop(m)
    BY <1>2
  <2> DEFINE b == N - m
             x == step[b][k[b + 1]][k[b + 2]]
             g == [n \in b..N + 2 |-> IF n = b THEN x ELSE k[n]]
  <2>2. /\ b \in 1..N /\ b + 1 = N + 1 - m /\ N + 1 - (m + 1) = b
        /\ b + 1 \in b + 1..N + 2 /\ b + 2 \in b + 1..N + 2
    BY <1>2
  <2>3. /\ k \in [b + 1..N + 2 -> D] /\ k[N + 1] = a /\ k[N + 2] = a
        /\ \A n \in b + 1..N : k[n] = step[n][k[n + 1]][k[n + 2]]
    BY <2>1, <2>2
  <2>4. x \in D
    <3>1. step[b] \in [D -> [D -> D]] /\ k[b + 1] \in D /\ k[b + 2] \in D
      BY <2>2, <2>3
    <3> HIDE DEF b
    <3> QED  BY <3>1
  <2> HIDE DEF b, x
  <2>5. g \in [b..N + 2 -> D] /\ g[N + 1] = a /\ g[N + 2] = a
    BY <2>2, <2>3, <2>4
  <2>6. ASSUME NEW n \in b..N  PROVE g[n] = step[n][g[n + 1]][g[n + 2]]
    <3>1. g[n + 1] = k[n + 1] /\ g[n + 2] = k[n + 2]
      BY <2>2
    <3>2. CASE n = b
      <4>1. g[b] = x /\ g[b + 1] = k[b + 1] /\ g[b + 2] = k[b + 2]
        BY <2>2, <3>1, <3>2
      <4>2. g[b] = step[b][g[b + 1]][g[b + 2]]
        <5> HIDE DEF g
        <5> QED  BY <4>1 DEF x
      <4> QED  BY <3>2, <4>2
    <3>3. CASE n # b
      <4>1. n \in b + 1..N /\ g[n] = k[n]
        BY <2>2, <3>3
      <4> QED  BY <2>3, <3>1, <4>1
    <3> QED  BY <3>2, <3>3
  <2>7. g \in Loop(m + 1)
    BY <2>2, <2>5, <2>6
  <2>8. m + 1 \in 0..N
    BY <1>2
  <2> HIDE DEF g, Loop
  <2> QED  BY <2>7, <2>8
<1>3. N \in P
  <2> HIDE DEF P
  <2>1. \A m \in 0..N : m \in P
    BY <1>1, <1>2, UpTo
  <2> QED  BY <2>1
<1>4. PICK g : g \in Loop(N)
  BY <1>3
<1>5. N + 1 - N = 1
  OBVIOUS
<1> QED  BY <1>4, <1>5 DEF ComputesBack
=============================================================================
