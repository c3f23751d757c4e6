---------------------------- MODULE DataInduction ----------------------------
(***************************************************************************)
(* Induction and recursion over the naturals with sets and functions as    *)
(* parameters where module NaturalsInduction has operators: the provers    *)
(* can instantiate these.  They rest on the least element that every       *)
(* non-empty set of naturals has (WFMin of module WellFoundedInduction).   *)
(***************************************************************************)
EXTENDS Integers, WellFoundedInduction, TLAPS

\* A set with 0 and with the successor of each of its naturals has them all.
LEMMA SetInduction ==
  ASSUME NEW S, 0 \in S, \A n \in Nat : n \in S => n + 1 \in S
  PROVE  Nat \subseteq S
<1> DEFINE R == {p \in Nat \X Nat : p[1] < p[2]}
           T == Nat \ S
<1>1. IsWellFoundedOn(R, Nat)
  BY NatLessThanWellFounded DEF OpToRel
<1>2. SUFFICES ASSUME T # {} PROVE FALSE
  OBVIOUS
<1>3. T \subseteq Nat
  OBVIOUS
<1> HIDE DEF T, R
<1>4. PICK x \in T : \A y \in T : ~ (<<y, x>> \in R)
  BY <1>1, <1>2, <1>3, WFMin
<1>5. x \in Nat /\ x \notin S
  BY <1>4 DEF T
<1>6. x - 1 \in Nat /\ x - 1 \notin S
  BY <1>5
<1>7. x - 1 \in T
  BY <1>6 DEF T
<1>8. <<x - 1, x>> \in R
  BY <1>5, <1>6 DEF R
<1> QED
  BY <1>4, <1>7, <1>8

\* The same, where a number may use all smaller ones.
LEMMA StrongInduction ==
  ASSUME NEW S, \A n \in Nat : (\A m \in Nat : m < n => m \in S) => n \in S
  PROVE  Nat \subseteq S
<1> DEFINE T == {n \in Nat : \A m \in Nat : m < n => m \in S}
<1>1. 0 \in T
  OBVIOUS
<1>2. \A n \in Nat : n \in T => n + 1 \in T
  <2> SUFFICES ASSUME NEW n \in Nat, n \in T PROVE n + 1 \in T
    OBVIOUS
  <2>1. n \in S
    OBVIOUS
  <2>2. ASSUME NEW m \in Nat, m < n + 1
        PROVE  m \in S
    <3>1. m < n \/ m = n
      BY <2>2
    <3> QED
      BY <2>1, <3>1
  <2> QED
    BY <2>2
<1> HIDE DEF T
<1>3. Nat \subseteq T
  BY <1>1, <1>2, SetInduction
<1> QED
  BY <1>3 DEF T

\* What a recursion over 1 .. n with values in S goes by, and what comes of it.
StepFunctions(n, S) == [(1 .. n) \X S -> S]

Recurs(f, n, S, b, step) ==
  /\ f \in [0 .. n -> S]
  /\ f[0] = b
  /\ \A i \in 1 .. n : f[i] = step[<<i, f[i - 1]>>]

\* For each first value and step function there is a function on 0 .. n that
\* goes from each value to the next by that step.
LEMMA Recursion ==
  ASSUME NEW n \in Nat, NEW S, NEW b \in S, NEW step \in StepFunctions(n, S)
  PROVE  \E f : Recurs(f, n, S, b, step)
<1> USE DEF StepFunctions, Recurs
<1> DEFINE Upto(k) == \E f \in [0 .. k -> S] :
                        f[0] = b /\ \A i \in 1 .. k : f[i] = step[<<i, f[i - 1]>>]
           K == {k \in Nat : k <= n => Upto(k)}
<1>1. 0 \in K
  <2>1. [i \in 0 .. 0 |-> b] \in [0 .. 0 -> S] /\ [i \in 0 .. 0 |-> b][0] = b
    OBVIOUS
  <2>2. \A i \in 1 .. 0 : FALSE
    OBVIOUS
  <2> QED
    BY <2>1, <2>2
<1>2. ASSUME NEW k \in Nat, k \in K
      PROVE  k + 1 \in K
  <2> SUFFICES ASSUME k + 1 <= n PROVE Upto(k + 1)
    OBVIOUS
  <2>1. PICK f \in [0 .. k -> S] : f[0] = b /\ \A i \in 1 .. k : f[i] = step[<<i, f[i - 1]>>]
    BY <1>2
  <2> DEFINE v == step[<<k + 1, f[k]>>]
             g == [i \in 0 .. k + 1 |-> IF i = k + 1 THEN v ELSE f[i]]
  <2>2. v \in S
    <3>1. f[k] \in S /\ k + 1 \in 1 .. n
      BY <2>1
    <3> QED
      BY <3>1
  <2>3. g \in [0 .. k + 1 -> S]
    <3> HIDE DEF v
    <3> QED
      BY <2>1, <2>2
  <2>4. g[0] = b
    BY <2>1
  <2>5. ASSUME NEW i \in 1 .. k + 1
        PROVE  g[i] = step[<<i, g[i - 1]>>]
    <3>1. CASE i = k + 1
      <4>1. g[i] = v /\ g[i - 1] = f[k]
        BY <3>1
      <4> QED
        BY <3>1, <4>1
    <3>2. CASE i \in 1 .. k
      <4>1. g[i] = f[i] /\ g[i - 1] = f[i - 1]
        BY <3>2
      <4> QED
        BY <2>1, <3>2, <4>1
    <3> QED
      BY <3>1, <3>2
  <2> QED
    BY <2>3, <2>4, <2>5
<1> HIDE DEF K
<1>3. Nat \subseteq K
  BY <1>1, <1>2, SetInduction
<1> QED
  BY <1>3 DEF K

\* The same up to a bound.
LEMMA IntervalInduction ==
  ASSUME NEW n \in Nat, NEW S, 0 \in S, \A i \in 1 .. n : i - 1 \in S => i \in S
  PROVE  0 .. n \subseteq S
<1> DEFINE T == {k \in Nat : k <= n => k \in S}
<1>1. 0 \in T
  OBVIOUS
<1>2. \A k \in Nat : k \in T => k + 1 \in T
  OBVIOUS
<1> HIDE DEF T
<1>3. Nat \subseteq T
  BY <1>1, <1>2, SetInduction
<1> QED
  BY <1>3 DEF T

\* Functions that start alike and go on alike are alike.
Alike(n, f, g) == \A i \in 0 .. n : f[i] = g[i]
GoOnAlike(n, f, g) == \A i \in 1 .. n : f[i - 1] = g[i - 1] => f[i] = g[i]

LEMMA Agreement ==
  ASSUME NEW n \in Nat, NEW f, NEW g, f[0] = g[0], GoOnAlike(n, f, g)
  PROVE  Alike(n, f, g)
<1> DEFINE S == {i \in 0 .. n : f[i] = g[i]}
<1>1. 0 \in S /\ \A i \in 1 .. n : i - 1 \in S => i \in S
  BY DEF GoOnAlike
<1> HIDE DEF S
<1>2. 0 .. n \subseteq S
  BY <1>1, IntervalInduction
<1> QED
  BY <1>2 DEF S, Alike
-----------------------------------------------------------------------------
\* Induction and recursion over any set whose elements have ranks: each may
\* use all elements of a lower rank.
LEMMA RankInduction ==
  ASSUME NEW I, NEW rank \in [I -> Nat], NEW S,
         \A i \in I : (\A j \in I : rank[j] < rank[i] => j \in S) => i \in S
  PROVE  I \subseteq S
<1> DEFINE T == {n \in Nat : \A i \in I : rank[i] = n => i \in S}
<1>1. ASSUME NEW n \in Nat, \A m \in Nat : m < n => m \in T
      PROVE  n \in T
  <2> SUFFICES ASSUME NEW i \in I, rank[i] = n PROVE i \in S
    OBVIOUS
  <2>1. \A j \in I : rank[j] < rank[i] => j \in S
    BY <1>1
  <2> QED
    BY <2>1
<1> HIDE DEF T
<1>2. Nat \subseteq T
  BY <1>1, StrongInduction
<1> QED
  BY <1>2 DEF T

\* The functions agree below a rank.
SameBelow(I, rank, n, f, g) == \A j \in I : rank[j] < n => f[j] = g[j]

\* Values are a matter of the values at lower ranks.
Descends(I, rank, S, step) ==
  /\ step \in [I \X [I -> S] -> S]
  /\ \A i \in I : \A f, g \in [I -> S] :
       SameBelow(I, rank, rank[i], f, g) => step[<<i, f>>] = step[<<i, g>>]

Follows(I, S, step, f) ==
  /\ f \in [I -> S]
  /\ \A i \in I : f[i] = step[<<i, f>>]

LEMMA RankRecursion ==
  ASSUME NEW I, NEW rank \in [I -> Nat], NEW bound \in Nat, \A i \in I : rank[i] < bound,
         NEW S, NEW b \in S, NEW step, Descends(I, rank, S, step)
  PROVE  \E f : Follows(I, S, step, f)
<1> DEFINE Upto(n) == \E f \in [I -> S] : \A i \in I : rank[i] < n => f[i] = step[<<i, f>>]
           K == {n \in Nat : Upto(n)}
<1>1. 0 \in K
  <2>1. [i \in I |-> b] \in [I -> S] /\ \A i \in I : ~(rank[i] < 0)
    OBVIOUS
  <2> QED
    BY <2>1
<1>2. ASSUME NEW n \in Nat, n \in K
      PROVE  n + 1 \in K
  <2>1. PICK f \in [I -> S] : \A i \in I : rank[i] < n => f[i] = step[<<i, f>>]
    BY <1>2
  <2> DEFINE g == [i \in I |-> IF rank[i] = n THEN step[<<i, f>>] ELSE f[i]]
  <2>2. \A i \in I : step[<<i, f>>] \in S
    BY DEF Descends
  <2>3. g \in [I -> S]
    BY <2>2
  <2>4. \A i \in I : (rank[i] = n => g[i] = step[<<i, f>>]) /\ (rank[i] < n => g[i] = f[i])
    OBVIOUS
  <2> HIDE DEF g
  <2>5. ASSUME NEW i \in I, rank[i] < n + 1
        PROVE  g[i] = step[<<i, g>>]
    <3>1. SameBelow(I, rank, rank[i], f, g)
      <4>1. \A j \in I : rank[j] < rank[i] => rank[j] < n
        BY <2>5
      <4> QED
        BY <2>4, <4>1 DEF SameBelow
    <3>2. step[<<i, f>>] = step[<<i, g>>]
      BY <2>3, <3>1 DEF Descends
    <3>3. rank[i] = n \/ rank[i] < n
      BY <2>5
    <3> QED
      BY <2>1, <2>4, <3>2, <3>3
  <2>6. Upto(n + 1)
    BY <2>3, <2>5
  <2> QED
    BY <2>6
<1> HIDE DEF K
<1>3. Nat \subseteq K
  BY <1>1, <1>2, SetInduction
<1>4. bound \in K
  BY <1>3
<1>5. PICK f \in [I -> S] : \A i \in I : rank[i] < bound => f[i] = step[<<i, f>>]
  BY <1>4 DEF K
<1> QED
  BY <1>5 DEF Follows
=============================================================================
