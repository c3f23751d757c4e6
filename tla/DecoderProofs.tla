---------------------------- MODULE DecoderProofs ----------------------------
(***************************************************************************)
(* Proofs about telemetry-decode beside a writer that writes, fails,       *)
(* rotates and restarts, for any number of segments, records, runs and     *)
(* command lines.                                                          *)
(***************************************************************************)
EXTENDS Decoder, FileStorageProofs

-----------------------------------------------------------------------------
(* Sorting and enumerating.                                                *)

\* A function on 1 .. n is a sequence of that length.
LEMMA SeqOfLength ==
  ASSUME NEW S, NEW n \in Nat, NEW s \in [1 .. n -> S]
  PROVE  s \in Seq(S) /\ Len(s) = n
<1>1. s \in Seq(S)
  BY SeqDef
<1>2. DOMAIN s = 1 .. Len(s) /\ Len(s) \in Nat /\ DOMAIN s = 1 .. n
  BY <1>1, LenProperties
<1>3. \A m \in Nat : 1 .. m = 1 .. n => m = n
  <2> SUFFICES ASSUME NEW m \in Nat, 1 .. m = 1 .. n PROVE m = n
    OBVIOUS
  <2>1. m \in 1 .. m <=> m \in 1 .. n
    OBVIOUS
  <2>2. n \in 1 .. m <=> n \in 1 .. n
    OBVIOUS
  <2> QED
    BY <2>1, <2>2
<1> QED
  BY <1>1, <1>2, <1>3

\* A set of positions can be put into ascending order.
LEMMA AscendingExists ==
  \A n \in Nat : \A T \in SUBSET (1 .. n) :
    \E f \in [1 .. Cardinality(T) -> T] :
      \A j, k \in 1 .. Cardinality(T) : j < k => f[j] < f[k]
<1> DEFINE Ascends(T, f) == \A j, k \in 1 .. Cardinality(T) : j < k => f[j] < f[k]
           G == {n \in Nat : \A T \in SUBSET (1 .. n) :
                               \E f \in [1 .. Cardinality(T) -> T] : Ascends(T, f)}
<1>1. 0 \in G
  <2> SUFFICES ASSUME NEW T \in SUBSET (1 .. 0)
               PROVE  \E f \in [1 .. Cardinality(T) -> T] : Ascends(T, f)
    OBVIOUS
  <2>0. 1 .. 0 = {}
    OBVIOUS
  <2>1. T = {} /\ Cardinality(T) = 0
    BY <2>0, FS_EmptySet
  <2>2. [j \in {} |-> 0] \in [1 .. Cardinality(T) -> T]
    BY <2>0, <2>1
  <2>3. Ascends(T, [j \in {} |-> 0])
    BY <2>0, <2>1
  <2> QED
    BY <2>2, <2>3
<1>2. ASSUME NEW n \in Nat, n \in G
      PROVE  n + 1 \in G
  <2> SUFFICES ASSUME NEW T \in SUBSET (1 .. n + 1)
               PROVE  \E f \in [1 .. Cardinality(T) -> T] : Ascends(T, f)
    OBVIOUS
  <2>1. CASE n + 1 \notin T
    <3>1. T \in SUBSET (1 .. n)
      BY <2>1
    <3> QED
      BY <1>2, <3>1
  <2>2. CASE n + 1 \in T
    <3> DEFINE U == T \ {n + 1}
               c == Cardinality(U)
    <3>1. U \in SUBSET (1 .. n)
      OBVIOUS
    <3>2. IsFiniteSet(T)
      <4>1. IsFiniteSet(1 .. n + 1)
        BY FS_Interval
      <4> QED
        BY <4>1, FS_Subset
    <3>3. IsFiniteSet(U) /\ Cardinality(T) = c + 1 /\ c \in Nat
      <4>1. IsFiniteSet(U) /\ c = Cardinality(T) - 1
        BY <2>2, <3>2, FS_RemoveElement
      <4>2. c \in Nat /\ Cardinality(T) \in Nat
        BY <3>2, <4>1, FS_CardinalityType
      <4> HIDE DEF c
      <4> QED
        BY <4>1, <4>2
    <3>4. PICK f \in [1 .. c -> U] : Ascends(U, f)
      BY <1>2, <3>1
    <3> DEFINE g == [k \in 1 .. c + 1 |-> IF k = c + 1 THEN n + 1 ELSE f[k]]
    <3>5. \A k \in 1 .. c : f[k] \in T /\ f[k] \in 1 .. n /\ g[k] = f[k]
      <4> HIDE DEF c
      <4>1. \A k \in 1 .. c : f[k] \in U
        BY <3>4
      <4>2. \A k \in 1 .. c : k \in 1 .. c + 1 /\ k # c + 1
        BY <3>3
      <4> QED
        BY <3>1, <4>1, <4>2
    <3>6. g \in [1 .. Cardinality(T) -> T]
      <4>1. \A k \in 1 .. c + 1 : k = c + 1 \/ k \in 1 .. c
        BY <3>3
      <4> HIDE DEF c
      <4>2. \A k \in 1 .. c + 1 : (IF k = c + 1 THEN n + 1 ELSE f[k]) \in T
        BY <2>2, <3>5, <4>1
      <4> QED
        BY <3>3, <4>2
    <3>7. \A j, k \in 1 .. c : j < k => f[j] < f[k]
      BY <3>4
    <3>8. g[c + 1] = n + 1
      BY <3>3
    <3> HIDE DEF g, c
    <3>9. ASSUME NEW j \in 1 .. c + 1, NEW k \in 1 .. c + 1, j < k
          PROVE  g[j] < g[k]
      <4>1. j \in 1 .. c
        BY <3>3, <3>9
      <4>2. CASE k = c + 1
        BY <3>5, <3>8, <4>1, <4>2
      <4>3. CASE k \in 1 .. c
        BY <3>5, <3>7, <3>9, <4>1, <4>3
      <4> QED
        BY <3>3, <4>2, <4>3
    <3>10. Ascends(T, g)
      BY <3>3, <3>9
    <3> QED
      BY <3>6, <3>10
  <2> QED
    BY <2>1, <2>2
<1> HIDE DEF G
<1>3. Nat \subseteq G
  BY <1>1, <1>2, SetInduction
<1> QED
  BY <1>3 DEF G

\* `Ascending` lists each of the positions once, in order.
LEMMA AscendingIs ==
  ASSUME NEW n \in Nat, NEW T \in SUBSET (1 .. n)
  PROVE  /\ IsFiniteSet(T) /\ Cardinality(T) \in Nat
         /\ Ascending(T) \in [1 .. Cardinality(T) -> T]
         /\ Ascending(T) \in Seq(T) /\ Len(Ascending(T)) = Cardinality(T)
         /\ \A j, k \in 1 .. Cardinality(T) : j < k => Ascending(T)[j] < Ascending(T)[k]
         /\ \A t \in T : \E k \in 1 .. Cardinality(T) : Ascending(T)[k] = t
         /\ Ascending(T) \in Bijection(1 .. Cardinality(T), T)
<1> DEFINE c == Cardinality(T)
           f == Ascending(T)
<1>1. IsFiniteSet(T) /\ c \in Nat
  <2>1. IsFiniteSet(1 .. n)
    BY FS_Interval
  <2> QED
    BY <2>1, FS_Subset, FS_CardinalityType
<1>2. f \in [1 .. c -> T] /\ \A j, k \in 1 .. c : j < k => f[j] < f[k]
  <2>1. \E s \in [1 .. c -> T] : \A j, k \in 1 .. c : j < k => s[j] < s[k]
    BY AscendingExists
  <2>2. \A s \in [1 .. c -> T] : DOMAIN s = 1 .. c
    OBVIOUS
  <2>3. \E s \in [1 .. c -> T] : \A j, k \in DOMAIN s : j < k => s[j] < s[k]
    BY <2>1, <2>2
  <2>4. f = CHOOSE s \in [1 .. c -> T] : \A j, k \in DOMAIN s : j < k => s[j] < s[k]
    BY DEF Ascending
  <2> HIDE DEF f, c
  <2>5. f \in [1 .. c -> T] /\ \A j, k \in DOMAIN f : j < k => f[j] < f[k]
    BY <2>3, <2>4
  <2> QED
    BY <2>2, <2>5
<1> HIDE DEF f, c
<1>3. \A k \in 1 .. c : f[k] \in T /\ f[k] \in Nat
  <2>1. \A t \in T : t \in Nat
    OBVIOUS
  <2> QED
    BY <1>2, <2>1
<1>4. f \in Injection(1 .. c, T)
  <2> SUFFICES ASSUME NEW j \in 1 .. c, NEW k \in 1 .. c, f[j] = f[k] PROVE j = k
    BY <1>2 DEF Injection, IsInjective
  <2> QED
    BY <1>1, <1>2, <1>3
<1>5. IsFiniteSet(1 .. c) /\ Cardinality(1 .. c) = c
  BY <1>1, FS_Interval
<1>6. f \in Surjection(1 .. c, T)
  BY <1>1, <1>4, <1>5, FS_Injection DEF c
<1>7. \A t \in T : \E k \in 1 .. c : f[k] = t
  BY <1>6 DEF Surjection
<1>8. f \in Seq(T) /\ Len(f) = c
  BY <1>1, <1>2, SeqOfLength
<1> QED
  BY <1>1, <1>2, <1>4, <1>6, <1>7, <1>8 DEF f, c, Bijection

\* Every sequence of numbers can be sorted.
LEMMA SortExists ==
  \A n \in Nat : \A s \in [1 .. n -> Nat] :
    \E p \in Bijection(1 .. n, 1 .. n) : \A j, k \in 1 .. n : j < k => s[p[j]] <= s[p[k]]
<1> DEFINE Sorts(n, s, p) == \A j, k \in 1 .. n : j < k => s[p[j]] <= s[p[k]]
           G == {n \in Nat : \A s \in [1 .. n -> Nat] :
                               \E p \in Bijection(1 .. n, 1 .. n) : Sorts(n, s, p)}
<1>1. 0 \in G
  <2> SUFFICES ASSUME NEW s \in [1 .. 0 -> Nat]
               PROVE  \E p \in Bijection(1 .. 0, 1 .. 0) : Sorts(0, s, p)
    OBVIOUS
  <2>0. 1 .. 0 = {}
    OBVIOUS
  <2>1. [j \in {} |-> 0] \in Bijection({}, {})
    BY DEF Bijection, Injection, Surjection, IsInjective
  <2>2. Sorts(0, s, [j \in {} |-> 0])
    BY <2>0
  <2> QED
    BY <2>0, <2>1, <2>2
<1>2. ASSUME NEW n \in Nat, n \in G
      PROVE  n + 1 \in G
  <2> SUFFICES ASSUME NEW s \in [1 .. n + 1 -> Nat]
               PROVE  \E p \in Bijection(1 .. n + 1, 1 .. n + 1) : Sorts(n + 1, s, p)
    OBVIOUS
  <2>0. /\ \A k \in 1 .. n + 1 : k = n + 1 \/ k \in 1 .. n
        /\ \A k \in 1 .. n : k \in 1 .. n + 1 /\ k # n + 1
        /\ n + 1 \in 1 .. n + 1
        /\ \A k \in 1 .. n + 1 : s[k] \in Nat
    OBVIOUS
  <2>1. \A t \in [1 .. n -> Nat] :
          \E p \in Bijection(1 .. n, 1 .. n) : Sorts(n, t, p)
    BY <1>2
  \* The largest element comes last.
  <2>2. PICK m \in 1 .. n + 1 : \A k \in 1 .. n + 1 : s[k] <= s[m]
    <3>1. CASE n = 0
      BY <2>0, <3>1
    <3>2. CASE n # 0
      <4> DEFINE t == [k \in 1 .. n |-> s[k]]
      <4>1. t \in [1 .. n -> Nat] /\ \A k \in 1 .. n : t[k] = s[k]
        BY <2>0
      <4> HIDE DEF t
      <4>2. PICK p \in Bijection(1 .. n, 1 .. n) : Sorts(n, t, p)
        BY <2>1, <4>1
      <4>3. /\ \A k \in 1 .. n : p[k] \in 1 .. n
            /\ \A k \in 1 .. n : \E j \in 1 .. n : p[j] = k
        BY DEF Bijection, Injection, Surjection
      <4>4. n \in 1 .. n /\ p[n] \in 1 .. n
        BY <3>2, <4>3
      <4>5. ASSUME NEW k \in 1 .. n
            PROVE  s[k] <= s[p[n]]
        <5>1. PICK j \in 1 .. n : p[j] = k
          BY <4>3
        <5>2. CASE j = n
          BY <2>0, <5>1, <5>2
        <5>3. CASE j < n
          BY <4>1, <4>2, <4>4, <5>1, <5>3
        <5> QED
          BY <5>2, <5>3
      <4>6. CASE s[n + 1] <= s[p[n]]
        BY <2>0, <4>4, <4>5, <4>6
      <4>7. CASE s[p[n]] <= s[n + 1]
        <5>1. \A a, b, c \in Nat : a <= b /\ b <= c => a <= c
          OBVIOUS
        <5>2. \A k \in 1 .. n + 1 : s[k] <= s[n + 1]
          BY <2>0, <4>4, <4>5, <4>7, <5>1
        <5> QED
          BY <2>0, <5>2
      <4>8. s[n + 1] \in Nat /\ s[p[n]] \in Nat
        BY <2>0, <4>4
      <4>9. \A a, b \in Nat : a <= b \/ b <= a
        OBVIOUS
      <4>10. s[n + 1] <= s[p[n]] \/ s[p[n]] <= s[n + 1]
        BY <4>8, <4>9
      <4> QED
        BY <4>6, <4>7, <4>10
    <3> QED
      BY <3>1, <3>2
  \* The others are sorted before it, the last one standing in at its place.
  <2> DEFINE t == [k \in 1 .. n |-> IF k = m THEN s[n + 1] ELSE s[k]]
  <2>3. /\ t \in [1 .. n -> Nat]
        /\ \A k \in 1 .. n : t[k] = IF k = m THEN s[n + 1] ELSE s[k]
    BY <2>0
  <2> HIDE DEF t
  <2>4. PICK q \in Bijection(1 .. n, 1 .. n) : Sorts(n, t, q)
    BY <2>1, <2>3
  <2>5. /\ \A k \in 1 .. n : q[k] \in 1 .. n
        /\ \A k \in 1 .. n : \E j \in 1 .. n : q[j] = k
        /\ \A j, k \in 1 .. n : q[j] = q[k] => j = k
    BY DEF Bijection, Injection, Surjection, IsInjective
  <2> DEFINE p == [k \in 1 .. n + 1 |->
                     IF k = n + 1 THEN m ELSE IF q[k] = m THEN n + 1 ELSE q[k]]
  <2>6. /\ DOMAIN p = 1 .. n + 1
        /\ p[n + 1] = m
        /\ \A k \in 1 .. n : p[k] = IF q[k] = m THEN n + 1 ELSE q[k]
    BY <2>0
  <2>7. p \in [1 .. n + 1 -> 1 .. n + 1]
    BY <2>0, <2>5
  <2> HIDE DEF p
  <2>8. \A k \in 1 .. n : p[k] \in 1 .. n + 1 /\ p[k] # m /\ s[p[k]] = t[q[k]]
    BY <2>0, <2>3, <2>5, <2>6
  <2>9. ASSUME NEW j \in 1 .. n + 1, NEW k \in 1 .. n + 1, p[j] = p[k]
        PROVE  j = k
    <3>1. CASE j = n + 1
      BY <2>0, <2>6, <2>8, <2>9, <3>1
    <3>2. CASE k = n + 1
      BY <2>0, <2>6, <2>8, <2>9, <3>2
    <3>3. CASE j \in 1 .. n /\ k \in 1 .. n
      <4>1. q[j] = q[k]
        BY <2>0, <2>5, <2>6, <2>9, <3>3
      <4> QED
        BY <2>5, <3>3, <4>1
    <3> QED
      BY <2>0, <3>1, <3>2, <3>3
  <2>10. ASSUME NEW k \in 1 .. n + 1
         PROVE  \E j \in 1 .. n + 1 : p[j] = k
    <3>1. CASE k = m
      BY <2>0, <2>6, <3>1
    <3>2. CASE k # m /\ k \in 1 .. n
      <4>1. PICK j \in 1 .. n : q[j] = k
        BY <2>5, <3>2
      <4>2. p[j] = k /\ j \in 1 .. n + 1
        BY <2>0, <2>6, <3>2, <4>1
      <4> QED
        BY <4>2
    <3>3. CASE k # m /\ k = n + 1
      <4>1. m \in 1 .. n
        BY <2>0, <3>3
      <4>2. PICK j \in 1 .. n : q[j] = m
        BY <2>5, <4>1
      <4>3. p[j] = k /\ j \in 1 .. n + 1
        BY <2>0, <2>6, <3>3, <4>2
      <4> QED
        BY <4>3
    <3> QED
      BY <2>0, <3>1, <3>2, <3>3
  <2>11. p \in Bijection(1 .. n + 1, 1 .. n + 1)
    BY <2>6, <2>7, <2>9, <2>10 DEF Bijection, Injection, Surjection, IsInjective
  <2>12. ASSUME NEW j \in 1 .. n + 1, NEW k \in 1 .. n + 1, j < k
         PROVE  s[p[j]] <= s[p[k]]
    <3>1. j \in 1 .. n
      BY <2>0, <2>12
    <3>2. CASE k = n + 1
      BY <2>2, <2>6, <2>8, <3>1, <3>2
    <3>3. CASE k \in 1 .. n
      <4>1. t[q[j]] <= t[q[k]]
        BY <2>4, <2>12, <3>1, <3>3
      <4> QED
        BY <2>8, <3>1, <3>3, <4>1
    <3> QED
      BY <2>0, <3>2, <3>3
  <2> QED
    BY <2>11, <2>12
<1> HIDE DEF G
<1>3. Nat \subseteq G
  BY <1>1, <1>2, SetInduction
<1> QED
  BY <1>3 DEF G

\* SortedByName puts the paths in the order of their numbers, and neither
\* loses one nor adds one; what occurs twice in it was given twice.
LEMMA SortedIs ==
  ASSUME NamesInOrder, NEW listed \in Seq(Indices)
  PROVE  LET sorted == SortedByName(listed)
         IN  /\ sorted \in Seq(Indices) /\ Len(sorted) = Len(listed)
             /\ ToSet(sorted) = ToSet(listed)
             /\ \A j, k \in 1 .. Len(sorted) : j < k => sorted[j] <= sorted[k]
             /\ \A j, k \in 1 .. Len(sorted) : j < k /\ sorted[j] = sorted[k] =>
                  Cardinality({i \in 1 .. Len(listed) : listed[i] = sorted[j]}) > 1
<1> DEFINE n == Len(listed)
           Sorts(p) == \A j, k \in 1 .. n : j < k => ~NameBefore(listed[p[k]], listed[p[j]])
           order == CHOOSE p \in Bijection(1 .. n, 1 .. n) : Sorts(p)
           sorted == [k \in 1 .. n |-> listed[order[k]]]
<1>1. n \in Nat /\ DOMAIN listed = 1 .. n /\ \A k \in 1 .. n : listed[k] \in Indices
  BY LenProperties, ElementOfSeq
<1>2. \A i \in Indices : i \in Nat
  BY FileStorageAssumption
<1>3. SortedByName(listed) = sorted
  BY <1>1 DEF SortedByName
<1>4. order \in Bijection(1 .. n, 1 .. n) /\ Sorts(order)
  <2>1. listed \in [1 .. n -> Nat]
    BY <1>1, <1>2, LenProperties
  <2>2. PICK p \in Bijection(1 .. n, 1 .. n) :
               \A j, k \in 1 .. n : j < k => listed[p[j]] <= listed[p[k]]
    BY <1>1, <2>1, SortExists
  <2>3. \A k \in 1 .. n : p[k] \in 1 .. n
    BY DEF Bijection, Injection
  <2>4. Sorts(p)
    <3> SUFFICES ASSUME NEW j \in 1 .. n, NEW k \in 1 .. n, j < k
                 PROVE  ~NameBefore(listed[p[k]], listed[p[j]])
      OBVIOUS
    <3>1. listed[p[j]] \in Indices /\ listed[p[k]] \in Indices /\ listed[p[j]] <= listed[p[k]]
      BY <1>1, <2>2, <2>3
    <3>2. ~(listed[p[k]] < listed[p[j]])
      BY <1>2, <3>1
    <3> QED
      BY <3>1, <3>2 DEF NamesInOrder
  <2> HIDE DEF Sorts
  <2> QED
    BY <2>2, <2>4
<1> HIDE DEF order
<1>5. /\ \A k \in 1 .. n : order[k] \in 1 .. n
      /\ \A k \in 1 .. n : \E j \in 1 .. n : order[j] = k
      /\ \A j, k \in 1 .. n : order[j] = order[k] => j = k
  BY <1>4 DEF Bijection, Injection, Surjection, IsInjective
<1>6. sorted \in [1 .. n -> Indices] /\ \A k \in 1 .. n : sorted[k] = listed[order[k]]
  BY <1>1, <1>5
<1> HIDE DEF sorted
<1>7. sorted \in Seq(Indices) /\ Len(sorted) = n
  <2> HIDE DEF n
  <2> QED
    BY <1>1, <1>6, SeqOfLength
<1>9. ToSet(sorted) = ToSet(listed)
  <2>1. ToSet(sorted) = {sorted[k] : k \in 1 .. n} /\ ToSet(listed) = {listed[k] : k \in 1 .. n}
    BY <1>1, <1>6 DEF ToSet
  <2> HIDE DEF n
  <2>2. \A k \in 1 .. n : \E j \in 1 .. n : sorted[k] = listed[j]
    BY <1>5, <1>6
  <2>3. ASSUME NEW k \in 1 .. n
        PROVE  \E j \in 1 .. n : listed[k] = sorted[j]
    <3>1. PICK j \in 1 .. n : order[j] = k
      BY <1>5
    <3>2. sorted[j] = listed[order[j]]
      BY <1>6
    <3> QED
      BY <3>1, <3>2
  <2> QED
    BY <2>1, <2>2, <2>3
<1>10. ASSUME NEW j \in 1 .. n, NEW k \in 1 .. n, j < k
       PROVE  /\ sorted[j] <= sorted[k]
              /\ sorted[j] = sorted[k] =>
                   Cardinality({i \in 1 .. n : listed[i] = sorted[j]}) > 1
  <2>1. sorted[j] \in Indices /\ sorted[k] \in Indices
    BY <1>6
  <2>2. ~(sorted[k] < sorted[j])
    BY <1>4, <1>6, <1>10, <2>1 DEF NamesInOrder
  <2>3. ASSUME sorted[j] = sorted[k]
        PROVE  Cardinality({i \in 1 .. n : listed[i] = sorted[j]}) > 1
    <3> DEFINE S == {i \in 1 .. n : listed[i] = sorted[j]}
    <3>1. order[j] \in S /\ order[k] \in S /\ order[j] # order[k]
      <4>1. order[j] \in 1 .. n /\ order[k] \in 1 .. n
        BY <1>5
      <4>2. listed[order[j]] = sorted[j] /\ listed[order[k]] = sorted[j]
        BY <1>6, <2>3
      <4>3. order[j] # order[k]
        BY <1>1, <1>5, <1>10
      <4> HIDE DEF n
      <4> QED
        BY <4>1, <4>2, <4>3
    <3>2. IsFiniteSet(1 .. n) /\ S \in SUBSET (1 .. n)
      BY <1>1, FS_Interval
    <3>3. IsFiniteSet(S)
      BY <3>2, FS_Subset
    <3> HIDE DEF S
    <3>4. Cardinality(S) \in Nat /\ Cardinality(S) # 0 /\ Cardinality(S) # 1
      <4>1. Cardinality(S) \in Nat
        BY <3>3, FS_CardinalityType
      <4>2. Cardinality(S) # 0
        BY <3>1, <3>3, FS_EmptySet
      <4>3. Cardinality(S) # 1
        BY <3>1, <3>3, FS_Singleton
      <4> QED
        BY <4>1, <4>2, <4>3
    <3>5. Cardinality(S) > 1
      BY <3>4
    <3> QED
      BY <3>5 DEF S
  <2> QED
    BY <1>2, <2>1, <2>2, <2>3
<1> HIDE DEF n
<1> QED
  BY <1>3, <1>7, <1>9, <1>10 DEF n

-----------------------------------------------------------------------------
(* What is printed of a file.                                              *)

\* read_segment yields a result for each piece that ends a chunk, in order.
LEMMA ResultsAre ==
  ASSUME NEW p, IsFile(p)
  PROVE  \E c \in Nat : \E end \in [1 .. c -> 1 .. Len(p)] :
           /\ \A j, k \in 1 .. c : j < k => end[j] < end[k]
           /\ \A i \in 1 .. Len(p) : EndsChunk(p, i) => \E k \in 1 .. c : end[k] = i
           /\ DOMAIN Results(p) = 1 .. c /\ Len(Results(p)) = c
           /\ \A k \in 1 .. c :
                Results(p)[k] = [ok |-> Readable(p, end[k]), record |-> RecordIn(p[end[k]])]
<1> DEFINE T == {i \in 1 .. Len(p) : EndsChunk(p, i)}
           c == Cardinality(T)
           end == Ascending(T)
<1>1. Len(p) \in Nat
  BY LenProperties DEF IsFile
<1>2. /\ c \in Nat /\ end \in [1 .. c -> T] /\ Len(end) = c
      /\ \A j, k \in 1 .. c : j < k => end[j] < end[k]
      /\ \A t \in T : \E k \in 1 .. c : end[k] = t
  <2>1. T \in SUBSET (1 .. Len(p))
    OBVIOUS
  <2> HIDE DEF T
  <2> QED
    BY <1>1, <2>1, AscendingIs
<1>3. Results(p) = [k \in 1 .. c |->
                      [ok |-> Readable(p, end[k]), record |-> RecordIn(p[end[k]])]]
  BY <1>2 DEF Results
<1>4. \A t \in T : t \in 1 .. Len(p)
  OBVIOUS
<1>5. \A i \in 1 .. Len(p) : EndsChunk(p, i) => i \in T
  OBVIOUS
<1> HIDE DEF T, c, end
<1>6. end \in [1 .. c -> 1 .. Len(p)]
  BY <1>2, <1>4
<1>7. DOMAIN Results(p) = 1 .. c /\ Len(Results(p)) = c
  <2> DEFINE S == {Results(p)[k] : k \in 1 .. c}
  <2>1. Results(p) \in [1 .. c -> S]
    BY <1>3
  <2> HIDE DEF S
  <2> QED
    BY <1>2, <2>1, SeqOfLength
<1> QED
  BY <1>2, <1>3, <1>5, <1>6, <1>7

\* Of a sequence of results the good ones are printed, each once.
LEMMA PrintedAre ==
  ASSUME NEW c \in Nat, NEW results, DOMAIN results = 1 .. c,
         \A k \in 1 .. c : results[k].record \in Record
  PROVE  LET good == {k \in 1 .. c : Good(results[k])}
         IN  /\ good \in SUBSET (1 .. c)
             /\ IsFiniteSet(good) /\ Cardinality(good) \in Nat
             /\ Printed(results) \in Seq(Record)
             /\ Len(Printed(results)) = Cardinality(good)
             /\ DOMAIN Printed(results) = 1 .. Cardinality(good)
             /\ Ascending(good) \in Bijection(1 .. Cardinality(good), good)
             /\ \A j, k \in 1 .. Cardinality(good) :
                  j < k => Ascending(good)[j] < Ascending(good)[k]
             /\ \A k \in 1 .. Cardinality(good) :
                  Printed(results)[k] = results[Ascending(good)[k]].record
<1> DEFINE good == {k \in 1 .. c : Good(results[k])}
           n == Cardinality(good)
           g == Ascending(good)
<1>1. good \in SUBSET (1 .. c)
  OBVIOUS
<1>2. Printed(results) = [k \in DOMAIN g |-> results[g[k]].record]
  BY DEF Printed
<1>3. \A k \in good : results[k].record \in Record
  OBVIOUS
<1> HIDE DEF good
<1>4. /\ IsFiniteSet(good) /\ n \in Nat /\ g \in [1 .. n -> good]
      /\ \A j, k \in 1 .. n : j < k => g[j] < g[k]
      /\ g \in Bijection(1 .. n, good)
  BY <1>1, AscendingIs
<1> HIDE DEF n, g
<1>5. /\ Printed(results) \in [1 .. n -> Record]
      /\ \A k \in 1 .. n : Printed(results)[k] = results[g[k]].record
  BY <1>2, <1>3, <1>4
<1>6. Printed(results) \in Seq(Record) /\ Len(Printed(results)) = n
  BY <1>4, <1>5, SeqOfLength
<1>7. DOMAIN Printed(results) = 1 .. n
  BY <1>5
<1> QED
  BY <1>1, <1>4, <1>5, <1>6, <1>7 DEF good, n, g

\* The records printed of a file are those of its readable pieces that pass
\* the filter, in the order of the pieces.
LEMMA ShowsAre ==
  ASSUME NEW p, IsFile(p)
  PROVE  LET P == Printed(Results(p))
         IN  /\ P \in Seq(Record)
             /\ \E at \in [1 .. Len(P) -> 1 .. Len(p)] :
                  /\ \A m, k \in 1 .. Len(P) : m < k => at[m] < at[k]
                  /\ \A k \in 1 .. Len(P) : P[k] = RecordIn(p[at[k]])
             /\ \A j \in 1 .. Len(p) : Readable(p, j) /\ PassesFilter(RecordIn(p[j])) =>
                  \E k \in 1 .. Len(P) : P[k] = RecordIn(p[j])
<1> DEFINE R == Results(p)
           P == Printed(R)
<1>0. PICK c \in Nat : \E end \in [1 .. c -> 1 .. Len(p)] :
        /\ \A j, k \in 1 .. c : j < k => end[j] < end[k]
        /\ \A i \in 1 .. Len(p) : EndsChunk(p, i) => \E k \in 1 .. c : end[k] = i
        /\ DOMAIN R = 1 .. c
        /\ \A k \in 1 .. c : R[k] = [ok |-> Readable(p, end[k]), record |-> RecordIn(p[end[k]])]
  BY ResultsAre
<1>1. PICK end \in [1 .. c -> 1 .. Len(p)] :
        /\ \A j, k \in 1 .. c : j < k => end[j] < end[k]
        /\ \A i \in 1 .. Len(p) : EndsChunk(p, i) => \E k \in 1 .. c : end[k] = i
        /\ DOMAIN R = 1 .. c
        /\ \A k \in 1 .. c : R[k] = [ok |-> Readable(p, end[k]), record |-> RecordIn(p[end[k]])]
  BY <1>0
<1>2. \A j \in 1 .. Len(p) : RecordIn(p[j]) \in Record
  <2> SUFFICES ASSUME NEW j \in 1 .. Len(p) PROVE RecordIn(p[j]) \in Record
    OBVIOUS
  <2>1. p[j] \in Pieces
    BY ElementOfSeq DEF IsFile
  <2> QED
    BY <2>1 DEF Pieces, RecordIn, Record
<1> HIDE DEF R
<1>3. \A k \in 1 .. c : R[k].record \in Record /\ end[k] \in 1 .. Len(p)
                       /\ R[k].record = RecordIn(p[end[k]]) /\ R[k].ok = Readable(p, end[k])
  BY <1>1, <1>2
<1> DEFINE good == {k \in 1 .. c : Good(R[k])}
           n == Cardinality(good)
           g == Ascending(good)
<1>4. /\ good \in SUBSET (1 .. c) /\ n \in Nat
      /\ P \in Seq(Record) /\ Len(P) = n
      /\ g \in Bijection(1 .. n, good)
      /\ \A j, k \in 1 .. n : j < k => g[j] < g[k]
      /\ \A k \in 1 .. n : P[k] = R[g[k]].record
  <2>1. DOMAIN R = 1 .. c /\ \A k \in 1 .. c : R[k].record \in Record
    BY <1>1, <1>3
  <2> QED
    BY <2>1, PrintedAre
<1>5. \A k \in good : k \in 1 .. c
  OBVIOUS
<1>6. \A k \in 1 .. c : R[k].ok /\ PassesFilter(R[k].record) => k \in good
  BY DEF Good
<1> HIDE DEF good, n, g, P
<1>7. /\ \A k \in 1 .. n : g[k] \in 1 .. c
      /\ \A k \in good : \E m \in 1 .. n : g[m] = k
  BY <1>4, <1>5 DEF Bijection, Injection, Surjection
<1> DEFINE at == [k \in 1 .. n |-> end[g[k]]]
<1>8. at \in [1 .. n -> 1 .. Len(p)] /\ \A k \in 1 .. n : at[k] = end[g[k]]
  BY <1>1, <1>3, <1>7
<1> HIDE DEF at
<1>9. \A m, k \in 1 .. n : m < k => at[m] < at[k]
  <2> SUFFICES ASSUME NEW m \in 1 .. n, NEW k \in 1 .. n, m < k PROVE at[m] < at[k]
    OBVIOUS
  <2>1. g[m] < g[k] /\ g[m] \in 1 .. c /\ g[k] \in 1 .. c
    BY <1>4, <1>7
  <2>2. end[g[m]] < end[g[k]]
    BY <1>1, <2>1
  <2> QED
    BY <1>8, <2>2
<1>10. \A k \in 1 .. n : P[k] = RecordIn(p[at[k]])
  <2> SUFFICES ASSUME NEW k \in 1 .. n PROVE P[k] = RecordIn(p[at[k]])
    OBVIOUS
  <2>1. P[k] = R[g[k]].record /\ g[k] \in 1 .. c /\ at[k] = end[g[k]]
    BY <1>4, <1>7, <1>8
  <2>2. R[g[k]].record = RecordIn(p[end[g[k]]])
    BY <1>3, <2>1
  <2> QED
    BY <2>1, <2>2
<1>11. ASSUME NEW j \in 1 .. Len(p), Readable(p, j), PassesFilter(RecordIn(p[j]))
       PROVE  \E k \in 1 .. n : P[k] = RecordIn(p[j])
  <2>1. PICK k \in 1 .. c : end[k] = j
    BY <1>1, <1>11 DEF Readable
  <2>2. k \in good
    BY <1>3, <1>6, <1>11, <2>1
  <2>3. PICK m \in 1 .. n : g[m] = k
    BY <1>7, <2>2
  <2>4. P[m] = R[k].record
    BY <1>4, <2>3
  <2>5. R[k].record = RecordIn(p[j])
    BY <1>3, <2>1
  <2> QED
    BY <2>4, <2>5
<1> QED
  BY <1>4, <1>8, <1>9, <1>10, <1>11 DEF P, R

-----------------------------------------------------------------------------
(* Counting.                                                               *)

\* How many elements of a sequence are in a set, and how many results are
\* printed with a record that is.
CountIn(s, C) == Cardinality({k \in 1 .. Len(s) : s[k] \in C})
CountGood(results, C) ==
  Cardinality({k \in DOMAIN results : Good(results[k]) /\ results[k].record \in C})

\* What is counted in two sequences is counted in the one made of them.
LEMMA CountConcat ==
  ASSUME NEW S, NEW s \in Seq(S), NEW t \in Seq(S), NEW C
  PROVE  CountIn(s \o t, C) = CountIn(s, C) + CountIn(t, C) /\ CountIn(s, C) \in Nat
<1> SUFFICES /\ Cardinality({k \in 1 .. Len(s \o t) : (s \o t)[k] \in C})
                  = Cardinality({k \in 1 .. Len(s) : s[k] \in C})
                      + Cardinality({k \in 1 .. Len(t) : t[k] \in C})
             /\ Cardinality({k \in 1 .. Len(s) : s[k] \in C}) \in Nat
  BY DEF CountIn
<1> DEFINE m == Len(s)
           n == Len(t)
           both == {k \in 1 .. Len(s \o t) : (s \o t)[k] \in C}
           left == {k \in 1 .. m : s[k] \in C}
           right == {k \in 1 .. n : t[k] \in C}
           moved == {k \in m + 1 .. m + n : t[k - m] \in C}
<1>1. m \in Nat /\ n \in Nat /\ Len(s \o t) = m + n
  BY LenProperties, ConcatProperties
<1>2. \A k \in 1 .. m + n : (s \o t)[k] = IF k <= m THEN s[k] ELSE t[k - m]
  BY ConcatProperties
<1>3. both = left \cup moved /\ left \cap moved = {}
  <2> HIDE DEF m, n
  <2>1. \A k : k \in both <=> k \in left \/ k \in moved
    BY <1>1, <1>2
  <2>2. \A k : ~(k \in left /\ k \in moved)
    BY <1>1
  <2> QED
    BY <2>1, <2>2
<1>4. IsFiniteSet(left) /\ IsFiniteSet(right)
  <2>1. IsFiniteSet(1 .. m) /\ IsFiniteSet(1 .. n)
    BY <1>1, FS_Interval
  <2> QED
    BY <2>1, FS_Subset
<1>5. IsFiniteSet(moved) /\ Cardinality(moved) = Cardinality(right)
  <2> DEFINE f == [k \in right |-> k + m]
  <2> HIDE DEF m, n
  <2>1. f \in [right -> moved]
    BY <1>1
  <2>2. \A j, k \in right : f[j] = f[k] => j = k
    BY <1>1
  <2>3. ASSUME NEW k \in moved
        PROVE  \E j \in right : f[j] = k
    <3>1. k - m \in right /\ f[k - m] = k
      BY <1>1
    <3> QED
      BY <3>1
  <2> HIDE DEF f, right, moved
  <2>4. f \in Bijection(right, moved)
    BY <2>1, <2>2, <2>3 DEF Bijection, Injection, Surjection, IsInjective
  <2> QED
    BY <1>4, <2>4, FS_Bijection DEF ExistsBijection
<1> HIDE DEF both, left, right, moved
<1>6. Cardinality(left) \in Nat /\ Cardinality(moved) \in Nat /\ Cardinality(left \cap moved) = 0
  BY <1>3, <1>4, <1>5, FS_CardinalityType, FS_EmptySet
<1>7. Cardinality(both) = Cardinality(left) + Cardinality(moved)
  <2>1. Cardinality(left \cup moved)
          = Cardinality(left) + Cardinality(moved) - Cardinality(left \cap moved)
    BY <1>4, <1>5, FS_Union
  <2> QED
    BY <1>3, <1>6, <2>1
<1> QED
  BY <1>5, <1>6, <1>7 DEF both, left, right, m, n

\* Counting the good results is counting what is printed of them.
LEMMA CountPrinted ==
  ASSUME NEW c \in Nat, NEW results, DOMAIN results = 1 .. c,
         \A k \in 1 .. c : results[k].record \in Record, NEW C
  PROVE  CountGood(results, C) = CountIn(Printed(results), C)
<1> SUFFICES Cardinality({k \in 1 .. c : Good(results[k]) /\ results[k].record \in C})
               = Cardinality({k \in 1 .. Len(Printed(results)) : Printed(results)[k] \in C})
  BY DEF CountGood, CountIn
<1> DEFINE good == {k \in 1 .. c : Good(results[k])}
           n == Cardinality(good)
           g == Ascending(good)
           from == {m \in 1 .. n : Printed(results)[m] \in C}
           to == {k \in 1 .. c : Good(results[k]) /\ results[k].record \in C}
           f == [m \in from |-> g[m]]
<1>1. /\ n \in Nat /\ Len(Printed(results)) = n
      /\ g \in Bijection(1 .. n, good)
      /\ \A k \in 1 .. n : Printed(results)[k] = results[g[k]].record
  BY PrintedAre
<1>2. to = {k \in good : results[k].record \in C}
  OBVIOUS
<1> HIDE DEF good, n, g, to
<1>3. /\ \A k \in 1 .. n : g[k] \in good
      /\ \A k \in good : \E m \in 1 .. n : g[m] = k
      /\ \A j, k \in 1 .. n : g[j] = g[k] => j = k
  BY <1>1 DEF Bijection, Injection, Surjection, IsInjective
<1>4. \A m \in from : m \in 1 .. n /\ f[m] = g[m] /\ g[m] \in to
  BY <1>1, <1>2, <1>3
<1>5. \A k \in to : \E m \in from : f[m] = k
  <2> SUFFICES ASSUME NEW k \in to PROVE \E m \in from : f[m] = k
    OBVIOUS
  <2>1. PICK m \in 1 .. n : g[m] = k
    BY <1>2, <1>3
  <2>2. m \in from
    BY <1>1, <1>2, <2>1
  <2> QED
    BY <2>1, <2>2
<1>6. f \in [from -> to]
  BY <1>4
<1>7. IsFiniteSet(from)
  <2>1. IsFiniteSet(1 .. n)
    BY <1>1, FS_Interval
  <2> QED
    BY <2>1, FS_Subset
<1> HIDE DEF f, from
<1>8. f \in Bijection(from, to)
  BY <1>3, <1>4, <1>5, <1>6 DEF Bijection, Injection, Surjection, IsInjective
<1>9. Cardinality(to) = Cardinality(from)
  BY <1>7, <1>8, FS_Bijection DEF ExistsBijection
<1> QED
  BY <1>1, <1>9 DEF from, to

-----------------------------------------------------------------------------
(* The steps of the decoder and of the writer beside it.                   *)

\* Type invariant of the decoder, with what each stage leaves behind.
DecoderTypeOK ==
  /\ stage \in {"idle", "reading", "done"}
  /\ paths \in Seq(Indices) /\ given \in Seq(Indices)
  /\ shown \in Seq(Record) /\ origin \in Seq(Indices) /\ Len(origin) = Len(shown)
  /\ IsFiniteSet(SegmentFiles)
  /\ stage = "idle" => Len(shown) = 0 /\ Len(paths) = 0
  /\ stage = "done" => Len(paths) = 0

\* Whatever a file holds, it is there.
LEMMA FileIsNotNone ==
  ASSUME NEW p, IsFile(p)
  PROVE  p # NoFile
BY DecoderAssumption DEF IsFile

\* The directory after a write: no file is lost, and at most one piece is
\* new, the last one of the file that is now open.
LEMMA WroteSomewhere ==
  ASSUME TypeOK, OpenedInv, OpenIsLast, NEW r \in Record, Write(r)
  PROVE  /\ current_file # NoFile => current_file' # NoFile /\ current_file <= current_file'
         /\ current_file' # current_file => current_file' \in Indices
         /\ \A i \in Indices : disk'[i] = disk[i] \/ i = current_file'
         /\ \A i \in Indices : disk'[i] # NoFile => \A j \in 1 .. Len(disk'[i]) :
              \/ disk[i] # NoFile /\ j \in 1 .. Len(disk[i]) /\ disk'[i][j] = disk[i][j]
              \/ i = current_file' /\ j = Len(disk'[i]) /\ disk'[i][j].id = writes + 1
<1>0. /\ DirOK(disk) /\ DOMAIN disk = Indices /\ segment_index \in Nat
      /\ \A i \in Indices : i \in Nat
      /\ r.id = writes + 1
  BY Types, WriteNumbers, FileStorageAssumption DEF TypeOK, DirOK
<1>1. current_file # NoFile => current_file \in Indices /\ current_file <= segment_index
  BY Types DEF TypeOK, OpenIsLast, OpenedInv
<1>2. CASE UNCHANGED <<disk, current_file>>
  BY <1>0, <1>1, <1>2
<1>3. CASE /\ current_file \in Indices /\ UNCHANGED current_file
           /\ \E got \in 0 .. r.size : disk' = Wrote(disk, current_file, r, got)
  <2>1. PICK got \in 0 .. r.size : disk' = Wrote(disk, current_file, r, got)
    BY <1>3
  <2>2. IsFile(disk[current_file]) /\ current_file # NoFile
    BY <1>3, FileStorageAssumption DEF OpenedInv
  <2>3. \A i \in Indices : i # current_file => disk'[i] = disk[i]
    BY <1>0, <1>3, <2>1, <2>2, WroteFile
  <2>4. ASSUME NEW j \in 1 .. Len(disk'[current_file])
        PROVE  \/ /\ j \in 1 .. Len(disk[current_file])
                  /\ disk'[current_file][j] = disk[current_file][j]
               \/ /\ j = Len(disk'[current_file])
                  /\ disk'[current_file][j].id = writes + 1
    <3>1. \/ /\ j \in 1 .. Len(disk[current_file])
             /\ disk'[current_file][j] = disk[current_file][j]
          \/ /\ j = Len(disk'[current_file])
             /\ disk'[current_file][j] = Piece(r, got)
      BY <1>0, <1>3, <2>1, <2>2, PieceWritten
    <3> QED
      BY <1>0, <3>1 DEF Piece
  <2>5. disk[current_file] # NoFile
    BY <2>2, FileIsNotNone
  <2>6. ASSUME NEW i \in Indices, NEW j \in 1 .. Len(disk'[i])
        PROVE  \/ disk[i] # NoFile /\ j \in 1 .. Len(disk[i]) /\ disk'[i][j] = disk[i][j]
               \/ i = current_file' /\ j = Len(disk'[i]) /\ disk'[i][j].id = writes + 1
               \/ disk'[i] = NoFile
    <3>1. CASE i = current_file
      BY <1>3, <2>4, <2>5, <3>1
    <3>2. CASE i # current_file
      BY <2>3, <3>2
    <3> QED
      BY <3>1, <3>2
  <2>7. current_file <= current_file'
    BY <1>0, <1>3
  <2> QED
    BY <1>3, <2>2, <2>3, <2>6, <2>7
<1>4. CASE /\ segment_index' \in Indices /\ segment_index' = segment_index + 1
           /\ current_file' = segment_index'
           /\ \E got \in 0 .. r.size :
                disk' = Wrote(Created(disk, segment_index'), segment_index', r, got)
  <2> DEFINE index == segment_index + 1
             dir == Created(disk, index)
  <2>1. PICK got \in 0 .. r.size : disk' = Wrote(dir, index, r, got)
    BY <1>4
  <2>2. index \in Indices /\ index \in Nat /\ current_file' = index /\ segment_index < index
    BY <1>0, <1>4
  <2>3. DirOK(dir) /\ IsFile(dir[index]) /\ \A i \in Indices : i # index => dir[i] = disk[i]
    BY <1>0, <2>2, CreatedFile
  <2>4. DOMAIN dir = Indices /\ Len(dir[index]) = 0
    BY <1>0, <2>2, EmptySeq DEF Created
  <2>5. index # NoFile
    BY <2>2, FileStorageAssumption
  <2> HIDE DEF index, dir
  <2>6. \A i \in Indices : i # index => disk'[i] = disk[i]
    BY <2>1, <2>2, <2>3, <2>4, WroteFile
  <2>7. ASSUME NEW j \in 1 .. Len(disk'[index])
        PROVE  j = Len(disk'[index]) /\ disk'[index][j].id = writes + 1
    <3>1. \/ j \in 1 .. Len(dir[index])
          \/ j = Len(disk'[index]) /\ disk'[index][j] = Piece(r, got)
      BY <2>1, <2>2, <2>3, <2>4, PieceWritten
    <3>2. j \notin 1 .. Len(dir[index])
      BY <2>4
    <3> QED
      BY <1>0, <3>1, <3>2 DEF Piece
  <2>8. current_file # NoFile => current_file <= index
    <3>1. ASSUME current_file # NoFile
          PROVE  current_file \in Nat /\ current_file <= segment_index
      BY <1>0, <1>1, <3>1
    <3>2. \A a, b, c \in Nat : a <= b /\ b < c => a <= c
      OBVIOUS
    <3> QED
      BY <1>0, <2>2, <3>1, <3>2
  <2>9. ASSUME NEW i \in Indices, NEW j \in 1 .. Len(disk'[i])
        PROVE  \/ disk[i] # NoFile /\ j \in 1 .. Len(disk[i]) /\ disk'[i][j] = disk[i][j]
               \/ i = current_file' /\ j = Len(disk'[i]) /\ disk'[i][j].id = writes + 1
               \/ disk'[i] = NoFile
    BY <2>2, <2>6, <2>7
  <2> QED
    BY <2>2, <2>5, <2>6, <2>8, <2>9
<1> QED
  BY <1>2, <1>3, <1>4, WriteShape

\* DecoderSpec makes the writer's steps those of module FileStorage.
LEMMA WriterStep ==
  ASSUME DecoderNext
  PROVE  [Next]_vars
BY DEF DecoderNext, Writer, Decode, CannotList, List, ReadFile, CannotRead, NextPath, Report, Next

\* What List makes of the arguments.
LEMMA ListedIs ==
  ASSUME NamesInOrder, DecoderTypeOK, NEW args \in Args, List(args)
  PROVE  /\ given' \in Seq(Indices) /\ paths' \in Seq(Indices)
         /\ ToSet(paths') = ToSet(given')
         /\ \A j, k \in 1 .. Len(paths') : j < k => paths'[j] <= paths'[k]
         /\ \A j, k \in 1 .. Len(paths') :
              j < k /\ paths'[j] = paths'[k] =>
                Cardinality({i \in 1 .. Len(given') : given'[i] = paths'[j]}) > 1
         /\ given' = <<>> => Len(paths') = 0
         /\ args.in_dir => SegmentFiles \subseteq ToSet(given')
         /\ whole' => ToSet(given') = SegmentFiles
<1> DEFINE S == SegmentFiles
           found == SetToSeq(S)
           rest == IF args.in_dir THEN found ELSE <<>>
<1>1. args.files \in Seq(Indices) /\ args.in_dir \in BOOLEAN
  BY DecoderAssumption
<1>2. IsFiniteSet(S)
  BY DEF DecoderTypeOK
<1>3. S \subseteq Indices
  BY DEF SegmentFiles
<1> HIDE DEF S
<1>4. found \in Seq(Indices) /\ ToSet(found) = S
  <2> DEFINE n == Cardinality(S)
  <2>1. n \in Nat /\ \E f : f \in Bijection(1 .. n, S)
    BY <1>2, FS_CardinalityType DEF ExistsBijection
  <2>2. \E f \in [1 .. n -> S] : IsInjective(f)
    BY <2>1 DEF Bijection, Injection
  <2>3. found = CHOOSE f \in [1 .. n -> S] : IsInjective(f)
    BY DEF SetToSeq
  <2> HIDE DEF found, n
  <2>4. found \in [1 .. n -> S] /\ IsInjective(found)
    BY <2>2, <2>3
  <2>5. found \in Injection(1 .. n, S)
    BY <2>4 DEF Injection
  <2>6. IsFiniteSet(1 .. n) /\ Cardinality(1 .. n) = n
    BY <2>1, FS_Interval
  <2>7. found \in Surjection(1 .. n, S)
    BY <1>2, <2>5, <2>6, FS_Injection DEF n
  <2>8. \A x \in S : \E k \in 1 .. n : found[k] = x
    BY <2>7 DEF Surjection
  <2>9. DOMAIN found = 1 .. n /\ \A k \in 1 .. n : found[k] \in S
    BY <2>4
  <2>10. ToSet(found) = S
    BY <2>8, <2>9 DEF ToSet
  <2>11. found \in [1 .. n -> Indices]
    BY <1>3, <2>4
  <2> QED
    BY <2>1, <2>10, <2>11, SeqOfLength
<1> HIDE DEF found
<1>5. rest \in Seq(Indices) /\ ToSet(rest) = IF args.in_dir THEN S ELSE {}
  <2>1. <<>> \in Seq(Indices) /\ ToSet(<<>>) = {}
    BY EmptySeq DEF ToSet
  <2> QED
    BY <1>1, <1>4, <2>1
<1> HIDE DEF rest
<1>6. given' = args.files \o rest
  BY DEF List, rest, found, S
<1>7. given' \in Seq(Indices) /\ ToSet(given') = ToSet(args.files) \cup ToSet(rest)
  <2> DEFINE a == args.files
             b == rest
  <2>1. /\ a \o b \in Seq(Indices) /\ Len(a \o b) = Len(a) + Len(b)
        /\ Len(a) \in Nat /\ Len(b) \in Nat
        /\ \A i \in 1 .. Len(a) + Len(b) :
             (a \o b)[i] = IF i <= Len(a) THEN a[i] ELSE b[i - Len(a)]
        /\ DOMAIN a = 1 .. Len(a) /\ DOMAIN b = 1 .. Len(b)
        /\ DOMAIN (a \o b) = 1 .. Len(a \o b)
    BY <1>1, <1>5, ConcatProperties, LenProperties
  <2> HIDE DEF a, b
  <2>2. ToSet(a \o b) \subseteq ToSet(a) \cup ToSet(b)
    <3> SUFFICES ASSUME NEW i \in 1 .. Len(a) + Len(b)
                 PROVE  (a \o b)[i] \in ToSet(a) \cup ToSet(b)
      BY <2>1 DEF ToSet
    <3>1. CASE i <= Len(a)
      <4>1. i \in 1 .. Len(a) /\ (a \o b)[i] = a[i]
        BY <2>1, <3>1
      <4> QED
        BY <2>1, <4>1 DEF ToSet
    <3>2. CASE ~(i <= Len(a))
      <4>1. i - Len(a) \in 1 .. Len(b) /\ (a \o b)[i] = b[i - Len(a)]
        BY <2>1, <3>2
      <4> QED
        BY <2>1, <4>1 DEF ToSet
    <3> QED
      BY <3>1, <3>2
  <2>3. ASSUME NEW i \in 1 .. Len(a)
        PROVE  a[i] \in ToSet(a \o b)
    <3>1. i \in 1 .. Len(a \o b) /\ (a \o b)[i] = a[i]
      BY <2>1
    <3> QED
      BY <2>1, <3>1 DEF ToSet
  <2>4. ASSUME NEW i \in 1 .. Len(b)
        PROVE  b[i] \in ToSet(a \o b)
    <3>1. i + Len(a) \in 1 .. Len(a) + Len(b) /\ ~(i + Len(a) <= Len(a)) /\ i + Len(a) - Len(a) = i
      BY <2>1
    <3>2. i + Len(a) \in 1 .. Len(a \o b) /\ (a \o b)[i + Len(a)] = b[i]
      BY <2>1, <3>1
    <3> QED
      BY <2>1, <3>2 DEF ToSet
  <2>5. ToSet(a) \cup ToSet(b) \subseteq ToSet(a \o b)
    <3>1. ToSet(a) = {a[i] : i \in 1 .. Len(a)} /\ ToSet(b) = {b[i] : i \in 1 .. Len(b)}
      BY <2>1 DEF ToSet
    <3> QED
      BY <2>3, <2>4, <3>1
  <2> QED
    BY <1>6, <2>1, <2>2, <2>5 DEF a, b
<1>8. paths' = SortedByName(given')
  BY DEF List
<1>9. /\ paths' \in Seq(Indices) /\ Len(paths') = Len(given') /\ ToSet(paths') = ToSet(given')
      /\ \A j, k \in 1 .. Len(paths') : j < k => paths'[j] <= paths'[k]
      /\ \A j, k \in 1 .. Len(paths') : j < k /\ paths'[j] = paths'[k] =>
           Cardinality({i \in 1 .. Len(given') : given'[i] = paths'[j]}) > 1
  BY <1>7, <1>8, SortedIs
<1>10. given' = <<>> => Len(paths') = 0
  BY <1>9, EmptySeq
<1>11. args.in_dir => S \subseteq ToSet(given')
  BY <1>5, <1>7
<1>12. whole' => ToSet(given') = S
  BY <1>5, <1>7 DEF List, S
<1> QED
  BY <1>7, <1>9, <1>10, <1>11, <1>12 DEF S

LEMMA NextPathIs ==
  ASSUME DecoderTypeOK, NextPath
  PROVE  /\ Len(paths) \in Nat /\ 1 \in 1 .. Len(paths) /\ paths[1] = Head(paths)
         /\ Head(paths) \in Indices
         /\ paths' \in Seq(Indices)
         /\ \A n \in 1 .. Len(paths') : n + 1 \in 1 .. Len(paths) /\ paths'[n] = paths[n + 1]
         /\ \A n \in 1 .. Len(paths) : n = 1 \/ n - 1 \in 1 .. Len(paths')
<1>1. paths \in Seq(Indices) /\ paths # <<>> /\ paths' = Tail(paths)
  BY DEF DecoderTypeOK, NextPath
<1>2. Len(paths) \in Nat \ {0}
  BY <1>1, EmptySeq
<1>3. /\ Head(paths) \in Indices /\ Tail(paths) \in Seq(Indices)
      /\ Len(Tail(paths)) = Len(paths) - 1
      /\ \A i \in 1 .. Len(Tail(paths)) : Tail(paths)[i] = paths[i + 1]
  BY <1>1, HeadTailProperties
<1>4. Head(paths) = paths[1]
  BY <1>1
<1> QED
  BY <1>1, <1>2, <1>3, <1>4

\* One read: the records of the file come behind those shown before.
LEMMA ReadFileIs ==
  ASSUME TypeOK, DecoderTypeOK, ReadFile
  PROVE  LET h == Head(paths)
             P == Printed(Results(disk[h]))
         IN  /\ h \in Indices /\ disk[h] # NoFile /\ IsFile(disk[h])
             /\ P \in Seq(Record) /\ Len(P) \in Nat /\ Len(shown) \in Nat
             /\ shown' = shown \o P
             /\ shown' \in Seq(Record) /\ origin' \in Seq(Indices)
             /\ Len(shown') = Len(shown) + Len(P) /\ Len(origin') = Len(shown')
             /\ \A k \in 1 .. Len(shown) : /\ k \in 1 .. Len(shown')
                                           /\ shown'[k] = shown[k] /\ origin'[k] = origin[k]
             /\ \A k \in 1 .. Len(P) : /\ Len(shown) + k \in 1 .. Len(shown')
                                       /\ shown'[Len(shown) + k] = P[k]
                                       /\ origin'[Len(shown) + k] = h
             /\ \A k \in 1 .. Len(shown') :
                  \/ k \in 1 .. Len(shown)
                  \/ k - Len(shown) \in 1 .. Len(P) /\ k = Len(shown) + (k - Len(shown))
<1> DEFINE h == Head(paths)
           P == Printed(Results(disk[h]))
           o == [k \in DOMAIN P |-> h]
<1>1. h \in Indices /\ disk[h] # NoFile /\ IsFile(disk[h])
  <2>1. h \in Indices
    BY NextPathIs DEF ReadFile
  <2> QED
    BY <2>1 DEF ReadFile, TypeOK
<1>2. shown' = shown \o P /\ origin' = origin \o o
  BY DEF ReadFile
<1> HIDE DEF h
<1>3. P \in Seq(Record)
  BY <1>1, ShowsAre
<1>4. Len(P) \in Nat /\ DOMAIN P = 1 .. Len(P)
  BY <1>3, LenProperties
<1> HIDE DEF P
<1>5. o \in [1 .. Len(P) -> Indices] /\ \A k \in 1 .. Len(P) : o[k] = h
  BY <1>1, <1>4
<1> HIDE DEF o
<1>6. o \in Seq(Indices) /\ Len(o) = Len(P)
  BY <1>4, <1>5, SeqOfLength
<1>7. shown \in Seq(Record) /\ origin \in Seq(Indices) /\ Len(origin) = Len(shown)
  BY DEF DecoderTypeOK
<1>8. Len(shown) \in Nat
  BY <1>7, LenProperties
<1>9. /\ shown' \in Seq(Record) /\ Len(shown') = Len(shown) + Len(P)
      /\ \A k \in 1 .. Len(shown) + Len(P) :
           shown'[k] = IF k <= Len(shown) THEN shown[k] ELSE P[k - Len(shown)]
  BY <1>2, <1>3, <1>7, ConcatProperties
<1>10. /\ origin' \in Seq(Indices) /\ Len(origin') = Len(shown) + Len(P)
       /\ \A k \in 1 .. Len(shown) + Len(P) :
            origin'[k] = IF k <= Len(shown) THEN origin[k] ELSE o[k - Len(shown)]
  <2>1. origin \in Seq(Indices) /\ o \in Seq(Indices)
    BY <1>6, <1>7
  <2>2. /\ origin \o o \in Seq(Indices) /\ Len(origin \o o) = Len(origin) + Len(o)
        /\ \A k \in 1 .. Len(origin) + Len(o) :
             (origin \o o)[k] = IF k <= Len(origin) THEN origin[k] ELSE o[k - Len(origin)]
    BY <2>1, ConcatProperties
  <2>3. Len(origin) = Len(shown) /\ Len(o) = Len(P)
    BY <1>6, <1>7
  <2> QED
    BY <1>2, <2>2, <2>3
<1>11. \A k \in 1 .. Len(shown) : /\ k \in 1 .. Len(shown')
                                  /\ shown'[k] = shown[k] /\ origin'[k] = origin[k]
  <2>1. \A k \in 1 .. Len(shown) : k \in 1 .. Len(shown) + Len(P) /\ k <= Len(shown)
    BY <1>4, <1>8
  <2> QED
    BY <1>9, <1>10, <2>1
<1>12. \A k \in 1 .. Len(P) : /\ Len(shown) + k \in 1 .. Len(shown) + Len(P)
                              /\ ~(Len(shown) + k <= Len(shown))
                              /\ Len(shown) + k - Len(shown) = k
  BY <1>4, <1>8
<1>13. \A k \in 1 .. Len(P) : /\ Len(shown) + k \in 1 .. Len(shown')
                              /\ shown'[Len(shown) + k] = P[k]
                              /\ origin'[Len(shown) + k] = h
  BY <1>5, <1>9, <1>10, <1>12
<1>14. \A k \in 1 .. Len(shown') :
         \/ k \in 1 .. Len(shown)
         \/ k - Len(shown) \in 1 .. Len(P) /\ k = Len(shown) + (k - Len(shown))
  BY <1>4, <1>8, <1>9
<1> QED
  BY <1>1, <1>2, <1>3, <1>4, <1>8, <1>9, <1>10, <1>11, <1>13, <1>14 DEF P, h

LEMMA DecoderTypeKept ==
  ASSUME NamesInOrder, TypeOK, OpenedInv, OpenIsLast, DecoderTypeOK,
         [DecoderNext]_<<vars, dvars, started>>
  PROVE  DecoderTypeOK'
<1>1. CASE \E r \in Record : Write(r) /\ UNCHANGED dvars
  <2>1. PICK r \in Record : Write(r) /\ UNCHANGED dvars
    BY <1>1
  <2>2. \A i \in Indices : disk'[i] = disk[i] \/ i = current_file'
    BY <2>1, WroteSomewhere
  <2>3. SegmentFiles' \subseteq SegmentFiles \cup {current_file'}
    BY <2>2 DEF SegmentFiles
  <2>4. IsFiniteSet(SegmentFiles \cup {current_file'})
    BY FS_AddElement DEF DecoderTypeOK
  <2>5. IsFiniteSet(SegmentFiles')
    BY <2>3, <2>4, FS_Subset
  <2> QED
    BY <2>1, <2>5 DEF dvars, DecoderTypeOK
<1>2. CASE Restart /\ UNCHANGED dvars
  BY <1>2 DEF dvars, Restart, DecoderTypeOK, SegmentFiles
<1>3. CASE \E args \in Args : List(args)
  <2>1. PICK args \in Args : List(args)
    BY <1>3
  <2>2. given' \in Seq(Indices) /\ paths' \in Seq(Indices) /\ (given' = <<>> => Len(paths') = 0)
    BY <2>1, ListedIs
  <2>3. /\ stage' = IF given' = <<>> THEN "done" ELSE "reading"
        /\ UNCHANGED <<disk, shown, origin>>
    BY <2>1 DEF List, vars
  <2>4. SegmentFiles' = SegmentFiles
    BY <2>3 DEF SegmentFiles
  <2> QED
    BY <2>2, <2>3, <2>4 DEF DecoderTypeOK
<1>4. CASE ReadFile
  <2>1. /\ shown' \in Seq(Record) /\ origin' \in Seq(Indices)
        /\ Len(origin') = Len(shown')
    BY <1>4, ReadFileIs
  <2>2. paths' \in Seq(Indices)
    BY <1>4, NextPathIs DEF ReadFile
  <2>3. stage = "reading" /\ UNCHANGED <<disk, stage, given>>
    BY <1>4 DEF ReadFile, NextPath, vars
  <2> QED
    BY <2>1, <2>2, <2>3 DEF DecoderTypeOK, SegmentFiles
<1>5. CASE CannotRead
  <2>2. paths' \in Seq(Indices)
    BY <1>5, NextPathIs DEF CannotRead
  <2>3. stage = "reading" /\ UNCHANGED <<disk, stage, given, shown, origin>>
    BY <1>5 DEF CannotRead, NextPath, vars
  <2> QED
    BY <2>2, <2>3 DEF DecoderTypeOK, SegmentFiles
<1>6. CASE Report
  <2>1. paths = <<>> /\ stage' = "done" /\ UNCHANGED <<disk, paths, given, shown, origin>>
    BY <1>6 DEF Report, vars
  <2>2. Len(paths) = 0
    BY <2>1, EmptySeq
  <2> QED
    BY <2>1, <2>2 DEF DecoderTypeOK, SegmentFiles
<1>7. CASE UNCHANGED <<vars, dvars, started>>
  BY <1>7 DEF vars, dvars, DecoderTypeOK, SegmentFiles
<1>8. CASE CannotList
  <2>1. stage = "idle" /\ stage' = "done" /\ UNCHANGED <<disk, paths, given, shown, origin>>
    BY <1>8 DEF CannotList, vars
  <2> QED
    BY <2>1 DEF DecoderTypeOK, SegmentFiles
<1> QED
  BY <1>1, <1>2, <1>3, <1>4, <1>5, <1>6, <1>7, <1>8 DEF DecoderNext, Writer, Decode

-----------------------------------------------------------------------------
(* The statistics.                                                         *)

\* A table that counts the records shown by key.
RowsOf(keys, key_of) ==
  [key \in keys |-> Cardinality({k \in 1 .. Len(shown) : key_of[shown[k].id] = key})]

\* What StatisticsAgree says, with the types it rests on.
StatisticsInv ==
  /\ dstats.total_seen \in Nat /\ dstats.decode_errors \in Nat
  /\ dstats.passed_filter = Len(shown)
  /\ dstats.by_type = RowsOf({0} \cup PacketTypes, TypeOf)
  /\ dstats.by_severity = RowsOf(Severities, SeverityOf)
  /\ dstats.decode_errors + dstats.passed_filter <= dstats.total_seen

\* The results of a file with the facts that counting them takes.
LEMMA ResultsOfFile ==
  ASSUME NEW p, IsFile(p)
  PROVE  /\ Len(Results(p)) \in Nat /\ DOMAIN Results(p) = 1 .. Len(Results(p))
         /\ \A k \in 1 .. Len(Results(p)) : Results(p)[k].record \in Record
<1>1. PICK c \in Nat : \E end \in [1 .. c -> 1 .. Len(p)] :
        /\ DOMAIN Results(p) = 1 .. c /\ Len(Results(p)) = c
        /\ \A k \in 1 .. c :
             Results(p)[k] = [ok |-> Readable(p, end[k]), record |-> RecordIn(p[end[k]])]
  BY ResultsAre
<1>2. PICK end \in [1 .. c -> 1 .. Len(p)] :
        /\ DOMAIN Results(p) = 1 .. c /\ Len(Results(p)) = c
        /\ \A k \in 1 .. c :
             Results(p)[k] = [ok |-> Readable(p, end[k]), record |-> RecordIn(p[end[k]])]
  BY <1>1
<1>3. \A j \in 1 .. Len(p) : RecordIn(p[j]) \in Record
  <2> SUFFICES ASSUME NEW j \in 1 .. Len(p) PROVE RecordIn(p[j]) \in Record
    OBVIOUS
  <2>1. p[j] \in Pieces
    BY ElementOfSeq DEF IsFile
  <2> QED
    BY <2>1 DEF Pieces, RecordIn, Record
<1>4. \A k \in 1 .. c : Results(p)[k].record = RecordIn(p[end[k]]) /\ end[k] \in 1 .. Len(p)
  BY <1>2
<1> QED
  BY <1>2, <1>3, <1>4

\* Reading a file adds to each row what it shows of that key.
LEMMA TallyIs ==
  ASSUME TypeOK, DecoderTypeOK, ReadFile, NEW keys, NEW key_of
  PROVE  Tally(RowsOf(keys, key_of), Results(disk[Head(paths)]), key_of) = RowsOf(keys, key_of)'
<1> DEFINE R == Results(disk[Head(paths)])
           P == Printed(R)
           c == Len(R)
<1>1. /\ IsFile(disk[Head(paths)]) /\ P \in Seq(Record) /\ shown' = shown \o P
      /\ shown' \in Seq(Record)
  BY ReadFileIs
<1>2. c \in Nat /\ DOMAIN R = 1 .. c /\ \A k \in 1 .. c : R[k].record \in Record
  BY <1>1, ResultsOfFile
<1> HIDE DEF R
<1>3. ASSUME NEW key \in keys
      PROVE  RowsOf(keys, key_of)[key]
               + Cardinality({k \in DOMAIN R : Good(R[k]) /\ key_of[R[k].record.id] = key})
             = Cardinality({k \in 1 .. Len(shown') : key_of[shown'[k].id] = key})
  <2> DEFINE C == {r \in Record : key_of[r.id] = key}
  <2>1. CountGood(R, C) = CountIn(P, C)
    BY <1>2, CountPrinted
  <2>2. Cardinality({k \in DOMAIN R : Good(R[k]) /\ key_of[R[k].record.id] = key}) = CountGood(R, C)
    <3>1. {k \in DOMAIN R : Good(R[k]) /\ key_of[R[k].record.id] = key}
            = {k \in DOMAIN R : Good(R[k]) /\ R[k].record \in C}
      BY <1>2
    <3> QED
      BY <3>1 DEF CountGood
  <2>3. shown \in Seq(Record) /\ P \in Seq(Record)
    BY <1>1 DEF DecoderTypeOK
  <2>4. ASSUME NEW s \in Seq(Record)
        PROVE  Cardinality({k \in 1 .. Len(s) : key_of[s[k].id] = key}) = CountIn(s, C)
    <3>1. {k \in 1 .. Len(s) : key_of[s[k].id] = key} = {k \in 1 .. Len(s) : s[k] \in C}
      BY ElementOfSeq
    <3> QED
      BY <3>1 DEF CountIn
  <2>5. Cardinality({k \in 1 .. Len(shown) : key_of[shown[k].id] = key}) = CountIn(shown, C)
    BY <2>3, <2>4
  <2>6. Cardinality({k \in 1 .. Len(shown') : key_of[shown'[k].id] = key}) = CountIn(shown', C)
    BY <1>1, <2>4
  <2> HIDE DEF C, P
  <2>7. CountIn(shown \o P, C) = CountIn(shown, C) + CountIn(P, C)
    BY <2>3, CountConcat
  <2>8. shown' = shown \o P
    BY <1>1
  <2>9. RowsOf(keys, key_of)[key] = CountIn(shown, C)
    BY <2>5 DEF RowsOf
  <2> QED
    BY <2>1, <2>2, <2>6, <2>7, <2>8, <2>9
<1>4. DOMAIN RowsOf(keys, key_of) = keys
  BY DEF RowsOf
<1> QED
  BY <1>3, <1>4 DEF Tally, RowsOf, R

\* Results in error and results printed are apart.
LEMMA ErrorsAndPasses ==
  ASSUME NEW p, IsFile(p)
  PROVE  LET R == Results(p)
             errors == {k \in DOMAIN R : ~R[k].ok}
             passed == {k \in DOMAIN R : Good(R[k])}
         IN  /\ Cardinality(errors) \in Nat /\ Cardinality(passed) \in Nat
             /\ Cardinality(errors) + Cardinality(passed) <= Len(R) /\ Len(R) \in Nat
             /\ Cardinality(passed) = Len(Printed(R))
<1> DEFINE R == Results(p)
           c == Len(R)
           errors == {k \in DOMAIN R : ~R[k].ok}
           passed == {k \in DOMAIN R : Good(R[k])}
<1>1. c \in Nat /\ DOMAIN R = 1 .. c /\ \A k \in 1 .. c : R[k].record \in Record
  BY ResultsOfFile
<1> HIDE DEF R
<1>2. IsFiniteSet(1 .. c) /\ Cardinality(1 .. c) = c
  BY <1>1, FS_Interval
<1>3. errors \in SUBSET (1 .. c) /\ passed \in SUBSET (1 .. c) /\ errors \cap passed = {}
  BY <1>1 DEF Good
<1>4. Cardinality(passed) = Len(Printed(R))
  <2>1. passed = {k \in 1 .. c : Good(R[k])}
    BY <1>1
  <2> HIDE DEF c
  <2> QED
    BY <1>1, <2>1, PrintedAre
<1> HIDE DEF errors, passed, c
<1>5. IsFiniteSet(errors) /\ IsFiniteSet(passed) /\ errors \cup passed \in SUBSET (1 .. c)
  BY <1>2, <1>3, FS_Subset
<1>6. /\ Cardinality(errors) \in Nat /\ Cardinality(passed) \in Nat
      /\ Cardinality(errors \cap passed) = 0
      /\ Cardinality(errors \cup passed) <= c
  <2>1. Cardinality(errors) \in Nat /\ Cardinality(passed) \in Nat
    BY <1>5, FS_CardinalityType
  <2>2. Cardinality(errors \cap passed) = 0
    BY <1>3, FS_EmptySet
  <2>3. Cardinality(errors \cup passed) <= Cardinality(1 .. c)
    BY <1>2, <1>5, FS_Subset
  <2> QED
    BY <1>2, <2>1, <2>2, <2>3
<1>7. Cardinality(errors \cup passed)
        = Cardinality(errors) + Cardinality(passed) - Cardinality(errors \cap passed)
  BY <1>5, FS_Union
<1> QED
  BY <1>1, <1>4, <1>6, <1>7 DEF errors, passed, R, c

LEMMA StatisticsKept ==
  ASSUME TypeOK, DecoderTypeOK, StatisticsInv, [DecoderNext]_<<vars, dvars, started>>
  PROVE  StatisticsInv'
<1>1. CASE UNCHANGED <<shown, dstats>>
  BY <1>1 DEF StatisticsInv, RowsOf
<1>2. CASE ReadFile
  <2> DEFINE R == Results(disk[Head(paths)])
             errors == Cardinality({k \in DOMAIN R : ~R[k].ok})
             passed == Cardinality({k \in DOMAIN R : Good(R[k])})
  <2>1. IsFile(disk[Head(paths)]) /\ Len(shown') = Len(shown) + Len(Printed(R)) /\ Len(shown) \in Nat
    BY <1>2, ReadFileIs
  <2>2. /\ errors \in Nat /\ passed \in Nat /\ errors + passed <= Len(R) /\ Len(R) \in Nat
        /\ passed = Len(Printed(R))
    BY <2>1, ErrorsAndPasses
  <2>3. /\ Tally(RowsOf({0} \cup PacketTypes, TypeOf), R, TypeOf)
             = RowsOf({0} \cup PacketTypes, TypeOf)'
        /\ Tally(RowsOf(Severities, SeverityOf), R, SeverityOf) = RowsOf(Severities, SeverityOf)'
    BY <1>2, TallyIs
  <2>4. dstats' = [total_seen    |-> dstats.total_seen + Len(R),
                   decode_errors |-> dstats.decode_errors + errors,
                   passed_filter |-> dstats.passed_filter + passed,
                   by_type       |-> Tally(dstats.by_type, R, TypeOf),
                   by_severity   |-> Tally(dstats.by_severity, R, SeverityOf)]
    BY <1>2 DEF ReadFile, Counted
  <2> HIDE DEF R, errors, passed
  <2>5. /\ dstats'.by_type = RowsOf({0} \cup PacketTypes, TypeOf)'
        /\ dstats'.by_severity = RowsOf(Severities, SeverityOf)'
    BY <2>3, <2>4 DEF StatisticsInv
  <2>6. /\ dstats'.total_seen = dstats.total_seen + Len(R)
        /\ dstats'.decode_errors = dstats.decode_errors + errors
        /\ dstats'.passed_filter = Len(shown) + passed
    BY <2>4 DEF StatisticsInv
  <2>7. /\ dstats.total_seen \in Nat /\ dstats.decode_errors \in Nat
        /\ dstats.decode_errors + Len(shown) <= dstats.total_seen
    BY DEF StatisticsInv
  <2>8. /\ dstats'.total_seen \in Nat /\ dstats'.decode_errors \in Nat
        /\ dstats'.passed_filter = Len(shown')
        /\ dstats'.decode_errors + dstats'.passed_filter <= dstats'.total_seen
    <3>1. \A t, e, n, r, x, y \in Nat :
            x + y <= r /\ e + n <= t =>
              t + r \in Nat /\ e + x \in Nat /\ (e + x) + (n + y) <= t + r
      OBVIOUS
    <3>2. (dstats.decode_errors + errors) + (Len(shown) + passed) <= dstats.total_seen + Len(R)
      BY <2>1, <2>2, <2>7, <3>1
    <3>3. dstats.total_seen + Len(R) \in Nat /\ dstats.decode_errors + errors \in Nat
      BY <2>2, <2>7
    <3>4. dstats'.passed_filter = Len(shown')
      BY <2>1, <2>2, <2>6
    <3> QED
      BY <2>6, <3>2, <3>3, <3>4
  <2> QED
    BY <2>5, <2>8 DEF StatisticsInv
<1> QED
  BY <1>1, <1>2 DEF DecoderNext, Writer, Decode, CannotList, List, CannotRead, Report, dvars

LEMMA DecoderStarts ==
  ASSUME DecoderInit
  PROVE  DecoderTypeOK /\ StatisticsInv
<1>1. /\ Len(shown) = 0 /\ Len(paths) = 0 /\ Len(origin) = 0 /\ stage = "idle"
      /\ shown \in Seq(Record) /\ paths \in Seq(Indices) /\ given \in Seq(Indices)
      /\ origin \in Seq(Indices)
  BY EmptySeq DEF DecoderInit
<1>2. SegmentFiles = {}
  BY DEF DecoderInit, Init, SegmentFiles
<1>3. IsFiniteSet(SegmentFiles)
  BY <1>2, FS_EmptySet
<1>4. \A key_of, key : Cardinality({k \in 1 .. Len(shown) : key_of[shown[k].id] = key}) = 0
  <2> SUFFICES ASSUME NEW key_of, NEW key
               PROVE  Cardinality({k \in 1 .. Len(shown) : key_of[shown[k].id] = key}) = 0
    OBVIOUS
  <2>1. {k \in 1 .. Len(shown) : key_of[shown[k].id] = key} = {}
    BY <1>1
  <2> QED
    BY <2>1, FS_EmptySet
<1>5. /\ dstats.total_seen = 0 /\ dstats.decode_errors = 0 /\ dstats.passed_filter = 0
      /\ dstats.by_type = [t \in {0} \cup PacketTypes |-> 0]
      /\ dstats.by_severity = [s \in Severities |-> 0]
  BY DEF DecoderInit
<1>6. /\ dstats.by_type = RowsOf({0} \cup PacketTypes, TypeOf)
      /\ dstats.by_severity = RowsOf(Severities, SeverityOf)
  <2>1. \A keys, key_of : RowsOf(keys, key_of) = [key \in keys |-> 0]
    BY <1>4 DEF RowsOf
  <2>2. RowsOf({0} \cup PacketTypes, TypeOf) = [key \in {0} \cup PacketTypes |-> 0]
    BY <2>1
  <2>3. RowsOf(Severities, SeverityOf) = [key \in Severities |-> 0]
    BY <2>1
  <2> QED
    BY <1>5, <2>2, <2>3
<1> QED
  BY <1>1, <1>3, <1>5, <1>6 DEF DecoderTypeOK, StatisticsInv

LEMMA StatisticsInvGives ==
  ASSUME StatisticsInv
  PROVE  StatisticsAgree
BY DEF StatisticsInv, RowsOf, StatisticsAgree, Rows

\* The writer beside the decoder is the writer of module FileStorage, and the
\* decoder writes nothing: what is proved of the segments holds here.
THEOREM DecoderUsesStorage == DecoderSpec => Spec
<1>1. DecoderInit => Init
  BY DEF DecoderInit
<1>2. [DecoderNext]_<<vars, dvars, started>> => [Next]_vars
  BY WriterStep DEF vars
<1> QED
  BY <1>1, <1>2, PTL DEF DecoderSpec, Spec

\* The segment the writer has open is its last, and the highest of this run.
LEMMA OpenIsLastAlways == Spec => []OpenIsLast
<1>1. Init => OpenIsLast
  <2> SUFFICES ASSUME Init PROVE OpenIsLast
    OBVIOUS
  <2>1. Len(opened) = 0 /\ current_file = NoFile
    BY EmptySeq DEF Init
  <2> QED
    BY <2>1 DEF OpenIsLast
<1>2. TypeOK /\ OpenedInv /\ OpenIsLast /\ [Next]_vars => OpenIsLast'
  BY OpenIsLastKept
<1> QED
  BY <1>1, <1>2, StorageTypes, PTL DEF Spec

\* Type correctness of the decoder.
THEOREM DecoderTypes ==
  ASSUME NamesInOrder
  PROVE  DecoderSpec => []DecoderTypeOK
<1>1. DecoderInit => DecoderTypeOK
  BY DecoderStarts
<1>2. TypeOK /\ OpenedInv /\ OpenIsLast /\ DecoderTypeOK /\ [DecoderNext]_<<vars, dvars, started>>
        => DecoderTypeOK'
  BY DecoderTypeKept
<1> QED
  BY <1>1, <1>2, OpenIsLastAlways, StorageTypes, DecoderUsesStorage, PTL DEF DecoderSpec

\* StatisticsAgree, for every filter and every table of types and severities:
\* the summary printed at the end is that of the records printed before it.
THEOREM DecoderStatistics ==
  ASSUME NamesInOrder
  PROVE  DecoderSpec => []StatisticsAgree
<1>1. DecoderInit => StatisticsInv
  BY DecoderStarts
<1>2. TypeOK /\ DecoderTypeOK /\ StatisticsInv /\ [DecoderNext]_<<vars, dvars, started>>
        => StatisticsInv'
  BY StatisticsKept
<1>3. StatisticsInv => StatisticsAgree
  BY StatisticsInvGives
<1> QED
  BY <1>1, <1>2, <1>3, StorageTypes, DecoderUsesStorage, DecoderTypes, PTL DEF DecoderSpec
-----------------------------------------------------------------------------
(* The order of what is shown.                                             *)

\* The run that a number of a call falls in, given the numbers at which the
\* program was restarted.
RunIn(st, x) == 1 + Cardinality({k \in 1 .. Len(st) : st[k] < x})

\* A call made now is in the last run, one made before the restart stays in
\* the run it was in, and in none later than the last.
LEMMA RunInIs ==
  ASSUME NEW w \in Nat, NEW st \in Seq(Nat), \A k \in 1 .. Len(st) : st[k] <= w
  PROVE  /\ Len(st) \in Nat /\ RunIn(st, w + 1) = 1 + Len(st)
         /\ \A x \in 0 .. w : /\ RunIn(Append(st, w), x) = RunIn(st, x)
                              /\ RunIn(st, x) \in Nat /\ RunIn(st, x) <= 1 + Len(st)
<1>1. Len(st) \in Nat /\ \A k \in 1 .. Len(st) : st[k] \in Nat
  BY ElementOfSeq, LenProperties
<1>2. IsFiniteSet(1 .. Len(st)) /\ Cardinality(1 .. Len(st)) = Len(st)
  BY <1>1, FS_Interval
<1>3. RunIn(st, w + 1) = 1 + Len(st)
  <2>1. {k \in 1 .. Len(st) : st[k] < w + 1} = 1 .. Len(st)
    BY <1>1
  <2> QED
    BY <1>2, <2>1 DEF RunIn
<1>4. ASSUME NEW x \in 0 .. w
      PROVE  /\ RunIn(Append(st, w), x) = RunIn(st, x)
             /\ RunIn(st, x) \in Nat /\ RunIn(st, x) <= 1 + Len(st)
  <2> DEFINE A == Append(st, w)
             S == {k \in 1 .. Len(st) : st[k] < x}
             T == {k \in 1 .. Len(A) : A[k] < x}
  <2>1. /\ Len(A) = Len(st) + 1 /\ A[Len(st) + 1] = w
        /\ \A k \in 1 .. Len(st) : A[k] = st[k]
    BY AppendProperties
  <2>2. T = S
    <3> HIDE DEF A
    <3>1. \A k \in 1 .. Len(A) : k \in 1 .. Len(st) \/ k = Len(st) + 1
      BY <1>1, <2>1
    <3>2. \A k \in 1 .. Len(st) : k \in 1 .. Len(A)
      BY <1>1, <2>1
    <3>3. ~(A[Len(st) + 1] < x)
      BY <2>1
    <3> QED
      BY <2>1, <3>1, <3>2, <3>3
  <2>3. RunIn(A, x) = 1 + Cardinality(T) /\ RunIn(st, x) = 1 + Cardinality(S)
    BY DEF RunIn
  <2>4. S \in SUBSET (1 .. Len(st))
    OBVIOUS
  <2> HIDE DEF A, S, T
  <2>5. IsFiniteSet(S) /\ Cardinality(S) <= Cardinality(1 .. Len(st))
    BY <1>2, <2>4, FS_Subset
  <2>6. Cardinality(S) \in Nat
    BY <2>5, FS_CardinalityType
  <2>7. RunIn(A, x) = RunIn(st, x)
    BY <2>2, <2>3
  <2>8. RunIn(st, x) \in Nat /\ RunIn(st, x) <= 1 + Len(st)
    BY <1>1, <1>2, <2>3, <2>5, <2>6
  <2> QED
    BY <2>7, <2>8 DEF A
<1> QED
  BY <1>1, <1>3, <1>4

\* The record with a number stands in a segment, or was shown from it.
Placed(i, x) ==
  \/ disk[i] # NoFile /\ \E j \in 1 .. Len(disk[i]) : disk[i][j].id = x
  \/ \E k \in 1 .. Len(shown) : origin[k] = i /\ shown[k].id = x

\* Each file holds records in the order of the calls of write, whichever runs
\* it has records of; of the records of one run those in a segment with a
\* higher number are later, also if the segment was emptied since they were
\* shown; and the writer is past all segments with records of its run.
PlacesInv ==
  /\ started \in Seq(Nat) /\ \A k \in 1 .. Len(started) : started[k] <= writes
  /\ \A i \in Indices : disk[i] # NoFile =>
       \A j, k \in 1 .. Len(disk[i]) : j < k => disk[i][j].id < disk[i][k].id
  /\ \A i \in Indices : \A x \in Nat : Placed(i, x) => x \in 1 .. writes
  /\ \A i \in Indices : \A x \in Nat :
       Placed(i, x) /\ RunIn(started, x) = 1 + Len(started) =>
         current_file # NoFile /\ i <= current_file
  /\ \A i, j \in Indices : \A x, y \in Nat :
       Placed(i, x) /\ Placed(j, y) /\ i < j /\ RunIn(started, x) = RunIn(started, y) => x < y

\* The ids are numbers.
LEMMA PieceIds ==
  ASSUME TypeOK, NEW i \in Indices, disk[i] # NoFile
  PROVE  /\ Len(disk[i]) \in Nat
         /\ \A j \in 1 .. Len(disk[i]) : disk[i][j].id \in Nat /\ disk[i][j] \in Pieces
<1>1. disk[i] \in Seq(Pieces)
  BY DEF TypeOK, IsFile
<1>2. \A j \in 1 .. Len(disk[i]) : disk[i][j] \in Pieces
  BY <1>1, ElementOfSeq
<1>3. \A piece \in Pieces : piece.id \in Nat
  BY FileStorageAssumption DEF Pieces
<1> QED
  BY <1>1, <1>2, <1>3, LenProperties

LEMMA PlacesAfterWrite ==
  ASSUME TypeOK, OpenedInv, OpenIsLast, PlacesInv, NEW r \in Record, Write(r),
         UNCHANGED <<dvars, started>>, TypeOK'
  PROVE  PlacesInv'
<1>1. /\ writes \in Nat /\ writes' = writes + 1
      /\ UNCHANGED <<shown, origin, started>>
  BY WriteNumbers DEF dvars
<1>2. /\ current_file # NoFile => current_file' # NoFile /\ current_file <= current_file'
      /\ \A i \in Indices : disk'[i] = disk[i] \/ i = current_file'
      /\ \A i \in Indices : disk'[i] # NoFile => \A j \in 1 .. Len(disk'[i]) :
           \/ disk[i] # NoFile /\ j \in 1 .. Len(disk[i]) /\ disk'[i][j] = disk[i][j]
           \/ i = current_file' /\ j = Len(disk'[i]) /\ disk'[i][j].id = writes + 1
  BY WroteSomewhere
<1>3. Len(started) \in Nat /\ RunIn(started, writes + 1) = 1 + Len(started)
  BY <1>1, RunInIs DEF PlacesInv
<1>4. ASSUME NEW i \in Indices, NEW x \in Nat, Placed(i, x)'
      PROVE  Placed(i, x) \/ (i = current_file' /\ x = writes + 1)
  <2>1. CASE \E k \in 1 .. Len(shown') : origin'[k] = i /\ shown'[k].id = x
    BY <1>1, <2>1 DEF Placed
  <2>2. CASE disk'[i] # NoFile /\ \E j \in 1 .. Len(disk'[i]) : disk'[i][j].id = x
    <3>1. PICK j \in 1 .. Len(disk'[i]) : disk'[i] # NoFile /\ disk'[i][j].id = x
      BY <2>2
    <3>2. CASE disk[i] # NoFile /\ j \in 1 .. Len(disk[i]) /\ disk'[i][j] = disk[i][j]
      BY <3>1, <3>2 DEF Placed
    <3>3. CASE i = current_file' /\ disk'[i][j].id = writes + 1
      BY <3>1, <3>3
    <3> QED
      BY <1>2, <3>1, <3>2, <3>3
  <2> QED
    BY <1>4, <2>1, <2>2 DEF Placed
<1>5. started' \in Seq(Nat) /\ \A k \in 1 .. Len(started') : started'[k] <= writes'
  <2>1. started \in Seq(Nat) /\ \A k \in 1 .. Len(started) : started[k] <= writes /\ started[k] \in Nat
    BY ElementOfSeq DEF PlacesInv
  <2>2. \A n \in Nat : n <= writes => n <= writes + 1
    BY <1>1
  <2> QED
    BY <1>1, <2>1, <2>2
<1>6. ASSUME NEW i \in Indices, disk'[i] # NoFile,
             NEW j \in 1 .. Len(disk'[i]), NEW k \in 1 .. Len(disk'[i]), j < k
      PROVE  disk'[i][j].id < disk'[i][k].id
  <2>1. Len(disk'[i]) \in Nat
    BY <1>6, LenProperties DEF TypeOK, IsFile
  <2>2. j # Len(disk'[i])
    BY <1>6, <2>1
  <2>3. disk[i] # NoFile /\ j \in 1 .. Len(disk[i]) /\ disk'[i][j] = disk[i][j]
    BY <1>2, <1>6, <2>2
  <2>4. CASE k \in 1 .. Len(disk[i]) /\ disk'[i][k] = disk[i][k]
    BY <1>6, <2>3, <2>4 DEF PlacesInv
  <2>5. CASE disk'[i][k].id = writes + 1
    <3>1. disk[i][j].id \in Nat
      BY <2>3, PieceIds
    <3>2. Placed(i, disk[i][j].id)
      BY <2>3 DEF Placed
    <3>3. disk[i][j].id \in 1 .. writes
      BY <3>1, <3>2 DEF PlacesInv
    <3> QED
      BY <1>1, <2>3, <2>5, <3>3
  <2> QED
    BY <1>2, <1>6, <2>4, <2>5
<1>7. ASSUME NEW i \in Indices, NEW x \in Nat, Placed(i, x)'
      PROVE  x \in 1 .. writes'
  <2>1. Placed(i, x) => x \in 1 .. writes
    BY DEF PlacesInv
  <2> QED
    BY <1>1, <1>4, <1>7, <2>1
<1>8. ASSUME NEW i \in Indices, NEW x \in Nat, Placed(i, x)',
             RunIn(started, x) = 1 + Len(started)
      PROVE  current_file' # NoFile /\ i <= current_file'
  <2>1. i \in Nat /\ i # NoFile /\ \A n \in Indices : n \in Nat
    BY FileStorageAssumption
  <2>2. CASE Placed(i, x)
    <3>1. current_file # NoFile /\ i <= current_file
      BY <1>8, <2>2 DEF PlacesInv
    <3>2. current_file \in Nat /\ current_file' \in Nat
      BY <1>2, <2>1, <3>1 DEF TypeOK
    <3> QED
      BY <1>2, <2>1, <3>1, <3>2
  <2>3. CASE i = current_file'
    BY <2>1, <2>3
  <2> QED
    BY <1>4, <1>8, <2>2, <2>3
<1>9. ASSUME NEW i \in Indices, NEW j \in Indices, NEW x \in Nat, NEW y \in Nat,
             Placed(i, x)', Placed(j, y)', i < j, RunIn(started, x) = RunIn(started, y)
      PROVE  x < y
  <2>1. CASE Placed(i, x) /\ Placed(j, y)
    BY <1>9, <2>1 DEF PlacesInv
  <2>2. CASE Placed(i, x) /\ y = writes + 1
    <3>1. x \in 1 .. writes
      BY <2>2 DEF PlacesInv
    <3> QED
      BY <1>1, <2>2, <3>1
  <2>3. CASE i = current_file' /\ x = writes + 1
    <3>1. j <= current_file' \/ (j = current_file' /\ y = writes + 1)
      BY <1>3, <1>8, <1>9, <2>3
    <3>2. i \in Nat /\ j \in Nat
      BY FileStorageAssumption
    <3> QED
      BY <1>9, <2>3, <3>1, <3>2
  <2> QED
    BY <1>4, <1>9, <2>1, <2>2, <2>3
<1>10. started' = started
  BY <1>1
<1> QED
  BY <1>5, <1>6, <1>7, <1>8, <1>9, <1>10 DEF PlacesInv

LEMMA PlacesAfterRestart ==
  ASSUME TypeOK, PlacesInv, Restart, UNCHANGED dvars, started' = Append(started, writes)
  PROVE  PlacesInv'
<1>1. /\ writes \in Nat /\ UNCHANGED <<disk, writes, shown, origin>>
      /\ started \in Seq(Nat) /\ \A k \in 1 .. Len(started) : started[k] <= writes
  BY FileStorageAssumption DEF Restart, dvars, TypeOK, PlacesInv
<1>2. /\ started' \in Seq(Nat) /\ Len(started') = Len(started) + 1 /\ Len(started) \in Nat
      /\ \A k \in 1 .. Len(started') : started'[k] <= writes'
  <2>1. /\ Append(started, writes) \in Seq(Nat) /\ Len(Append(started, writes)) = Len(started) + 1
        /\ \A k \in 1 .. Len(started) : Append(started, writes)[k] = started[k]
        /\ Append(started, writes)[Len(started) + 1] = writes
    BY <1>1, AppendProperties
  <2>2. Len(started) \in Nat
    BY <1>1, LenProperties
  <2>3. \A k \in 1 .. Len(started) + 1 : k \in 1 .. Len(started) \/ k = Len(started) + 1
    BY <2>2
  <2>4. writes <= writes
    BY <1>1
  <2> QED
    BY <1>1, <2>1, <2>2, <2>3, <2>4
<1>3. \A i \in Indices : \A x \in Nat : Placed(i, x)' <=> Placed(i, x)
  BY <1>1 DEF Placed
<1>4. ASSUME NEW i \in Indices, NEW x \in Nat, Placed(i, x)
      PROVE  /\ x \in 1 .. writes
             /\ RunIn(started', x) = RunIn(started, x)
             /\ RunIn(started, x) # 1 + Len(started')
  <2>1. x \in 1 .. writes
    BY <1>4 DEF PlacesInv
  <2>2. x \in 0 .. writes
    BY <1>1, <2>1
  <2>3. /\ RunIn(Append(started, writes), x) = RunIn(started, x)
        /\ RunIn(started, x) \in Nat /\ RunIn(started, x) <= 1 + Len(started)
    BY <1>1, <2>2, RunInIs
  <2> QED
    BY <1>2, <2>1, <2>3
<1>5. \A i, j \in Indices : \A x, y \in Nat :
        Placed(i, x)' /\ Placed(j, y)' /\ i < j /\ RunIn(started', x) = RunIn(started', y) => x < y
  BY <1>3, <1>4 DEF PlacesInv
<1>6. \A i \in Indices : \A x \in Nat : Placed(i, x)' => RunIn(started', x) # 1 + Len(started')
  BY <1>3, <1>4
<1>7. \A i \in Indices : \A x \in Nat : Placed(i, x)' => x \in 1 .. writes'
  BY <1>1, <1>3, <1>4
<1>8. \A i \in Indices : disk'[i] # NoFile =>
        \A j, k \in 1 .. Len(disk'[i]) : j < k => disk'[i][j].id < disk'[i][k].id
  BY <1>1 DEF PlacesInv
<1> QED
  BY <1>2, <1>5, <1>6, <1>7, <1>8 DEF PlacesInv

\* What is shown was in its file.
LEMMA ShownWasPlaced ==
  ASSUME TypeOK, DecoderTypeOK, ReadFile, NEW i \in Indices, NEW x \in Nat, Placed(i, x)'
  PROVE  Placed(i, x)
<1> DEFINE h == Head(paths)
           P == Printed(Results(disk[h]))
<1>1. /\ h \in Indices /\ disk[h] # NoFile /\ IsFile(disk[h])
      /\ \A k \in 1 .. Len(shown) : shown'[k] = shown[k] /\ origin'[k] = origin[k]
      /\ \A k \in 1 .. Len(P) : shown'[Len(shown) + k] = P[k] /\ origin'[Len(shown) + k] = h
      /\ \A k \in 1 .. Len(shown') :
           \/ k \in 1 .. Len(shown)
           \/ k - Len(shown) \in 1 .. Len(P) /\ k = Len(shown) + (k - Len(shown))
  BY ReadFileIs
<1>2. \E at \in [1 .. Len(P) -> 1 .. Len(disk[h])] :
        \A k \in 1 .. Len(P) : P[k] = RecordIn(disk[h][at[k]])
  BY <1>1, ShowsAre
<1>3. disk' = disk
  BY DEF ReadFile, NextPath, vars
<1> HIDE DEF h, P
<1>4. PICK at \in [1 .. Len(P) -> 1 .. Len(disk[h])] :
        \A k \in 1 .. Len(P) : P[k] = RecordIn(disk[h][at[k]])
  BY <1>2
<1>5. CASE disk'[i] # NoFile /\ \E j \in 1 .. Len(disk'[i]) : disk'[i][j].id = x
  BY <1>3, <1>5 DEF Placed
<1>6. CASE \E k \in 1 .. Len(shown') : origin'[k] = i /\ shown'[k].id = x
  <2>1. PICK k \in 1 .. Len(shown') : origin'[k] = i /\ shown'[k].id = x
    BY <1>6
  <2>2. CASE k \in 1 .. Len(shown)
    BY <1>1, <2>1, <2>2 DEF Placed
  <2>3. CASE k - Len(shown) \in 1 .. Len(P) /\ k = Len(shown) + (k - Len(shown))
    <3> DEFINE m == k - Len(shown)
    <3>1. m \in 1 .. Len(P) /\ k = Len(shown) + m
      BY <2>3
    <3> HIDE DEF m
    <3>2. i = h /\ P[m].id = x
      BY <1>1, <2>1, <3>1
    <3>3. at[m] \in 1 .. Len(disk[h]) /\ P[m] = RecordIn(disk[h][at[m]])
      BY <1>4, <3>1
    <3>4. disk[h][at[m]].id = x
      BY <3>2, <3>3 DEF RecordIn
    <3> QED
      BY <1>1, <3>2, <3>3, <3>4 DEF Placed
  <2> QED
    BY <1>1, <2>2, <2>3
<1> QED
  BY <1>5, <1>6 DEF Placed

LEMMA PlacesKeptInOrder ==
  ASSUME TypeOK, OpenedInv, OpenIsLast, DecoderTypeOK, PlacesInv, TypeOK',
         [DecoderNext]_<<vars, dvars, started>>
  PROVE  PlacesInv'
<1>1. CASE \E r \in Record : Write(r) /\ UNCHANGED <<dvars, started>>
  BY <1>1, PlacesAfterWrite
<1>2. CASE Restart /\ UNCHANGED dvars /\ started' = Append(started, writes)
  BY <1>2, PlacesAfterRestart
<1>3. CASE UNCHANGED <<disk, writes, current_file, shown, origin, started>>
  <2>1. \A i \in Indices : \A x \in Nat : Placed(i, x)' <=> Placed(i, x)
    BY <1>3 DEF Placed
  <2>2. UNCHANGED <<disk, writes, current_file, started>>
    BY <1>3
  <2> QED
    BY <2>1, <2>2 DEF PlacesInv
<1>4. CASE ReadFile
  <2>1. UNCHANGED <<disk, writes, current_file, started>>
    BY <1>4 DEF ReadFile, NextPath, vars
  <2>2. \A i \in Indices : \A x \in Nat : Placed(i, x)' => Placed(i, x)
    BY <1>4, ShownWasPlaced
  <2> QED
    BY <2>1, <2>2 DEF PlacesInv
<1> QED
  BY <1>1, <1>2, <1>3, <1>4
     DEF DecoderNext, Writer, Decode, CannotList, List, CannotRead, NextPath, Report, vars, dvars

\* A path that occurs twice in a list.
Twice(listed, path) == Cardinality({k \in 1 .. Len(listed) : listed[k] = path}) > 1

\* The paths are read in order, and a file again only if it was given twice.
ReadingOrder ==
  /\ \A m, n \in 1 .. Len(paths) : m < n =>
       /\ paths[m] <= paths[n]
       /\ paths[m] = paths[n] => Twice(given, paths[m])
  /\ \A k \in 1 .. Len(shown) : \A n \in 1 .. Len(paths) :
       /\ origin[k] <= paths[n]
       /\ origin[k] = paths[n] => Twice(given, origin[k])
  /\ \A i, j \in 1 .. Len(shown) : i < j =>
       /\ origin[i] <= origin[j]
       /\ origin[i] = origin[j] => Twice(given, origin[i]) \/ shown[i].id < shown[j].id

\* The file at the head of the paths comes behind those read, and before
\* those still to be read.
LEMMA OrderAfterRead ==
  ASSUME TypeOK, DecoderTypeOK, PlacesInv, ReadingOrder, ReadFile
  PROVE  ReadingOrder'
<1> DEFINE h == Head(paths)
           P == Printed(Results(disk[h]))
<1>1. /\ h \in Indices /\ disk[h] # NoFile /\ IsFile(disk[h])
      /\ Len(P) \in Nat /\ Len(shown) \in Nat
      /\ Len(shown') = Len(shown) + Len(P)
      /\ \A k \in 1 .. Len(shown) : shown'[k] = shown[k] /\ origin'[k] = origin[k]
      /\ \A k \in 1 .. Len(P) : shown'[Len(shown) + k] = P[k] /\ origin'[Len(shown) + k] = h
  BY ReadFileIs
<1>2. \E at \in [1 .. Len(P) -> 1 .. Len(disk[h])] :
        /\ \A m, k \in 1 .. Len(P) : m < k => at[m] < at[k]
        /\ \A k \in 1 .. Len(P) : P[k] = RecordIn(disk[h][at[k]])
  BY <1>1, ShowsAre
<1>3. given' = given
  BY DEF ReadFile, NextPath
<1>4. /\ Len(paths) \in Nat /\ 1 \in 1 .. Len(paths) /\ paths[1] = h
      /\ \A n \in 1 .. Len(paths') : n + 1 \in 1 .. Len(paths) /\ paths'[n] = paths[n + 1]
  BY NextPathIs DEF ReadFile
<1> HIDE DEF h, P
<1>5. \A m, k \in 1 .. Len(P) : m < k => P[m].id < P[k].id
  <2>1. PICK at \in [1 .. Len(P) -> 1 .. Len(disk[h])] :
          /\ \A m, k \in 1 .. Len(P) : m < k => at[m] < at[k]
          /\ \A k \in 1 .. Len(P) : P[k] = RecordIn(disk[h][at[k]])
    BY <1>2
  <2> SUFFICES ASSUME NEW m \in 1 .. Len(P), NEW k \in 1 .. Len(P), m < k
               PROVE  P[m].id < P[k].id
    OBVIOUS
  <2>2. at[m] \in 1 .. Len(disk[h]) /\ at[k] \in 1 .. Len(disk[h]) /\ at[m] < at[k]
    BY <2>1
  <2>3. disk[h][at[m]].id < disk[h][at[k]].id
    BY <1>1, <2>2 DEF PlacesInv
  <2>4. \A piece : RecordIn(piece).id = piece.id
    BY DEF RecordIn
  <2>5. P[m] = RecordIn(disk[h][at[m]]) /\ P[k] = RecordIn(disk[h][at[k]])
    BY <2>1
  <2> QED
    BY <2>3, <2>4, <2>5
<1>6. \A k \in 1 .. Len(shown') :
        \/ k \in 1 .. Len(shown) /\ shown'[k] = shown[k] /\ origin'[k] = origin[k]
        \/ /\ origin'[k] = h /\ ~(k <= Len(shown)) /\ k - Len(shown) \in 1 .. Len(P)
           /\ shown'[k] = P[k - Len(shown)]
  <2> SUFFICES ASSUME NEW k \in 1 .. Len(shown'), ~(k \in 1 .. Len(shown))
               PROVE  /\ origin'[k] = h /\ ~(k <= Len(shown)) /\ k - Len(shown) \in 1 .. Len(P)
                      /\ shown'[k] = P[k - Len(shown)]
    BY <1>1
  <2> DEFINE m == k - Len(shown)
  <2>1. m \in 1 .. Len(P) /\ k = Len(shown) + m /\ ~(k <= Len(shown))
    BY <1>1
  <2> HIDE DEF m
  <2>2. shown'[k] = P[m] /\ origin'[k] = h
    BY <1>1, <2>1
  <2> QED
    BY <2>1, <2>2 DEF m
<1>7. h <= h
  BY <1>1, FileStorageAssumption
<1>8. ASSUME NEW m \in 1 .. Len(paths'), NEW n \in 1 .. Len(paths'), m < n
      PROVE  /\ paths'[m] <= paths'[n]
             /\ paths'[m] = paths'[n] => Twice(given, paths'[m])
  <2>1. m + 1 < n + 1
    BY <1>8
  <2> QED
    BY <1>4, <2>1 DEF ReadingOrder
<1>9. ASSUME NEW n \in 1 .. Len(paths')
      PROVE  h <= paths'[n] /\ (h = paths'[n] => Twice(given, h))
  <2>1. 1 < n + 1
    OBVIOUS
  <2> QED
    BY <1>4, <2>1 DEF ReadingOrder
<1>10. ASSUME NEW k \in 1 .. Len(shown'), NEW n \in 1 .. Len(paths')
       PROVE  origin'[k] <= paths'[n] /\ (origin'[k] = paths'[n] => Twice(given, origin'[k]))
  <2>1. CASE k \in 1 .. Len(shown) /\ origin'[k] = origin[k]
    BY <1>4, <2>1 DEF ReadingOrder
  <2>2. CASE origin'[k] = h
    BY <1>9, <2>2
  <2> QED
    BY <1>6, <2>1, <2>2
<1>11. ASSUME NEW i \in 1 .. Len(shown'), NEW j \in 1 .. Len(shown'), i < j
       PROVE  /\ origin'[i] <= origin'[j]
              /\ origin'[i] = origin'[j] => Twice(given, origin'[i]) \/ shown'[i].id < shown'[j].id
  <2>1. CASE /\ i \in 1 .. Len(shown) /\ shown'[i] = shown[i] /\ origin'[i] = origin[i]
             /\ j \in 1 .. Len(shown) /\ shown'[j] = shown[j] /\ origin'[j] = origin[j]
    BY <1>11, <2>1 DEF ReadingOrder
  <2>2. CASE i \in 1 .. Len(shown) /\ origin'[i] = origin[i] /\ origin'[j] = h
    BY <1>4, <2>2 DEF ReadingOrder
  <2>3. CASE ~(i <= Len(shown)) /\ j \in 1 .. Len(shown)
    BY <1>1, <1>11, <2>3
  <2>4. CASE /\ origin'[i] = h /\ i - Len(shown) \in 1 .. Len(P) /\ shown'[i] = P[i - Len(shown)]
             /\ origin'[j] = h /\ j - Len(shown) \in 1 .. Len(P) /\ shown'[j] = P[j - Len(shown)]
    <3>1. i - Len(shown) < j - Len(shown)
      BY <1>1, <1>11
    <3> QED
      BY <1>5, <1>7, <2>4, <3>1
  <2> QED
    BY <1>6, <2>1, <2>2, <2>3, <2>4
<1> QED
  BY <1>3, <1>8, <1>10, <1>11 DEF ReadingOrder

LEMMA ReadingOrderKept ==
  ASSUME NamesInOrder, TypeOK, DecoderTypeOK, PlacesInv, ReadingOrder,
         [DecoderNext]_<<vars, dvars, started>>
  PROVE  ReadingOrder'
<1>1. CASE UNCHANGED <<paths, given, shown, origin>>
  BY <1>1 DEF ReadingOrder
<1>2. CASE \E args \in Args : List(args)
  <2>1. PICK args \in Args : List(args)
    BY <1>2
  <2>2. \A j, k \in 1 .. Len(paths') : j < k => paths'[j] <= paths'[k]
    BY <2>1, ListedIs
  <2>3. \A j, k \in 1 .. Len(paths') : j < k /\ paths'[j] = paths'[k] =>
          Cardinality({i \in 1 .. Len(given') : given'[i] = paths'[j]}) > 1
    BY <2>1, ListedIs
  <2>4. \A path : Twice(given', path) <=> Cardinality({i \in 1 .. Len(given') : given'[i] = path}) > 1
    BY DEF Twice
  <2>5. \A j, k \in 1 .. Len(paths') : j < k /\ paths'[j] = paths'[k] => Twice(given', paths'[j])
    BY <2>3, <2>4
  <2>6. Len(shown') = 0
    BY <2>1 DEF List, DecoderTypeOK
  <2>7. 1 .. Len(shown') = {}
    BY <2>6
  <2> QED
    BY <2>2, <2>5, <2>7 DEF ReadingOrder
<1>3. CASE ReadFile
  BY <1>3, OrderAfterRead
<1>4. CASE CannotRead
  <2>1. UNCHANGED <<given, shown, origin>>
    BY <1>4 DEF CannotRead, NextPath
  <2>2. \A n \in 1 .. Len(paths') : n + 1 \in 1 .. Len(paths) /\ paths'[n] = paths[n + 1]
    BY <1>4, NextPathIs DEF CannotRead
  <2>3. \A m, n \in 1 .. Len(paths') : m < n => m + 1 < n + 1
    OBVIOUS
  <2>4. \A m, n \in 1 .. Len(paths') : m < n =>
          /\ paths'[m] <= paths'[n]
          /\ paths'[m] = paths'[n] => Twice(given, paths'[m])
    BY <2>2, <2>3 DEF ReadingOrder
  <2>5. \A k \in 1 .. Len(shown) : \A n \in 1 .. Len(paths') :
          /\ origin[k] <= paths'[n]
          /\ origin[k] = paths'[n] => Twice(given, origin[k])
    BY <2>2 DEF ReadingOrder
  <2> QED
    BY <2>1, <2>4, <2>5 DEF ReadingOrder
<1> QED
  BY <1>1, <1>2, <1>3, <1>4 DEF DecoderNext, Writer, Decode, CannotList, Report, dvars

LEMMA OrderGives ==
  ASSUME TypeOK, DecoderTypeOK, PlacesInv, ReadingOrder
  PROVE  ShownInOrder
<1> SUFFICES ASSUME NEW i \in 1 .. Len(shown), NEW j \in 1 .. Len(shown), i < j,
                    RunOf(shown[i].id) = RunOf(shown[j].id)
             PROVE  \/ shown[i].id < shown[j].id
                    \/ origin[i] = origin[j] /\ GivenTwice(origin[i])
  BY DEF ShownInOrder
<1>1. RunIn(started, shown[i].id) = RunIn(started, shown[j].id)
  BY DEF RunOf, RunIn
<1>2. Twice(given, origin[i]) => GivenTwice(origin[i])
  BY DEF Twice, GivenTwice
<1>3. shown[i].id \in Nat /\ shown[j].id \in Nat
  <2>1. shown[i] \in Record /\ shown[j] \in Record
    BY ElementOfSeq DEF DecoderTypeOK
  <2> QED
    BY <2>1, FileStorageAssumption DEF Record
<1>4. origin[i] \in Indices /\ origin[j] \in Indices
  BY ElementOfSeq DEF DecoderTypeOK
<1>5. Placed(origin[i], shown[i].id) /\ Placed(origin[j], shown[j].id)
  BY DEF Placed
<1>6. CASE origin[i] = origin[j]
  BY <1>2, <1>6 DEF ReadingOrder
<1>7. CASE origin[i] # origin[j]
  <2>1. origin[i] \in Nat /\ origin[j] \in Nat
    BY <1>4, FileStorageAssumption
  <2>2. origin[i] <= origin[j]
    BY DEF ReadingOrder
  <2>3. origin[i] < origin[j]
    BY <1>7, <2>1, <2>2
  <2> QED
    BY <1>1, <1>3, <1>4, <1>5, <2>3 DEF PlacesInv
<1> QED
  BY <1>6, <1>7

LEMMA OrderStarts ==
  ASSUME DecoderInit
  PROVE  PlacesInv /\ ReadingOrder
<1>1. /\ Len(shown) = 0 /\ Len(paths) = 0 /\ Len(started) = 0 /\ started \in Seq(Nat)
      /\ \A i \in Indices : disk[i] = NoFile
  BY EmptySeq DEF DecoderInit, Init
<1>2. 1 .. Len(shown) = {} /\ 1 .. Len(paths) = {} /\ 1 .. Len(started) = {}
  BY <1>1
<1>3. \A i \in Indices : \A x \in Nat : ~Placed(i, x)
  BY <1>1, <1>2 DEF Placed
<1> QED
  BY <1>1, <1>2, <1>3 DEF PlacesInv, ReadingOrder

\* What the decoder knows of the order of the files and of what it has shown.
THEOREM DecoderKeepsOrder ==
  ASSUME NamesInOrder
  PROVE  DecoderSpec => [](PlacesInv /\ ReadingOrder)
<1>1. DecoderInit => PlacesInv /\ ReadingOrder
  BY OrderStarts
<1>2. TypeOK /\ OpenedInv /\ OpenIsLast /\ DecoderTypeOK /\ PlacesInv /\ TypeOK'
        /\ [DecoderNext]_<<vars, dvars, started>> => PlacesInv'
  BY PlacesKeptInOrder
<1>3. TypeOK /\ DecoderTypeOK /\ PlacesInv /\ ReadingOrder /\ [DecoderNext]_<<vars, dvars, started>>
        => ReadingOrder'
  BY ReadingOrderKept
<1>4. Spec => []OpenIsLast
  BY OpenIsLastAlways
<1> QED
  BY <1>1, <1>2, <1>3, <1>4, StorageTypes, DecoderUsesStorage, DecoderTypes, PTL DEF DecoderSpec

\* ShownInOrder, for every command line, whatever the writer does meanwhile:
\* the records of each of its runs come out in the order they were written,
\* each once, but for those of a file that was given twice.
THEOREM DecoderShowsInOrder ==
  ASSUME NamesInOrder
  PROVE  DecoderSpec => []ShownInOrder
<1>1. TypeOK /\ DecoderTypeOK /\ PlacesInv /\ ReadingOrder => ShownInOrder
  BY OrderGives
<1> QED
  BY <1>1, StorageTypes, DecoderUsesStorage, DecoderTypes, DecoderKeepsOrder, PTL

-----------------------------------------------------------------------------
(* The completeness of what is shown.                                      *)

\* A piece the decoder shows when it reads the file as it is.
WouldShow(p, j) == Readable(p, j) /\ PassesFilter(RecordIn(p[j]))

\* A piece that was not readable does not become so by what is written after
\* it.
LEMMA ReadableBefore ==
  ASSUME NEW p \in Seq(Pieces), NEW x \in Pieces, NEW j \in 1 .. Len(p)
  PROVE  /\ j \in 1 .. Len(Append(p, x)) /\ Append(p, x)[j] = p[j]
         /\ WouldShow(Append(p, x), j) => WouldShow(p, j)
<1> DEFINE q == Append(p, x)
<1>1. /\ Len(p) \in Nat /\ Len(q) = Len(p) + 1
      /\ \A i \in 1 .. Len(p) : q[i] = p[i]
  BY AppendProperties, LenProperties
<1> HIDE DEF q
<1>2. j \in 1 .. Len(q) /\ q[j] = p[j] /\ j # Len(q)
  BY <1>1
<1>3. j # 1 => j - 1 \in 1 .. Len(p)
  BY <1>1
<1>4. j # 1 => q[j - 1] = p[j - 1]
  BY <1>1, <1>3
<1>5. StartsChunk(q, j) => StartsChunk(p, j)
  BY <1>4 DEF StartsChunk
<1>6. EndsChunk(q, j) => EndsChunk(p, j)
  BY <1>2 DEF EndsChunk
<1>7. WouldShow(q, j) => WouldShow(p, j)
  BY <1>2, <1>5, <1>6 DEF WouldShow, Readable
<1> QED
  BY <1>2, <1>7 DEF q

\* A write leaves the files up to segment_index as they are, or puts a piece
\* at the end of the one that is open.
LEMMA WriteKeepsFile ==
  ASSUME TypeOK, OpenedInv, OpenIsLast, NEW r \in Record, Write(r),
         NEW i \in Indices, IsFile(disk[i]), i <= segment_index
  PROVE  \/ disk'[i] = disk[i]
         \/ i = current_file' /\ \E piece \in Pieces : disk'[i] = Append(disk[i], piece)
<1>1. DOMAIN disk = Indices /\ segment_index \in Nat /\ i \in Nat
  BY FileStorageAssumption DEF TypeOK
<1>2. CASE UNCHANGED disk
  BY <1>2
<1>3. CASE /\ current_file \in Indices /\ UNCHANGED current_file
           /\ \E got \in 0 .. r.size : disk' = Wrote(disk, current_file, r, got)
  <2>1. PICK got \in 0 .. r.size : disk' = Wrote(disk, current_file, r, got)
    BY <1>3
  <2>2. IsFile(disk[current_file])
    BY <1>3, FileStorageAssumption DEF OpenedInv
  <2>3. /\ \A n \in Indices : n # current_file => disk'[n] = disk[n]
        /\ \/ disk'[current_file] = disk[current_file]
           \/ \E piece \in Pieces : disk'[current_file] = Append(disk[current_file], piece)
    BY <1>1, <1>3, <2>1, <2>2, WroteFile
  <2> QED
    BY <1>3, <2>3
<1>4. CASE /\ segment_index' \in Indices /\ segment_index' = segment_index + 1
           /\ \E got \in 0 .. r.size :
                disk' = Wrote(Created(disk, segment_index'), segment_index', r, got)
  <2>1. PICK got \in 0 .. r.size :
          disk' = Wrote(Created(disk, segment_index'), segment_index', r, got)
    BY <1>4
  <2>2. i # segment_index'
    BY <1>1, <1>4
  <2>3. DirOK(disk)
    BY DEF TypeOK, DirOK
  <2> DEFINE dir == Created(disk, segment_index')
  <2>4. DirOK(dir) /\ dir[i] = disk[i]
    BY <1>4, <2>2, <2>3, CreatedFile
  <2>5. i \in DOMAIN dir
    BY <2>4 DEF DirOK
  <2> HIDE DEF dir
  <2>6. Wrote(dir, segment_index', r, got)[i] = dir[i]
    BY <2>2, <2>5, WroteElsewhere
  <2> QED
    BY <2>1, <2>4, <2>6 DEF dir
<1> QED
  BY <1>2, <1>3, <1>4, WriteShape

\* The paths still to be read are those of before without the first.
LEMMA OtherPaths ==
  ASSUME DecoderTypeOK, NextPath
  PROVE  /\ \A x \in ToSet(paths) : x = Head(paths) \/ x \in ToSet(paths')
         /\ ToSet(paths') \subseteq ToSet(paths) /\ Head(paths) \in ToSet(paths)
<1>1. /\ Len(paths) \in Nat /\ 1 \in 1 .. Len(paths) /\ paths[1] = Head(paths)
      /\ paths' \in Seq(Indices)
      /\ \A n \in 1 .. Len(paths') : n + 1 \in 1 .. Len(paths) /\ paths'[n] = paths[n + 1]
      /\ \A n \in 1 .. Len(paths) : n = 1 \/ n - 1 \in 1 .. Len(paths')
  BY NextPathIs
<1>2. DOMAIN paths = 1 .. Len(paths) /\ DOMAIN paths' = 1 .. Len(paths')
  BY <1>1, LenProperties DEF DecoderTypeOK
<1>3. ASSUME NEW n \in 1 .. Len(paths)
      PROVE  paths[n] = Head(paths) \/ paths[n] \in ToSet(paths')
  <2>1. CASE n = 1
    BY <1>1, <2>1
  <2>2. CASE n - 1 \in 1 .. Len(paths')
    <3>1. paths'[n - 1] = paths[(n - 1) + 1] /\ (n - 1) + 1 = n
      BY <1>1, <2>2
    <3> QED
      BY <1>2, <2>2, <3>1 DEF ToSet
  <2> QED
    BY <1>1, <2>1, <2>2
<1>4. \A n \in 1 .. Len(paths') : paths'[n] \in ToSet(paths)
  BY <1>1, <1>2 DEF ToSet
<1>5. Head(paths) \in ToSet(paths)
  BY <1>1, <1>2 DEF ToSet
<1> QED
  BY <1>2, <1>3, <1>4, <1>5 DEF ToSet

\* A file that is read has all its readable records shown that the filter
\* admits.
LEMMA ReadFileShows ==
  ASSUME TypeOK, DecoderTypeOK, ReadFile
  PROVE  LET p == disk[Head(paths)]
         IN  /\ \A j \in 1 .. Len(p) : WouldShow(p, j) => p[j].id \in Ids(shown')
             /\ Ids(shown) \subseteq Ids(shown')
<1> DEFINE h == Head(paths)
           P == Printed(Results(disk[h]))
<1>1. /\ IsFile(disk[h])
      /\ \A k \in 1 .. Len(shown) : k \in 1 .. Len(shown') /\ shown'[k] = shown[k]
      /\ \A k \in 1 .. Len(P) : /\ Len(shown) + k \in 1 .. Len(shown')
                                /\ shown'[Len(shown) + k] = P[k]
  BY ReadFileIs
<1>2. \A j \in 1 .. Len(disk[h]) : Readable(disk[h], j) /\ PassesFilter(RecordIn(disk[h][j])) =>
        \E k \in 1 .. Len(P) : P[k] = RecordIn(disk[h][j])
  BY <1>1, ShowsAre
<1> HIDE DEF P
<1>3. Ids(shown) \subseteq Ids(shown')
  BY <1>1 DEF Ids
<1>4. ASSUME NEW j \in 1 .. Len(disk[h]), WouldShow(disk[h], j)
      PROVE  disk[h][j].id \in Ids(shown')
  <2>1. PICK k \in 1 .. Len(P) : P[k] = RecordIn(disk[h][j])
    BY <1>2, <1>4 DEF WouldShow
  <2>2. Len(shown) + k \in 1 .. Len(shown') /\ shown'[Len(shown) + k].id = disk[h][j].id
    BY <1>1, <2>1 DEF RecordIn
  <2> QED
    BY <2>2 DEF Ids
<1> QED
  BY <1>3, <1>4 DEF h

\* What was given is what is read, and the writer was listed in a run that
\* was its current one.
ListedInv ==
  /\ before \in Seq(Record) /\ listed_in \in Nat /\ listed_in <= runs
  /\ ToSet(paths) \subseteq ToSet(given)
  /\ \A k \in 1 .. Len(shown) : origin[k] \in ToSet(given)

\* Each record acknowledged before the listing has its piece in a segment of
\* this run that is still to be read or has been read with it.
BeforeFound ==
  runs = listed_in /\ whole /\ ~warned =>
    \A n \in 1 .. Len(before) : \E k \in 1 .. Len(opened) : \E j \in 1 .. Len(disk[opened[k]]) :
      /\ PieceAt(k, j).id = before[n].id
      /\ \/ opened[k] \in ToSet(paths)
         \/ WouldShow(disk[opened[k]], j) => before[n].id \in Ids(shown)

\* In its first run the writer is at the last segment of the directory.
FirstRun ==
  runs = 1 =>
    /\ Len(started) = 0
    /\ \A i \in Indices : disk[i] # NoFile => current_file # NoFile /\ i <= current_file

\* Then the segments listed are there; one before a listed one is still to be
\* read, or was read when all its pieces were in it; and of a segment that was
\* read, the pieces before one that is shown were there as well.
FirstRunView ==
  /\ runs = 1 /\ whole => \A x \in ToSet(given) : disk[x] # NoFile
  /\ runs = 1 /\ whole /\ ~warned =>
       \A i \in Indices, x \in ToSet(given) : disk[i] # NoFile /\ i < x =>
         \A j \in 1 .. Len(disk[i]) :
           i \in ToSet(paths) \/ (WouldShow(disk[i], j) => disk[i][j].id \in Ids(shown))
  /\ runs = 1 =>
       \A k \in 1 .. Len(shown) : disk[origin[k]] # NoFile /\
         \A j \in 1 .. Len(disk[origin[k]]) :
           disk[origin[k]][j].id < shown[k].id /\ WouldShow(disk[origin[k]], j) =>
             disk[origin[k]][j].id \in Ids(shown)

\* Both in one: the pieces that were in such a file are in it after a write,
\* none of them newly readable, and a piece that was not is the newest of all.
LEMMA WriteKeepsPieces ==
  ASSUME TypeOK, OpenedInv, OpenIsLast, NEW r \in Record, Write(r),
         NEW i \in Indices, disk[i] # NoFile, i <= segment_index
  PROVE  /\ disk'[i] # NoFile
         /\ \A j \in 1 .. Len(disk[i]) :
              /\ j \in 1 .. Len(disk'[i]) /\ disk'[i][j] = disk[i][j]
              /\ WouldShow(disk'[i], j) => WouldShow(disk[i], j)
         /\ \A j \in 1 .. Len(disk'[i]) : j \in 1 .. Len(disk[i]) \/ disk'[i][j].id = writes + 1
<1>1. IsFile(disk[i])
  BY DEF TypeOK
<1>2. disk[i] \in Seq(Pieces)
  BY <1>1 DEF IsFile
<1>3. \/ disk'[i] = disk[i]
      \/ \E piece \in Pieces : disk'[i] = Append(disk[i], piece)
  BY <1>1, WriteKeepsFile
<1>4. disk'[i] # NoFile
  <2>1. \A piece \in Pieces : Append(disk[i], piece) \in Seq(Pieces)
    BY <1>2, AppendProperties
  <2> QED
    BY <1>2, <1>3, <2>1, DecoderAssumption
<1>5. \A j \in 1 .. Len(disk[i]) :
        /\ j \in 1 .. Len(disk'[i]) /\ disk'[i][j] = disk[i][j]
        /\ WouldShow(disk'[i], j) => WouldShow(disk[i], j)
  <2>1. CASE disk'[i] = disk[i]
    BY <2>1
  <2>2. CASE \E piece \in Pieces : disk'[i] = Append(disk[i], piece)
    <3>1. PICK piece \in Pieces : disk'[i] = Append(disk[i], piece)
      BY <2>2
    <3>2. \A j \in 1 .. Len(disk[i]) :
            /\ j \in 1 .. Len(Append(disk[i], piece)) /\ Append(disk[i], piece)[j] = disk[i][j]
            /\ WouldShow(Append(disk[i], piece), j) => WouldShow(disk[i], j)
      BY <1>2, ReadableBefore
    <3> QED
      BY <3>1, <3>2
  <2> QED
    BY <1>3, <2>1, <2>2
<1>6. \A j \in 1 .. Len(disk'[i]) : j \in 1 .. Len(disk[i]) \/ disk'[i][j].id = writes + 1
  BY <1>4, WroteSomewhere
<1> QED
  BY <1>4, <1>5, <1>6

LEMMA ListedKept ==
  ASSUME NamesInOrder, TypeOK, DecoderTypeOK, ListedInv,
         [DecoderNext]_<<vars, dvars, started>>
  PROVE  ListedInv'
<1>1. CASE UNCHANGED <<paths, given, shown, origin, before, listed_in>> /\ runs' \in {runs, runs + 1}
  <2>1. runs \in Nat
    BY FileStorageAssumption DEF TypeOK
  <2> QED
    BY <1>1, <2>1 DEF ListedInv
<1>2. CASE \E args \in Args : List(args)
  <2>1. PICK args \in Args : List(args)
    BY <1>2
  <2>2. ToSet(paths') = ToSet(given')
    BY <2>1, ListedIs
  <2>3. before' = acked /\ listed_in' = runs /\ runs' = runs /\ Len(shown') = 0
    BY <2>1 DEF List, DecoderTypeOK, vars
  <2>4. acked \in Seq(Record) /\ runs \in Nat /\ 1 .. Len(shown') = {}
    BY <2>3, FileStorageAssumption DEF TypeOK
  <2>5. runs <= runs
    BY <2>4
  <2> QED
    BY <2>2, <2>3, <2>4, <2>5 DEF ListedInv
<1>3. CASE NextPath /\ UNCHANGED <<shown, origin>>
  <2>1. ToSet(paths') \subseteq ToSet(paths)
    BY <1>3, OtherPaths
  <2>2. UNCHANGED <<given, before, listed_in, runs>>
    BY <1>3 DEF NextPath, vars
  <2> QED
    BY <1>3, <2>1, <2>2 DEF ListedInv
<1>4. CASE ReadFile
  <2>1. ToSet(paths') \subseteq ToSet(paths) /\ Head(paths) \in ToSet(paths)
    BY <1>4, OtherPaths DEF ReadFile
  <2>2. UNCHANGED <<given, before, listed_in, runs>>
    BY <1>4 DEF ReadFile, NextPath, vars
  <2> DEFINE P == Printed(Results(disk[Head(paths)]))
  <2>3. /\ \A k \in 1 .. Len(shown) : origin'[k] = origin[k]
        /\ \A k \in 1 .. Len(P) : origin'[Len(shown) + k] = Head(paths)
        /\ \A k \in 1 .. Len(shown') :
             k \in 1 .. Len(shown) \/ (k - Len(shown) \in 1 .. Len(P) /\ k = Len(shown) + (k - Len(shown)))
    BY <1>4, ReadFileIs
  <2> HIDE DEF P
  <2>4. \A k \in 1 .. Len(shown') : origin'[k] \in ToSet(given)
    BY <2>1, <2>3 DEF ListedInv
  <2> QED
    BY <2>1, <2>2, <2>4 DEF ListedInv
<1> QED
  BY <1>1, <1>2, <1>3, <1>4
     DEF DecoderNext, Writer, Decode, CannotList, CannotRead, Report, vars, dvars, Write, WriteInPlace,
         WriteRotated, CreateFails, RotateFlushFails, Rotate, Call, Restart

LEMMA BeforeFoundKept ==
  ASSUME NamesInOrder, TypeOK, OpenedInv, OpenIsLast, AckedThere, DecoderTypeOK, ListedInv,
         BeforeFound, [DecoderNext]_<<vars, dvars, started>>
  PROVE  BeforeFound'
<1>1. CASE \E r \in Record : Write(r) /\ UNCHANGED dvars
  <2>1. PICK r \in Record : Write(r) /\ UNCHANGED dvars
    BY <1>1
  <2>2. UNCHANGED <<runs, listed_in, whole, warned, paths, shown, before>>
    BY <2>1, WriteNumbers DEF dvars
  <2> SUFFICES ASSUME runs = listed_in, whole, ~warned, NEW n \in 1 .. Len(before)
               PROVE  \E k \in 1 .. Len(opened') : \E j \in 1 .. Len(disk'[opened'[k]]) :
                        /\ PieceAt(k, j)'.id = before[n].id
                        /\ \/ opened'[k] \in ToSet(paths)
                           \/ WouldShow(disk'[opened'[k]], j) => before[n].id \in Ids(shown)
    BY <2>2 DEF BeforeFound
  <2>3. PICK k \in 1 .. Len(opened) : \E j \in 1 .. Len(disk[opened[k]]) :
          /\ PieceAt(k, j).id = before[n].id
          /\ \/ opened[k] \in ToSet(paths)
             \/ WouldShow(disk[opened[k]], j) => before[n].id \in Ids(shown)
    BY DEF BeforeFound
  <2>4. PICK j \in 1 .. Len(disk[opened[k]]) :
          /\ PieceAt(k, j).id = before[n].id
          /\ \/ opened[k] \in ToSet(paths)
             \/ WouldShow(disk[opened[k]], j) => before[n].id \in Ids(shown)
    BY <2>3
  <2>5. /\ k \in 1 .. Len(opened') /\ j \in 1 .. Len(disk'[opened'[k]])
        /\ PieceAt(k, j)' = PieceAt(k, j)
    BY <2>1, <2>3, <2>4, PlacesKept
  <2>6. opened'[k] = opened[k]
    <3>1. CASE UNCHANGED opened
      BY <3>1
    <3>2. CASE segment_index' \in Indices /\ opened' = Append(opened, segment_index')
      BY <2>3, <3>2, OneMoreSegment
    <3> QED
      BY <2>1, <3>1, <3>2, WriteShape
  <2> DEFINE i == opened[k]
  <2>7. i \in Indices /\ i <= segment_index /\ disk[i] # NoFile
    <3>1. i \in Indices
      BY Types
    <3>2. i <= segment_index /\ IsFile(disk[i])
      BY DEF OpenedInv
    <3> QED
      BY <3>1, <3>2, FileIsNotNone
  <2> HIDE DEF i
  <2>8. \A m \in 1 .. Len(disk[i]) : WouldShow(disk'[i], m) => WouldShow(disk[i], m)
    BY <2>1, <2>7, WriteKeepsPieces
  <2>9. WouldShow(disk'[opened'[k]], j) => WouldShow(disk[opened[k]], j)
    BY <2>4, <2>6, <2>8 DEF i
  <2> QED
    BY <2>4, <2>5, <2>6, <2>9
<1>2. CASE Restart /\ UNCHANGED dvars
  <2>1. runs' = runs + 1 /\ listed_in' = listed_in /\ runs \in Nat
    BY <1>2, FileStorageAssumption DEF Restart, dvars, TypeOK
  <2>2. runs' # listed_in'
    BY <2>1 DEF ListedInv
  <2> QED
    BY <2>2 DEF BeforeFound
<1>3. CASE \E args \in Args : List(args)
  <2>1. PICK args \in Args : List(args)
    BY <1>3
  <2>2. before' = acked /\ UNCHANGED <<disk, opened>>
    BY <2>1 DEF List, vars
  <2>3. ToSet(paths') = ToSet(given') /\ (whole' => ToSet(given') = SegmentFiles)
    BY <2>1, ListedIs
  <2>4. \A k \in 1 .. Len(opened) : opened[k] \in SegmentFiles
    <3> SUFFICES ASSUME NEW k \in 1 .. Len(opened) PROVE opened[k] \in SegmentFiles
      OBVIOUS
    <3>1. opened[k] \in Indices /\ IsFile(disk[opened[k]])
      BY Types DEF OpenedInv
    <3> QED
      BY <3>1, FileIsNotNone DEF SegmentFiles
  <2>5. whole' => \A k \in 1 .. Len(opened) : opened[k] \in ToSet(paths')
    BY <2>3, <2>4
  <2>6. \A n \in 1 .. Len(acked) : \E k \in 1 .. Len(opened) : \E j \in 1 .. Len(disk[opened[k]]) :
          PieceAt(k, j).id = acked[n].id
    BY DEF AckedThere
  <2> QED
    BY <2>2, <2>5, <2>6 DEF BeforeFound, PieceAt
<1>4. CASE ReadFile
  <2>1. UNCHANGED <<runs, listed_in, whole, warned, before, disk, opened>>
    BY <1>4 DEF ReadFile, NextPath, vars
  <2>2. \A x \in ToSet(paths) : x = Head(paths) \/ x \in ToSet(paths')
    BY <1>4, OtherPaths DEF ReadFile
  <2>3. /\ \A j \in 1 .. Len(disk[Head(paths)]) :
             WouldShow(disk[Head(paths)], j) => disk[Head(paths)][j].id \in Ids(shown')
        /\ Ids(shown) \subseteq Ids(shown')
    BY <1>4, ReadFileShows
  <2> SUFFICES ASSUME runs = listed_in, whole, ~warned, NEW n \in 1 .. Len(before)
               PROVE  \E k \in 1 .. Len(opened) : \E j \in 1 .. Len(disk[opened[k]]) :
                        /\ PieceAt(k, j).id = before[n].id
                        /\ \/ opened[k] \in ToSet(paths')
                           \/ WouldShow(disk[opened[k]], j) => before[n].id \in Ids(shown')
    BY <2>1 DEF BeforeFound, PieceAt
  <2>4. PICK k \in 1 .. Len(opened) : \E j \in 1 .. Len(disk[opened[k]]) :
          /\ PieceAt(k, j).id = before[n].id
          /\ \/ opened[k] \in ToSet(paths)
             \/ WouldShow(disk[opened[k]], j) => before[n].id \in Ids(shown)
    BY DEF BeforeFound
  <2>5. PICK j \in 1 .. Len(disk[opened[k]]) :
          /\ PieceAt(k, j).id = before[n].id
          /\ \/ opened[k] \in ToSet(paths)
             \/ WouldShow(disk[opened[k]], j) => before[n].id \in Ids(shown)
    BY <2>4
  <2>6. CASE opened[k] = Head(paths)
    BY <2>3, <2>5, <2>6 DEF PieceAt
  <2>7. CASE opened[k] \in ToSet(paths')
    BY <2>5, <2>7
  <2>8. CASE WouldShow(disk[opened[k]], j) => before[n].id \in Ids(shown)
    BY <2>3, <2>5, <2>8
  <2> QED
    BY <2>2, <2>5, <2>6, <2>7, <2>8
<1>5. CASE CannotRead
  BY <1>5 DEF CannotRead, BeforeFound
<1>6. CASE UNCHANGED <<runs, listed_in, whole, warned, before, disk, opened, paths, shown>>
  <2>1. Ids(shown') = Ids(shown) /\ \A k, j : PieceAt(k, j)' = PieceAt(k, j)
    BY <1>6 DEF PieceAt
  <2> QED
    BY <1>6, <2>1 DEF BeforeFound
<1>7. CASE ~whole'
  BY <1>7 DEF BeforeFound
<1> QED
  BY <1>1, <1>2, <1>3, <1>4, <1>5, <1>6, <1>7 DEF DecoderNext, Writer, Decode, CannotList, Report, vars, dvars

LEMMA FirstRunKept ==
  ASSUME TypeOK, OpenedInv, OpenIsLast, FirstRun, [DecoderNext]_<<vars, dvars, started>>
  PROVE  FirstRun'
<1>0. runs \in Nat /\ runs >= 1
  BY FileStorageAssumption DEF TypeOK
<1>1. CASE \E r \in Record : Write(r) /\ UNCHANGED <<dvars, started>>
  <2>1. PICK r \in Record : Write(r) /\ UNCHANGED <<dvars, started>>
    BY <1>1
  <2>2. runs' = runs /\ started' = started
    BY <2>1, WriteNumbers
  <2>3. /\ current_file # NoFile => current_file' # NoFile /\ current_file <= current_file'
        /\ current_file' # current_file => current_file' \in Indices
        /\ \A i \in Indices : disk'[i] = disk[i] \/ i = current_file'
    BY <2>1, WroteSomewhere
  <2> SUFFICES ASSUME runs = 1, NEW i \in Indices, disk'[i] # NoFile
               PROVE  current_file' # NoFile /\ i <= current_file'
    BY <2>2 DEF FirstRun
  <2>4. i \in Nat /\ i # NoFile /\ \A n \in Indices : n \in Nat
    BY FileStorageAssumption
  <2>5. CASE i = current_file'
    BY <2>4, <2>5
  <2>6. CASE disk'[i] = disk[i]
    <3>1. current_file # NoFile /\ i <= current_file
      BY <2>6 DEF FirstRun
    <3>2. current_file \in Nat /\ current_file' \in Nat
      BY <2>3, <2>4, <3>1 DEF TypeOK
    <3> QED
      BY <2>3, <2>4, <3>1, <3>2
  <2> QED
    BY <2>3, <2>5, <2>6
<1>2. CASE Restart
  <2>1. runs' # 1
    BY <1>0, <1>2 DEF Restart
  <2> QED
    BY <2>1 DEF FirstRun
<1>3. CASE UNCHANGED <<vars, started>>
  BY <1>3 DEF FirstRun, vars
<1> QED
  BY <1>1, <1>2, <1>3
     DEF DecoderNext, Writer, Decode, CannotList, List, ReadFile, CannotRead, NextPath, Report

\* In the first run all segments there are have numbers up to segment_index.
LEMMA FirstRunFiles ==
  ASSUME TypeOK, OpenedInv, OpenIsLast, FirstRun, runs = 1, NEW i \in Indices, disk[i] # NoFile
  PROVE  /\ i \in Nat /\ current_file \in Nat /\ segment_index \in Nat
         /\ i <= current_file /\ current_file <= segment_index /\ current_file # NoFile
<1>1. current_file # NoFile /\ i <= current_file
  BY DEF FirstRun
<1>2. i \in Nat /\ current_file \in Nat /\ segment_index \in Nat
  BY <1>1, FileStorageAssumption DEF TypeOK
<1>3. Len(opened) \in Nat /\ Len(opened) > 0 /\ current_file = opened[Len(opened)]
  BY <1>1, LenProperties DEF TypeOK, OpenIsLast
<1>4. Len(opened) \in 1 .. Len(opened)
  BY <1>3
<1>5. current_file <= segment_index
  BY <1>3, <1>4 DEF OpenedInv
<1> QED
  BY <1>1, <1>2, <1>5

LEMMA FirstRunViewAfterWrite ==
  ASSUME TypeOK, OpenedInv, OpenIsLast, DecoderTypeOK, PlacesInv, FirstRun, FirstRunView,
         NEW r \in Record, Write(r), UNCHANGED dvars
  PROVE  FirstRunView'
<1>1. UNCHANGED <<runs, whole, warned, given, paths, shown, origin>>
  BY WriteNumbers DEF dvars
<1>2. writes \in Nat
  BY WriteNumbers
<1>3. ASSUME runs = 1, NEW i \in Indices, disk[i] # NoFile
      PROVE  /\ disk'[i] # NoFile
             /\ \A j \in 1 .. Len(disk[i]) :
                  /\ j \in 1 .. Len(disk'[i]) /\ disk'[i][j] = disk[i][j]
                  /\ WouldShow(disk'[i], j) => WouldShow(disk[i], j)
             /\ \A j \in 1 .. Len(disk'[i]) : j \in 1 .. Len(disk[i]) \/ disk'[i][j].id = writes + 1
  <2>1. /\ i \in Nat /\ current_file \in Nat /\ segment_index \in Nat
        /\ i <= current_file /\ current_file <= segment_index
    BY <1>3, FirstRunFiles
  <2>2. i <= segment_index
    BY <2>1
  <2> QED
    BY <1>3, <2>2, WriteKeepsPieces
<1>4. \A k \in 1 .. Len(given) : given[k] \in Indices
  BY ElementOfSeq DEF DecoderTypeOK
<1>5. ToSet(given) \subseteq Indices
  <2>1. DOMAIN given = 1 .. Len(given)
    BY LenProperties DEF DecoderTypeOK
  <2> QED
    BY <1>4, <2>1 DEF ToSet
<1>6. runs = 1 /\ whole => \A x \in ToSet(given) : disk'[x] # NoFile
  BY <1>3, <1>5 DEF FirstRunView
<1>7. ASSUME runs = 1, whole, ~warned, NEW i \in Indices, NEW x \in ToSet(given),
             disk'[i] # NoFile, i < x, NEW j \in 1 .. Len(disk'[i])
      PROVE  i \in ToSet(paths) \/ (WouldShow(disk'[i], j) => disk'[i][j].id \in Ids(shown))
  <2>1. x \in Indices /\ disk[x] # NoFile
    BY <1>5, <1>7 DEF FirstRunView
  <2>2. x \in Nat /\ current_file \in Nat /\ x <= current_file /\ current_file # NoFile
    BY <1>7, <2>1, FirstRunFiles
  <2>3. /\ current_file' # NoFile /\ current_file <= current_file'
        /\ current_file' # current_file => current_file' \in Indices
        /\ disk'[i] = disk[i] \/ i = current_file'
    BY <2>2, WroteSomewhere
  <2>4. i \in Nat /\ current_file' \in Nat
    BY <2>2, <2>3, FileStorageAssumption
  <2>5. i # current_file'
    BY <1>7, <2>2, <2>3, <2>4
  <2>6. disk'[i] = disk[i]
    BY <2>3, <2>5
  <2> QED
    BY <1>7, <2>6 DEF FirstRunView
<1>8. ASSUME runs = 1, NEW k \in 1 .. Len(shown)
      PROVE  /\ disk'[origin[k]] # NoFile
             /\ \A j \in 1 .. Len(disk'[origin[k]]) :
                  disk'[origin[k]][j].id < shown[k].id /\ WouldShow(disk'[origin[k]], j) =>
                    disk'[origin[k]][j].id \in Ids(shown)
  <2> DEFINE i == origin[k]
  <2>1. i \in Indices
    BY ElementOfSeq DEF DecoderTypeOK
  <2>2. /\ disk[i] # NoFile
        /\ \A j \in 1 .. Len(disk[i]) :
             disk[i][j].id < shown[k].id /\ WouldShow(disk[i], j) => disk[i][j].id \in Ids(shown)
    BY <1>8 DEF FirstRunView
  <2>3. shown[k].id \in Nat
    <3>1. shown[k] \in Record
      BY ElementOfSeq DEF DecoderTypeOK
    <3> QED
      BY <3>1, FileStorageAssumption DEF Record
  <2>4. Placed(i, shown[k].id)
    BY DEF Placed
  <2> HIDE DEF i
  <2>5. shown[k].id \in 1 .. writes
    BY <2>1, <2>3, <2>4 DEF PlacesInv
  <2>6. ~(writes + 1 < shown[k].id)
    BY <1>2, <2>5
  <2>7. /\ disk'[i] # NoFile
        /\ \A j \in 1 .. Len(disk[i]) :
             /\ j \in 1 .. Len(disk'[i]) /\ disk'[i][j] = disk[i][j]
             /\ WouldShow(disk'[i], j) => WouldShow(disk[i], j)
        /\ \A j \in 1 .. Len(disk'[i]) : j \in 1 .. Len(disk[i]) \/ disk'[i][j].id = writes + 1
    BY <1>3, <1>8, <2>1, <2>2
  <2>8. \A j \in 1 .. Len(disk'[i]) :
          disk'[i][j].id < shown[k].id /\ WouldShow(disk'[i], j) => disk'[i][j].id \in Ids(shown)
    BY <2>2, <2>6, <2>7
  <2> QED
    BY <2>7, <2>8 DEF i
<1> QED
  BY <1>1, <1>6, <1>7, <1>8 DEF FirstRunView

LEMMA FirstRunViewAfterRead ==
  ASSUME TypeOK, DecoderTypeOK, FirstRunView, ReadFile
  PROVE  FirstRunView'
<1> DEFINE h == Head(paths)
           P == Printed(Results(disk[h]))
<1>1. UNCHANGED <<disk, runs, whole, warned, given>>
  BY DEF ReadFile, NextPath, vars
<1>2. /\ h \in Indices /\ disk[h] # NoFile
      /\ \A k \in 1 .. Len(shown) : shown'[k] = shown[k] /\ origin'[k] = origin[k]
      /\ \A k \in 1 .. Len(P) : shown'[Len(shown) + k] = P[k] /\ origin'[Len(shown) + k] = h
      /\ \A k \in 1 .. Len(shown') :
           \/ k \in 1 .. Len(shown)
           \/ k - Len(shown) \in 1 .. Len(P) /\ k = Len(shown) + (k - Len(shown))
  BY ReadFileIs
<1> HIDE DEF P
<1>3. /\ \A j \in 1 .. Len(disk[h]) : WouldShow(disk[h], j) => disk[h][j].id \in Ids(shown')
      /\ Ids(shown) \subseteq Ids(shown')
  BY ReadFileShows
<1>4. \A x \in ToSet(paths) : x = h \/ x \in ToSet(paths')
  BY OtherPaths DEF ReadFile
<1> HIDE DEF h
<1>5. runs = 1 /\ whole => \A x \in ToSet(given) : disk[x] # NoFile
  BY DEF FirstRunView
<1>6. ASSUME runs = 1, whole, ~warned, NEW i \in Indices, NEW x \in ToSet(given),
             disk[i] # NoFile, i < x, NEW j \in 1 .. Len(disk[i])
      PROVE  i \in ToSet(paths') \/ (WouldShow(disk[i], j) => disk[i][j].id \in Ids(shown'))
  <2>1. i \in ToSet(paths) \/ (WouldShow(disk[i], j) => disk[i][j].id \in Ids(shown))
    BY <1>6 DEF FirstRunView
  <2> QED
    BY <1>3, <1>4, <2>1
<1>7. ASSUME runs = 1, NEW k \in 1 .. Len(shown')
      PROVE  /\ disk[origin'[k]] # NoFile
             /\ \A j \in 1 .. Len(disk[origin'[k]]) :
                  disk[origin'[k]][j].id < shown'[k].id /\ WouldShow(disk[origin'[k]], j) =>
                    disk[origin'[k]][j].id \in Ids(shown')
  <2>1. CASE k \in 1 .. Len(shown)
    BY <1>2, <1>3, <1>7, <2>1 DEF FirstRunView
  <2>2. CASE origin'[k] = h
    BY <1>2, <1>3, <2>2
  <2>3. k \in 1 .. Len(shown) \/ origin'[k] = h
    BY <1>2
  <2> QED
    BY <2>1, <2>2, <2>3
<1> QED
  BY <1>1, <1>5, <1>6, <1>7 DEF FirstRunView

LEMMA FirstRunViewKept ==
  ASSUME NamesInOrder, TypeOK, OpenedInv, OpenIsLast, DecoderTypeOK, PlacesInv, FirstRun,
         FirstRunView, [DecoderNext]_<<vars, dvars, started>>
  PROVE  FirstRunView'
<1>1. CASE \E r \in Record : Write(r) /\ UNCHANGED dvars
  BY <1>1, FirstRunViewAfterWrite
<1>2. CASE Restart
  <2>1. runs' # 1
    BY <1>2, FileStorageAssumption DEF Restart, TypeOK
  <2> QED
    BY <2>1 DEF FirstRunView
<1>3. CASE \E args \in Args : List(args)
  <2>1. PICK args \in Args : List(args)
    BY <1>3
  <2>2. ToSet(paths') = ToSet(given') /\ (whole' => ToSet(given') = SegmentFiles)
    BY <2>1, ListedIs
  <2>3. disk' = disk /\ Len(shown') = 0
    BY <2>1 DEF List, vars, DecoderTypeOK
  <2>4. 1 .. Len(shown') = {}
    BY <2>3
  <2>5. \A i \in Indices : disk[i] # NoFile <=> i \in SegmentFiles
    BY DEF SegmentFiles
  <2>6. \A i \in SegmentFiles : disk[i] # NoFile
    BY DEF SegmentFiles
  <2> QED
    BY <2>2, <2>3, <2>4, <2>5, <2>6 DEF FirstRunView
<1>4. CASE ReadFile
  BY <1>4, FirstRunViewAfterRead
<1>5. CASE CannotRead
  <2>1. warned' /\ UNCHANGED <<disk, runs, whole, given, shown, origin>>
    BY <1>5 DEF CannotRead, NextPath, vars
  <2> QED
    BY <2>1 DEF FirstRunView
<1>6. CASE UNCHANGED <<disk, runs, whole, warned, given, paths, shown, origin>>
  BY <1>6 DEF FirstRunView
<1>7. CASE ~whole' /\ UNCHANGED <<disk, runs, shown, origin>>
  BY <1>7 DEF FirstRunView
<1> QED
  BY <1>1, <1>2, <1>3, <1>4, <1>5, <1>6, <1>7 DEF DecoderNext, Writer, Decode, CannotList, Report, vars, dvars

\* The record with a number stands at one place.
LEMMA OnePlace ==
  ASSUME TypeOK, PlacesInv, NEW i \in Indices, NEW m \in Indices,
         disk[i] # NoFile, disk[m] # NoFile,
         NEW j \in 1 .. Len(disk[i]), NEW n \in 1 .. Len(disk[m]),
         disk[i][j].id = disk[m][n].id
  PROVE  i = m /\ j = n
<1> DEFINE x == disk[i][j].id
<1>1. x \in Nat /\ Placed(i, x) /\ Placed(m, x)
  BY PieceIds DEF Placed
<1> HIDE DEF x
<1>2. ~(x < x)
  BY <1>1
<1>3. i \in Nat /\ m \in Nat
  BY FileStorageAssumption
<1>4. ~(i < m) /\ ~(m < i)
  BY <1>1, <1>2 DEF PlacesInv
<1>5. i = m
  BY <1>3, <1>4
<1>6. j \in 1 .. Len(disk[i]) /\ n \in 1 .. Len(disk[i]) /\ ~(x < x) /\ disk[i][j].id = x /\ disk[i][n].id = x
  BY <1>2, <1>5 DEF x
<1>7. ~(j < n) /\ ~(n < j)
  BY <1>6 DEF PlacesInv
<1>8. j \in Nat /\ n \in Nat
  OBVIOUS
<1> QED
  BY <1>5, <1>7, <1>8

\* A wanted record stands at a place where it is readable.
LEMMA WantedStands ==
  ASSUME NEW ids, NEW x \in Wanted(ids)
  PROVE  /\ x \in ids
         /\ \E i \in Indices : disk[i] # NoFile /\
              \E j \in 1 .. Len(disk[i]) : disk[i][j].id = x /\ WouldShow(disk[i], j)
<1>1. /\ x \in ids /\ PassesFilter([id |-> x])
      /\ \E i \in {i \in Indices : disk[i] # NoFile} : \E j \in Read(i) : disk[i][j].id = x
  BY DEF Wanted
<1>2. PICK i \in Indices : disk[i] # NoFile /\ \E j \in Read(i) : disk[i][j].id = x
  BY <1>1
<1>3. PICK j \in Read(i) : disk[i][j].id = x
  BY <1>2
<1>4. j \in 1 .. Len(disk[i]) /\ Readable(disk[i], j)
  BY DEF Read
<1>5. PassesFilter(RecordIn(disk[i][j]))
  <2>1. RecordIn(disk[i][j]).id = x /\ [id |-> x].id = x
    BY <1>3 DEF RecordIn
  <2> QED
    BY <1>1, <2>1 DEF PassesFilter
<1> QED
  BY <1>1, <1>2, <1>3, <1>4, <1>5 DEF WouldShow

LEMMA BeforeGives ==
  ASSUME TypeOK, OpenedInv, DecoderTypeOK, PlacesInv, BeforeFound
  PROVE  ShowsAllBefore
<1> SUFFICES ASSUME WholeLogRead, NEW x \in Wanted(Ids(before))
             PROVE  x \in Ids(shown)
  BY DEF ShowsAllBefore
<1>1. PICK n \in 1 .. Len(before) : x = before[n].id
  BY WantedStands DEF Ids
<1>2. PICK i \in Indices : disk[i] # NoFile /\
              \E j \in 1 .. Len(disk[i]) : disk[i][j].id = x /\ WouldShow(disk[i], j)
  BY WantedStands
<1>3. PICK j \in 1 .. Len(disk[i]) : disk[i][j].id = x /\ WouldShow(disk[i], j)
  BY <1>2
<1>4. PICK k \in 1 .. Len(opened) : \E l \in 1 .. Len(disk[opened[k]]) :
        /\ PieceAt(k, l).id = before[n].id
        /\ \/ opened[k] \in ToSet(paths)
           \/ WouldShow(disk[opened[k]], l) => before[n].id \in Ids(shown)
  BY DEF WholeLogRead, BeforeFound
<1>5. PICK l \in 1 .. Len(disk[opened[k]]) :
        /\ PieceAt(k, l).id = before[n].id
        /\ \/ opened[k] \in ToSet(paths)
           \/ WouldShow(disk[opened[k]], l) => before[n].id \in Ids(shown)
  BY <1>4
<1>6. ToSet(paths) = {}
  <2>1. DOMAIN paths = 1 .. Len(paths) /\ Len(paths) = 0
    BY LenProperties DEF WholeLogRead, DecoderTypeOK
  <2> QED
    BY <2>1 DEF ToSet
<1>7. opened[k] \in Indices /\ disk[opened[k]] # NoFile
  <2>1. opened[k] \in Indices /\ IsFile(disk[opened[k]])
    BY Types DEF OpenedInv
  <2> QED
    BY <2>1, FileIsNotNone
<1>8. disk[opened[k]][l].id = disk[i][j].id
  BY <1>1, <1>3, <1>5 DEF PieceAt
<1>9. opened[k] = i /\ l = j
  BY <1>2, <1>7, <1>8, OnePlace
<1> QED
  BY <1>1, <1>3, <1>5, <1>6, <1>9

LEMMA HolesGives ==
  ASSUME TypeOK, OpenedInv, DecoderTypeOK, PlacesInv, ListedInv, FirstRun, FirstRunView
  PROVE  NoHoles
<1> SUFFICES ASSUME WholeLogRead, runs = 1, NEW k \in 1 .. Len(shown),
                    NEW x \in Wanted({id \in Ids(acked) : id < shown[k].id})
             PROVE  x \in Ids(shown)
  BY DEF NoHoles
<1>1. x < shown[k].id
  BY WantedStands
<1>2. PICK i \in Indices : disk[i] # NoFile /\
              \E j \in 1 .. Len(disk[i]) : disk[i][j].id = x /\ WouldShow(disk[i], j)
  BY WantedStands
<1>3. PICK j \in 1 .. Len(disk[i]) : disk[i][j].id = x /\ WouldShow(disk[i], j)
  BY <1>2
<1> DEFINE f == origin[k]
           y == shown[k].id
<1>4. f \in Indices /\ y \in Nat /\ x \in Nat
  <2>1. f \in Indices /\ shown[k] \in Record
    BY ElementOfSeq DEF DecoderTypeOK
  <2> QED
    BY <1>2, <1>3, <2>1, PieceIds, FileStorageAssumption DEF Record
<1>5. Placed(f, y) /\ Placed(i, x)
  BY <1>2, <1>3 DEF Placed
<1>6. f \in ToSet(given)
  BY DEF ListedInv
<1>7. /\ whole /\ ~warned /\ ToSet(paths) = {}
  <2>1. DOMAIN paths = 1 .. Len(paths) /\ Len(paths) = 0
    BY LenProperties DEF WholeLogRead, DecoderTypeOK
  <2> QED
    BY <2>1 DEF ToSet, WholeLogRead
<1>8. CASE i = f
  BY <1>1, <1>3, <1>8 DEF FirstRunView
<1> HIDE DEF f, y
<1>9. CASE i < f
  BY <1>2, <1>3, <1>6, <1>7, <1>9 DEF FirstRunView
<1>10. CASE f < i
  <2>1. Len(started) = 0
    BY DEF FirstRun
  <2>2. RunIn(started, y) = RunIn(started, x)
    <3>1. \A n : {m \in 1 .. Len(started) : started[m] < n} = {}
      BY <2>1
    <3> QED
      BY <3>1 DEF RunIn
  <2>3. y < x
    BY <1>4, <1>5, <1>10, <2>2 DEF PlacesInv
  <2> QED
    BY <1>1, <1>4, <2>3 DEF y
<1>11. i \in Nat /\ f \in Nat
  BY <1>4, FileStorageAssumption
<1> QED
  BY <1>8, <1>9, <1>10, <1>11

LEMMA ViewStarts ==
  ASSUME DecoderInit
  PROVE  ListedInv /\ BeforeFound /\ FirstRun /\ FirstRunView
<1>1. /\ Len(shown) = 0 /\ Len(paths) = 0 /\ Len(started) = 0 /\ before \in Seq(Record)
      /\ paths = given /\ listed_in = 0 /\ runs = 1 /\ whole = FALSE
      /\ \A i \in Indices : disk[i] = NoFile
  BY EmptySeq DEF DecoderInit, Init
<1>2. 1 .. Len(shown) = {}
  BY <1>1
<1> QED
  BY <1>1, <1>2 DEF ListedInv, BeforeFound, FirstRun, FirstRunView

\* What the decoder has shown and has still to read of the log.
THEOREM DecoderTracksLog ==
  ASSUME NamesInOrder
  PROVE  DecoderSpec => [](ListedInv /\ BeforeFound /\ FirstRun /\ FirstRunView)
<1> DEFINE Known == TypeOK /\ OpenedInv /\ OpenIsLast /\ AckedThere /\ DecoderTypeOK /\ PlacesInv
           View  == ListedInv /\ BeforeFound /\ FirstRun /\ FirstRunView
<1>1. DecoderInit => View
  BY ViewStarts
<1>2. Known /\ View /\ [DecoderNext]_<<vars, dvars, started>> => View'
  <2> SUFFICES ASSUME Known, View, [DecoderNext]_<<vars, dvars, started>>
               PROVE  View'
    OBVIOUS
  <2>1. ListedInv'
    BY ListedKept
  <2>2. BeforeFound'
    BY BeforeFoundKept
  <2>3. FirstRun'
    BY FirstRunKept
  <2>4. FirstRunView'
    BY FirstRunViewKept
  <2> QED
    BY <2>1, <2>2, <2>3, <2>4
<1>3. DecoderSpec => []Known
  BY StorageTypes, OpenIsLastAlways, AcknowledgedIsThere, DecoderUsesStorage, DecoderTypes,
     DecoderKeepsOrder, PTL
<1> QED
  BY <1>1, <1>2, <1>3, PTL DEF DecoderSpec

\* ViewComplete, for every command line and filter, whatever the writer does
\* meanwhile: what was acknowledged when the directory was listed is shown,
\* and of what came later in a first run, a part without holes.
THEOREM DecoderViewComplete ==
  ASSUME NamesInOrder
  PROVE  DecoderSpec => []ViewComplete
<1>1. TypeOK /\ OpenedInv /\ DecoderTypeOK /\ PlacesInv /\ ListedInv /\ BeforeFound /\ FirstRun
        /\ FirstRunView => ViewComplete
  BY BeforeGives, HolesGives DEF ViewComplete
<1> QED
  BY <1>1, StorageTypes, DecoderUsesStorage, DecoderTypes, DecoderKeepsOrder, DecoderTracksLog, PTL

=============================================================================
