---------------------------- MODULE FieldProofs ----------------------------
(***************************************************************************)
(* The limbs of fe.c stand for the right number and are packed into its    *)
(* one encoding, for limbs of any size; and those of the code fit in its   *)
(* words, within the bounds its comments state.                            *)
(***************************************************************************)
EXTENDS FieldCalls, WellFoundedInduction, TLAPS

-----------------------------------------------------------------------------
(* Induction over the numbers, with a set in place of a predicate.            *)

LEMMA LeastNumber ==
    ASSUME NEW T \in SUBSET Nat, T # {}
    PROVE  \E x0 \in T : \A y0 \in T : x0 <= y0
<1>1. PICK x0 \in T : \A y0 \in T : ~(<<y0, x0>> \in OpToRel(<, Nat))
  BY NatLessThanWellFounded, WFMin
<1>2. \A y0 \in T : y0 \in Nat /\ x0 \in Nat /\ ~(y0 < x0)
  BY <1>1 DEF OpToRel
<1>3. \A y0 \in T : x0 <= y0
  BY <1>2
<1> QED
  BY <1>3

LEMMA Induction ==
    ASSUME NEW n \in Nat, NEW S, 0 \in S, \A i \in 0 .. n - 1 : i \in S => i + 1 \in S
    PROVE  0 .. n \subseteq S
<1> DEFINE T == {i \in 0 .. n : i \notin S}
<1>1. SUFFICES ASSUME T # {} PROVE FALSE
  OBVIOUS
<1>2. T \in SUBSET Nat
  OBVIOUS
<1>3. \E a \in T : \A b \in T : a <= b
  <2> HIDE DEF T
  <2> QED
    BY <1>1, <1>2, LeastNumber
<1>4. PICK a \in T : \A b \in T : a <= b
  BY <1>3
<1>5. a \in 1 .. n
  BY <1>4
<1>6. a - 1 \in 0 .. n - 1 /\ a - 1 \notin T
  BY <1>4, <1>5
<1>7. a - 1 \in S
  BY <1>5, <1>6
<1>8. (a - 1) + 1 \in S
  BY <1>6, <1>7
<1> QED
  BY <1>4, <1>5, <1>8

\* A recursion over 0 .. n has a solution: step leads from one value to the next.
Solves(f, n, D, start, step) ==
    /\ f \in [0 .. n -> D] /\ f[0] = start
    /\ \A i \in 0 .. n - 1 : f[i + 1] = step[<<i, f[i]>>]

LEMMA Iterates ==
    ASSUME NEW n \in Nat, NEW D, NEW start \in D, NEW step \in [(0 .. n - 1) \X D -> D]
    PROVE  \E f : Solves(f, n, D, start, step)
<1> DEFINE S == {m \in 0 .. n : \E f : Solves(f, m, D, start, step)}
<1>1. 0 \in S
  <2>1. Solves([i \in 0 .. 0 |-> start], 0, D, start, step)
    BY DEF Solves
  <2> QED
    BY <2>1
<1>2. ASSUME NEW m \in 0 .. n - 1, m \in S PROVE m + 1 \in S
  <2>1. PICK f : Solves(f, m, D, start, step)
    BY <1>2
  <2> DEFINE next == step[<<m, f[m]>>]
             g == [i \in 0 .. m + 1 |-> IF i = m + 1 THEN next ELSE f[i]]
  <2>2. m \in Nat /\ m + 1 \in 0 .. n /\ f[m] \in D /\ \A i \in 0 .. m : f[i] \in D
    BY <2>1 DEF Solves
  <2>3. next \in D
    BY <2>2
  <2> HIDE DEF next
  <2>4. g \in [0 .. m + 1 -> D]
    BY <2>2, <2>3
  <2>5. g[0] = start
    BY <2>1, <2>2 DEF Solves
  <2>6. ASSUME NEW i \in 0 .. (m + 1) - 1 PROVE g[i + 1] = step[<<i, g[i]>>]
    <3>1. CASE i = m
      <4>1. g[i + 1] = next /\ g[i] = f[m]
        BY <2>2, <3>1
      <4> QED
        BY <3>1, <4>1 DEF next
    <3>2. CASE i # m
      <4>1. i \in 0 .. m - 1 /\ i + 1 # m + 1 /\ i + 1 \in 0 .. m + 1 /\ i \in 0 .. m + 1 /\ i # m + 1
        BY <2>2, <3>2
      <4>2. g[i + 1] = f[i + 1] /\ g[i] = f[i]
        BY <4>1
      <4>3. f[i + 1] = step[<<i, f[i]>>]
        BY <2>1, <4>1 DEF Solves
      <4> QED
        BY <4>2, <4>3
    <3> QED
      BY <3>1, <3>2
  <2>7. Solves(g, m + 1, D, start, step)
    <3> HIDE DEF g
    <3> QED
      BY <2>4, <2>5, <2>6 DEF Solves
  <2> QED
    BY <2>2, <2>7
<1>3. 0 .. n \subseteq S
  <2> HIDE DEF S
  <2> QED
    BY <1>1, <1>2, Induction
<1>4. n \in S
  BY <1>3
<1> QED
  BY <1>4

-----------------------------------------------------------------------------
(* Division and congruence modulo P *)

\* q and r are the quotient and the remainder of a by b.
Divided(a, b, q, r) == q \in Int /\ r \in 0 .. b - 1 /\ a = b * q + r

LEMMA QuotientIs ==
    ASSUME NEW a \in Int, NEW b \in Nat \ {0}, NEW q, NEW r, Divided(a, b, q, r)
    PROVE  a \div b = q /\ a % b = r
BY DEF Divided

LEMMA DividesNat ==
    ASSUME NEW a \in Nat, NEW b \in Nat \ {0}
    PROVE  \E q, r : Divided(a, b, q, r)
<1> DEFINE S == {n \in 0 .. a : \E q, r : Divided(n, b, q, r)}
<1>1. 0 \in S
  <2>1. Divided(0, b, 0, 0)
    BY DEF Divided
  <2> QED
    BY <2>1
<1>2. ASSUME NEW n \in 0 .. a - 1, n \in S PROVE n + 1 \in S
  <2>1. PICK q, r : Divided(n, b, q, r)
    BY <1>2
  <2>2. q \in Int /\ r \in 0 .. b - 1 /\ n = b * q + r
    BY <2>1 DEF Divided
  <2>3. CASE r < b - 1
    <3>1. Divided(n + 1, b, q, r + 1)
      BY <2>2, <2>3 DEF Divided
    <3> QED
      BY <3>1
  <2>4. CASE r = b - 1
    <3>1. b * (q + 1) = b * q + b /\ b * q \in Int
      BY <2>2
    <3>2. Divided(n + 1, b, q + 1, 0)
      BY <2>2, <2>4, <3>1 DEF Divided
    <3> QED
      BY <3>2
  <2> QED
    BY <2>2, <2>3, <2>4
<1>3. 0 .. a \subseteq S
  <2> HIDE DEF S
  <2> QED
    BY <1>1, <1>2, Induction
<1> QED
  BY <1>3

LEMMA Divides ==
    ASSUME NEW a \in Int, NEW b \in Nat \ {0}
    PROVE  \E q, r : Divided(a, b, q, r)
<1>1. CASE a \in Nat
  BY <1>1, DividesNat
<1>2. CASE -a \in Nat
  <2>1. PICK q, r : Divided(-a, b, q, r)
    BY <1>2, DividesNat
  <2>2. q \in Int /\ r \in 0 .. b - 1 /\ -a = b * q + r
    BY <2>1 DEF Divided
  <2>3. b * q \in Int /\ b * (-q) = -(b * q) /\ b * (-q - 1) = -(b * q) - b
    BY <2>2
  <2>4. CASE r = 0
    <3>1. Divided(a, b, -q, 0)
      BY <2>2, <2>3, <2>4 DEF Divided
    <3> QED
      BY <3>1
  <2>5. CASE r # 0
    <3>1. Divided(a, b, -q - 1, b - r)
      BY <2>2, <2>3, <2>5 DEF Divided
    <3> QED
      BY <3>1
  <2> QED
    BY <2>4, <2>5
<1> QED
  BY <1>1, <1>2

LEMMA Quotients ==
    ASSUME NEW a \in Int, NEW b \in Nat \ {0}
    PROVE  Divided(a, b, a \div b, a % b)
<1>1. PICK q, r : Divided(a, b, q, r)
  BY Divides
<1>2. a \div b = q /\ a % b = r
  BY <1>1, QuotientIs
<1> QED
  BY <1>1, <1>2
-----------------------------------------------------------------------------
(* Weights *)

Positive == Nat \ {0}

LEMMA SizeTyped ==
    ASSUME Shaped
    PROVE  \A i \in Int : Size(i) \in Positive
BY DEF Shaped, Positive, Size

LEMMA WeightsOfSizes ==
    ASSUME \A i \in Int : Size(i) \in Positive
    PROVE  /\ Weight(0) = 1
           /\ \A i \in Limbs : Weight(i + 1) = Weight(i) * Size(i)
           /\ \A i \in 0 .. 10 : Weight(i) \in Positive
<1> DEFINE Loop(f) == [n \in 0 .. 10 |-> IF n = 0 THEN 1 ELSE f[n - 1] * Size(n - 1)]
           weight == CHOOSE f : f = Loop(f)
           step == [p \in (0 .. 10 - 1) \X Positive |-> p[2] * Size(p[1])]
<1>1. \A i \in 0 .. 10 : Weight(i) = weight[i]
  BY DEF Weight
<1> HIDE DEF weight
<1>2. step \in [(0 .. 10 - 1) \X Positive -> Positive]
  <2>1. ASSUME NEW a \in Positive, NEW b \in Positive PROVE a * b \in Positive
    BY <2>1 DEF Positive
  <2>2. \A p \in (0 .. 10 - 1) \X Positive : p[2] \in Positive /\ Size(p[1]) \in Positive
    OBVIOUS
  <2> QED
    BY <2>1, <2>2
<1>3. PICK f : Solves(f, 10, Positive, 1, step)
  BY <1>2, Iterates, 10 \in Nat, 1 \in Positive DEF Positive
<1>4. f = Loop(f)
  <2>1. ASSUME NEW n \in 0 .. 10, n # 0 PROVE f[n] = f[n - 1] * Size(n - 1)
    <3>1. n - 1 \in 0 .. 10 - 1 /\ (n - 1) + 1 = n /\ f[n - 1] \in Positive
      BY <1>3, <2>1 DEF Solves
    <3>2. f[(n - 1) + 1] = step[<<n - 1, f[n - 1]>>]
      BY <1>3, <3>1 DEF Solves
    <3> QED
      BY <3>1, <3>2
  <2>2. f[0] = 1 /\ f = [n \in 0 .. 10 |-> f[n]]
    BY <1>3 DEF Solves
  <2> QED
    BY <2>1, <2>2
<1>5. weight = Loop(weight)
  BY <1>4 DEF weight
<1>6. weight[0] = 1 /\ \A n \in 0 .. 9 : weight[n + 1] = weight[n] * Size(n)
  BY <1>5
<1>7. 0 .. 10 \subseteq {n \in 0 .. 10 : weight[n] \in Positive}
  <2> DEFINE S == {n \in 0 .. 10 : weight[n] \in Positive}
  <2>1. 0 \in S
    BY <1>6 DEF Positive
  <2>2. ASSUME NEW n \in 0 .. 10 - 1, n \in S PROVE n + 1 \in S
    <3>1. weight[n] \in Positive /\ Size(n) \in Positive /\ weight[n + 1] = weight[n] * Size(n)
      BY <1>6, <2>2
    <3> QED
      BY <3>1 DEF Positive
  <2> QED
    <3> HIDE DEF S
    <3>1. 0 .. 10 \subseteq S
      BY <2>1, <2>2, Induction
    <3> QED
      BY <3>1 DEF S
<1> QED
  BY <1>1, <1>6, <1>7 DEF Limbs

LEMMA WeightRuns ==
    ASSUME Shaped
    PROVE  /\ Weight(0) = 1
           /\ \A i \in Limbs : Weight(i + 1) = Weight(i) * Size(i)
           /\ \A i \in 0 .. 10 : Weight(i) \in Positive
BY SizeTyped, WeightsOfSizes

\* The weight of a product's column, before it wraps around; and the doubling
\* where two narrow limbs meet.
Column(n) == IF n <= 9 THEN Weight(n) ELSE Weight(n - 10) * Weight(10)

Doubling(i, j) == IF i % 2 = 1 /\ j % 2 = 1 THEN 2 ELSE 1

LEMMA TwoLimbsUp ==
    ASSUME Shaped
    PROVE  /\ \A i \in 0 .. 8 : Weight(i + 2) = Weight(i) * (Wide * Narrow)
           /\ Weight(1) = Wide
<1>1. ASSUME NEW i \in 0 .. 8 PROVE Weight(i + 2) = Weight(i) * (Wide * Narrow)
  <2>1. /\ Weight(i + 1) = Weight(i) * Size(i)
        /\ Weight((i + 1) + 1) = Weight(i + 1) * Size(i + 1)
    BY WeightRuns DEF Limbs
  <2>2. \/ Size(i) = Wide /\ Size(i + 1) = Narrow
        \/ Size(i) = Narrow /\ Size(i + 1) = Wide
    BY DEF Size
  <2>3. Weight(i) \in Int /\ Wide \in Int /\ Narrow \in Int
    BY WeightRuns DEF Shaped, Positive
  <2> DEFINE w == Weight(i)
  <2>4. /\ (w * Wide) * Narrow = w * (Wide * Narrow)
        /\ (w * Narrow) * Wide = w * (Wide * Narrow)
    BY <2>3
  <2>5. (i + 1) + 1 = i + 2
    OBVIOUS
  <2> HIDE DEF w
  <2> QED
    BY <2>1, <2>2, <2>4, <2>5 DEF w
<1>2. Weight(0 + 1) = Weight(0) * Size(0) /\ Weight(0) = 1 /\ Size(0) = Wide
  BY WeightRuns DEF Limbs, Size
<1>3. Weight(1) = Wide
  BY <1>2 DEF Shaped
<1> QED
  BY <1>1, <1>3

LEMMA ColumnTyped ==
    ASSUME Shaped
    PROVE  \A n \in 0 .. 18 : Column(n) \in Positive
<1>1. ASSUME NEW n \in 0 .. 18 PROVE Column(n) \in Positive
  <2>1. CASE n <= 9
    BY <2>1, WeightRuns DEF Column
  <2>2. CASE n > 9
    <3>1. Weight(n - 10) \in Positive /\ Weight(10) \in Positive
      BY <2>2, WeightRuns
    <3>2. Column(n) = Weight(n - 10) * Weight(10)
      BY <2>2 DEF Column
    <3> DEFINE u == Weight(n - 10)
               v == Weight(10)
    <3>3. u \in Positive /\ v \in Positive
      BY <3>1
    <3> HIDE DEF u, v
    <3>4. u * v \in Positive
      BY <3>3 DEF Positive
    <3> QED
      BY <3>2, <3>4 DEF u, v
  <2> QED
    BY <2>1, <2>2
<1> QED
  BY <1>1

LEMMA ColumnsUp ==
    ASSUME Shaped
    PROVE  \A n \in 0 .. 16 : Column(n + 2) = Column(n) * (Wide * Narrow)
<1> DEFINE A == Wide * Narrow
<1>1. ASSUME NEW n \in 0 .. 16 PROVE Column(n + 2) = Column(n) * A
  <2>1. CASE n \in 0 .. 7
    BY <2>1, TwoLimbsUp DEF Column
  <2>2. CASE n = 8
    <3>1. Column(8 + 2) = Weight(0) * Weight(10) /\ Column(8) = Weight(8)
      BY DEF Column
    <3>2. Weight(8 + 2) = Weight(8) * A
      BY TwoLimbsUp
    <3>3. Weight(0) = 1 /\ Weight(10) \in Int
      BY WeightRuns DEF Positive
    <3> HIDE DEF A
    <3> QED
      BY <2>2, <3>1, <3>2, <3>3
  <2>3. CASE n = 9
    <3>1. Column(9 + 2) = Weight(1) * Weight(10) /\ Column(9) = Weight(9)
      BY DEF Column
    <3>2. Weight(1) = Wide
      BY TwoLimbsUp
    <3>3. Weight(9 + 1) = Weight(9) * Narrow
      BY WeightRuns DEF Limbs, Size
    <3>4. Weight(9) \in Int /\ Wide \in Int /\ Narrow \in Int
      BY WeightRuns DEF Shaped, Positive
    <3> DEFINE w == Weight(9)
    <3>5. Wide * (w * Narrow) = w * A
      BY <3>4
    <3>6. Weight(9 + 1) = Weight(10)
      OBVIOUS
    <3> HIDE DEF A, w
    <3> QED
      BY <2>3, <3>1, <3>2, <3>3, <3>5, <3>6 DEF w
  <2>4. CASE n \in 10 .. 16
    <3>1. /\ Column(n) = Weight(n - 10) * Weight(10)
          /\ Column(n + 2) = Weight((n + 2) - 10) * Weight(10)
      BY <2>4 DEF Column
    <3>2. Weight((n - 10) + 2) = Weight(n - 10) * A /\ (n - 10) + 2 = (n + 2) - 10
      BY <2>4, TwoLimbsUp
    <3>3. Weight(n - 10) \in Int /\ Weight(10) \in Int /\ Wide \in Int /\ Narrow \in Int
      BY <2>4, WeightRuns DEF Shaped, Positive
    <3> DEFINE u == Weight(n - 10)
               v == Weight(10)
    <3>4. A \in Int
      BY <3>3
    <3> HIDE DEF A, u, v
    <3>5. u \in Int /\ v \in Int
      BY <3>3 DEF u, v
    <3>6. (u * A) * v = (u * v) * A
      BY <3>4, <3>5
    <3> QED
      BY <3>1, <3>2, <3>6 DEF u, v
  <2> QED
    BY <2>1, <2>2, <2>3, <2>4
<1> QED
  BY <1>1

\* Limbs i and j of two factors meet in column i + j.
LEMMA LimbsMeet ==
    ASSUME Shaped
    PROVE  \A i, j \in Limbs : Weight(i) * Weight(j) = Doubling(i, j) * Column(i + j)
<1> DEFINE A == Wide * Narrow
           Meets(i) == \A j \in Limbs : Weight(i) * Weight(j) = Doubling(i, j) * Column(i + j)
           S == {i \in 0 .. 8 : Meets(i) /\ Meets(i + 1)}
<1>1. Meets(0)
  <2>1. ASSUME NEW j \in Limbs PROVE Weight(0) * Weight(j) = Doubling(0, j) * Column(0 + j)
    <3>1. Doubling(0, j) = 1 /\ Column(0 + j) = Weight(j)
      BY DEF Limbs, Doubling, Column
    <3>2. Weight(0) = 1 /\ Weight(j) \in Int
      BY WeightRuns DEF Limbs, Positive
    <3> QED
      BY <3>1, <3>2
  <2> QED
    BY <2>1
<1>2. Meets(1)
  <2>1. ASSUME NEW j \in Limbs PROVE Weight(1) * Weight(j) = Doubling(1, j) * Column(1 + j)
    <3>1. Weight(1) = Wide /\ Wide = 2 * Narrow
      BY TwoLimbsUp DEF Shaped
    <3>2. Weight(j + 1) = Weight(j) * Size(j) /\ Weight(j) \in Int /\ Narrow \in Int /\ Weight(0) = 1
          /\ Weight(j + 1) \in Int
      BY WeightRuns DEF Shaped, Positive, Limbs
    <3>3. Column(1 + j) = Weight(j + 1)
      <4>1. CASE j = 9
        <5>1. Column(1 + 9) = Weight(0) * Weight(10)
          BY DEF Column
        <5>2. Weight(9 + 1) = Weight(10)
          OBVIOUS
        <5> QED
          BY <3>2, <4>1, <5>1, <5>2
      <4>2. CASE j # 9
        BY <4>2 DEF Column, Limbs
      <4> QED
        BY <4>1, <4>2
    <3> DEFINE w == Weight(j)
               v == Weight(j + 1)
    <3>4. w \in Int /\ v \in Int
      BY <3>2
    <3>5. CASE j % 2 = 0
      <4>1. Size(j) = Wide /\ Doubling(1, j) = 1
        BY <3>5 DEF Size, Doubling, Limbs
      <4>2. v = w * Wide
        BY <3>2, <4>1
      <4> HIDE DEF w, v
      <4>3. Wide * w = 1 * v
        BY <3>1, <3>2, <3>4, <4>2
      <4> QED
        BY <3>1, <3>3, <4>1, <4>3 DEF w, v
    <3>6. CASE j % 2 = 1
      <4>1. Size(j) = Narrow /\ Doubling(1, j) = 2
        BY <3>6 DEF Size, Doubling, Limbs
      <4>2. v = w * Narrow
        BY <3>2, <4>1
      <4> HIDE DEF w, v
      <4>3. Wide * w = 2 * v
        BY <3>1, <3>2, <3>4, <4>2
      <4> QED
        BY <3>1, <3>3, <4>1, <4>3 DEF w, v
    <3> QED
      BY <3>5, <3>6 DEF Limbs
  <2> QED
    BY <2>1
<1>3. ASSUME NEW i \in 0 .. 7, Meets(i) PROVE Meets(i + 2)
  <2>1. ASSUME NEW j \in Limbs
        PROVE  Weight(i + 2) * Weight(j) = Doubling(i + 2, j) * Column((i + 2) + j)
    <3>1. Weight(i) * Weight(j) = Doubling(i, j) * Column(i + j)
      BY <1>3
    <3>2. Weight(i + 2) = Weight(i) * A
      BY TwoLimbsUp
    <3>3. Column((i + j) + 2) = Column(i + j) * A /\ (i + j) + 2 = (i + 2) + j
      BY ColumnsUp DEF Limbs
    <3>4. Doubling(i + 2, j) = Doubling(i, j)
      BY DEF Doubling
    <3>5. /\ Weight(i) \in Int /\ Weight(j) \in Int /\ Column(i + j) \in Int
          /\ Doubling(i, j) \in Int /\ A \in Int
      BY WeightRuns, ColumnTyped DEF Limbs, Positive, Doubling, Shaped
    <3> DEFINE wi == Weight(i)
               wj == Weight(j)
               c == Column(i + j)
               two == Doubling(i, j)
    <3>6. /\ wi \in Int /\ wj \in Int /\ c \in Int /\ two \in Int /\ A \in Int
          /\ wi * wj = two * c
      BY <3>1, <3>5
    <3> HIDE DEF wi, wj, c, two, A
    <3>7. (wi * A) * wj = (wi * wj) * A /\ two * (c * A) = (two * c) * A
      BY <3>6
    <3>8. (wi * A) * wj = two * (c * A)
      BY <3>6, <3>7
    <3> QED
      BY <3>2, <3>3, <3>4, <3>8 DEF wi, wj, c, two
  <2> QED
    BY <2>1
<1>4. 0 .. 8 \subseteq S
  <2>1. 0 \in S
    BY <1>1, <1>2
  <2>2. ASSUME NEW i \in 0 .. 8 - 1, i \in S PROVE i + 1 \in S
    <3>1. Meets(i) /\ Meets(i + 1)
      BY <2>2
    <3> HIDE DEF Meets
    <3>2. Meets(i + 2) /\ i + 2 = (i + 1) + 1
      BY <1>3, <3>1
    <3> QED
      BY <3>1, <3>2
  <2> HIDE DEF S
  <2> QED
    BY <2>1, <2>2, Induction
<1>5. ASSUME NEW i \in Limbs PROVE Meets(i)
  <2> HIDE DEF Meets
  <2>1. CASE i <= 8
    BY <1>4, <2>1 DEF Limbs
  <2>2. CASE i = 9
    <3>1. 8 \in S /\ 8 + 1 = 9
      BY <1>4
    <3> QED
      BY <2>2, <3>1
  <2> QED
    BY <2>1, <2>2 DEF Limbs
<1> QED
  BY <1>5

-----------------------------------------------------------------------------
(* Congruence modulo P *)

Same(a, b) == \E q \in Int : a = b + q * P

Residue == 0 .. P - 1

LEMMA Modulus ==
    ASSUME Shaped
    PROVE  P \in Positive /\ Weight(10) = P + C /\ C \in Nat /\ Weight(10) \in Positive
<1>1. Weight(10) \in Positive
  BY WeightRuns
<1> QED
  BY <1>1 DEF Shaped, P, Positive

LEMMA SameReflexive ==
    ASSUME Shaped, NEW a \in Int PROVE Same(a, a)
<1>1. P \in Int
  BY Modulus DEF Positive
<1>2. a = a + 0 * P
  BY <1>1
<1> QED
  BY <1>2 DEF Same

LEMMA SameSymmetric ==
    ASSUME Shaped, NEW a \in Int, NEW b \in Int, Same(a, b) PROVE Same(b, a)
<1>1. PICK q \in Int : a = b + q * P
  BY DEF Same
<1>2. P \in Int
  BY Modulus DEF Positive
<1>3. (-q) * P = -(q * P) /\ q * P \in Int
  BY <1>2
<1>4. b = a + (-q) * P /\ -q \in Int
  BY <1>1, <1>3
<1> QED
  BY <1>4 DEF Same

LEMMA SameAdds ==
    ASSUME Shaped, NEW a \in Int, NEW b \in Int, NEW c \in Int, NEW d \in Int,
           Same(a, b), Same(c, d)
    PROVE  Same(a + c, b + d) /\ Same(a - c, b - d)
<1>1. PICK q \in Int : a = b + q * P
  BY DEF Same
<1>2. PICK r \in Int : c = d + r * P
  BY DEF Same
<1>3. P \in Int
  BY Modulus DEF Positive
<1>4. (q + r) * P = q * P + r * P /\ (q - r) * P = q * P - r * P
  BY <1>3
<1>5. q * P \in Int /\ r * P \in Int
  BY <1>3
<1>6. a + c = (b + d) + (q + r) * P
  BY <1>1, <1>2, <1>4, <1>5
<1>7. a - c = (b - d) + (q - r) * P
  BY <1>1, <1>2, <1>4, <1>5
<1>8. q + r \in Int /\ q - r \in Int
  OBVIOUS
<1> QED
  BY <1>6, <1>7, <1>8 DEF Same

LEMMA SameTransitive ==
    ASSUME Shaped, NEW a \in Int, NEW b \in Int, NEW c \in Int, Same(a, b), Same(b, c)
    PROVE  Same(a, c)
<1>1. PICK q \in Int : a = b + q * P
  BY DEF Same
<1>2. PICK r \in Int : b = c + r * P
  BY DEF Same
<1>3. P \in Int
  BY Modulus DEF Positive
<1>4. (q + r) * P = q * P + r * P
  BY <1>3
<1>5. q * P \in Int /\ r * P \in Int /\ q + r \in Int
  BY <1>3
<1>6. a = c + (q + r) * P
  BY <1>1, <1>2, <1>4, <1>5
<1> QED
  BY <1>5, <1>6 DEF Same

LEMMA SameScales ==
    ASSUME Shaped, NEW a \in Int, NEW b \in Int, NEW c \in Int, Same(a, b)
    PROVE  Same(c * a, c * b)
<1>1. PICK q \in Int : a = b + q * P
  BY DEF Same
<1>2. P \in Int
  BY Modulus DEF Positive
<1> DEFINE m == P
<1>3. m \in Int /\ a = b + q * m
  BY <1>1, <1>2
<1> HIDE DEF m
<1>4. q * m \in Int /\ c * (b + q * m) = c * b + c * (q * m) /\ c * (q * m) = (c * q) * m
  BY <1>3
<1>5. c * a = c * b + (c * q) * m /\ c * q \in Int
  BY <1>3, <1>4
<1> QED
  BY <1>5 DEF Same, m

LEMMA SameMultiplies ==
    ASSUME Shaped, NEW a \in Int, NEW b \in Int, NEW c \in Int, NEW d \in Int,
           Same(a, b), Same(c, d)
    PROVE  Same(a * c, b * d)
<1>1. Same(c * a, c * b) /\ Same(b * c, b * d)
  BY SameScales
<1>2. c * a = a * c /\ c * b = b * c
  OBVIOUS
<1>3. a * c \in Int /\ b * c \in Int /\ b * d \in Int
  OBVIOUS
<1>4. Same(a * c, b * c)
  BY <1>1, <1>2
<1> DEFINE u == a * c
           v == b * c
           w == b * d
<1>5. u \in Int /\ v \in Int /\ w \in Int /\ Same(u, v) /\ Same(v, w)
  BY <1>1, <1>3, <1>4
<1> HIDE DEF u, v, w
<1>6. Same(u, w)
  BY <1>5, SameTransitive
<1> QED
  BY <1>6 DEF u, w

\* A multiple of P makes no difference.
LEMMA SameByMultiple ==
    ASSUME Shaped, NEW a \in Int, NEW q \in Int
    PROVE  Same(a + q * P, a) /\ Same(a - q * P, a)
<1>1. P \in Int
  BY Modulus DEF Positive
<1>2. a - q * P = a + (-q) * P /\ -q \in Int
  BY <1>1
<1> QED
  BY <1>2 DEF Same

LEMMA SameAsRemainder ==
    ASSUME Shaped, NEW a \in Int
    PROVE  a % P \in Residue /\ Same(a % P, a) /\ Same(a, a % P)
<1>1. P \in Positive
  BY Modulus
<1> DEFINE r == a % P
           q == a \div P
<1>2. Divided(a, P, q, r)
  BY <1>1, Quotients DEF Positive
<1> HIDE DEF r, q
<1>3. r \in Residue /\ q \in Int
  BY <1>2 DEF Divided, Residue
<1>4. r \in Int /\ P \in Int
  BY <1>1, <1>3 DEF Residue, Positive
<1>5. a = r + q * P
  BY <1>2, <1>3, <1>4 DEF Divided
<1>6. Same(a, r)
  BY <1>3, <1>5 DEF Same
<1>7. Same(r, a)
  BY <1>4, <1>6, SameSymmetric
<1> QED
  BY <1>3, <1>6, <1>7 DEF r

\* Congruent numbers have one remainder.
LEMMA RemainderOf ==
    ASSUME Shaped, NEW a \in Int, NEW r \in Residue, Same(a, r)
    PROVE  a % P = r
<1>1. P \in Positive
  BY Modulus
<1>2. PICK q \in Int : a = r + q * P
  BY DEF Same
<1>3. r \in Int /\ P \in Int
  BY <1>1 DEF Residue, Positive
<1>4. a = P * q + r
  BY <1>2, <1>3
<1>5. Divided(a, P, q, r)
  BY <1>2, <1>4 DEF Divided, Residue
<1> QED
  BY <1>1, <1>5, QuotientIs DEF Positive

LEMMA SameRemainder ==
    ASSUME Shaped, NEW a \in Int, NEW b \in Int, Same(a, b)
    PROVE  a % P = b % P
<1>1. b % P \in Residue /\ Same(b, b % P)
  BY SameAsRemainder
<1>2. b % P \in Int
  BY <1>1, Modulus DEF Residue, Positive
<1> DEFINE r == b % P
<1>3. r \in Residue /\ r \in Int /\ Same(b, r)
  BY <1>1, <1>2
<1> HIDE DEF r
<1>4. Same(a, r)
  BY <1>3, SameTransitive
<1>5. a % P = r
  BY <1>3, <1>4, RemainderOf
<1> QED
  BY <1>5 DEF r

-----------------------------------------------------------------------------
(* Sums of ten terms *)

Elements == [Limbs -> Int]

LEMMA SumTyped ==
    ASSUME NEW a \in Elements PROVE LimbSum(a) \in Int
BY DEF Elements, Limbs, LimbSum

LEMMA SumAdds ==
    ASSUME NEW a \in Elements, NEW b \in Elements
    PROVE  /\ LimbSum([i \in Limbs |-> a[i] + b[i]]) = LimbSum(a) + LimbSum(b)
           /\ LimbSum([i \in Limbs |-> a[i] - b[i]]) = LimbSum(a) - LimbSum(b)
BY DEF Elements, Limbs, LimbSum

LEMMA TenTerms ==
    ASSUME NEW a \in Elements
    PROVE  /\ a[0] \in Int /\ a[1] \in Int /\ a[2] \in Int /\ a[3] \in Int /\ a[4] \in Int
           /\ a[5] \in Int /\ a[6] \in Int /\ a[7] \in Int /\ a[8] \in Int /\ a[9] \in Int
BY DEF Elements, Limbs

LEMMA SumScales ==
    ASSUME NEW a \in Elements, NEW c \in Int
    PROVE  LimbSum([i \in Limbs |-> c * a[i]]) = c * LimbSum(a)
<1> DEFINE x0 == a[0]   x1 == a[1]   x2 == a[2]   x3 == a[3]   x4 == a[4]
           x5 == a[5]   x6 == a[6]   x7 == a[7]   x8 == a[8]   x9 == a[9]
<1>1. LimbSum([i \in Limbs |-> c * a[i]]) =
        c * x0 + c * x1 + c * x2 + c * x3 + c * x4 + c * x5 + c * x6 + c * x7 + c * x8 + c * x9
  BY DEF LimbSum, Limbs
<1>2. LimbSum(a) = x0 + x1 + x2 + x3 + x4 + x5 + x6 + x7 + x8 + x9
  BY DEF LimbSum
<1>3. /\ x0 \in Int /\ x1 \in Int /\ x2 \in Int /\ x3 \in Int /\ x4 \in Int
      /\ x5 \in Int /\ x6 \in Int /\ x7 \in Int /\ x8 \in Int /\ x9 \in Int
  BY TenTerms
<1> HIDE DEF x0, x1, x2, x3, x4, x5, x6, x7, x8, x9
<1>4. c * x0 + c * x1 + c * x2 + c * x3 + c * x4 + c * x5 + c * x6 + c * x7 + c * x8 + c * x9
      = c * (x0 + x1 + x2 + x3 + x4 + x5 + x6 + x7 + x8 + x9)
  BY <1>3
<1> QED
  BY <1>1, <1>2, <1>4

LEMMA SumExcept ==
    ASSUME NEW a \in Elements, NEW i \in Limbs, NEW v \in Int
    PROVE  /\ [a EXCEPT ![i] = v] \in Elements
           /\ LimbSum([a EXCEPT ![i] = v]) = LimbSum(a) - a[i] + v
BY DEF Elements, Limbs, LimbSum

LEMMA SumRotates ==
    ASSUME NEW a \in Elements, NEW i \in Limbs
    PROVE  LimbSum([k \in Limbs |-> a[(k - i) % 10]]) = LimbSum(a)
<1> DEFINE x0 == a[0]   x1 == a[1]   x2 == a[2]   x3 == a[3]   x4 == a[4]
           x5 == a[5]   x6 == a[6]   x7 == a[7]   x8 == a[8]   x9 == a[9]
           turned == [k \in Limbs |-> a[(k - i) % 10]]
<1>1. /\ x0 \in Int /\ x1 \in Int /\ x2 \in Int /\ x3 \in Int /\ x4 \in Int
      /\ x5 \in Int /\ x6 \in Int /\ x7 \in Int /\ x8 \in Int /\ x9 \in Int
  BY TenTerms
<1>2. \A k \in Limbs : turned[k] = a[IF k < i THEN k - i + 10 ELSE k - i]
  BY DEF Limbs
<1> SUFFICES LimbSum(turned) = LimbSum(a)
  OBVIOUS
<1> HIDE DEF turned
<1>3. LimbSum(a) = x0 + x1 + x2 + x3 + x4 + x5 + x6 + x7 + x8 + x9
  BY DEF LimbSum
<1>4. CASE i = 0
  <2>1. /\ turned[0] = x0 /\ turned[1] = x1 /\ turned[2] = x2 /\ turned[3] = x3 /\ turned[4] = x4
        /\ turned[5] = x5 /\ turned[6] = x6 /\ turned[7] = x7 /\ turned[8] = x8 /\ turned[9] = x9
    BY <1>2, <1>4 DEF Limbs
  <2>2. LimbSum(turned) = x0 + x1 + x2 + x3 + x4 + x5 + x6 + x7 + x8 + x9
    BY <2>1 DEF LimbSum
  <2> HIDE DEF x0, x1, x2, x3, x4, x5, x6, x7, x8, x9
  <2> QED
    BY <1>1, <2>2, <1>3
<1>5. CASE i = 1
  <2>1. /\ turned[0] = x9 /\ turned[1] = x0 /\ turned[2] = x1 /\ turned[3] = x2 /\ turned[4] = x3
        /\ turned[5] = x4 /\ turned[6] = x5 /\ turned[7] = x6 /\ turned[8] = x7 /\ turned[9] = x8
    BY <1>2, <1>5 DEF Limbs
  <2>2. LimbSum(turned) = x9 + x0 + x1 + x2 + x3 + x4 + x5 + x6 + x7 + x8
    BY <2>1 DEF LimbSum
  <2> HIDE DEF x0, x1, x2, x3, x4, x5, x6, x7, x8, x9
  <2> QED
    BY <1>1, <2>2, <1>3
<1>6. CASE i = 2
  <2>1. /\ turned[0] = x8 /\ turned[1] = x9 /\ turned[2] = x0 /\ turned[3] = x1 /\ turned[4] = x2
        /\ turned[5] = x3 /\ turned[6] = x4 /\ turned[7] = x5 /\ turned[8] = x6 /\ turned[9] = x7
    BY <1>2, <1>6 DEF Limbs
  <2>2. LimbSum(turned) = x8 + x9 + x0 + x1 + x2 + x3 + x4 + x5 + x6 + x7
    BY <2>1 DEF LimbSum
  <2> HIDE DEF x0, x1, x2, x3, x4, x5, x6, x7, x8, x9
  <2> QED
    BY <1>1, <2>2, <1>3
<1>7. CASE i = 3
  <2>1. /\ turned[0] = x7 /\ turned[1] = x8 /\ turned[2] = x9 /\ turned[3] = x0 /\ turned[4] = x1
        /\ turned[5] = x2 /\ turned[6] = x3 /\ turned[7] = x4 /\ turned[8] = x5 /\ turned[9] = x6
    BY <1>2, <1>7 DEF Limbs
  <2>2. LimbSum(turned) = x7 + x8 + x9 + x0 + x1 + x2 + x3 + x4 + x5 + x6
    BY <2>1 DEF LimbSum
  <2> HIDE DEF x0, x1, x2, x3, x4, x5, x6, x7, x8, x9
  <2> QED
    BY <1>1, <2>2, <1>3
<1>8. CASE i = 4
  <2>1. /\ turned[0] = x6 /\ turned[1] = x7 /\ turned[2] = x8 /\ turned[3] = x9 /\ turned[4] = x0
        /\ turned[5] = x1 /\ turned[6] = x2 /\ turned[7] = x3 /\ turned[8] = x4 /\ turned[9] = x5
    BY <1>2, <1>8 DEF Limbs
  <2>2. LimbSum(turned) = x6 + x7 + x8 + x9 + x0 + x1 + x2 + x3 + x4 + x5
    BY <2>1 DEF LimbSum
  <2> HIDE DEF x0, x1, x2, x3, x4, x5, x6, x7, x8, x9
  <2> QED
    BY <1>1, <2>2, <1>3
<1>9. CASE i = 5
  <2>1. /\ turned[0] = x5 /\ turned[1] = x6 /\ turned[2] = x7 /\ turned[3] = x8 /\ turned[4] = x9
        /\ turned[5] = x0 /\ turned[6] = x1 /\ turned[7] = x2 /\ turned[8] = x3 /\ turned[9] = x4
    BY <1>2, <1>9 DEF Limbs
  <2>2. LimbSum(turned) = x5 + x6 + x7 + x8 + x9 + x0 + x1 + x2 + x3 + x4
    BY <2>1 DEF LimbSum
  <2> HIDE DEF x0, x1, x2, x3, x4, x5, x6, x7, x8, x9
  <2> QED
    BY <1>1, <2>2, <1>3
<1>10. CASE i = 6
  <2>1. /\ turned[0] = x4 /\ turned[1] = x5 /\ turned[2] = x6 /\ turned[3] = x7 /\ turned[4] = x8
        /\ turned[5] = x9 /\ turned[6] = x0 /\ turned[7] = x1 /\ turned[8] = x2 /\ turned[9] = x3
    BY <1>2, <1>10 DEF Limbs
  <2>2. LimbSum(turned) = x4 + x5 + x6 + x7 + x8 + x9 + x0 + x1 + x2 + x3
    BY <2>1 DEF LimbSum
  <2> HIDE DEF x0, x1, x2, x3, x4, x5, x6, x7, x8, x9
  <2> QED
    BY <1>1, <2>2, <1>3
<1>11. CASE i = 7
  <2>1. /\ turned[0] = x3 /\ turned[1] = x4 /\ turned[2] = x5 /\ turned[3] = x6 /\ turned[4] = x7
        /\ turned[5] = x8 /\ turned[6] = x9 /\ turned[7] = x0 /\ turned[8] = x1 /\ turned[9] = x2
    BY <1>2, <1>11 DEF Limbs
  <2>2. LimbSum(turned) = x3 + x4 + x5 + x6 + x7 + x8 + x9 + x0 + x1 + x2
    BY <2>1 DEF LimbSum
  <2> HIDE DEF x0, x1, x2, x3, x4, x5, x6, x7, x8, x9
  <2> QED
    BY <1>1, <2>2, <1>3
<1>12. CASE i = 8
  <2>1. /\ turned[0] = x2 /\ turned[1] = x3 /\ turned[2] = x4 /\ turned[3] = x5 /\ turned[4] = x6
        /\ turned[5] = x7 /\ turned[6] = x8 /\ turned[7] = x9 /\ turned[8] = x0 /\ turned[9] = x1
    BY <1>2, <1>12 DEF Limbs
  <2>2. LimbSum(turned) = x2 + x3 + x4 + x5 + x6 + x7 + x8 + x9 + x0 + x1
    BY <2>1 DEF LimbSum
  <2> HIDE DEF x0, x1, x2, x3, x4, x5, x6, x7, x8, x9
  <2> QED
    BY <1>1, <2>2, <1>3
<1>13. CASE i = 9
  <2>1. /\ turned[0] = x1 /\ turned[1] = x2 /\ turned[2] = x3 /\ turned[3] = x4 /\ turned[4] = x5
        /\ turned[5] = x6 /\ turned[6] = x7 /\ turned[7] = x8 /\ turned[8] = x9 /\ turned[9] = x0
    BY <1>2, <1>13 DEF Limbs
  <2>2. LimbSum(turned) = x1 + x2 + x3 + x4 + x5 + x6 + x7 + x8 + x9 + x0
    BY <2>1 DEF LimbSum
  <2> HIDE DEF x0, x1, x2, x3, x4, x5, x6, x7, x8, x9
  <2> QED
    BY <1>1, <2>2, <1>3
<1> QED
  BY <1>4, <1>5, <1>6, <1>7, <1>8, <1>9, <1>10, <1>11, <1>12, <1>13 DEF Limbs

LEMMA SumSame ==
    ASSUME Shaped, NEW a \in Elements, NEW b \in Elements, \A i \in Limbs : Same(a[i], b[i])
    PROVE  Same(LimbSum(a), LimbSum(b))
<1> DEFINE q == [i \in Limbs |-> CHOOSE n \in Int : a[i] = b[i] + n * P]
           e == [i \in Limbs |-> P * q[i]]
           c == [i \in Limbs |-> b[i] + e[i]]
<1>1. P \in Int
  BY Modulus DEF Positive
<1>2. \A i \in Limbs : q[i] \in Int /\ a[i] = b[i] + q[i] * P
  BY DEF Same
<1>3. q \in Elements
  BY <1>2 DEF Elements
<1> HIDE DEF q
<1>4. \A i \in Limbs : e[i] \in Int /\ e[i] = q[i] * P
  BY <1>1, <1>2
<1>5. e \in Elements
  BY <1>4 DEF Elements
<1>6. LimbSum(e) = P * LimbSum(q)
  BY <1>1, <1>3, SumScales
<1> HIDE DEF e
<1>7. LimbSum(c) = LimbSum(b) + LimbSum(e)
  BY <1>5, SumAdds
<1>8. c = a
  <2>1. \A i \in Limbs : c[i] = a[i]
    BY <1>2, <1>4
  <2> QED
    BY <2>1 DEF Elements
<1>9. LimbSum(q) \in Int /\ LimbSum(b) \in Int
  BY <1>3, SumTyped
<1>10. LimbSum(a) = LimbSum(b) + P * LimbSum(q)
  BY <1>6, <1>7, <1>8
<1>11. P * LimbSum(q) = LimbSum(q) * P
  BY <1>1, <1>9
<1> QED
  BY <1>9, <1>10, <1>11 DEF Same

\* A sum over rows is the sum over columns.
LEMMA SumSwaps ==
    ASSUME NEW m \in [Limbs -> Elements]
    PROVE  LimbSum([k \in Limbs |-> LimbSum(m[k])]) =
           LimbSum([i \in Limbs |-> LimbSum([k \in Limbs |-> m[k][i]])])
<1>1. \A k \in Limbs : m[k] \in Elements /\ LimbSum(m[k]) \in Int
  BY SumTyped
<1> DEFINE v0 == m[0]
           v1 == [i \in Limbs |-> v0[i] + m[1][i]]
           v2 == [i \in Limbs |-> v1[i] + m[2][i]]
           v3 == [i \in Limbs |-> v2[i] + m[3][i]]
           v4 == [i \in Limbs |-> v3[i] + m[4][i]]
           v5 == [i \in Limbs |-> v4[i] + m[5][i]]
           v6 == [i \in Limbs |-> v5[i] + m[6][i]]
           v7 == [i \in Limbs |-> v6[i] + m[7][i]]
           v8 == [i \in Limbs |-> v7[i] + m[8][i]]
           v9 == [i \in Limbs |-> v8[i] + m[9][i]]
<1>2. v0 \in Elements /\ LimbSum(v0) = LimbSum(m[0])
  BY <1>1 DEF Limbs
<1> HIDE DEF v0
<1>3. v1 \in Elements /\ LimbSum(v1) = LimbSum(v0) + LimbSum(m[1])
  <2>1. m[1] \in Elements
    BY <1>1 DEF Limbs
  <2>2. v1 \in Elements
    BY <2>1, <1>2 DEF Elements
  <2> QED
    BY <2>1, <2>2, <1>2, SumAdds
<1> HIDE DEF v1
<1>4. v2 \in Elements /\ LimbSum(v2) = LimbSum(v1) + LimbSum(m[2])
  <2>1. m[2] \in Elements
    BY <1>1 DEF Limbs
  <2>2. v2 \in Elements
    BY <2>1, <1>3 DEF Elements
  <2> QED
    BY <2>1, <2>2, <1>3, SumAdds
<1> HIDE DEF v2
<1>5. v3 \in Elements /\ LimbSum(v3) = LimbSum(v2) + LimbSum(m[3])
  <2>1. m[3] \in Elements
    BY <1>1 DEF Limbs
  <2>2. v3 \in Elements
    BY <2>1, <1>4 DEF Elements
  <2> QED
    BY <2>1, <2>2, <1>4, SumAdds
<1> HIDE DEF v3
<1>6. v4 \in Elements /\ LimbSum(v4) = LimbSum(v3) + LimbSum(m[4])
  <2>1. m[4] \in Elements
    BY <1>1 DEF Limbs
  <2>2. v4 \in Elements
    BY <2>1, <1>5 DEF Elements
  <2> QED
    BY <2>1, <2>2, <1>5, SumAdds
<1> HIDE DEF v4
<1>7. v5 \in Elements /\ LimbSum(v5) = LimbSum(v4) + LimbSum(m[5])
  <2>1. m[5] \in Elements
    BY <1>1 DEF Limbs
  <2>2. v5 \in Elements
    BY <2>1, <1>6 DEF Elements
  <2> QED
    BY <2>1, <2>2, <1>6, SumAdds
<1> HIDE DEF v5
<1>8. v6 \in Elements /\ LimbSum(v6) = LimbSum(v5) + LimbSum(m[6])
  <2>1. m[6] \in Elements
    BY <1>1 DEF Limbs
  <2>2. v6 \in Elements
    BY <2>1, <1>7 DEF Elements
  <2> QED
    BY <2>1, <2>2, <1>7, SumAdds
<1> HIDE DEF v6
<1>9. v7 \in Elements /\ LimbSum(v7) = LimbSum(v6) + LimbSum(m[7])
  <2>1. m[7] \in Elements
    BY <1>1 DEF Limbs
  <2>2. v7 \in Elements
    BY <2>1, <1>8 DEF Elements
  <2> QED
    BY <2>1, <2>2, <1>8, SumAdds
<1> HIDE DEF v7
<1>10. v8 \in Elements /\ LimbSum(v8) = LimbSum(v7) + LimbSum(m[8])
  <2>1. m[8] \in Elements
    BY <1>1 DEF Limbs
  <2>2. v8 \in Elements
    BY <2>1, <1>9 DEF Elements
  <2> QED
    BY <2>1, <2>2, <1>9, SumAdds
<1> HIDE DEF v8
<1>11. v9 \in Elements /\ LimbSum(v9) = LimbSum(v8) + LimbSum(m[9])
  <2>1. m[9] \in Elements
    BY <1>1 DEF Limbs
  <2>2. v9 \in Elements
    BY <2>1, <1>10 DEF Elements
  <2> QED
    BY <2>1, <2>2, <1>10, SumAdds
<1> HIDE DEF v9
<1>12. LimbSum(v9) = LimbSum([k \in Limbs |-> LimbSum(m[k])])
  <2> DEFINE s == [k \in Limbs |-> LimbSum(m[k])]
  <2>1. /\ s[0] = LimbSum(m[0]) /\ s[1] = LimbSum(m[1]) /\ s[2] = LimbSum(m[2])
        /\ s[3] = LimbSum(m[3]) /\ s[4] = LimbSum(m[4]) /\ s[5] = LimbSum(m[5])
        /\ s[6] = LimbSum(m[6]) /\ s[7] = LimbSum(m[7]) /\ s[8] = LimbSum(m[8])
        /\ s[9] = LimbSum(m[9])
    BY DEF Limbs
  <2> HIDE DEF s
  <2>2. LimbSum(s) = LimbSum(m[0]) + LimbSum(m[1]) + LimbSum(m[2]) + LimbSum(m[3])
                     + LimbSum(m[4]) + LimbSum(m[5]) + LimbSum(m[6]) + LimbSum(m[7])
                     + LimbSum(m[8]) + LimbSum(m[9])
    BY <2>1 DEF LimbSum
  <2>3. LimbSum(v9) = LimbSum(s)
    BY <2>2, <1>2, <1>3, <1>4, <1>5, <1>6, <1>7, <1>8, <1>9, <1>10, <1>11
  <2> QED
    BY <2>3 DEF s
<1>13. v9 = [i \in Limbs |-> LimbSum([k \in Limbs |-> m[k][i]])]
  <2>1. ASSUME NEW i \in Limbs PROVE v9[i] = LimbSum([k \in Limbs |-> m[k][i]])
    <3>1. v9[i] = m[0][i] + m[1][i] + m[2][i] + m[3][i] + m[4][i]
                  + m[5][i] + m[6][i] + m[7][i] + m[8][i] + m[9][i]
      BY DEF v0, v1, v2, v3, v4, v5, v6, v7, v8, v9
    <3> QED
      BY <3>1 DEF LimbSum, Limbs
  <2> QED
    BY <2>1, <1>11 DEF Elements
<1> QED
  BY <1>12, <1>13
-----------------------------------------------------------------------------
(* Limbs and carries *)

Parts(h) == [i \in Limbs |-> h[i] * Weight(i)]

LEMMA WeightTyped ==
    ASSUME Shaped
    PROVE  \A i \in 0 .. 10 : Weight(i) \in Int
BY WeightRuns DEF Positive

LEMMA PartsTyped ==
    ASSUME Shaped, NEW h \in Elements
    PROVE  Parts(h) \in Elements /\ Number(h) = LimbSum(Parts(h)) /\ Number(h) \in Int
<1>1. \A i \in Limbs : h[i] \in Int /\ Weight(i) \in Int
  BY WeightTyped DEF Elements, Limbs
<1>2. \A a, b \in Int : a * b \in Int
  OBVIOUS
<1>3. Parts(h) \in Elements
  BY <1>1, <1>2 DEF Parts, Elements
<1>4. Number(h) = LimbSum(Parts(h))
  BY DEF Number, Parts
<1> QED
  BY <1>3, <1>4, SumTyped

\* What Hand gives to the next limb.
Handed(i, k) == IF i = 9 THEN C * k ELSE k

LEMMA HandIs ==
    ASSUME Shaped, NEW h \in Elements, NEW i \in Limbs, NEW k \in Int
    PROVE  /\ Hand(h, i, k) \in Elements
           /\ Number(Hand(h, i, k)) =
                Number(h) - k * Weight(i) * Size(i) + Handed(i, k) * Weight((i + 1) % 10)
<1> DEFINE j == (i + 1) % 10
           d == Handed(i, k)
           s == Size(i)
           t == h[i] - k * s
           u == h[j] + d
           mid == [h EXCEPT ![i] = t]
           H == Hand(h, i, k)
           F == [Parts(h) EXCEPT ![i] = t * Weight(i)]
           G == [F EXCEPT ![j] = u * Weight(j)]
<1>1. j \in Limbs /\ j # i
  BY DEF Limbs
<1>2. C \in Int /\ s \in Int
  BY SizeTyped DEF Shaped, Limbs, Positive
<1>3. d \in Int
  BY <1>2 DEF Handed
<1>4. h[i] \in Int /\ h[j] \in Int /\ k * s \in Int
  BY <1>1, <1>2 DEF Elements
<1>5. t \in Int /\ u \in Int
  BY <1>3, <1>4
<1>7. mid[j] = h[j] /\ mid \in Elements
  BY <1>1, <1>5 DEF Elements
<1>8. H = [mid EXCEPT ![j] = u]
  <2>1. H = [n \in Limbs |-> IF n = j THEN u ELSE IF n = i THEN t ELSE h[n]]
    BY <1>1 DEF Hand, Handed, Elements
  <2> HIDE DEF H, j, d, s, t, u
  <2> QED
    BY <1>1, <2>1 DEF Elements
<1> HIDE DEF j, d, s
<1> HIDE DEF t, u, H
<1>9. H \in Elements
  BY <1>1, <1>5, <1>7, <1>8 DEF Elements
<1>10. H[i] = t /\ H[j] = u /\ \A n \in Limbs : n # i /\ n # j => H[n] = h[n]
  BY <1>1, <1>7, <1>8 DEF Elements
<1>11. Parts(H) = G
  BY <1>1, <1>10 DEF Parts
<1>12. Weight(i) \in Int /\ Weight(j) \in Int /\ Parts(h) \in Elements
  BY <1>1, WeightTyped, PartsTyped DEF Limbs
<1>13. t * Weight(i) \in Int /\ u * Weight(j) \in Int
  BY <1>5, <1>12
<1>14. /\ F \in Elements
       /\ LimbSum(F) = LimbSum(Parts(h)) - Parts(h)[i] + t * Weight(i)
  BY <1>12, <1>13, SumExcept
<1>15. F[j] = Parts(h)[j]
  BY <1>1, <1>12 DEF Elements
<1> HIDE DEF F
<1>16. LimbSum(G) = LimbSum(F) - F[j] + u * Weight(j)
  BY <1>1, <1>13, <1>14, SumExcept
<1>17. Number(H) = LimbSum(G) /\ Number(h) = LimbSum(Parts(h)) /\ LimbSum(Parts(h)) \in Int
  BY <1>9, <1>11, PartsTyped
<1>18. Parts(h)[i] = h[i] * Weight(i) /\ Parts(h)[j] = h[j] * Weight(j)
  BY <1>1 DEF Parts
<1>19. /\ t * Weight(i) = h[i] * Weight(i) - k * Weight(i) * s
       /\ u * Weight(j) = h[j] * Weight(j) + d * Weight(j)
  <2> DEFINE wi == Weight(i)  wj == Weight(j)  hi == h[i]  hj == h[j]
  <2>1. wi \in Int /\ wj \in Int /\ hi \in Int /\ hj \in Int
    BY <1>4, <1>12
  <2> HIDE DEF wi, wj, hi, hj
  <2>2. (hi - k * s) * wi = hi * wi - k * wi * s /\ (hj + d) * wj = hj * wj + d * wj
    BY <1>2, <1>3, <2>1
  <2> QED
    BY <2>2 DEF wi, wj, hi, hj, t, u
<1>20. Number(H) = Number(h) - k * Weight(i) * s + d * Weight(j)
  <2> DEFINE pi == h[i] * Weight(i)  pj == h[j] * Weight(j)
             ki == k * Weight(i) * s  dj == d * Weight(j)
             N == Number(h)
  <2>1. pi \in Int /\ pj \in Int /\ ki \in Int /\ dj \in Int /\ N \in Int
    BY <1>2, <1>3, <1>4, <1>12, <1>17
  <2>2. Number(H) = (N - pi + (pi - ki)) - pj + (pj + dj)
    BY <1>14, <1>15, <1>16, <1>17, <1>18, <1>19
  <2> HIDE DEF pi, pj, ki, dj, N
  <2>3. Number(H) = N - ki + dj
    BY <2>1, <2>2
  <2> QED
    BY <2>3 DEF ki, dj, N
<1> QED
  BY <1>9, <1>20 DEF H, j, d, s

LEMMA HandKeeps ==
    ASSUME Shaped, NEW h \in Elements, NEW i \in Limbs, NEW k \in Int
    PROVE  /\ Hand(h, i, k) \in Elements
           /\ Same(Number(Hand(h, i, k)), Number(h))
           /\ i # 9 => Number(Hand(h, i, k)) = Number(h)
           /\ i = 9 => Number(Hand(h, i, k)) = Number(h) - k * P
<1> DEFINE H == Hand(h, i, k)
<1>1. /\ H \in Elements
      /\ Number(H) = Number(h) - k * Weight(i) * Size(i) + Handed(i, k) * Weight((i + 1) % 10)
      /\ Number(H) \in Int /\ Number(h) \in Int
  BY HandIs, PartsTyped
<1> HIDE DEF H
<1>2. Weight(i + 1) = Weight(i) * Size(i) /\ Weight(i) \in Int /\ Size(i) \in Int
  BY WeightRuns, WeightTyped, SizeTyped DEF Limbs, Positive
<1>3. k * Weight(i) * Size(i) = k * Weight(i + 1)
  <2> DEFINE w == Weight(i)  s == Size(i)
  <2>1. w \in Int /\ s \in Int
    BY <1>2
  <2> HIDE DEF w, s
  <2>2. k * w * s = k * (w * s)
    BY <2>1
  <2> QED
    BY <1>2, <2>2 DEF w, s
<1>4. CASE i # 9
  <2>1. (i + 1) % 10 = i + 1 /\ Handed(i, k) = k
    BY <1>4 DEF Limbs, Handed
  <2>2. k * Weight(i + 1) \in Int
    BY WeightTyped DEF Limbs
  <2>3. Number(H) = Number(h) - k * Weight(i + 1) + k * Weight(i + 1)
    BY <1>1, <1>3, <2>1
  <2>4. Number(H) = Number(h)
    BY <1>1, <2>2, <2>3
  <2> QED
    BY <1>1, <1>4, <2>4, SameReflexive DEF H
<1>5. CASE i = 9
  <2>1. (i + 1) % 10 = 0 /\ Handed(i, k) = C * k /\ i + 1 = 10
    BY <1>5 DEF Handed
  <2>2. Weight(10) = P + C /\ P \in Int /\ C \in Int /\ Weight(0) = 1
    BY Modulus, WeightRuns DEF Positive
  <2>3. Number(H) = Number(h) - k * (P + C) + (C * k) * 1
    BY <1>1, <1>3, <2>1, <2>2
  <2>4. k * (P + C) = k * P + C * k /\ k * P \in Int /\ C * k \in Int
    BY <2>2
  <2>5. Number(H) = Number(h) - k * P
    BY <1>1, <2>3, <2>4
  <2> QED
    BY <1>1, <1>5, <2>5, SameByMultiple DEF H
<1> QED
  BY <1>4, <1>5

LEMMA CarryKeeps ==
    ASSUME Shaped, NEW h \in Elements, NEW i \in Limbs
    PROVE  Carry(h, i) \in Elements /\ Same(Number(Carry(h, i)), Number(h))
<1>1. Size(i) \in Positive /\ h[i] \in Int
  BY SizeTyped DEF Limbs, Elements
<1>2. Size(i) \div 2 \in Int
  BY <1>1 DEF Positive
<1> DEFINE k == (h[i] + Size(i) \div 2) \div Size(i)
<1>3. h[i] + Size(i) \div 2 \in Int
  BY <1>1, <1>2
<1>4. k \in Int
  BY <1>1, <1>3, Quotients DEF Positive, Divided
<1>5. Carry(h, i) = Hand(h, i, k)
  BY DEF Carry
<1> HIDE DEF k
<1> QED
  BY <1>4, <1>5, HandKeeps

LEMMA CarriedRuns ==
    ASSUME Shaped, NEW h \in Elements, NEW order \in Seq(Limbs)
    PROVE  \E run : /\ run[0] = h /\ Carried(h, order) = run[Len(order)]
                    /\ \A n \in 0 .. Len(order) - 1 : run[n + 1] = Carry(run[n], order[n + 1])
<1> DEFINE N == Len(order)
           Loop(f) == [n \in 0 .. N |-> IF n = 0 THEN h ELSE Carry(f[n - 1], order[n])]
           after == CHOOSE f : f = Loop(f)
           step == [p \in (0 .. N - 1) \X Elements |-> Carry(p[2], order[p[1] + 1])]
<1>1. N \in Nat /\ \A n \in 1 .. N : order[n] \in Limbs
  OBVIOUS
<1>2. Carried(h, order) = after[N]
  BY DEF Carried
<1> HIDE DEF N, after
<1>3. step \in [(0 .. N - 1) \X Elements -> Elements]
  <2>1. ASSUME NEW p \in (0 .. N - 1) \X Elements PROVE Carry(p[2], order[p[1] + 1]) \in Elements
    <3>1. p[2] \in Elements /\ order[p[1] + 1] \in Limbs
      BY <1>1
    <3> QED
      BY <3>1, CarryKeeps
  <2> QED
    BY <2>1
<1>4. PICK f : Solves(f, N, Elements, h, step)
  <2> HIDE DEF step
  <2> QED
    BY <1>1, <1>3, Iterates
<1>5. f = Loop(f)
  <2>1. ASSUME NEW n \in 0 .. N, n # 0 PROVE f[n] = Carry(f[n - 1], order[n])
    <3>1. n - 1 \in 0 .. N - 1 /\ (n - 1) + 1 = n /\ f[n - 1] \in Elements
      BY <1>1, <1>4, <2>1 DEF Solves
    <3>2. f[(n - 1) + 1] = step[<<n - 1, f[n - 1]>>]
      BY <1>4, <3>1 DEF Solves
    <3> QED
      BY <3>1, <3>2
  <2>2. f[0] = h /\ f = [n \in 0 .. N |-> f[n]]
    BY <1>4 DEF Solves
  <2> QED
    BY <2>1, <2>2
<1>6. after = Loop(after)
  BY <1>5 DEF after
<1>7. after[0] = h /\ \A n \in 0 .. N - 1 : after[n + 1] = Carry(after[n], order[n + 1])
  BY <1>1, <1>6
<1> QED
  BY <1>2, <1>7 DEF N

LEMMA CarriedKeeps ==
    ASSUME Shaped, NEW h \in Elements, NEW order \in Seq(Limbs)
    PROVE  Carried(h, order) \in Elements /\ Same(Number(Carried(h, order)), Number(h))
<1>1. PICK after : /\ after[0] = h /\ Carried(h, order) = after[Len(order)]
                   /\ \A n \in 0 .. Len(order) - 1 : after[n + 1] = Carry(after[n], order[n + 1])
  BY CarriedRuns
<1> DEFINE N == Len(order)
           S == {n \in 0 .. N : /\ after[n] \in Elements
                                /\ Same(Number(after[n]), Number(h))}
<1>2. N \in Nat /\ \A n \in 1 .. N : order[n] \in Limbs
  OBVIOUS
<1>3. Carried(h, order) = after[N] /\ after[0] = h
  BY <1>1
<1>4. \A n \in 0 .. N - 1 : after[n + 1] = Carry(after[n], order[n + 1])
  BY <1>1
<1> HIDE DEF N
<1>5. 0 \in S
  BY <1>2, <1>3, SameReflexive, PartsTyped
<1>6. ASSUME NEW n \in 0 .. N - 1, n \in S PROVE n + 1 \in S
  <2> DEFINE a == after[n]
             b == after[n + 1]
  <2>1. a \in Elements /\ Same(Number(a), Number(h))
    BY <1>6
  <2>2. order[n + 1] \in Limbs /\ n + 1 \in 0 .. N
    BY <1>2
  <2>3. b = Carry(a, order[n + 1])
    BY <1>4
  <2> HIDE DEF a, b
  <2>4. b \in Elements /\ Same(Number(b), Number(a))
    BY <2>1, <2>2, <2>3, CarryKeeps
  <2>5. Number(a) \in Int /\ Number(b) \in Int /\ Number(h) \in Int
    BY <2>1, <2>4, PartsTyped
  <2>6. Same(Number(b), Number(h))
    BY <2>1, <2>4, <2>5, SameTransitive
  <2> QED
    BY <2>2, <2>4, <2>6 DEF b
<1>7. 0 .. N \subseteq S
  <2> HIDE DEF S
  <2> QED
    BY <1>2, <1>5, <1>6, Induction
<1>8. N \in S
  BY <1>2, <1>7
<1> QED
  BY <1>3, <1>8

LEMMA Orders ==
    ProductOrder \in Seq(Limbs) /\ OddEvenOrder \in Seq(Limbs)
BY DEF ProductOrder, OddEvenOrder, Limbs

-----------------------------------------------------------------------------
(* Products *)

LEMMA TermTyped ==
    ASSUME Shaped, NEW f \in Elements, NEW g \in Elements, NEW k \in Limbs, NEW i \in Limbs
    PROVE  /\ Term(f, g, k, i) \in Int
           /\ (k - i) % 10 \in Limbs
           /\ Term(f, g, k, i) =
                f[i] * g[(k - i) % 10] * Doubling(i, (k - i) % 10) * (IF i > k THEN C ELSE 1)
<1> DEFINE j == (k - i) % 10
           two == Doubling(i, j)
           wrap == IF i > k THEN C ELSE 1
<1>1. j \in Limbs
  BY DEF Limbs
<1>2. j % 2 = (k - i) % 2
  BY DEF Limbs
<1>3. two = IF i % 2 = 1 /\ (k - i) % 2 = 1 THEN 2 ELSE 1
  BY <1>2 DEF Doubling
<1>4. Term(f, g, k, i) = f[i] * g[j] * two * wrap
  BY <1>3 DEF Term
<1>5. f[i] \in Int /\ g[j] \in Int /\ two \in Int /\ wrap \in Int
  BY <1>1, <1>3 DEF Elements, Shaped
<1> DEFINE a == f[i]
           b == g[j]
<1>6. a \in Int /\ b \in Int
  BY <1>5
<1> HIDE DEF a, b, two, wrap
<1>7. a * b * two * wrap \in Int
  BY <1>5, <1>6
<1> QED
  BY <1>1, <1>4, <1>7 DEF a, b, two, wrap

\* What a term adds to its column is the product of the numbers its two limbs
\* stand for, modulo P.
LEMMA TermIsProduct ==
    ASSUME Shaped, NEW f \in Elements, NEW g \in Elements, NEW k \in Limbs, NEW i \in Limbs
    PROVE  LET j == (k - i) % 10
           IN  Same(Term(f, g, k, i) * Weight(k), (f[i] * Weight(i)) * (g[j] * Weight(j)))
<1> DEFINE j == (k - i) % 10
           two == Doubling(i, j)
           a == f[i]
           b == g[j]
           wi == Weight(i)
           wj == Weight(j)
           wk == Weight(k)
           w10 == Weight(10)
           p == P
           t == Term(f, g, k, i)
<1>1. j \in Limbs /\ t \in Int /\ t = a * b * two * (IF i > k THEN C ELSE 1)
  BY TermTyped
<1>2. /\ a \in Int /\ b \in Int /\ wi \in Int /\ wj \in Int /\ wk \in Int
      /\ p \in Int /\ C \in Int /\ w10 = p + C /\ w10 \in Int
  BY <1>1, WeightTyped, Modulus DEF Elements, Limbs, Positive
<1>3. two \in Int /\ wi * wj = two * Column(i + j)
  BY <1>1, LimbsMeet DEF Doubling
<1>4. IF i > k THEN i + j = k + 10 ELSE i + j = k
  BY DEF Limbs
<1>5. Column(i + j) = IF i > k THEN wk * w10 ELSE wk
  <2>1. Column(k + 10) = wk * w10 /\ Column(k) = wk
    BY DEF Column, Limbs
  <2> HIDE DEF j, wk, w10
  <2> QED
    BY <1>4, <2>1
<1> SUFFICES Same(t * wk, (a * wi) * (b * wj))
  OBVIOUS
<1> HIDE DEF two, a, b, wi, wj, wk, w10, p, t
<1>6. (a * wi) * (b * wj) = (a * b) * (wi * wj)
  BY <1>2
<1>7. CASE i > k
  <2>1. t = a * b * two * C /\ wi * wj = two * (wk * w10)
    BY <1>1, <1>3, <1>5, <1>7
  <2> DEFINE x1 == a * b * two * wk
  <2>2. x1 \in Int
    BY <1>2, <1>3
  <2>3. t * wk = x1 * C
    BY <1>2, <1>3, <2>1
  <2>4. (a * b) * (two * (wk * w10)) = x1 * w10
    BY <1>2, <1>3
  <2>5. (a * wi) * (b * wj) = x1 * w10
    BY <1>6, <2>1, <2>4
  <2> HIDE DEF x1
  <2>6. x1 * w10 = x1 * p + x1 * C
    BY <1>2, <2>2
  <2>7. x1 * p \in Int /\ x1 * C \in Int /\ x1 * w10 \in Int
    BY <1>2, <2>2
  <2> DEFINE y1 == x1 * w10
  <2>8. t * wk = y1 - x1 * P /\ y1 \in Int
    BY <2>3, <2>6, <2>7 DEF p
  <2> HIDE DEF y1
  <2>9. Same(t * wk, y1)
    BY <2>2, <2>8, SameByMultiple
  <2> QED
    BY <2>5, <2>9 DEF y1
<1>8. CASE ~(i > k)
  <2>1. t = a * b * two * 1 /\ wi * wj = two * wk
    BY <1>1, <1>3, <1>5, <1>8
  <2>2. (a * b) * (two * wk) = (a * b * two * 1) * wk
    BY <1>2, <1>3
  <2>3. t * wk \in Int /\ (a * wi) * (b * wj) = t * wk
    BY <1>1, <1>2, <1>6, <2>1, <2>2
  <2> QED
    BY <2>3, SameReflexive
<1> QED
  BY <1>7, <1>8

LEMMA ProductsTyped ==
    ASSUME Shaped, NEW f \in Elements, NEW g \in Elements
    PROVE  Products(f, g) \in Elements
<1>1. ASSUME NEW k \in Limbs PROVE LimbSum([i \in Limbs |-> Term(f, g, k, i)]) \in Int
  <2>1. [i \in Limbs |-> Term(f, g, k, i)] \in Elements
    BY TermTyped DEF Elements
  <2> QED
    BY <2>1, SumTyped
<1> QED
  BY <1>1 DEF Products, Elements

\* The columns of a product stand for the product.
LEMMA ProductsMultiply ==
    ASSUME Shaped, NEW f \in Elements, NEW g \in Elements
    PROVE  Same(Number(Products(f, g)), Number(f) * Number(g))
<1> DEFINE F == Parts(f)
           G == Parts(g)
           H == Products(f, g)
           m == [k \in Limbs |-> [i \in Limbs |-> F[i] * G[(k - i) % 10]]]
           rows == [k \in Limbs |-> LimbSum(m[k])]
           cols == [i \in Limbs |-> LimbSum([k \in Limbs |-> m[k][i]])]
<1>1. /\ F \in Elements /\ G \in Elements /\ H \in Elements
      /\ Number(f) = LimbSum(F) /\ Number(g) = LimbSum(G) /\ Number(H) = LimbSum(Parts(H))
      /\ Parts(H) \in Elements /\ LimbSum(G) \in Int /\ LimbSum(F) \in Int
  BY ProductsTyped, PartsTyped, SumTyped
<1>2. ASSUME NEW k \in Limbs, NEW i \in Limbs
      PROVE  /\ (k - i) % 10 \in Limbs
             /\ F[i] * G[(k - i) % 10] \in Int
             /\ Same(Term(f, g, k, i) * Weight(k), F[i] * G[(k - i) % 10])
  <2> DEFINE j == (k - i) % 10
  <2>1. j \in Limbs
    BY TermTyped
  <2>2. F[i] \in Int /\ G[j] \in Int
    BY <1>1, <2>1 DEF Elements
  <2>3. F[i] * G[j] \in Int
    BY <2>2
  <2>4. F[i] = f[i] * Weight(i) /\ G[j] = g[j] * Weight(j)
    BY <2>1 DEF Parts
  <2>5. Same(Term(f, g, k, i) * Weight(k), (f[i] * Weight(i)) * (g[j] * Weight(j)))
    BY TermIsProduct
  <2> QED
    BY <2>1, <2>3, <2>4, <2>5
<1> HIDE DEF F, G
<1>3. m \in [Limbs -> Elements]
  BY <1>2 DEF Elements
<1>4. ASSUME NEW k \in Limbs PROVE Same(Parts(H)[k], rows[k]) /\ rows[k] \in Int
  <2> DEFINE t == [i \in Limbs |-> Term(f, g, k, i)]
             s == [i \in Limbs |-> Weight(k) * t[i]]
  <2>1. t \in Elements /\ Weight(k) \in Int
    BY TermTyped, WeightTyped DEF Elements, Limbs
  <2>2. LimbSum(s) = Weight(k) * LimbSum(t)
    BY <2>1, SumScales
  <2>3. Parts(H)[k] = LimbSum(t) * Weight(k) /\ LimbSum(t) \in Int
    BY <2>1, SumTyped DEF Parts, Products
  <2>4. Parts(H)[k] = LimbSum(s)
    BY <2>1, <2>2, <2>3
  <2>5. m[k] \in Elements
    BY <1>3
  <2>6. ASSUME NEW i \in Limbs PROVE Same(s[i], m[k][i]) /\ s[i] \in Int
    <3>1. s[i] = Weight(k) * t[i] /\ t[i] = Term(f, g, k, i) /\ t[i] \in Int
      BY <2>1 DEF Elements
    <3>2. s[i] = Term(f, g, k, i) * Weight(k) /\ s[i] \in Int
      BY <2>1, <3>1
    <3>3. m[k][i] = F[i] * G[(k - i) % 10]
      OBVIOUS
    <3> QED
      BY <1>2, <3>2, <3>3
  <2>7. s \in Elements
    BY <2>6 DEF Elements
  <2> HIDE DEF s, m, H
  <2>8. Same(LimbSum(s), LimbSum(m[k])) /\ LimbSum(m[k]) \in Int
    BY <2>5, <2>6, <2>7, SumSame, SumTyped
  <2> QED
    BY <2>4, <2>8
<1>5. rows \in Elements
  BY <1>4 DEF Elements
<1> HIDE DEF rows, m, H
<1>6. Same(LimbSum(Parts(H)), LimbSum(rows))
  BY <1>1, <1>4, <1>5, SumSame
<1>7. LimbSum(rows) = LimbSum(cols)
  BY <1>3, SumSwaps DEF rows
<1>8. cols = [i \in Limbs |-> LimbSum(G) * F[i]]
  <2>1. ASSUME NEW i \in Limbs PROVE cols[i] = LimbSum(G) * F[i]
    <3> DEFINE turned == [k \in Limbs |-> G[(k - i) % 10]]
               scaled == [k \in Limbs |-> F[i] * turned[k]]
    <3>1. turned \in Elements
      BY <1>1, <1>2 DEF Elements
    <3>2. LimbSum(turned) = LimbSum(G)
      BY <1>1, SumRotates
    <3>3. F[i] \in Int
      BY <1>1 DEF Elements
    <3>4. LimbSum(scaled) = F[i] * LimbSum(turned)
      BY <3>1, <3>3, SumScales
    <3>5. [k \in Limbs |-> m[k][i]] = scaled
      BY DEF m
    <3>6. F[i] * LimbSum(G) = LimbSum(G) * F[i]
      BY <1>1, <3>3
    <3> QED
      BY <3>2, <3>4, <3>5, <3>6
  <2> QED
    BY <2>1
<1>9. LimbSum(cols) = LimbSum(G) * LimbSum(F)
  BY <1>1, <1>8, SumScales
<1>10. LimbSum(G) * LimbSum(F) = LimbSum(F) * LimbSum(G)
  BY <1>1
<1> QED
  BY <1>1, <1>6, <1>7, <1>9, <1>10 DEF H

\* The operations that are a pass over the limbs and a chain of carries.
LEMMA MulStandsFor ==
    ASSUME Shaped, NEW f \in Elements, NEW g \in Elements
    PROVE  fe_mul(f, g) \in Elements /\ Same(Number(fe_mul(f, g)), Number(f) * Number(g))
<1> DEFINE H == Products(f, g)
           R == fe_mul(f, g)
           n == Number(f) * Number(g)
<1>1. H \in Elements /\ Same(Number(H), n)
  BY ProductsTyped, ProductsMultiply
<1>2. Number(f) \in Int /\ Number(g) \in Int
  BY PartsTyped
<1>3. n \in Int
  BY <1>2
<1>4. R = Carried(H, ProductOrder)
  BY DEF fe_mul
<1> HIDE DEF H, R, n
<1>5. R \in Elements /\ Same(Number(R), Number(H))
  BY <1>1, <1>4, Orders, CarriedKeeps
<1>6. Number(R) \in Int /\ Number(H) \in Int
  BY <1>1, <1>5, PartsTyped
<1>7. Same(Number(R), n)
  BY <1>1, <1>3, <1>5, <1>6, SameTransitive
<1> QED
  BY <1>5, <1>7 DEF R, n

LEMMA AddStandsFor ==
    ASSUME Shaped, NEW f \in Elements, NEW g \in Elements
    PROVE  /\ fe_add(f, g) \in Elements /\ Number(fe_add(f, g)) = Number(f) + Number(g)
           /\ fe_sub(f, g) \in Elements /\ Number(fe_sub(f, g)) = Number(f) - Number(g)
<1>1. \A i \in Limbs : f[i] \in Int /\ g[i] \in Int /\ Weight(i) \in Int
  BY WeightTyped DEF Elements, Limbs
<1>2. fe_add(f, g) \in Elements /\ fe_sub(f, g) \in Elements
  BY <1>1 DEF fe_add, fe_sub, Elements
<1>3. ASSUME NEW i \in Limbs
      PROVE  /\ (f[i] + g[i]) * Weight(i) = f[i] * Weight(i) + g[i] * Weight(i)
             /\ (f[i] - g[i]) * Weight(i) = f[i] * Weight(i) - g[i] * Weight(i)
  <2> DEFINE a == f[i]  b == g[i]  w == Weight(i)
  <2>1. a \in Int /\ b \in Int /\ w \in Int
    BY <1>1
  <2> HIDE DEF a, b, w
  <2>2. (a + b) * w = a * w + b * w /\ (a - b) * w = a * w - b * w
    BY <2>1
  <2> QED
    BY <2>2 DEF a, b, w
<1>4. /\ Parts(fe_add(f, g)) = [i \in Limbs |-> Parts(f)[i] + Parts(g)[i]]
      /\ Parts(fe_sub(f, g)) = [i \in Limbs |-> Parts(f)[i] - Parts(g)[i]]
  BY <1>3 DEF Parts, fe_add, fe_sub
<1>5. /\ LimbSum(Parts(fe_add(f, g))) = LimbSum(Parts(f)) + LimbSum(Parts(g))
      /\ LimbSum(Parts(fe_sub(f, g))) = LimbSum(Parts(f)) - LimbSum(Parts(g))
  BY <1>4, PartsTyped, SumAdds
<1> QED
  BY <1>2, <1>5, PartsTyped

LEMMA NegStandsFor ==
    ASSUME Shaped, NEW f \in Elements
    PROVE  fe_neg(f) \in Elements /\ Number(fe_neg(f)) = -Number(f)
<1> DEFINE zero == [i \in Limbs |-> 0]
<1>1. zero \in Elements
  BY DEF Elements
<1>2. fe_neg(f) = fe_sub(zero, f)
  BY DEF fe_neg, fe_sub, Elements
<1>3. Number(zero) = 0
  BY WeightTyped DEF Number, LimbSum, Limbs
<1> HIDE DEF zero
<1>4. fe_neg(f) \in Elements /\ Number(fe_neg(f)) = Number(zero) - Number(f)
  BY <1>1, <1>2, AddStandsFor
<1> QED
  BY <1>3, <1>4, PartsTyped

LEMMA ScaleStandsFor ==
    ASSUME Shaped, NEW f \in Elements, NEW n \in Int
    PROVE  /\ [i \in Limbs |-> n * f[i]] \in Elements
           /\ Number([i \in Limbs |-> n * f[i]]) = n * Number(f)
<1> DEFINE H == [i \in Limbs |-> n * f[i]]
<1>1. \A i \in Limbs : f[i] \in Int /\ Weight(i) \in Int /\ n * f[i] \in Int
  BY WeightTyped DEF Elements, Limbs
<1>2. H \in Elements
  BY <1>1 DEF Elements
<1>3. ASSUME NEW i \in Limbs PROVE (n * f[i]) * Weight(i) = n * (f[i] * Weight(i))
  <2> DEFINE a == f[i]  w == Weight(i)
  <2>1. a \in Int /\ w \in Int
    BY <1>1
  <2> HIDE DEF a, w
  <2>2. (n * a) * w = n * (a * w)
    BY <2>1
  <2> QED
    BY <2>2 DEF a, w
<1>4. Parts(H) = [i \in Limbs |-> n * Parts(f)[i]]
  BY <1>3 DEF Parts
<1>5. LimbSum(Parts(H)) = n * LimbSum(Parts(f))
  BY <1>4, PartsTyped, SumScales
<1> HIDE DEF H
<1>6. Number(H) = n * Number(f)
  BY <1>2, <1>5, PartsTyped
<1> QED
  BY <1>2, <1>6 DEF H

LEMMA SmallStandsFor ==
    ASSUME Shaped, NEW f \in Elements, NEW n \in Int
    PROVE  /\ fe_mul121666(f, n) \in Elements
           /\ Same(Number(fe_mul121666(f, n)), n * Number(f))
<1> DEFINE H == [i \in Limbs |-> n * f[i]]
<1>1. H \in Elements /\ Number(H) = n * Number(f)
  BY ScaleStandsFor
<1>2. fe_mul121666(f, n) = Carried(H, OddEvenOrder)
  BY DEF fe_mul121666
<1> HIDE DEF H
<1> QED
  BY <1>1, <1>2, Orders, CarriedKeeps

-----------------------------------------------------------------------------
(* Squares *)

LEMMA TermsMirror ==
    ASSUME Shaped, NEW f \in Elements, NEW k \in Limbs, NEW i \in Limbs
    PROVE  Term(f, f, k, (k - i) % 10) = Term(f, f, k, i)
<1> DEFINE j == (k - i) % 10
<1>1. j \in Limbs /\ (k - j) % 10 = i /\ (j > k <=> i > k)
  BY DEF Limbs
<1>2. Doubling(j, i) = Doubling(i, j)
  BY DEF Doubling
<1>3. /\ Term(f, f, k, i) = f[i] * f[j] * Doubling(i, j) * (IF i > k THEN C ELSE 1)
      /\ Term(f, f, k, j) = f[j] * f[(k - j) % 10] * Doubling(j, (k - j) % 10)
                              * (IF j > k THEN C ELSE 1)
  <2>1. Term(f, f, k, i) = f[i] * f[j] * Doubling(i, j) * (IF i > k THEN C ELSE 1)
    BY TermTyped
  <2> HIDE DEF j
  <2>2. Term(f, f, k, j) = f[j] * f[(k - j) % 10] * Doubling(j, (k - j) % 10)
                             * (IF j > k THEN C ELSE 1)
    BY <1>1, TermTyped
  <2> QED
    BY <2>1, <2>2
<1> HIDE DEF j
<1>4. f[i] \in Int /\ f[j] \in Int
  BY <1>1 DEF Elements
<1>5. f[i] * f[j] = f[j] * f[i]
  BY <1>4
<1>6. Term(f, f, k, j) = f[j] * f[i] * Doubling(i, j) * (IF i > k THEN C ELSE 1)
  BY <1>1, <1>2, <1>3
<1> QED
  BY <1>3, <1>5, <1>6 DEF j

\* Doubling the products of different limbs gives the same columns.
LEMMA SquaresAreProducts ==
    ASSUME Shaped, NEW f \in Elements
    PROVE  Squares(f) = Products(f, f)
<1> DEFINE t(k) == [i \in Limbs |-> Term(f, f, k, i)]
           s(k) == [i \in Limbs |->
                      LET j == (k - i) % 10
                      IN  Term(f, f, k, i) * (CASE i < j -> 2 [] i = j -> 1 [] i > j -> 0)]
<1> SUFFICES ASSUME NEW k \in Limbs PROVE LimbSum(s(k)) = LimbSum(t(k))
  BY DEF Squares, Products
<1> DEFINE T == t(k)
           S == s(k)
<1>1. \A i \in Limbs : /\ (k - i) % 10 \in Limbs /\ T[i] \in Int
                       /\ T[(k - i) % 10] = T[i]
  BY TermTyped, TermsMirror
<1>2. ASSUME NEW i \in Limbs
      PROVE  S[i] = IF 2 * i = k \/ 2 * i = k + 10 THEN T[i]
                    ELSE IF 2 * i < k \/ (i > k /\ 2 * i < k + 10) THEN T[i] + T[i] ELSE 0
  <2> DEFINE j == (k - i) % 10
             times == CASE i < j -> 2 [] i = j -> 1 [] i > j -> 0
  <2>1. S[i] = T[i] * times
    OBVIOUS
  <2>2. j = IF i > k THEN k + 10 - i ELSE k - i
    BY DEF Limbs
  <2>3. j \in Int /\ i \in Int /\ k \in Int
    BY <2>2 DEF Limbs
  <2> HIDE DEF j
  <2>4. /\ i < j => times = 2
        /\ i = j => times = 1
        /\ i > j => times = 0
    BY <2>3
  <2> HIDE DEF times
  <2>5. T[i] \in Int
    BY <1>1
  <2> HIDE DEF S, T, s, t
  <2>6. /\ i < j => S[i] = T[i] + T[i]
        /\ i = j => S[i] = T[i]
        /\ i > j => S[i] = 0
    BY <2>1, <2>4, <2>5
  <2>7. /\ (2 * i = k \/ 2 * i = k + 10) <=> i = j
        /\ (2 * i < k \/ (i > k /\ 2 * i < k + 10)) <=> i < j
    BY <2>2, <2>3 DEF Limbs
  <2> QED
    BY <2>3, <2>6, <2>7
<1> SUFFICES LimbSum(S) = LimbSum(T)
  OBVIOUS
<1> HIDE DEF S, T, s, t
<1>4. CASE k = 0
  <2>1. /\ S[0] = T[0] /\ S[1] = T[1] + T[1] /\ S[2] = T[2] + T[2]
        /\ S[3] = T[3] + T[3] /\ S[4] = T[4] + T[4] /\ S[5] = T[5]
        /\ S[6] = 0 /\ S[7] = 0 /\ S[8] = 0
        /\ S[9] = 0
    BY <1>2, <1>4 DEF Limbs
  <2>2. /\ T[9] = T[1] /\ T[8] = T[2] /\ T[7] = T[3] /\ T[6] = T[4]
    BY <1>1, <1>4 DEF Limbs
  <2>3. /\ T[0] \in Int /\ T[1] \in Int /\ T[2] \in Int /\ T[3] \in Int /\ T[4] \in Int
        /\ T[5] \in Int /\ T[6] \in Int /\ T[7] \in Int /\ T[8] \in Int /\ T[9] \in Int
    BY <1>1 DEF Limbs
  <2> QED
    BY <2>1, <2>2, <2>3 DEF LimbSum
<1>5. CASE k = 1
  <2>1. /\ S[0] = T[0] + T[0] /\ S[1] = 0 /\ S[2] = T[2] + T[2]
        /\ S[3] = T[3] + T[3] /\ S[4] = T[4] + T[4] /\ S[5] = T[5] + T[5]
        /\ S[6] = 0 /\ S[7] = 0 /\ S[8] = 0
        /\ S[9] = 0
    BY <1>2, <1>5 DEF Limbs
  <2>2. /\ T[1] = T[0] /\ T[9] = T[2] /\ T[8] = T[3] /\ T[7] = T[4]
        /\ T[6] = T[5]
    BY <1>1, <1>5 DEF Limbs
  <2>3. /\ T[0] \in Int /\ T[1] \in Int /\ T[2] \in Int /\ T[3] \in Int /\ T[4] \in Int
        /\ T[5] \in Int /\ T[6] \in Int /\ T[7] \in Int /\ T[8] \in Int /\ T[9] \in Int
    BY <1>1 DEF Limbs
  <2> QED
    BY <2>1, <2>2, <2>3 DEF LimbSum
<1>6. CASE k = 2
  <2>1. /\ S[0] = T[0] + T[0] /\ S[1] = T[1] /\ S[2] = 0
        /\ S[3] = T[3] + T[3] /\ S[4] = T[4] + T[4] /\ S[5] = T[5] + T[5]
        /\ S[6] = T[6] /\ S[7] = 0 /\ S[8] = 0
        /\ S[9] = 0
    BY <1>2, <1>6 DEF Limbs
  <2>2. /\ T[2] = T[0] /\ T[9] = T[3] /\ T[8] = T[4] /\ T[7] = T[5]
    BY <1>1, <1>6 DEF Limbs
  <2>3. /\ T[0] \in Int /\ T[1] \in Int /\ T[2] \in Int /\ T[3] \in Int /\ T[4] \in Int
        /\ T[5] \in Int /\ T[6] \in Int /\ T[7] \in Int /\ T[8] \in Int /\ T[9] \in Int
    BY <1>1 DEF Limbs
  <2> QED
    BY <2>1, <2>2, <2>3 DEF LimbSum
<1>7. CASE k = 3
  <2>1. /\ S[0] = T[0] + T[0] /\ S[1] = T[1] + T[1] /\ S[2] = 0
        /\ S[3] = 0 /\ S[4] = T[4] + T[4] /\ S[5] = T[5] + T[5]
        /\ S[6] = T[6] + T[6] /\ S[7] = 0 /\ S[8] = 0
        /\ S[9] = 0
    BY <1>2, <1>7 DEF Limbs
  <2>2. /\ T[3] = T[0] /\ T[2] = T[1] /\ T[9] = T[4] /\ T[8] = T[5]
        /\ T[7] = T[6]
    BY <1>1, <1>7 DEF Limbs
  <2>3. /\ T[0] \in Int /\ T[1] \in Int /\ T[2] \in Int /\ T[3] \in Int /\ T[4] \in Int
        /\ T[5] \in Int /\ T[6] \in Int /\ T[7] \in Int /\ T[8] \in Int /\ T[9] \in Int
    BY <1>1 DEF Limbs
  <2> QED
    BY <2>1, <2>2, <2>3 DEF LimbSum
<1>8. CASE k = 4
  <2>1. /\ S[0] = T[0] + T[0] /\ S[1] = T[1] + T[1] /\ S[2] = T[2]
        /\ S[3] = 0 /\ S[4] = 0 /\ S[5] = T[5] + T[5]
        /\ S[6] = T[6] + T[6] /\ S[7] = T[7] /\ S[8] = 0
        /\ S[9] = 0
    BY <1>2, <1>8 DEF Limbs
  <2>2. /\ T[4] = T[0] /\ T[3] = T[1] /\ T[9] = T[5] /\ T[8] = T[6]
    BY <1>1, <1>8 DEF Limbs
  <2>3. /\ T[0] \in Int /\ T[1] \in Int /\ T[2] \in Int /\ T[3] \in Int /\ T[4] \in Int
        /\ T[5] \in Int /\ T[6] \in Int /\ T[7] \in Int /\ T[8] \in Int /\ T[9] \in Int
    BY <1>1 DEF Limbs
  <2> QED
    BY <2>1, <2>2, <2>3 DEF LimbSum
<1>9. CASE k = 5
  <2>1. /\ S[0] = T[0] + T[0] /\ S[1] = T[1] + T[1] /\ S[2] = T[2] + T[2]
        /\ S[3] = 0 /\ S[4] = 0 /\ S[5] = 0
        /\ S[6] = T[6] + T[6] /\ S[7] = T[7] + T[7] /\ S[8] = 0
        /\ S[9] = 0
    BY <1>2, <1>9 DEF Limbs
  <2>2. /\ T[5] = T[0] /\ T[4] = T[1] /\ T[3] = T[2] /\ T[9] = T[6]
        /\ T[8] = T[7]
    BY <1>1, <1>9 DEF Limbs
  <2>3. /\ T[0] \in Int /\ T[1] \in Int /\ T[2] \in Int /\ T[3] \in Int /\ T[4] \in Int
        /\ T[5] \in Int /\ T[6] \in Int /\ T[7] \in Int /\ T[8] \in Int /\ T[9] \in Int
    BY <1>1 DEF Limbs
  <2> QED
    BY <2>1, <2>2, <2>3 DEF LimbSum
<1>10. CASE k = 6
  <2>1. /\ S[0] = T[0] + T[0] /\ S[1] = T[1] + T[1] /\ S[2] = T[2] + T[2]
        /\ S[3] = T[3] /\ S[4] = 0 /\ S[5] = 0
        /\ S[6] = 0 /\ S[7] = T[7] + T[7] /\ S[8] = T[8]
        /\ S[9] = 0
    BY <1>2, <1>10 DEF Limbs
  <2>2. /\ T[6] = T[0] /\ T[5] = T[1] /\ T[4] = T[2] /\ T[9] = T[7]
    BY <1>1, <1>10 DEF Limbs
  <2>3. /\ T[0] \in Int /\ T[1] \in Int /\ T[2] \in Int /\ T[3] \in Int /\ T[4] \in Int
        /\ T[5] \in Int /\ T[6] \in Int /\ T[7] \in Int /\ T[8] \in Int /\ T[9] \in Int
    BY <1>1 DEF Limbs
  <2> QED
    BY <2>1, <2>2, <2>3 DEF LimbSum
<1>11. CASE k = 7
  <2>1. /\ S[0] = T[0] + T[0] /\ S[1] = T[1] + T[1] /\ S[2] = T[2] + T[2]
        /\ S[3] = T[3] + T[3] /\ S[4] = 0 /\ S[5] = 0
        /\ S[6] = 0 /\ S[7] = 0 /\ S[8] = T[8] + T[8]
        /\ S[9] = 0
    BY <1>2, <1>11 DEF Limbs
  <2>2. /\ T[7] = T[0] /\ T[6] = T[1] /\ T[5] = T[2] /\ T[4] = T[3]
        /\ T[9] = T[8]
    BY <1>1, <1>11 DEF Limbs
  <2>3. /\ T[0] \in Int /\ T[1] \in Int /\ T[2] \in Int /\ T[3] \in Int /\ T[4] \in Int
        /\ T[5] \in Int /\ T[6] \in Int /\ T[7] \in Int /\ T[8] \in Int /\ T[9] \in Int
    BY <1>1 DEF Limbs
  <2> QED
    BY <2>1, <2>2, <2>3 DEF LimbSum
<1>12. CASE k = 8
  <2>1. /\ S[0] = T[0] + T[0] /\ S[1] = T[1] + T[1] /\ S[2] = T[2] + T[2]
        /\ S[3] = T[3] + T[3] /\ S[4] = T[4] /\ S[5] = 0
        /\ S[6] = 0 /\ S[7] = 0 /\ S[8] = 0
        /\ S[9] = T[9]
    BY <1>2, <1>12 DEF Limbs
  <2>2. /\ T[8] = T[0] /\ T[7] = T[1] /\ T[6] = T[2] /\ T[5] = T[3]
    BY <1>1, <1>12 DEF Limbs
  <2>3. /\ T[0] \in Int /\ T[1] \in Int /\ T[2] \in Int /\ T[3] \in Int /\ T[4] \in Int
        /\ T[5] \in Int /\ T[6] \in Int /\ T[7] \in Int /\ T[8] \in Int /\ T[9] \in Int
    BY <1>1 DEF Limbs
  <2> QED
    BY <2>1, <2>2, <2>3 DEF LimbSum
<1>13. CASE k = 9
  <2>1. /\ S[0] = T[0] + T[0] /\ S[1] = T[1] + T[1] /\ S[2] = T[2] + T[2]
        /\ S[3] = T[3] + T[3] /\ S[4] = T[4] + T[4] /\ S[5] = 0
        /\ S[6] = 0 /\ S[7] = 0 /\ S[8] = 0
        /\ S[9] = 0
    BY <1>2, <1>13 DEF Limbs
  <2>2. /\ T[9] = T[0] /\ T[8] = T[1] /\ T[7] = T[2] /\ T[6] = T[3]
        /\ T[5] = T[4]
    BY <1>1, <1>13 DEF Limbs
  <2>3. /\ T[0] \in Int /\ T[1] \in Int /\ T[2] \in Int /\ T[3] \in Int /\ T[4] \in Int
        /\ T[5] \in Int /\ T[6] \in Int /\ T[7] \in Int /\ T[8] \in Int /\ T[9] \in Int
    BY <1>1 DEF Limbs
  <2> QED
    BY <2>1, <2>2, <2>3 DEF LimbSum
<1> QED
  BY <1>4, <1>5, <1>6, <1>7, <1>8, <1>9, <1>10, <1>11, <1>12, <1>13 DEF Limbs

LEMMA SqStandsFor ==
    ASSUME Shaped, NEW f \in Elements
    PROVE  fe_sq(f) \in Elements /\ Same(Number(fe_sq(f)), Number(f) * Number(f))
<1>1. fe_sq(f) = fe_mul(f, f)
  BY SquaresAreProducts DEF fe_sq, fe_mul
<1> QED
  BY <1>1, MulStandsFor

LEMMA Sq2StandsFor ==
    ASSUME Shaped, NEW f \in Elements
    PROVE  fe_sq2(f) \in Elements /\ Same(Number(fe_sq2(f)), 2 * (Number(f) * Number(f)))
<1> DEFINE H == Products(f, f)
           D == fe_add(H, H)
           R == fe_sq2(f)
           n == Number(f) * Number(f)
<1>1. H \in Elements /\ Same(Number(H), n)
  BY ProductsTyped, ProductsMultiply
<1>2. R = Carried(D, ProductOrder)
  BY SquaresAreProducts DEF fe_sq2, fe_add
<1>3. Number(f) \in Int
  BY PartsTyped
<1>4. n \in Int
  BY <1>3
<1> HIDE DEF H, R, n
<1>5. D \in Elements /\ Number(D) = Number(H) + Number(H)
  BY <1>1, AddStandsFor
<1> HIDE DEF D
<1>6. R \in Elements /\ Same(Number(R), Number(D))
  BY <1>2, <1>5, Orders, CarriedKeeps
<1>7. Number(R) \in Int /\ Number(H) \in Int /\ Number(D) \in Int
  BY <1>1, <1>5, <1>6, PartsTyped
<1>8. Number(D) = 2 * Number(H)
  BY <1>5, <1>7
<1>9. Same(2 * Number(H), 2 * n)
  BY <1>1, <1>4, <1>7, SameScales
<1>10. Same(Number(D), 2 * n) /\ 2 * n \in Int
  BY <1>4, <1>8, <1>9
<1>11. Same(Number(R), 2 * n)
  BY <1>6, <1>7, <1>10, SameTransitive
<1> QED
  BY <1>6, <1>11 DEF R, n

-----------------------------------------------------------------------------
(* Unpacking *)

LEMMA DividedTyped ==
    ASSUME NEW a \in Int, NEW b \in Positive
    PROVE  a \div b \in Int /\ a % b \in Int /\ 0 <= a % b /\ a % b < b
<1> DEFINE q == a \div b
           r == a % b
<1>1. Divided(a, b, q, r)
  BY Quotients DEF Positive
<1> HIDE DEF q, r
<1>2. q \in Int /\ r \in Int /\ 0 <= r /\ r < b
  BY <1>1 DEF Divided, Positive
<1> QED
  BY <1>2 DEF q, r

LEMMA RemainderIs ==
    ASSUME NEW a \in Int, NEW b \in Positive, NEW q \in Int, NEW r \in Int,
           0 <= r, r < b, a = b * q + r
    PROVE  a \div b = q /\ a % b = r
<1>1. Divided(a, b, q, r)
  BY DEF Divided, Positive
<1> QED
  BY <1>1, QuotientIs DEF Positive

LEMMA ExactDivision ==
    ASSUME NEW b \in Positive, NEW a \in Positive, b % a = 0
    PROVE  b \div a \in Positive /\ b = a * (b \div a)
<1> DEFINE m == b \div a
           r == b % a
<1>1. Divided(b, a, m, r) /\ r = 0
  BY Quotients DEF Positive
<1> HIDE DEF m, r
<1>2. m \in Int /\ b = a * m
  BY <1>1 DEF Positive, Divided
<1>3. m > 0
  BY <1>2 DEF Positive
<1> QED
  BY <1>2, <1>3 DEF Positive, m

\* The digits of s between the weights a and b.
LEMMA Sliced ==
    ASSUME NEW s \in Int, NEW a \in Positive, NEW b \in Positive, b % a = 0
    PROVE  \E v, high, low \in Int :
              /\ (s \div a) % (b \div a) = v /\ s % b = high /\ s % a = low
              /\ v * a = high - low
<1> DEFINE m == b \div a
           q == s \div a
           r == s % a
           u == q \div m
           v == q % m
           high == s % b
<1>0. (s \div a) % (b \div a) = v /\ s % b = high /\ s % a = r
  OBVIOUS
<1>1. m \in Positive /\ b = a * m
  BY ExactDivision
<1>2. q \in Int /\ r \in Int /\ 0 <= r /\ r < a /\ s = a * q + r
  <2>1. Divided(s, a, q, r)
    BY Quotients DEF Positive
  <2> HIDE DEF q, r
  <2> QED
    BY <2>1 DEF Divided, Positive
<1> HIDE DEF m, q, r
<1>3. u \in Int /\ v \in Int /\ 0 <= v /\ v < m /\ q = m * u + v
  <2>1. Divided(q, m, u, v)
    BY <1>1, <1>2, Quotients DEF Positive
  <2> HIDE DEF u, v
  <2> QED
    BY <1>1, <2>1 DEF Divided, Positive
<1> HIDE DEF u, v
<1>4. a \in Int /\ m \in Int /\ b \in Int
  BY <1>1 DEF Positive
<1>5. a * (m * u + v) = (a * m) * u + a * v
  BY <1>3, <1>4
<1>6. s = b * u + (a * v + r)
  <2> DEFINE av == a * v  bu == (a * m) * u
  <2>1. av \in Int /\ bu \in Int
    BY <1>3, <1>4
  <2>2. s = (bu + av) + r
    BY <1>2, <1>3, <1>5
  <2>3. bu = b * u
    BY <1>1
  <2> HIDE DEF av, bu
  <2>4. s = bu + (av + r)
    BY <1>2, <2>1, <2>2
  <2> QED
    BY <2>3, <2>4 DEF av
<1>7. a * v \in Int /\ 0 <= a * v
  BY <1>3, <1>4 DEF Positive
<1>8. a * v + a <= a * m
  <2>1. v + 1 <= m /\ v + 1 \in Int
    BY <1>3, <1>4
  <2>2. a * (v + 1) <= a * m
    BY <1>4, <2>1 DEF Positive
  <2>3. a * (v + 1) = a * v + a
    BY <1>3, <1>4
  <2> QED
    BY <2>2, <2>3
<1>9. a * v + r \in Int /\ 0 <= a * v + r /\ a * v + r < b
  <2> DEFINE av == a * v
  <2>1. av \in Int /\ 0 <= av /\ av + a <= b
    BY <1>1, <1>7, <1>8
  <2> HIDE DEF av
  <2>2. av + r \in Int /\ 0 <= av + r /\ av + r < b
    BY <1>2, <1>4, <2>1
  <2> QED
    BY <2>2 DEF av
<1>10. high = a * v + r
  BY <1>3, <1>6, <1>9, RemainderIs
<1> HIDE DEF high
<1>11. high \in Int /\ v * a = high - r
  <2> DEFINE av == a * v
  <2>1. av \in Int /\ v * a = av /\ high = av + r
    BY <1>3, <1>4, <1>7, <1>10
  <2> HIDE DEF av
  <2> QED
    BY <1>2, <2>1
<1> QED
  BY <1>0, <1>2, <1>3, <1>11

LEMMA LoadIs ==
    ASSUME Shaped, NEW s \in Int, NEW i \in Limbs
    PROVE  \E v, high, low \in Int :
              /\ Load(s, i) = v /\ s % Cut[i + 1] = high /\ s % Cut[i] = low
              /\ v * Weight(i) = high - low
<1> DEFINE a == Cut[i]
           b == Cut[i + 1]
           w == Weight(i)
           m == a \div w
<1>1. a \in Positive /\ b \in Positive /\ b % a = 0 /\ a % w = 0 /\ w \in Positive
  BY WeightRuns DEF Shaped, Limbs, Positive
<1>2. Load(s, i) = ((s \div a) % (b \div a)) * m
  BY DEF Load
<1> HIDE DEF a, b, w
<1>3. PICK x1, high, low \in Int :
         /\ (s \div a) % (b \div a) = x1 /\ s % b = high /\ s % a = low
         /\ x1 * a = high - low
  BY <1>1, Sliced
<1>4. m \in Positive /\ a = w * m
  BY <1>1, ExactDivision
<1> HIDE DEF m
<1>5. m \in Int /\ w \in Int
  BY <1>1, <1>4 DEF Positive
<1>6. x1 * m \in Int /\ (x1 * m) * w = x1 * (w * m)
  BY <1>5
<1>7. (x1 * m) * w = high - low
  BY <1>3, <1>4, <1>6
<1>8. Load(s, i) = x1 * m
  BY <1>2, <1>3
<1> QED
  BY <1>3, <1>6, <1>7, <1>8 DEF a, b, w

\* The loads cover the string without gap or overlap.
LEMMA LoadsStandFor ==
    ASSUME Shaped, NEW s \in Int
    PROVE  /\ [i \in Limbs |-> Load(s, i)] \in Elements
           /\ Number([i \in Limbs |-> Load(s, i)]) = s % Cut[10]
<1> DEFINE H == [i \in Limbs |-> Load(s, i)]
           lower == [i \in 0 .. 10 |-> s % Cut[i]]
<1>1. H \in Elements
  BY LoadIs DEF Elements
<1>2. \A i \in 0 .. 10 : lower[i] \in Int
  <2>1. \A i \in 0 .. 10 : Cut[i] \in Positive
    BY DEF Shaped, Positive
  <2> QED
    BY <2>1, DividedTyped
<1>3. lower[0] = 0
  <2>1. Cut[0] = 1 /\ 1 \in Positive
    BY DEF Shaped, Positive
  <2>2. s = 1 * s + 0
    OBVIOUS
  <2>3. s % 1 = 0
    BY <2>1, <2>2, RemainderIs
  <2> QED
    BY <2>1, <2>3
<1>4. ASSUME NEW i \in Limbs PROVE Parts(H)[i] = lower[i + 1] - lower[i]
  <2>1. PICK v, high, low \in Int :
           /\ Load(s, i) = v /\ s % Cut[i + 1] = high /\ s % Cut[i] = low
           /\ v * Weight(i) = high - low
    BY LoadIs
  <2>2. H[i] = v
    BY <2>1
  <2>3. lower[i + 1] = high /\ lower[i] = low
    BY <2>1 DEF Limbs
  <2> HIDE DEF H, lower
  <2> QED
    BY <2>1, <2>2, <2>3 DEF Parts
<1>5. Number(H) = LimbSum(Parts(H))
  BY <1>1, PartsTyped
<1> HIDE DEF H, lower
<1>6. /\ lower[0] \in Int /\ lower[1] \in Int /\ lower[2] \in Int /\ lower[3] \in Int
      /\ lower[4] \in Int /\ lower[5] \in Int /\ lower[6] \in Int /\ lower[7] \in Int
      /\ lower[8] \in Int /\ lower[9] \in Int /\ lower[10] \in Int
  BY <1>2
<1>7. /\ Parts(H)[0] = lower[1] - lower[0] /\ Parts(H)[1] = lower[2] - lower[1]
      /\ Parts(H)[2] = lower[3] - lower[2] /\ Parts(H)[3] = lower[4] - lower[3]
      /\ Parts(H)[4] = lower[5] - lower[4] /\ Parts(H)[5] = lower[6] - lower[5]
      /\ Parts(H)[6] = lower[7] - lower[6] /\ Parts(H)[7] = lower[8] - lower[7]
      /\ Parts(H)[8] = lower[9] - lower[8] /\ Parts(H)[9] = lower[10] - lower[9]
  BY <1>4 DEF Limbs
<1>8. LimbSum(Parts(H)) = lower[10]
  BY <1>3, <1>6, <1>7 DEF LimbSum
<1> QED
  BY <1>1, <1>5, <1>8 DEF H, lower

LEMMA UnpackStandsFor ==
    ASSUME Shaped, NEW s \in Int
    PROVE  fe_frombytes(s) \in Elements /\ Same(Number(fe_frombytes(s)), s % Cut[10])
<1> DEFINE H == [i \in Limbs |-> Load(s, i)]
<1>1. H \in Elements /\ Number(H) = s % Cut[10]
  BY LoadsStandFor
<1>2. fe_frombytes(s) = Carried(H, OddEvenOrder)
  BY DEF fe_frombytes
<1> HIDE DEF H
<1> QED
  BY <1>1, <1>2, Orders, CarriedKeeps

-----------------------------------------------------------------------------
(* Packing *)

\* Limbs that are digits, each below its size, stand for a number below the
\* weight after the last.
Digits(h) == h \in Elements /\ \A i \in Limbs : 0 <= h[i] /\ h[i] < Size(i)

LEMMA DigitsBelow ==
    ASSUME Shaped, NEW h, Digits(h)
    PROVE  Number(h) \in Int /\ 0 <= Number(h) /\ Number(h) < Weight(10)
<1> DEFINE W == [i \in 0 .. 10 |-> Weight(i)]
           H == Parts(h)
<1>1. h \in Elements /\ H \in Elements /\ Number(h) = LimbSum(H) /\ Number(h) \in Int
  BY PartsTyped DEF Digits
<1>2. \A i \in 0 .. 10 : W[i] \in Int
  BY WeightTyped
<1>3. W[0] = 1 /\ W[10] = Weight(10)
  BY WeightRuns
<1>4. ASSUME NEW i \in Limbs PROVE 0 <= H[i] /\ H[i] <= W[i + 1] - W[i]
  <2> DEFINE w == Weight(i)  s == Size(i)  d == h[i]
  <2>1. w \in Positive /\ s \in Positive /\ Weight(i + 1) = w * s
    BY WeightRuns, SizeTyped DEF Limbs
  <2>2. d \in Int /\ 0 <= d /\ d < s
    BY DEF Digits, Elements
  <2>3. H[i] = d * w /\ W[i + 1] = Weight(i + 1) /\ W[i] = w
    BY DEF Parts, Limbs
  <2> HIDE DEF w, s, d, H, W
  <2>4. w \in Int /\ s \in Int /\ 0 < w
    BY <2>1 DEF Positive
  <2>5. 0 <= d * w
    BY <2>2, <2>4
  <2>6. (d + 1) * w <= s * w
    <3>1. d + 1 <= s
      BY <2>2, <2>4
    <3> QED
      BY <2>2, <2>4, <3>1
  <2>7. (d + 1) * w = d * w + w /\ s * w = w * s /\ d * w \in Int /\ w * s \in Int
    BY <2>2, <2>4
  <2>8. d * w <= w * s - w
    BY <2>4, <2>6, <2>7
  <2> QED
    BY <2>1, <2>3, <2>5, <2>8
<1> HIDE DEF H, W
<1>5. /\ W[0] \in Int /\ W[1] \in Int /\ W[2] \in Int /\ W[3] \in Int /\ W[4] \in Int
      /\ W[5] \in Int /\ W[6] \in Int /\ W[7] \in Int /\ W[8] \in Int /\ W[9] \in Int
      /\ W[10] \in Int
  BY <1>2
<1>6. /\ 0 <= H[0] /\ H[0] <= W[1] - W[0] /\ 0 <= H[1] /\ H[1] <= W[2] - W[1]
      /\ 0 <= H[2] /\ H[2] <= W[3] - W[2] /\ 0 <= H[3] /\ H[3] <= W[4] - W[3]
      /\ 0 <= H[4] /\ H[4] <= W[5] - W[4] /\ 0 <= H[5] /\ H[5] <= W[6] - W[5]
      /\ 0 <= H[6] /\ H[6] <= W[7] - W[6] /\ 0 <= H[7] /\ H[7] <= W[8] - W[7]
      /\ 0 <= H[8] /\ H[8] <= W[9] - W[8] /\ 0 <= H[9] /\ H[9] <= W[10] - W[9]
  BY <1>4 DEF Limbs
<1>7. 0 <= LimbSum(H) /\ LimbSum(H) <= W[10] - W[0]
  <2>1. /\ H[0] \in Int /\ H[1] \in Int /\ H[2] \in Int /\ H[3] \in Int /\ H[4] \in Int
        /\ H[5] \in Int /\ H[6] \in Int /\ H[7] \in Int /\ H[8] \in Int /\ H[9] \in Int
    BY <1>1, TenTerms
  <2> QED
    BY <1>5, <1>6, <2>1 DEF LimbSum
<1> QED
  BY <1>1, <1>3, <1>5, <1>7

\* What the running quotient divides and what it leaves behind.
LEMMA QuotientRuns ==
    ASSUME Shaped, NEW h \in Elements
    PROVE  \E q : /\ q \in [0 .. 10 -> Int] /\ Quotient(h) = q[10]
                  /\ q[0] = (C * h[9] + Narrow \div 2) \div Narrow
                  /\ \A n \in Limbs : q[n + 1] = (q[n] + h[n]) \div Size(n)
<1> DEFINE start == (C * h[9] + Narrow \div 2) \div Narrow
           Loop(f) == [n \in 0 .. 10 |->
                         IF n = 0 THEN start ELSE (f[n - 1] + h[n - 1]) \div Size(n - 1)]
           q == CHOOSE f : f = Loop(f)
           step == [p \in (0 .. 10 - 1) \X Int |-> (p[2] + h[p[1]]) \div Size(p[1])]
           S == {n \in 0 .. 10 : q[n] \in Int}
<1>1. Quotient(h) = q[10]
  BY DEF Quotient
<1> HIDE DEF q
<1>2. start \in Int
  <2>1. Narrow \in Positive /\ 2 \in Positive /\ C \in Int /\ h[9] \in Int
    BY DEF Shaped, Positive, Elements, Limbs
  <2>2. Narrow \div 2 \in Int
    BY <2>1, DividedTyped DEF Positive
  <2>3. C * h[9] + Narrow \div 2 \in Int
    BY <2>1, <2>2
  <2> QED
    BY <2>1, <2>3, DividedTyped
<1> HIDE DEF start
<1>3. ASSUME NEW n \in Limbs, NEW v \in Int PROVE (v + h[n]) \div Size(n) \in Int
  <2>1. v + h[n] \in Int /\ Size(n) \in Positive
    BY SizeTyped DEF Limbs, Elements
  <2> QED
    BY <2>1, DividedTyped
<1>4. step \in [(0 .. 10 - 1) \X Int -> Int]
  <2>1. \A p \in (0 .. 10 - 1) \X Int : p[1] \in Limbs /\ p[2] \in Int
    BY DEF Limbs
  <2> QED
    BY <1>3, <2>1
<1>5. PICK f : Solves(f, 10, Int, start, step)
  <2> HIDE DEF step
  <2> QED
    BY <1>2, <1>4, Iterates, 10 \in Nat
<1>6. f = Loop(f)
  <2>1. ASSUME NEW n \in 0 .. 10, n # 0 PROVE f[n] = (f[n - 1] + h[n - 1]) \div Size(n - 1)
    <3>1. n - 1 \in 0 .. 10 - 1 /\ (n - 1) + 1 = n /\ f[n - 1] \in Int
      BY <1>5, <2>1 DEF Solves
    <3>2. f[(n - 1) + 1] = step[<<n - 1, f[n - 1]>>]
      BY <1>5, <3>1 DEF Solves
    <3> QED
      BY <3>1, <3>2
  <2>2. f[0] = start /\ f = [n \in 0 .. 10 |-> f[n]]
    BY <1>5 DEF Solves
  <2> QED
    BY <2>1, <2>2
<1>7. q = Loop(q)
  BY <1>6 DEF q
<1>8. /\ q[0] = start
      /\ \A n \in Limbs : q[n + 1] = (q[n] + h[n]) \div Size(n)
  BY <1>7 DEF Limbs
<1>9. 0 .. 10 \subseteq S
  <2>1. 0 \in S
    BY <1>2, <1>8
  <2>2. ASSUME NEW n \in 0 .. 10 - 1, n \in S PROVE n + 1 \in S
    <3>1. n \in Limbs /\ q[n] \in Int /\ n + 1 \in 0 .. 10
      BY <2>2 DEF Limbs
    <3>2. q[n + 1] \in Int
      BY <1>3, <1>8, <3>1
    <3> QED
      BY <3>1, <3>2
  <2> HIDE DEF S
  <2> QED
    BY <2>1, <2>2, Induction
<1>10. q \in [0 .. 10 -> Int]
  BY <1>7, <1>9
<1> QED
  BY <1>1, <1>8, <1>10 DEF start

\* Ten quotients by one size after the other are one quotient by Weight(10).
LEMMA QuotientIsOne ==
    ASSUME Shaped, NEW h \in Elements
    PROVE  \E e, left \in Int :
              /\ e = (C * h[9] + Narrow \div 2) \div Narrow
              /\ Quotient(h) \in Int
              /\ Number(h) + e = Quotient(h) * Weight(10) + left
              /\ 0 <= left /\ left < Weight(10)
<1>1. PICK q : /\ q \in [0 .. 10 -> Int] /\ Quotient(h) = q[10]
               /\ q[0] = (C * h[9] + Narrow \div 2) \div Narrow
               /\ \A n \in Limbs : q[n + 1] = (q[n] + h[n]) \div Size(n)
  BY QuotientRuns
<1> DEFINE r == [n \in Limbs |-> (q[n] + h[n]) % Size(n)]
           K == [n \in 0 .. 10 |-> q[n] * Weight(n)]
           H == Parts(h)
           R == Parts(r)
<1>2. ASSUME NEW n \in Limbs
      PROVE  /\ r[n] \in Int /\ 0 <= r[n] /\ r[n] < Size(n)
             /\ K[n] + H[n] = K[n + 1] + R[n]
  <2> DEFINE a == q[n]  b == h[n]  c == q[n + 1]  s == Size(n)  w == Weight(n)
             d == r[n]
  <2>1. a \in Int /\ b \in Int /\ s \in Positive /\ w \in Int /\ Weight(n + 1) = w * s
    BY <1>1, SizeTyped, WeightTyped, WeightRuns DEF Elements, Limbs
  <2>2. Divided(a + b, s, c, d)
    <3>1. c = (a + b) \div s /\ d = (a + b) % s
      BY <1>1
    <3>2. a + b \in Int
      BY <2>1
    <3> HIDE DEF a, b, c, s, w, d
    <3> QED
      BY <2>1, <3>1, <3>2, Quotients DEF Positive
  <2>3. K[n] = a * w /\ K[n + 1] = c * Weight(n + 1) /\ H[n] = b * w /\ R[n] = d * w
    BY DEF Parts, Limbs
  <2> HIDE DEF a, b, c, s, w, d, K, H, R
  <2>4. s \in Int /\ c \in Int /\ d \in Int /\ 0 <= d /\ d < s /\ a + b = s * c + d
    BY <2>1, <2>2 DEF Divided, Positive
  <2>5. a * w + b * w = (a + b) * w /\ (s * c + d) * w = c * (w * s) + d * w
    BY <2>1, <2>4
  <2>6. K[n] + H[n] = K[n + 1] + R[n]
    BY <2>1, <2>3, <2>4, <2>5
  <2> QED
    BY <2>4, <2>6 DEF d, s
<1>3. Digits(r)
  BY <1>2 DEF Digits, Elements
<1>4. Number(r) \in Int /\ 0 <= Number(r) /\ Number(r) < Weight(10)
  BY <1>3, DigitsBelow
<1>5. R \in Elements /\ Number(r) = LimbSum(R) /\ H \in Elements /\ Number(h) = LimbSum(H)
  BY <1>3, PartsTyped DEF Digits
<1>6. \A n \in 0 .. 10 : K[n] \in Int
  <2>1. \A n \in 0 .. 10 : q[n] \in Int /\ Weight(n) \in Int
    BY <1>1, WeightTyped
  <2>2. \A a, b \in Int : a * b \in Int
    OBVIOUS
  <2> QED
    BY <2>1, <2>2
<1>7. K[0] = q[0] /\ K[10] = Quotient(h) * Weight(10) /\ Quotient(h) \in Int /\ q[0] \in Int
  BY <1>1, WeightRuns
<1> HIDE DEF r, K, H, R
<1>8. LimbSum(H) + K[0] = K[10] + LimbSum(R)
  <2>1. /\ K[0] \in Int /\ K[1] \in Int /\ K[2] \in Int /\ K[3] \in Int /\ K[4] \in Int
        /\ K[5] \in Int /\ K[6] \in Int /\ K[7] \in Int /\ K[8] \in Int /\ K[9] \in Int
        /\ K[10] \in Int
    BY <1>6
  <2>2. /\ K[0] + H[0] = K[1] + R[0] /\ K[1] + H[1] = K[2] + R[1]
        /\ K[2] + H[2] = K[3] + R[2] /\ K[3] + H[3] = K[4] + R[3]
        /\ K[4] + H[4] = K[5] + R[4] /\ K[5] + H[5] = K[6] + R[5]
        /\ K[6] + H[6] = K[7] + R[6] /\ K[7] + H[7] = K[8] + R[7]
        /\ K[8] + H[8] = K[9] + R[8] /\ K[9] + H[9] = K[10] + R[9]
    BY <1>2 DEF Limbs
  <2>3. /\ H[0] \in Int /\ H[1] \in Int /\ H[2] \in Int /\ H[3] \in Int /\ H[4] \in Int
        /\ H[5] \in Int /\ H[6] \in Int /\ H[7] \in Int /\ H[8] \in Int /\ H[9] \in Int
    BY <1>5, TenTerms
  <2>4. /\ R[0] \in Int /\ R[1] \in Int /\ R[2] \in Int /\ R[3] \in Int /\ R[4] \in Int
        /\ R[5] \in Int /\ R[6] \in Int /\ R[7] \in Int /\ R[8] \in Int /\ R[9] \in Int
    BY <1>5, TenTerms
  <2> QED
    BY <2>1, <2>2, <2>3, <2>4 DEF LimbSum
<1>9. Number(h) + q[0] = Quotient(h) * Weight(10) + Number(r)
  BY <1>5, <1>7, <1>8
<1> QED
  BY <1>1, <1>4, <1>7, <1>9

LEMMA FloorCarryKeeps ==
    ASSUME Shaped, NEW h \in Elements, NEW i \in Limbs
    PROVE  /\ FloorCarry(h, i) \in Elements
           /\ i # 9 => /\ Number(FloorCarry(h, i)) = Number(h)
                       /\ 0 <= FloorCarry(h, i)[i] /\ FloorCarry(h, i)[i] < Size(i)
                       /\ \A j \in Limbs : j < i => FloorCarry(h, i)[j] = h[j]
<1> DEFINE s == Size(i)
           k == h[i] \div s
           r == h[i] % s
           H == FloorCarry(h, i)
<1>1. s \in Positive /\ h[i] \in Int
  BY SizeTyped DEF Limbs, Elements
<1>2. Divided(h[i], s, k, r)
  BY <1>1, Quotients DEF Positive
<1>3. H = Hand(h, i, k)
  BY DEF FloorCarry
<1> HIDE DEF s, k, r
<1>4. k \in Int /\ r \in Int /\ 0 <= r /\ r < s /\ h[i] = s * k + r /\ s \in Int
  BY <1>1, <1>2 DEF Divided, Positive
<1>5. H \in Elements /\ (i # 9 => Number(H) = Number(h))
  BY <1>3, <1>4, HandKeeps
<1>6. ASSUME i # 9
      PROVE  H[i] = h[i] - k * s /\ \A j \in Limbs : j < i => H[j] = h[j]
  <2>1. (i + 1) % 10 = i + 1 /\ i + 1 \in Limbs
    BY <1>6 DEF Limbs
  <2> HIDE DEF H
  <2>2. H = [n \in Limbs |-> IF n = i + 1 THEN h[i + 1] + k
                              ELSE IF n = i THEN h[i] - k * s ELSE h[n]]
    BY <1>3, <1>6, <2>1 DEF Hand, Elements, s
  <2> QED
    BY <2>2 DEF Limbs
<1>7. h[i] - k * s = r
  <2>1. s * k = k * s /\ k * s \in Int
    BY <1>4
  <2> QED
    BY <1>4, <2>1
<1> HIDE DEF H
<1>8. i # 9 => /\ Number(H) = Number(h) /\ 0 <= H[i] /\ H[i] < s
               /\ \A j \in Limbs : j < i => H[j] = h[j]
  BY <1>4, <1>5, <1>6, <1>7
<1> QED
  BY <1>5, <1>8 DEF H, s

\* The limbs that fe_tobytes writes out are digits, and what it drops is a
\* multiple of Weight(10).
LEMMA FloorCarriedIs ==
    ASSUME Shaped, NEW h \in Elements
    PROVE  /\ Digits(FloorCarried(h))
           /\ \E k \in Int : Number(h) = Number(FloorCarried(h)) + k * Weight(10)
<1> DEFINE Loop(f) == [n \in 0 .. 9 |-> IF n = 0 THEN h ELSE FloorCarry(f[n - 1], n - 1)]
           after == CHOOSE f : f = Loop(f)
           step == [p \in (0 .. 9 - 1) \X Elements |-> FloorCarry(p[2], p[1])]
           Good(n, a) == /\ a \in Elements /\ Number(a) = Number(h)
                         /\ \A j \in Limbs : j < n => 0 <= a[j] /\ a[j] < Size(j)
           S == {n \in 0 .. 9 : Good(n, after[n])}
           a == after[9]
           t == [a EXCEPT ![9] = a[9] % Narrow]
<1>1. FloorCarried(h) = t
  BY DEF FloorCarried
<1> HIDE DEF after
<1>2. step \in [(0 .. 9 - 1) \X Elements -> Elements]
  <2>1. ASSUME NEW p \in (0 .. 9 - 1) \X Elements PROVE FloorCarry(p[2], p[1]) \in Elements
    <3>1. p[2] \in Elements /\ p[1] \in Limbs
      BY DEF Limbs
    <3> QED
      BY <3>1, FloorCarryKeeps
  <2> QED
    BY <2>1
<1>3. PICK f : Solves(f, 9, Elements, h, step)
  <2> HIDE DEF step
  <2> QED
    BY <1>2, Iterates, 9 \in Nat
<1>4. f = Loop(f)
  <2>1. ASSUME NEW n \in 0 .. 9, n # 0 PROVE f[n] = FloorCarry(f[n - 1], n - 1)
    <3>1. n - 1 \in 0 .. 9 - 1 /\ (n - 1) + 1 = n /\ f[n - 1] \in Elements
      BY <1>3, <2>1 DEF Solves
    <3>2. f[(n - 1) + 1] = step[<<n - 1, f[n - 1]>>]
      BY <1>3, <3>1 DEF Solves
    <3> QED
      BY <3>1, <3>2
  <2>2. f[0] = h /\ f = [n \in 0 .. 9 |-> f[n]]
    BY <1>3 DEF Solves
  <2> QED
    BY <2>1, <2>2
<1>5. after = Loop(after)
  BY <1>4 DEF after
<1>6. after[0] = h /\ \A n \in 0 .. 9 - 1 : after[n + 1] = FloorCarry(after[n], n)
  BY <1>5
<1>7. 0 .. 9 \subseteq S
  <2>1. 0 \in S
    BY <1>6 DEF Limbs
  <2>2. ASSUME NEW n \in 0 .. 9 - 1, n \in S PROVE n + 1 \in S
    <3> DEFINE b == after[n]
               c == after[n + 1]
    <3>1. Good(n, b) /\ n \in Limbs /\ n # 9 /\ n + 1 \in 0 .. 9
      BY <2>2 DEF Limbs
    <3>2. c = FloorCarry(b, n)
      BY <1>6
    <3> HIDE DEF b, c
    <3>3. /\ c \in Elements /\ Number(c) = Number(b)
          /\ 0 <= c[n] /\ c[n] < Size(n)
          /\ \A j \in Limbs : j < n => c[j] = b[j]
      BY <3>1, <3>2, FloorCarryKeeps
    <3>4. ASSUME NEW j \in Limbs, j < n + 1 PROVE 0 <= c[j] /\ c[j] < Size(j)
      <4>1. CASE j < n
        BY <3>1, <3>3, <4>1
      <4>2. CASE j = n
        BY <3>3, <4>2
      <4> QED
        BY <3>1, <3>4, <4>1, <4>2 DEF Limbs
    <3>5. Good(n + 1, c)
      BY <3>1, <3>3, <3>4
    <3> HIDE DEF Good
    <3> QED
      BY <3>1, <3>5 DEF c
  <2> HIDE DEF S
  <2> QED
    BY <2>1, <2>2, Induction, 9 \in Nat
<1>8. Good(9, a)
  <2>1. 9 \in S
    BY <1>7
  <2> HIDE DEF Good
  <2> QED
    BY <2>1
<1> HIDE DEF a
<1>9. a \in Elements /\ a[9] \in Int /\ Narrow \in Positive /\ 9 \in Limbs
  BY <1>8 DEF Elements, Limbs, Shaped, Positive
<1> DEFINE k == a[9] \div Narrow
           r == a[9] % Narrow
<1>10. Divided(a[9], Narrow, k, r)
  BY <1>9, Quotients DEF Positive
<1>11. t = [a EXCEPT ![9] = r]
  OBVIOUS
<1> HIDE DEF k, r, t
<1>12. k \in Int /\ r \in Int /\ 0 <= r /\ r < Narrow /\ a[9] = Narrow * k + r /\ Narrow \in Int
  BY <1>9, <1>10 DEF Divided, Positive
<1>13. t \in Elements /\ t[9] = r /\ \A j \in Limbs : j # 9 => t[j] = a[j]
  BY <1>9, <1>11, <1>12 DEF Elements
<1>14. Digits(t)
  <2>1. ASSUME NEW j \in Limbs PROVE 0 <= t[j] /\ t[j] < Size(j)
    <3>1. CASE j = 9
      BY <1>12, <1>13, <3>1 DEF Size
    <3>2. CASE j # 9
      <4>1. j < 9
        BY <3>2 DEF Limbs
      <4> QED
        BY <1>8, <1>13, <3>2, <4>1
    <3> QED
      BY <3>1, <3>2
  <2> QED
    BY <1>13, <2>1 DEF Digits
<1>15. Number(a) = Number(t) + k * Weight(10)
  <2> DEFINE w == Weight(9)
             A == Parts(a)
             v == r * w
  <2>1. w \in Int /\ Weight(10) = w * Narrow
    <3>1. Weight(9 + 1) = Weight(9) * Size(9) /\ Size(9) = Narrow
      BY WeightRuns DEF Limbs, Size
    <3>2. Weight(9 + 1) = Weight(10)
      OBVIOUS
    <3> QED
      BY <3>1, <3>2, WeightTyped
  <2>2. A \in Elements /\ Number(a) = LimbSum(A) /\ Number(t) = LimbSum(Parts(t))
    BY <1>9, <1>13, PartsTyped
  <2>3. A[9] = a[9] * w
    BY DEF Parts, Limbs
  <2>4. Parts(t) = [A EXCEPT ![9] = v]
    BY <1>13 DEF Parts, Limbs
  <2> HIDE DEF A, w
  <2>5. v \in Int
    BY <1>12, <2>1
  <2>6. LimbSum(Parts(t)) = LimbSum(A) - A[9] + v
    <3> HIDE DEF v
    <3>1. LimbSum([A EXCEPT ![9] = v]) = LimbSum(A) - A[9] + v
      BY <1>9, <2>2, <2>5, SumExcept
    <3> QED
      BY <2>4, <3>1
  <2>7. (Narrow * k + r) * w = k * (w * Narrow) + r * w
    BY <1>12, <2>1
  <2>8. A[9] = k * Weight(10) + v
    BY <1>12, <2>1, <2>3, <2>7
  <2>9. k * Weight(10) \in Int /\ LimbSum(A) \in Int
    BY <1>12, <2>1, <2>2, SumTyped
  <2> HIDE DEF v
  <2> QED
    BY <2>2, <2>5, <2>6, <2>8, <2>9
<1> QED
  BY <1>1, <1>8, <1>12, <1>14, <1>15

\* The estimate from the last limb is never a whole quotient off: the argument
\* of the comment of fe_tobytes, without its fractions.  w is Weight(10), p is
\* P, a the number packed, q and r its quotient and remainder by P, e the
\* estimate, b what the other limbs stand for and m a bound on it.
LEMMA EstimateIsClose ==
    ASSUME NEW w \in Positive, NEW c \in Nat, NEW p \in Int, NEW q \in {-2, -1, 0, 1},
           NEW r \in Int, NEW e \in Int, NEW a \in Int, NEW b \in Int, NEW m \in Nat,
           NEW d \in Int,
           w = p + c, a = p * q + r, 0 <= r, r < p,
           2 * (m * c + 2 * c * c) < w, -m <= b, b <= m,
           2 * (w * e) = 2 * (c * (a - b)) + w - d, 0 <= d, d < 2 * w
    PROVE  0 <= r - q * c + e /\ r - q * c + e < w
<1> DEFINE v == r - q * c + e
           cc == c * c
           cb == c * b
           cm == m * c
           wr == w * r
           cr == c * r
           ww == w * w
<1>1. w \in Int /\ 0 < w /\ c \in Int /\ q \in Int /\ v \in Int
  BY DEF Positive
<1>2. /\ cc \in Int /\ cb \in Int /\ cm \in Int /\ wr \in Int /\ cr \in Int /\ ww \in Int
      /\ 0 <= cc /\ 0 <= cr /\ 0 <= wr
  BY <1>1
<1>3. w * v = wr + cr - q * cc + w * e - c * a
  <2>1. p = w - c
    BY <1>1
  <2>2. a = (w - c) * q + r
    BY <2>1
  <2>3. c * ((w - c) * q + r) = c * w * q - cc * q + cr
    BY <1>1
  <2>4. w * v = wr - w * q * c + w * e
    BY <1>1
  <2>5. c * w * q = w * q * c /\ cc * q = q * cc
    BY <1>1, <1>2
  <2>6. c * a = c * w * q - cc * q + cr
    BY <2>2, <2>3
  <2>7. w * q * c \in Int /\ q * cc \in Int /\ w * e \in Int
    BY <1>1, <1>2
  <2> QED
    BY <1>2, <2>4, <2>5, <2>6, <2>7
<1>4. c * (a - b) = c * a - cb
  BY <1>1
<1>5. 2 * (w * v) = 2 * wr + 2 * cr - 2 * (q * cc) - 2 * cb + w - d
  <2>1. w * e \in Int /\ c * a \in Int /\ q * cc \in Int /\ w * v \in Int
    BY <1>1, <1>2
  <2> DEFINE we == w * e  ca == c * a  qc == q * cc  wy == w * v
  <2>2. 2 * we = 2 * (ca - cb) + w - d /\ wy = wr + cr - qc + we - ca
    BY <1>3, <1>4
  <2>3. we \in Int /\ ca \in Int /\ qc \in Int /\ wy \in Int
    BY <2>1
  <2> HIDE DEF we, ca, qc, wy, cc, cb, cm, wr, cr, ww
  <2>4. 2 * wy = 2 * wr + 2 * cr - 2 * qc - 2 * cb + w - d
    BY <1>1, <1>2, <2>2, <2>3
  <2> QED
    BY <2>4 DEF wy, qc
<1>6. -cm <= cb /\ cb <= cm
  <2>1. c * b <= c * m /\ c * (-m) <= c * b
    BY <1>1
  <2>2. c * m = m * c /\ c * (-m) = -(m * c)
    BY <1>1
  <2> QED
    BY <2>1, <2>2
<1>7. 2 * cm + 4 * cc < w
  BY <1>1
<1>8. wr + cr <= ww - w
  <2>1. r <= w - c - 1
    BY <1>1
  <2>2. (w + c) * r <= (w + c) * (w - c - 1)
    BY <1>1, <2>1
  <2>3. (w + c) * (w - c - 1) = ww - cc - w - c
    BY <1>1
  <2>4. (w + c) * r = wr + cr
    BY <1>1
  <2> QED
    BY <1>1, <1>2, <2>2, <2>3, <2>4
<1>9. -2 * w < 2 * (w * v) /\ 2 * (w * v) < 2 * ww
  <2> DEFINE wy == w * v
  <2>1. wy \in Int
    BY <1>1
  <2>2. 2 * wy = 2 * wr + 2 * cr - 2 * (q * cc) - 2 * cb + w - d
    BY <1>5
  <2> HIDE DEF wy, cc, cb, cm, wr, cr, ww
  <2>3. -2 * w < 2 * wy /\ 2 * wy < 2 * ww
    BY <1>1, <1>2, <1>6, <1>7, <1>8, <2>1, <2>2
  <2> QED
    BY <2>3 DEF wy
<1> HIDE DEF v
<1>10. 0 <= v
  <2>1. CASE v <= -1
    <3>1. w * v <= w * (-1)
      BY <1>1, <2>1
    <3> QED
      BY <1>1, <1>9, <3>1
  <2> QED
    BY <1>1, <2>1
<1>11. v < w
  <2>1. CASE w <= v
    <3>1. w * w <= w * v
      BY <1>1, <2>1
    <3> QED
      BY <1>1, <1>9, <3>1
  <2> QED
    BY <1>1, <2>1
<1> QED
  BY <1>10, <1>11 DEF v

\* fe_tobytes takes the quotient by P.
LEMMA QuotientIsExact ==
    ASSUME Shaped, NEW h \in Elements, Packable(h)
    PROVE  Divided(Number(h), P, Quotient(h), Number(h) % P)
<1> DEFINE w == Weight(10)
           p == P
           a == Number(h)
           q == a \div p
           r == a % p
           zero == [h EXCEPT ![9] = 0]
           b == Number(zero)
           m == IF b < 0 THEN -b ELSE b
           w9 == Weight(9)
           n == Narrow
           half == Narrow \div 2
           x9 == h[9]
           est == (C * x9 + half) \div n
           rest == (C * x9 + half) % n
<1>1. /\ p \in Positive /\ w = p + C /\ C \in Nat /\ w \in Positive
      /\ a \in Int /\ x9 \in Int /\ zero \in Elements /\ 9 \in Limbs
  BY Modulus, PartsTyped DEF Elements, Limbs
<1>2. b \in Int
  <2> HIDE DEF zero
  <2> QED
    BY <1>1, PartsTyped
<1>3. Divided(a, p, q, r)
  BY <1>1, Quotients DEF Positive
<1>4. /\ -2 * p <= a /\ a < 2 * p
      /\ 2 * (m * C + 2 * C * C) < w
  BY DEF Packable
<1>5. w9 \in Positive /\ n \in Positive /\ w = w9 * n
  <2>1. Weight(9 + 1) = Weight(9) * Size(9) /\ Size(9) = Narrow
    BY WeightRuns DEF Limbs, Size
  <2>2. Weight(9 + 1) = Weight(10)
    OBVIOUS
  <2> QED
    BY <2>1, <2>2, WeightRuns DEF Shaped, Positive
<1>6. half \in Int /\ n = 2 * half
  <2>1. Divided(n, 2, half, n % 2) /\ n % 2 = 0
    BY <1>5, Quotients DEF Shaped, Positive
  <2> HIDE DEF half, n
  <2> QED
    BY <2>1 DEF Divided
<1>7. Divided(C * x9 + half, n, est, rest)
  <2>1. C * x9 + half \in Int
    BY <1>1, <1>6
  <2> QED
    BY <1>5, <2>1, Quotients DEF Positive
<1>8. b = a - x9 * w9
  <2> DEFINE H == Parts(h)
             z == [H EXCEPT ![9] = 0]
  <2>1. H \in Elements /\ a = LimbSum(H) /\ b = LimbSum(Parts(zero))
    BY <1>1, PartsTyped
  <2>2. H[9] = x9 * w9
    BY <1>1 DEF Parts
  <2>3. Parts(zero) = z
    <3>1. Weight(9) \in Int
      BY WeightTyped
    <3>2. \A i \in Limbs : Parts(zero)[i] = z[i]
      BY <1>1, <3>1 DEF Parts, Elements
    <3> QED
      BY <3>2 DEF Parts
  <2> HIDE DEF H
  <2>4. LimbSum(z) = LimbSum(H) - H[9] + 0
    BY <1>1, <2>1, SumExcept, 0 \in Int
  <2>5. LimbSum(H) \in Int /\ x9 * w9 \in Int
    BY <1>1, <1>5, <2>1 DEF Positive
  <2> QED
    BY <2>1, <2>2, <2>3, <2>4, <2>5
<1>9. PICK e, left \in Int :
         /\ e = est /\ Quotient(h) \in Int
         /\ a + e = Quotient(h) * w + left
         /\ 0 <= left /\ left < w
  BY QuotientIsOne
<1> HIDE DEF w, p, a, q, r, zero, b, m, w9, n, half, x9, est, rest
<1>10. /\ q \in Int /\ r \in Int /\ 0 <= r /\ r < p /\ a = p * q + r
       /\ p \in Int /\ w \in Int /\ 0 < p /\ 0 < w /\ w9 \in Int /\ 0 < w9 /\ n \in Int
  BY <1>1, <1>3, <1>5 DEF Divided, Positive
<1>11. q \in {-2, -1, 0, 1}
  <2>1. q < 2
    <3>1. CASE q >= 2
      <4>1. p * q >= p * 2
        BY <1>10, <3>1
      <4> QED
        BY <1>1, <1>4, <1>10, <4>1
    <3> QED
      BY <1>10, <3>1
  <2>2. q > -3
    <3>1. CASE q <= -3
      <4>1. p * q <= p * (-3)
        BY <1>10, <3>1
      <4>2. p * (-3) = -(3 * p)
        BY <1>10
      <4>3. p * q \in Int
        BY <1>10
      <4> QED
        BY <1>1, <1>4, <1>10, <4>1, <4>2, <4>3
    <3> QED
      BY <1>10, <3>1
  <2> QED
    BY <1>10, <2>1, <2>2
<1>12. m \in Nat /\ -m <= b /\ b <= m
  BY <1>2 DEF m
<1> DEFINE d == 2 * (rest * w9)
<1>13. est \in Int /\ rest \in Int /\ 0 <= rest /\ rest < n /\ C * x9 + half = n * est + rest
  BY <1>7, <1>10 DEF Divided
<1>14. d \in Int /\ 0 <= d /\ d < 2 * w
  <2>1. rest * w9 \in Int /\ 0 <= rest * w9
    BY <1>10, <1>13
  <2>2. (n - rest) * w9 > 0
    BY <1>10, <1>13
  <2>3. (n - rest) * w9 = w9 * n - rest * w9
    BY <1>10, <1>13
  <2>4. rest * w9 < w
    BY <1>5, <1>10, <2>1, <2>2, <2>3
  <2> QED
    BY <1>10, <2>1, <2>4
<1>15. 2 * (w * est) = 2 * (C * (a - b)) + w - d
  <2>1. C * x9 * w9 + half * w9 = w * est + rest * w9
    <3>1. (C * x9 + half) * w9 = C * x9 * w9 + half * w9
      BY <1>1, <1>6, <1>10
    <3>2. (n * est + rest) * w9 = (w9 * n) * est + rest * w9
      BY <1>10, <1>13
    <3> QED
      BY <1>5, <1>13, <3>1, <3>2
  <2>2. w = 2 * (half * w9)
    <3>1. w9 * (2 * half) = 2 * (half * w9)
      BY <1>6, <1>10
    <3> QED
      BY <1>5, <1>6, <3>1
  <2>3. x9 * w9 = a - b
    <3>1. x9 * w9 \in Int
      BY <1>1, <1>10
    <3> QED
      BY <1>1, <1>2, <1>8, <3>1
  <2>4. C * x9 * w9 = C * (x9 * w9)
    BY <1>1, <1>10
  <2>5. C * x9 * w9 = C * (a - b)
    BY <2>3, <2>4
  <2> DEFINE u == C * (a - b)  we == w * est  hw == half * w9  rw == rest * w9
  <2>6. u \in Int /\ we \in Int /\ hw \in Int /\ rw \in Int
    BY <1>1, <1>2, <1>6, <1>10, <1>13
  <2>7. u + hw = we + rw /\ w = 2 * hw /\ d = 2 * rw
    BY <2>1, <2>2, <2>5
  <2> HIDE DEF u, we, hw, rw, d
  <2>8. 2 * we = 2 * u + w - d
    BY <1>10, <2>6, <2>7
  <2> QED
    BY <2>8 DEF u, we
<1> HIDE DEF d
<1>16. 0 <= r - q * C + est /\ r - q * C + est < w
  BY <1>1, <1>2, <1>4, <1>10, <1>11, <1>12, <1>13, <1>14, <1>15, EstimateIsClose
<1>17. a + est = w * q + (r - q * C + est)
  <2>1. w * q = p * q + q * C
    BY <1>1, <1>10
  <2>2. p * q \in Int /\ q * C \in Int
    BY <1>1, <1>10
  <2> QED
    BY <1>1, <1>10, <1>13, <2>1, <2>2
<1>18. (a + est) \div w = q
  <2> DEFINE v == r - q * C + est
             s == a + est
  <2>1. v \in Int /\ 0 <= v /\ v < w /\ s \in Int /\ s = w * q + v
    BY <1>1, <1>10, <1>13, <1>16, <1>17
  <2> HIDE DEF v, s
  <2>2. s \div w = q
    BY <1>1, <1>10, <2>1, RemainderIs
  <2> QED
    BY <2>2 DEF s
<1>19. (a + est) \div w = Quotient(h)
  <2> DEFINE s == a + est
             k == Quotient(h)
  <2>1. s \in Int /\ k \in Int /\ s = k * w + left
    BY <1>1, <1>9, <1>13
  <2> HIDE DEF s, k
  <2>2. k * w = w * k
    BY <1>10, <2>1
  <2>3. s = w * k + left
    BY <2>1, <2>2
  <2>4. s \div w = k
    BY <1>1, <1>9, <2>1, <2>3, RemainderIs
  <2> QED
    BY <2>4 DEF s, k
<1>20. q = Quotient(h)
  BY <1>18, <1>19
<1> QED
  BY <1>3, <1>20 DEF a, p, r

\* The one encoding below P of what the limbs stand for.
LEMMA PacksResidue ==
    ASSUME Shaped, NEW h \in Elements, Packable(h)
    PROVE  fe_tobytes(h) = Number(h) % P
<1> DEFINE q == Quotient(h)
           a == Number(h)
           r == a % P
           v == h[0] + C * q
           g == [h EXCEPT ![0] = v]
           t == FloorCarried(g)
           w == Weight(10)
           p == P
<1>1. /\ q \in Int /\ r \in Int /\ 0 <= r /\ r < p /\ a = p * q + r
      /\ p \in Int /\ C \in Nat /\ w \in Positive /\ w = p + C /\ a \in Int
  <2>1. Divided(a, p, q, r)
    BY QuotientIsExact
  <2>2. p \in Int /\ C \in Nat /\ w \in Positive /\ w = p + C /\ a \in Int
    BY Modulus, PartsTyped DEF Positive
  <2> HIDE DEF a, p, q, r, w
  <2> QED
    BY <2>1, <2>2 DEF Divided
<1>2. fe_tobytes(h) = Number(t)
  BY DEF fe_tobytes
<1>3. v \in Int /\ h[0] \in Int /\ 0 \in Limbs
  BY <1>1 DEF Elements, Limbs
<1> HIDE DEF q, a, r, w, p
<1>4. g \in Elements
  BY <1>3, SumExcept
<1>5. Number(g) = a + C * q
  <2> DEFINE H == Parts(h)
             z == [H EXCEPT ![0] = v]
  <2>1. H \in Elements /\ a = LimbSum(H) /\ Number(g) = LimbSum(Parts(g))
    <3> HIDE DEF g
    <3> QED
      BY <1>4, PartsTyped DEF a
  <2>2. Weight(0) = 1
    BY WeightRuns
  <2>3. H[0] = h[0]
    BY <1>3, <2>2 DEF Parts
  <2> HIDE DEF v
  <2>4. Parts(g) = z
    <3>1. \A i \in Limbs : Parts(g)[i] = z[i]
      BY <1>3, <2>2 DEF Parts, Elements
    <3> QED
      BY <3>1 DEF Parts
  <2> HIDE DEF H, g
  <2>5. LimbSum(z) = LimbSum(H) - H[0] + v
    BY <1>3, <2>1, SumExcept
  <2>6. LimbSum(H) \in Int /\ C * q \in Int
    BY <1>1, <2>1
  <2>7. Number(g) = a - h[0] + v
    BY <2>1, <2>3, <2>4, <2>5
  <2> QED
    BY <1>1, <1>3, <2>6, <2>7 DEF v
<1> HIDE DEF g
<1>6. Digits(t) /\ \E k \in Int : Number(g) = Number(t) + k * w
  BY <1>4, FloorCarriedIs DEF w
<1>7. PICK k \in Int : Number(g) = Number(t) + k * w
  BY <1>6
<1>8. Number(t) \in Int /\ 0 <= Number(t) /\ Number(t) < w
  BY <1>6, DigitsBelow DEF w
<1> HIDE DEF t
<1>9. Number(g) \in Int /\ w \in Int
  BY <1>1, <1>4, PartsTyped DEF Positive
<1>10. Number(g) % w = Number(t)
  <2>1. k * w = w * k
    BY <1>9
  <2>2. k * w \in Int
    BY <1>9
  <2>3. Number(g) = w * k + Number(t)
    BY <1>7, <1>8, <1>9, <2>1, <2>2
  <2>4. w \in Positive
    BY <1>1
  <2> QED
    BY <1>8, <1>9, <2>3, <2>4, RemainderIs
<1>11. Number(g) % w = r
  <2>1. w * q = p * q + C * q
    BY <1>1
  <2>2. p * q \in Int /\ C * q \in Int
    BY <1>1
  <2>3. Number(g) = w * q + r /\ r < w
    BY <1>1, <1>5, <2>1, <2>2
  <2>4. w \in Positive /\ q \in Int /\ r \in Int /\ 0 <= r
    BY <1>1
  <2> QED
    BY <1>9, <2>3, <2>4, RemainderIs
<1> QED
  BY <1>2, <1>10, <1>11 DEF r, a

-----------------------------------------------------------------------------
(* The machine *)

\* What the theorems ask of the parameters of FieldCalls: the reference product
\* is one modulo P.
Reference ==
  /\ Small \in Residue
  /\ Strings \subseteq Nat
  /\ \A a, b \in Residue : Times(a, b) \in Int /\ Same(Times(a, b), a * b)

\* A register whose limbs stand for its value.
Right(r) ==
  /\ r \in [limbs : Elements, value : Residue]
  /\ Value(r.limbs) = r.value

FieldInv == Right(x) /\ Right(y)

LEMMA RightMeans ==
    ASSUME Shaped, NEW r, Right(r)
    PROVE  /\ r.limbs \in Elements /\ r.value \in Residue /\ r.value \in Int
           /\ Number(r.limbs) \in Int /\ Same(Number(r.limbs), r.value)
<1> DEFINE a == Number(r.limbs)
           v == r.value
<1>1. r.limbs \in Elements /\ v \in Residue /\ v = a % P
  BY DEF Right, Value
<1>2. a \in Int
  BY <1>1, PartsTyped
<1> HIDE DEF a, v
<1>3. Same(a, v)
  BY <1>1, <1>2, SameAsRemainder
<1>4. v \in Int
  BY <1>1, Modulus DEF Residue, Positive
<1> QED
  BY <1>1, <1>2, <1>3, <1>4 DEF a, v

LEMMA MakesRight ==
    ASSUME Shaped, NEW l \in Elements, NEW v \in Int, Same(Number(l), v)
    PROVE  Right([limbs |-> l, value |-> v % P])
<1>1. Number(l) \in Int
  BY PartsTyped
<1>2. Number(l) % P = v % P
  BY <1>1, SameRemainder
<1>3. v % P \in Residue
  BY SameAsRemainder
<1> DEFINE r == v % P
<1>4. r \in Residue /\ Value(l) = r
  BY <1>2, <1>3 DEF Value
<1> HIDE DEF r
<1>5. Right([limbs |-> l, value |-> r])
  BY <1>4 DEF Right
<1> QED
  BY <1>5 DEF r

LEMMA SetKeeps ==
    ASSUME Shaped, FieldInv, NEW l \in Elements, NEW v \in Int, Same(Number(l), v), Set(l, v)
    PROVE  FieldInv'
<1>1. Right([limbs |-> l, value |-> v % P])
  BY MakesRight
<1>2. x' = [limbs |-> l, value |-> v % P] /\ y' = y
  BY DEF Set
<1>3. Right(x')
  BY <1>1, <1>2
<1>4. Right(y')
  BY <1>2 DEF FieldInv
<1> QED
  BY <1>3, <1>4 DEF FieldInv, Right, Value

LEMMA FieldInit ==
    ASSUME Shaped, Reference, Init
    PROVE  FieldInv
<1>1. ASSUME NEW s \in Strings PROVE Right(Unpacked(s))
  <2>1. s \in Int /\ Cut[10] \in Positive
    BY DEF Reference, Shaped, Positive
  <2> DEFINE v == s % Cut[10]
             l == fe_frombytes(s)
  <2>2. v \in Int /\ l \in Elements /\ Same(Number(l), v)
    BY <2>1, DividedTyped, UnpackStandsFor
  <2>3. Unpacked(s) = [limbs |-> l, value |-> v % P]
    BY DEF Unpacked
  <2> HIDE DEF v, l
  <2> QED
    BY <2>2, <2>3, MakesRight
<1>2. PICK r \in Strings, s \in Strings : x = Unpacked(r) /\ y = Unpacked(s)
  BY DEF Init
<1>3. Right(x) /\ Right(y)
  BY <1>1, <1>2
<1> QED
  BY <1>3 DEF FieldInv

LEMMA FieldStep ==
    ASSUME Shaped, Reference, FieldInv, [Next]_vars
    PROVE  FieldInv'
<1> DEFINE f == x.limbs
           g == y.limbs
           a == x.value
           b == y.value
<1>1. /\ f \in Elements /\ g \in Elements /\ a \in Residue /\ b \in Residue
      /\ a \in Int /\ b \in Int /\ Number(f) \in Int /\ Number(g) \in Int
      /\ Same(Number(f), a) /\ Same(Number(g), b)
  BY RightMeans DEF FieldInv
<1>2. Small \in Residue /\ Small \in Int
  BY Modulus DEF Reference, Residue, Positive
<1>3. ASSUME NEW c \in Residue, NEW d \in Residue, NEW n \in Int, Same(n, c * d),
             c \in Int, d \in Int
      PROVE  Times(c, d) \in Int /\ Same(n, Times(c, d))
  <2>1. Times(c, d) \in Int /\ Same(Times(c, d), c * d) /\ c * d \in Int
    BY <1>3 DEF Reference
  <2> DEFINE t == Times(c, d)
             m == c * d
  <2>2. t \in Int /\ m \in Int /\ Same(t, m) /\ Same(n, m)
    BY <1>3, <2>1
  <2> HIDE DEF t, m
  <2>3. Same(m, t)
    BY <2>2, SameSymmetric
  <2>4. Same(n, t)
    BY <2>2, <2>3, SameTransitive
  <2> QED
    BY <2>1, <2>4 DEF t
<1>4. CASE Add
  <2> DEFINE l == fe_add(f, g)
  <2>1. l \in Elements /\ Number(l) = Number(f) + Number(g)
    BY <1>1, AddStandsFor
  <2>2. Same(Number(f) + Number(g), a + b)
    BY <1>1, SameAdds
  <2>3. Set(l, a + b)
    BY <1>4 DEF Add
  <2> HIDE DEF f, g, a, b, l
  <2> QED
    BY <1>1, <2>1, <2>2, <2>3, SetKeeps
<1>5. CASE Sub
  <2> DEFINE l == fe_sub(f, g)
  <2>1. l \in Elements /\ Number(l) = Number(f) - Number(g)
    BY <1>1, AddStandsFor
  <2>2. Same(Number(f) - Number(g), a - b)
    BY <1>1, SameAdds
  <2>3. Set(l, a - b)
    BY <1>5 DEF Sub
  <2> HIDE DEF f, g, a, b, l
  <2> QED
    BY <1>1, <2>1, <2>2, <2>3, SetKeeps
<1>6. CASE Neg
  <2> DEFINE l == fe_neg(f)
  <2>1. l \in Elements /\ Number(l) = -Number(f)
    BY <1>1, NegStandsFor
  <2>2. Same(-Number(f), -a)
    <3> DEFINE n == Number(f)
    <3>1. n \in Int /\ Same(n, a)
      BY <1>1
    <3> HIDE DEF n, a
    <3>2. Same((-1) * n, (-1) * a)
      BY <1>1, <3>1, SameScales
    <3>3. (-1) * n = -n /\ (-1) * a = -a
      BY <1>1, <3>1
    <3> QED
      BY <3>2, <3>3 DEF n
  <2>3. Set(l, -a)
    BY <1>6 DEF Neg
  <2> HIDE DEF f, g, a, b, l
  <2> QED
    BY <1>1, <2>1, <2>2, <2>3, SetKeeps
<1>7. CASE Mul
  <2> DEFINE l == fe_mul(f, g)
             n == Number(f) * Number(g)
  <2>1. l \in Elements /\ Same(Number(l), n) /\ n \in Int /\ Number(l) \in Int
    BY <1>1, MulStandsFor, PartsTyped
  <2>2. Same(n, a * b) /\ a * b \in Int
    <3> DEFINE nf == Number(f)
               ng == Number(g)
    <3>1. nf \in Int /\ ng \in Int /\ Same(nf, a) /\ Same(ng, b)
      BY <1>1
    <3> HIDE DEF nf, ng, a, b
    <3>2. Same(nf * ng, a * b) /\ a * b \in Int
      BY <1>1, <3>1, SameMultiplies
    <3> QED
      BY <3>2 DEF nf, ng
  <2>3. Set(l, Times(a, b))
    BY <1>7 DEF Mul
  <2> HIDE DEF f, g, a, b, l, n
  <2>4. Same(Number(l), a * b)
    BY <2>1, <2>2, SameTransitive
  <2>5. Times(a, b) \in Int /\ Same(Number(l), Times(a, b))
    BY <1>1, <1>3, <2>1, <2>4
  <2> QED
    BY <2>1, <2>3, <2>5, SetKeeps
<1>8. ASSUME NEW l \in Elements, NEW n \in Int, Same(n, Number(f) * Number(f))
      PROVE  Times(a, a) \in Int /\ Same(n, Times(a, a))
  <2> DEFINE nn == Number(f) * Number(f)
  <2>1. Same(n, nn) /\ nn \in Int /\ Same(nn, a * a) /\ a * a \in Int
    BY <1>1, <1>8, SameMultiplies
  <2> HIDE DEF f, g, a, b, nn
  <2>2. Same(n, a * a)
    BY <2>1, SameTransitive
  <2> QED
    BY <1>1, <1>3, <2>2
<1>9. CASE Sq
  <2> DEFINE l == fe_sq(f)
  <2>1. l \in Elements /\ Same(Number(l), Number(f) * Number(f)) /\ Number(l) \in Int
    BY <1>1, SqStandsFor, PartsTyped
  <2>2. Set(l, Times(a, a))
    BY <1>9 DEF Sq
  <2> HIDE DEF f, g, a, b, l
  <2>3. Times(a, a) \in Int /\ Same(Number(l), Times(a, a))
    BY <1>8, <2>1
  <2> QED
    BY <2>1, <2>2, <2>3, SetKeeps
<1>10. CASE Sq2
  <2> DEFINE l == fe_sq2(f)
             n == Number(f) * Number(f)
  <2>1. l \in Elements /\ Same(Number(l), 2 * n) /\ Number(l) \in Int /\ n \in Int
    BY <1>1, Sq2StandsFor, PartsTyped
  <2>2. Set(l, 2 * Times(a, a))
    BY <1>10 DEF Sq2
  <2>3. Same(n, n)
    BY <2>1, SameReflexive
  <2>4. Times(a, a) \in Int /\ Same(n, Times(a, a))
    BY <1>1, <1>8, <2>1, <2>3
  <2> DEFINE t == Times(a, a)
             v == 2 * t
             m == 2 * n
  <2> HIDE DEF f, g, a, b, l, n, t
  <2>5. Same(m, v) /\ m \in Int /\ v \in Int /\ Same(Number(l), m)
    BY <2>1, <2>4, SameScales DEF t
  <2> HIDE DEF m, v
  <2>6. Same(Number(l), v)
    BY <2>1, <2>5, SameTransitive
  <2> QED
    BY <2>1, <2>2, <2>5, <2>6, SetKeeps DEF v, t
<1>11. CASE Mul121666
  <2> DEFINE l == fe_mul121666(f, Small)
             n == Small * Number(f)
  <2>1. l \in Elements /\ Same(Number(l), n) /\ n \in Int /\ Number(l) \in Int
    <3>1. n \in Int
      BY <1>1, <1>2
    <3> HIDE DEF f
    <3>2. l \in Elements /\ Same(Number(l), n)
      BY <1>1, <1>2, SmallStandsFor
    <3> HIDE DEF l
    <3> QED
      BY <3>1, <3>2, PartsTyped
  <2>2. Same(n, Small * a) /\ Small * a \in Int /\ Small * a = a * Small
    <3> DEFINE nf == Number(f)
    <3>1. nf \in Int /\ Same(nf, a)
      BY <1>1
    <3> HIDE DEF nf, a
    <3>2. Same(Small * nf, Small * a)
      BY <1>1, <1>2, <3>1, SameScales
    <3>3. Small * a \in Int /\ Small * a = a * Small
      BY <1>1, <1>2
    <3> QED
      BY <3>2, <3>3 DEF nf
  <2>3. Set(l, Times(a, Small))
    BY <1>11 DEF Mul121666
  <2> HIDE DEF f, g, a, b, l, n
  <2>4. Same(Number(l), a * Small)
    BY <2>1, <2>2, SameTransitive
  <2>5. Times(a, Small) \in Int /\ Same(Number(l), Times(a, Small))
    BY <1>1, <1>2, <1>3, <2>1, <2>4
  <2> QED
    BY <2>1, <2>3, <2>5, SetKeeps
<1>12. CASE Repack
  <2> DEFINE s == fe_tobytes(f)
             l == fe_frombytes(s)
  <2>1. Packable(f) /\ Set(l, a)
    BY <1>12 DEF Repack
  <2>2. s = a
    <3>1. s = Number(f) % P
      BY <1>1, <2>1, PacksResidue
    <3> QED
      BY <3>1 DEF FieldInv, Right, Value
  <2>3. s % Cut[10] = s
    <3>1. Cut[10] = Weight(10) /\ Weight(10) = P + C /\ P \in Int /\ C \in Nat
          /\ Weight(10) \in Positive
      BY Modulus DEF Shaped, Positive
    <3> DEFINE w == Weight(10)
    <3> HIDE DEF s, w
    <3>2. s \in Int /\ 0 <= s /\ s < w /\ w \in Positive
      BY <1>1, <2>2, <3>1 DEF Residue, w
    <3>3. s = w * 0 + s
      BY <3>2 DEF Positive
    <3>4. s % w = s
      BY <3>2, <3>3, RemainderIs
    <3> QED
      BY <3>1, <3>4 DEF w
  <2> HIDE DEF f, g, a, b, s, l
  <2>4. l \in Elements /\ Same(Number(l), s)
    BY <1>1, <2>2, <2>3, UnpackStandsFor DEF l
  <2> QED
    BY <1>1, <2>1, <2>2, <2>4, SetKeeps
<1>13. CASE Swap
  <2>1. x' = [y EXCEPT !.limbs = y.limbs] /\ y' = [x EXCEPT !.limbs = x.limbs]
    BY <1>13 DEF Swap, fe_cswap
  <2>2. x' = y /\ y' = x
    BY <2>1 DEF FieldInv, Right
  <2> QED
    BY <2>2 DEF FieldInv, Right, Value
<1>14. CASE UNCHANGED vars
  BY <1>14 DEF vars, FieldInv, Right, Value
<1> QED
  BY <1>4, <1>5, <1>6, <1>7, <1>9, <1>10, <1>11, <1>12, <1>13, <1>14 DEF Next

\* After any sequence of calls the limbs of fe.c stand for the right residue,
\* for limbs of any even sizes of the code's shape: those of the code included.
THEOREM FieldCarriesTheValue ==
    ASSUME Shaped, Reference
    PROVE  Spec => []LimbsCarryTheValue
<1>1. Init => FieldInv
  BY FieldInit
<1>2. FieldInv /\ [Next]_vars => FieldInv'
  BY FieldStep
<1>3. FieldInv => LimbsCarryTheValue
  BY DEF FieldInv, Right, LimbsCarryTheValue
<1> QED
  BY <1>1, <1>2, <1>3, PTL DEF Spec

\* Whatever limbs a value has after them, fe_tobytes writes its one encoding.
THEOREM FieldPacksCanonically ==
    ASSUME Shaped, Reference
    PROVE  Spec => []EncodingIsCanonical
<1>1. Init => FieldInv
  BY FieldInit
<1>2. FieldInv /\ [Next]_vars => FieldInv'
  BY FieldStep
<1>3. FieldInv => EncodingIsCanonical
  <2>1. ASSUME FieldInv, Packable(x.limbs) PROVE fe_tobytes(x.limbs) = x.value
    <3>1. x.limbs \in Elements
      BY <2>1 DEF FieldInv, Right
    <3>2. fe_tobytes(x.limbs) = Number(x.limbs) % P
      BY <2>1, <3>1, PacksResidue
    <3> QED
      BY <2>1, <3>2 DEF FieldInv, Right, Value
  <2> QED
    BY <2>1 DEF EncodingIsCanonical
<1> QED
  BY <1>1, <1>2, <1>3, PTL DEF Spec

-----------------------------------------------------------------------------
(* The limbs of the code fit in its words.  Leaves over large numerals name    *)
(* SMT: Zenon would read them as so many successors of zero.                   *)

\* The parameters of the code.
AsInTheCode ==
    /\ Wide = 67108864 /\ Narrow = 33554432 /\ C = 19
    /\ Cut \in [0 .. 10 -> Nat]
    /\ Cut[0] = 1
    /\ Cut[1] = 4294967296
    /\ Cut[2] = 72057594037927936
    /\ Cut[3] = 1208925819614629174706176
    /\ Cut[4] = 20282409603651670423947251286016
    /\ Cut[5] = 340282366920938463463374607431768211456
    /\ Cut[6] = 1461501637330902918203684832716283019655932542976
    /\ Cut[7] = 24519928653854221733733552434404946937899825954937634816
    /\ Cut[8] = 411376139330301510538742295639337626245683966408394965837152256
    /\ Cut[9] = 6901746346790563787434755862277025452451108972170386555162524223799296
    /\ Cut[10] = 57896044618658097711785492504343953926634992332820282019728792003956564819968

Fits32(v) == -2147483648 <= v /\ v <= 2147483647
Fits64(v) == -9223372036854775808 <= v /\ v <= 9223372036854775807

Magnitude(n) == IF n < 0 THEN -n ELSE n

\* |h| bounded by n hundredths of 2^25, 2^24, 2^25, 2^24, etc.
Within(h, n) ==
    h \in Elements /\ \A i \in Limbs : 100 * Magnitude(h[i]) <= n * (Size(i) \div 2)

\* Carried from h in this order, every limb fits in 64 bits at every moment, and
\* so does the sum that is shifted.
CarriesFit(h, order) ==
    \A n \in 0 .. Len(order) : \A i \in Limbs :
      LET v == Carried(h, SubSeq(order, 1, n))[i]
      IN  Fits64(v) /\ Fits64(v + Size(i) \div 2)

LEMMA CodeSizes ==
    ASSUME AsInTheCode
    PROVE  /\ \A i \in Int : Size(i) \in Positive
           /\ \A i \in {0, 2, 4, 6, 8} : Size(i) = 67108864 /\ Size(i) \div 2 = 33554432
           /\ \A i \in {1, 3, 5, 7, 9} : Size(i) = 33554432 /\ Size(i) \div 2 = 16777216
BY DEF AsInTheCode, Size, Positive

LEMMA CodeWeights ==
    ASSUME AsInTheCode
    PROVE  /\ Weight(0) = 1
           /\ Weight(1) = 67108864
           /\ Weight(2) = 2251799813685248
           /\ Weight(3) = 151115727451828646838272
           /\ Weight(4) = 5070602400912917605986812821504
           /\ Weight(5) = 340282366920938463463374607431768211456
           /\ Weight(6) = 11417981541647679048466287755595961091061972992
           /\ Weight(7) = 766247770432944429179173513575154591809369561091801088
           /\ Weight(8) = 25711008708143844408671393477458601640355247900524685364822016
           /\ Weight(9) = 1725436586697640946858688965569256363112777243042596638790631055949824
           /\ Weight(10) = 57896044618658097711785492504343953926634992332820282019728792003956564819968
<1>1. Weight(0) = 1 /\ \A i \in Limbs : Weight(i + 1) = Weight(i) * Size(i)
  BY CodeSizes, WeightsOfSizes
<1>2. Weight(1) = 67108864
  <2>1. Size(0) = 67108864 /\ Weight(0 + 1) = Weight(0) * Size(0)
    BY <1>1, CodeSizes DEF Limbs
  <2> QED
    BY <2>1, <1>1
<1>3. Weight(2) = 2251799813685248
  <2>1. Size(1) = 33554432 /\ Weight(1 + 1) = Weight(1) * Size(1)
    BY <1>1, CodeSizes DEF Limbs
  <2> QED
    BY <2>1, <1>2
<1>4. Weight(3) = 151115727451828646838272
  <2>1. Size(2) = 67108864 /\ Weight(2 + 1) = Weight(2) * Size(2)
    BY <1>1, CodeSizes DEF Limbs
  <2> QED
    BY <2>1, <1>3
<1>5. Weight(4) = 5070602400912917605986812821504
  <2>1. Size(3) = 33554432 /\ Weight(3 + 1) = Weight(3) * Size(3)
    BY <1>1, CodeSizes DEF Limbs
  <2> QED
    BY <2>1, <1>4
<1>6. Weight(5) = 340282366920938463463374607431768211456
  <2>1. Size(4) = 67108864 /\ Weight(4 + 1) = Weight(4) * Size(4)
    BY <1>1, CodeSizes DEF Limbs
  <2> QED
    BY <2>1, <1>5
<1>7. Weight(6) = 11417981541647679048466287755595961091061972992
  <2>1. Size(5) = 33554432 /\ Weight(5 + 1) = Weight(5) * Size(5)
    BY <1>1, CodeSizes DEF Limbs
  <2> QED
    BY <2>1, <1>6
<1>8. Weight(7) = 766247770432944429179173513575154591809369561091801088
  <2>1. Size(6) = 67108864 /\ Weight(6 + 1) = Weight(6) * Size(6)
    BY <1>1, CodeSizes DEF Limbs
  <2> QED
    BY <2>1, <1>7
<1>9. Weight(8) = 25711008708143844408671393477458601640355247900524685364822016
  <2>1. Size(7) = 33554432 /\ Weight(7 + 1) = Weight(7) * Size(7)
    BY <1>1, CodeSizes DEF Limbs
  <2> QED
    BY <2>1, <1>8
<1>10. Weight(9) = 1725436586697640946858688965569256363112777243042596638790631055949824
  <2>1. Size(8) = 67108864 /\ Weight(8 + 1) = Weight(8) * Size(8)
    BY <1>1, CodeSizes DEF Limbs
  <2> QED
    BY <2>1, <1>9
<1>11. Weight(10) = 57896044618658097711785492504343953926634992332820282019728792003956564819968
  <2>1. Size(9) = 33554432 /\ Weight(9 + 1) = Weight(9) * Size(9)
    BY <1>1, CodeSizes DEF Limbs
  <2> QED
    BY <2>1, <1>10
<1> QED
  BY <1>1, <1>2, <1>3, <1>4, <1>5, <1>6, <1>7, <1>8, <1>9, <1>10, <1>11

LEMMA CodeCuts ==
    ASSUME AsInTheCode, NEW i \in Limbs
    PROVE  Cut[i + 1] % Cut[i] = 0 /\ Cut[i] % Weight(i) = 0
<1>1. CASE i = 0
  <2>1. Cut[0] = 1 /\ Cut[0 + 1] = 4294967296 /\ Weight(0) = 1
    BY CodeWeights DEF AsInTheCode
  <2>2. 4294967296 % 1 = 0 /\ 1 % 1 = 0
    OBVIOUS
  <2> QED
    BY <1>1, <2>1, <2>2
<1>2. CASE i = 1
  <2>1. Cut[1] = 4294967296 /\ Cut[1 + 1] = 72057594037927936 /\ Weight(1) = 67108864
    BY CodeWeights DEF AsInTheCode
  <2>2. 72057594037927936 % 4294967296 = 0 /\ 4294967296 % 67108864 = 0
    OBVIOUS
  <2> QED
    BY <1>2, <2>1, <2>2
<1>3. CASE i = 2
  <2>1. Cut[2] = 72057594037927936 /\ Cut[2 + 1] = 1208925819614629174706176 /\ Weight(2) = 2251799813685248
    BY CodeWeights DEF AsInTheCode
  <2>2. 1208925819614629174706176 % 72057594037927936 = 0 /\ 72057594037927936 % 2251799813685248 = 0
    OBVIOUS
  <2> QED
    BY <1>3, <2>1, <2>2
<1>4. CASE i = 3
  <2>1. Cut[3] = 1208925819614629174706176 /\ Cut[3 + 1] = 20282409603651670423947251286016 /\ Weight(3) = 151115727451828646838272
    BY CodeWeights DEF AsInTheCode
  <2>2. 20282409603651670423947251286016 % 1208925819614629174706176 = 0 /\ 1208925819614629174706176 % 151115727451828646838272 = 0
    OBVIOUS
  <2> QED
    BY <1>4, <2>1, <2>2
<1>5. CASE i = 4
  <2>1. Cut[4] = 20282409603651670423947251286016 /\ Cut[4 + 1] = 340282366920938463463374607431768211456 /\ Weight(4) = 5070602400912917605986812821504
    BY CodeWeights DEF AsInTheCode
  <2>2. 340282366920938463463374607431768211456 % 20282409603651670423947251286016 = 0 /\ 20282409603651670423947251286016 % 5070602400912917605986812821504 = 0
    OBVIOUS
  <2> QED
    BY <1>5, <2>1, <2>2
<1>6. CASE i = 5
  <2>1. Cut[5] = 340282366920938463463374607431768211456 /\ Cut[5 + 1] = 1461501637330902918203684832716283019655932542976 /\ Weight(5) = 340282366920938463463374607431768211456
    BY CodeWeights DEF AsInTheCode
  <2>2. 1461501637330902918203684832716283019655932542976 % 340282366920938463463374607431768211456 = 0 /\ 340282366920938463463374607431768211456 % 340282366920938463463374607431768211456 = 0
    OBVIOUS
  <2> QED
    BY <1>6, <2>1, <2>2
<1>7. CASE i = 6
  <2>1. Cut[6] = 1461501637330902918203684832716283019655932542976 /\ Cut[6 + 1] = 24519928653854221733733552434404946937899825954937634816 /\ Weight(6) = 11417981541647679048466287755595961091061972992
    BY CodeWeights DEF AsInTheCode
  <2>2. 24519928653854221733733552434404946937899825954937634816 % 1461501637330902918203684832716283019655932542976 = 0 /\ 1461501637330902918203684832716283019655932542976 % 11417981541647679048466287755595961091061972992 = 0
    OBVIOUS
  <2> QED
    BY <1>7, <2>1, <2>2
<1>8. CASE i = 7
  <2>1. Cut[7] = 24519928653854221733733552434404946937899825954937634816 /\ Cut[7 + 1] = 411376139330301510538742295639337626245683966408394965837152256 /\ Weight(7) = 766247770432944429179173513575154591809369561091801088
    BY CodeWeights DEF AsInTheCode
  <2>2. 411376139330301510538742295639337626245683966408394965837152256 % 24519928653854221733733552434404946937899825954937634816 = 0 /\ 24519928653854221733733552434404946937899825954937634816 % 766247770432944429179173513575154591809369561091801088 = 0
    OBVIOUS
  <2> QED
    BY <1>8, <2>1, <2>2
<1>9. CASE i = 8
  <2>1. Cut[8] = 411376139330301510538742295639337626245683966408394965837152256 /\ Cut[8 + 1] = 6901746346790563787434755862277025452451108972170386555162524223799296 /\ Weight(8) = 25711008708143844408671393477458601640355247900524685364822016
    BY CodeWeights DEF AsInTheCode
  <2>2. 6901746346790563787434755862277025452451108972170386555162524223799296 % 411376139330301510538742295639337626245683966408394965837152256 = 0 /\ 411376139330301510538742295639337626245683966408394965837152256 % 25711008708143844408671393477458601640355247900524685364822016 = 0
    OBVIOUS
  <2> QED
    BY <1>9, <2>1, <2>2
<1>10. CASE i = 9
  <2>1. Cut[9] = 6901746346790563787434755862277025452451108972170386555162524223799296 /\ Cut[9 + 1] = 57896044618658097711785492504343953926634992332820282019728792003956564819968 /\ Weight(9) = 1725436586697640946858688965569256363112777243042596638790631055949824
    BY CodeWeights DEF AsInTheCode
  <2>2. 57896044618658097711785492504343953926634992332820282019728792003956564819968 % 6901746346790563787434755862277025452451108972170386555162524223799296 = 0 /\ 6901746346790563787434755862277025452451108972170386555162524223799296 % 1725436586697640946858688965569256363112777243042596638790631055949824 = 0
    OBVIOUS
  <2> QED
    BY <1>10, <2>1, <2>2
<1> QED
  BY <1>1, <1>2, <1>3, <1>4, <1>5, <1>6, <1>7, <1>8, <1>9, <1>10 DEF Limbs

\* The parameters of the code have the shape the theorems ask for, and P is
\* 2^255 - 19.
THEOREM CodeIsShaped ==
    ASSUME AsInTheCode
    PROVE  Shaped /\ P = 57896044618658097711785492504343953926634992332820282019728792003956564819949
<1>1. /\ Narrow \in Nat \ {0} /\ Narrow % 2 = 0 /\ Wide = 2 * Narrow
      /\ C \in Nat /\ C < Weight(10)
      /\ Cut[0] = 1 /\ Cut[10] = Weight(10)
  BY CodeWeights DEF AsInTheCode
<1>2. \A i \in 0 .. 10 : Cut[i] \in Nat \ {0}
  BY DEF AsInTheCode
<1>3. Cut \in [0 .. 10 -> Nat \ {0}]
  BY <1>2 DEF AsInTheCode
<1>4. P = 57896044618658097711785492504343953926634992332820282019728792003956564819949
  BY CodeWeights DEF P, AsInTheCode
<1> QED
  BY <1>1, <1>3, <1>4, CodeCuts DEF Shaped

\* One carry, on limbs of the code.
LEMMA CodeCarry ==
    ASSUME AsInTheCode, NEW h \in Elements, NEW i \in Limbs
    PROVE  \E k \in Int :
             /\ Size(i) * k <= h[i] + Size(i) \div 2
             /\ h[i] + Size(i) \div 2 < Size(i) * k + Size(i)
             /\ Carry(h, i) \in Elements
             /\ Carry(h, i)[i] = h[i] - Size(i) * k
             /\ Carry(h, i)[(i + 1) % 10] = h[(i + 1) % 10] + (IF i = 9 THEN 19 * k ELSE k)
             /\ \A m \in Limbs : m # i /\ m # (i + 1) % 10 => Carry(h, i)[m] = h[m]
<1> DEFINE s == Size(i)
           half == Size(i) \div 2
           k == (h[i] + half) \div s
           j == (i + 1) % 10
<1>1. s \in Positive /\ half \in Int /\ h[i] \in Int /\ j \in Limbs /\ j # i /\ h[j] \in Int
  BY CodeSizes DEF Limbs, Elements, Positive
<1>2. Carry(h, i) = Hand(h, i, k)
  BY DEF Carry
<1> HIDE DEF s, half, j
<1>3. h[i] + half \in Int
  BY <1>1
<1>4. k \in Int /\ \E r \in 0 .. s - 1 : h[i] + half = s * k + r
  BY <1>1, <1>3, Quotients DEF Positive, Divided
<1> HIDE DEF k
<1>5. s * k \in Int
  BY <1>1, <1>4 DEF Positive
<1>6. s * k <= h[i] + half /\ h[i] + half < s * k + s
  <2> DEFINE z == s * k
  <2>1. PICK r \in 0 .. s - 1 : h[i] + half = z + r
    BY <1>4
  <2>2. z \in Int
    BY <1>5
  <2> HIDE DEF z
  <2>3. z <= h[i] + half /\ h[i] + half < z + s
    BY <1>1, <1>3, <2>1, <2>2 DEF Positive
  <2> QED
    BY <2>3 DEF z
<1>7. k * s = s * k
  BY <1>1, <1>4 DEF Positive
<1>8. C = 19
  BY DEF AsInTheCode
<1> DEFINE t == h[i] - s * k
           u == h[j] + (IF i = 9 THEN 19 * k ELSE k)
<1>9. t \in Int /\ u \in Int
  BY <1>1, <1>4, <1>5
<1>10. Carry(h, i) = [h EXCEPT ![i] = t, ![j] = u]
  <2>1. Hand(h, i, k) = [h EXCEPT ![i] = h[i] - k * s, ![j] = h[j] + (IF i = 9 THEN C * k ELSE k)]
    BY <1>1 DEF Hand, Elements, s, j
  <2> QED
    BY <1>2, <1>7, <1>8, <2>1
<1> HIDE DEF t, u
<1>11. /\ Carry(h, i) \in Elements /\ Carry(h, i)[i] = t /\ Carry(h, i)[j] = u
       /\ \A m \in Limbs : m # i /\ m # j => Carry(h, i)[m] = h[m]
  BY <1>1, <1>9, <1>10 DEF Elements
<1> QED
  BY <1>4, <1>6, <1>11 DEF s, half, j, t, u

\* The first n carries of an order, one after the other.
LEMMA CarriedEnds ==
    ASSUME Shaped, NEW h \in Elements, NEW order \in Seq(Limbs)
    PROVE  /\ Carried(h, SubSeq(order, 1, 0)) = h
           /\ Carried(h, SubSeq(order, 1, Len(order))) = Carried(h, order)
<1>1. SubSeq(order, 1, Len(order)) = order /\ SubSeq(order, 1, 0) = <<>>
  OBVIOUS
<1>2. Carried(h, <<>>) = h
  <2> DEFINE none == <<>>
  <2>1. none \in Seq(Limbs)
    OBVIOUS
  <2>2. Len(none) = 0
    OBVIOUS
  <2> HIDE DEF none
  <2>3. \E run : /\ run[0] = h /\ Carried(h, none) = run[Len(none)]
                 /\ \A n \in 0 .. Len(none) - 1 : run[n + 1] = Carry(run[n], none[n + 1])
    BY <2>1, CarriedRuns
  <2> QED
    BY <2>2, <2>3 DEF none
<1> QED
  BY <1>1, <1>2

LEMMA CarriedStepwise ==
    ASSUME Shaped, NEW h \in Elements, NEW order \in Seq(Limbs), NEW n \in 0 .. Len(order) - 1
    PROVE  Carried(h, SubSeq(order, 1, n + 1)) =
             Carry(Carried(h, SubSeq(order, 1, n)), order[n + 1])
<1> DEFINE short == SubSeq(order, 1, n)
           long == SubSeq(order, 1, n + 1)
<1>1. n \in Nat /\ (n + 1) - 1 = n
  OBVIOUS
<1>2. short \in Seq(Limbs) /\ Len(short) = n /\ \A i \in 1 .. n : short[i] = order[i]
  OBVIOUS
<1>3. long \in Seq(Limbs) /\ Len(long) = n + 1 /\ \A i \in 1 .. n + 1 : long[i] = order[i]
  OBVIOUS
<1> HIDE DEF short, long
<1>4. PICK a : /\ a[0] = h /\ Carried(h, short) = a[n]
               /\ \A i \in 0 .. n - 1 : a[i + 1] = Carry(a[i], short[i + 1])
  <2>1. PICK a : /\ a[0] = h /\ Carried(h, short) = a[Len(short)]
                 /\ \A i \in 0 .. Len(short) - 1 : a[i + 1] = Carry(a[i], short[i + 1])
    BY <1>2, CarriedRuns
  <2> QED
    BY <1>2, <2>1
<1>5. PICK b : /\ b[0] = h /\ Carried(h, long) = b[n + 1]
               /\ \A i \in 0 .. n : b[i + 1] = Carry(b[i], long[i + 1])
  <2>1. PICK b : /\ b[0] = h /\ Carried(h, long) = b[Len(long)]
                 /\ \A i \in 0 .. Len(long) - 1 : b[i + 1] = Carry(b[i], long[i + 1])
    BY <1>3, CarriedRuns
  <2> QED
    BY <1>1, <1>3, <2>1
<1> DEFINE T == {i \in 0 .. n : a[i] = b[i]}
<1>6. 0 \in T
  BY <1>1, <1>4, <1>5
<1>7. ASSUME NEW i \in 0 .. n - 1, i \in T PROVE i + 1 \in T
  <2>1. i + 1 \in 1 .. n /\ i + 1 \in 1 .. n + 1 /\ i \in 0 .. n /\ i + 1 \in 0 .. n
    BY <1>1
  <2>2. a[i + 1] = Carry(a[i], order[i + 1]) /\ b[i + 1] = Carry(b[i], order[i + 1])
    BY <1>2, <1>3, <1>4, <1>5, <2>1
  <2> QED
    BY <1>7, <2>1, <2>2
<1>8. n \in T
  <2> HIDE DEF T
  <2>1. 0 .. n \subseteq T
    BY <1>1, <1>6, <1>7, Induction
  <2> QED
    BY <1>1, <2>1
<1>9. n \in 0 .. n /\ n + 1 \in 1 .. n + 1
  BY <1>1
<1>10. Carried(h, long) = Carry(Carried(h, short), order[n + 1])
  BY <1>3, <1>4, <1>5, <1>8, <1>9
<1> QED
  BY <1>10 DEF short, long

-----------------------------------------------------------------------------
\* |h| bounded limb by limb, in the hundredths of Within.
Spread(h, b) ==
    h \in Elements /\ \A i \in Limbs : 100 * Magnitude(h[i]) <= b[i + 1] * (Size(i) \div 2)

\* b before a carry of limb i allows for c after it.
Widens(b, i, c) ==
    LET j == (i + 1) % 10
    IN  /\ c[i + 1] >= 100
        /\ 33554432 * (c[j + 1] - b[j + 1]) >= (IF i = 9 THEN 19 ELSE 1) * (b[i + 1] + 100)
        /\ \A m \in Limbs : m # i /\ m # j => c[m + 1] >= b[m + 1]

LEMMA CarrySpreads ==
    ASSUME AsInTheCode, NEW i \in Limbs,
           NEW b \in [1 .. 10 -> Nat], NEW c \in [1 .. 10 -> Nat], Widens(b, i, c),
           NEW h, Spread(h, b)
    PROVE  Spread(Carry(h, i), c)
<1> DEFINE g == Carry(h, i)
           j == (i + 1) % 10
           half(m) == Size(m) \div 2
           hand(k) == IF i = 9 THEN 19 * k ELSE k
<1>1. j \in Limbs /\ j # i
  BY SMT DEF Limbs
<1>2. h \in Elements /\ \A m \in Limbs : h[m] \in Int
  BY SMT DEF Spread, Elements
<1>3. /\ \A m \in Limbs : Size(m) = 2 * half(m) /\ half(m) \in {16777216, 33554432}
      /\ \A m \in 1 .. 10 : b[m] \in Nat /\ c[m] \in Nat
      /\ \A m \in Limbs : m + 1 \in 1 .. 10
  BY SMT, CodeSizes DEF Limbs
<1>4. PICK k \in Int :
        /\ Size(i) * k <= h[i] + half(i) /\ h[i] + half(i) < Size(i) * k + Size(i)
        /\ g \in Elements /\ g[i] = h[i] - Size(i) * k /\ g[j] = h[j] + hand(k)
        /\ \A m \in Limbs : m # i /\ m # j => g[m] = h[m]
  BY SMT, <1>2, CodeCarry
<1> HIDE DEF g, j, half
<1>5. 100 * Magnitude(h[i]) <= b[i + 1] * half(i) /\ 100 * Magnitude(h[j]) <= b[j + 1] * half(j)
  BY SMT, <1>1 DEF Spread, half
<1>6. 100 * Magnitude(g[i]) <= c[i + 1] * half(i)
  <2>1. -half(i) <= g[i] /\ g[i] <= half(i)
    <3> DEFINE z == Size(i) * k
    <3>1. z \in Int
      BY SMT, <1>3
    <3>2. z <= h[i] + half(i) /\ h[i] + half(i) < z + 2 * half(i) /\ g[i] = h[i] - z
      BY SMT, <1>3, <1>4
    <3> HIDE DEF z
    <3> QED
      BY SMT, <1>2, <1>3, <3>1, <3>2
  <2>2. g[i] \in Int /\ 100 <= c[i + 1] /\ c[i + 1] \in Nat
    BY SMT, <1>3, <1>4 DEF Elements, Widens
  <2> DEFINE w == c[i + 1] - 100
             t == half(i)
  <2>3. w \in Nat /\ t \in Nat /\ w * t \in Nat /\ c[i + 1] * t = 100 * t + w * t
    BY SMT, <1>3, <2>2
  <2>4. 100 * Magnitude(g[i]) <= 100 * t
    BY SMT, <2>1, <2>2, <2>3 DEF Magnitude
  <2> QED
    BY SMT, <2>2, <2>3, <2>4 DEF Magnitude
<1>7. 100 * Magnitude(g[j]) <= c[j + 1] * half(j)
  <2> DEFINE t == IF i = 9 THEN 19 ELSE 1
             w == c[j + 1] - b[j + 1]
             e == b[i + 1]
  <2>1. 33554432 * w >= t * (e + 100)
    BY SMT DEF Widens, j
  <2>2. w \in Int /\ e \in Nat
    BY SMT, <1>1, <1>3
  <2>3. 200 * Magnitude(k) <= e + 100
    <3>1. CASE half(i) = 16777216
      <4>1. 33554432 * k <= h[i] + 16777216 /\ h[i] < 33554432 * k + 16777216
        BY SMT, <1>2, <1>3, <1>4, <3>1
      <4>2. 100 * Magnitude(h[i]) <= 16777216 * e
        BY SMT, <1>5, <2>2, <3>1
      <4> HIDE DEF e
      <4> QED
        BY SMT, <1>2, <2>2, <4>1, <4>2 DEF Magnitude
    <3>2. CASE half(i) = 33554432
      <4>1. 67108864 * k <= h[i] + 33554432 /\ h[i] < 67108864 * k + 33554432
        BY SMT, <1>2, <1>3, <1>4, <3>2
      <4>2. 100 * Magnitude(h[i]) <= 33554432 * e
        BY SMT, <1>5, <2>2, <3>2
      <4> HIDE DEF e
      <4> QED
        BY SMT, <1>2, <2>2, <4>1, <4>2 DEF Magnitude
    <3> QED
      BY SMT, <1>3, <3>1, <3>2
  <2> HIDE DEF e, w
  <2>4. 100 * Magnitude(hand(k)) <= 16777216 * w
    <3>1. CASE i = 9
      BY SMT, <2>1, <2>2, <2>3, <3>1 DEF Magnitude
    <3>2. CASE i # 9
      BY SMT, <2>1, <2>2, <2>3, <3>2 DEF Magnitude
    <3> QED
      BY SMT, <3>1, <3>2
  <2>5. hand(k) \in Int /\ h[j] \in Int /\ g[j] = h[j] + hand(k)
    BY SMT, <1>1, <1>2, <1>4
  <2> HIDE DEF hand
  <2>6. w \in Nat
    BY SMT, <2>2, <2>4, <2>5 DEF Magnitude
  <2>7. 16777216 * w <= w * half(j)
    BY SMT, <1>1, <1>3, <2>6
  <2>8. c[j + 1] * half(j) = b[j + 1] * half(j) + w * half(j)
    BY SMT, <1>1, <1>3 DEF w
  <2> DEFINE p == b[j + 1] * half(j)
             q == w * half(j)
  <2>9. p \in Int /\ q \in Int
    BY SMT, <1>1, <1>3, <2>2
  <2>10. 100 * Magnitude(h[j]) <= p /\ 100 * Magnitude(hand(k)) <= q /\ c[j + 1] * half(j) = p + q
    BY SMT, <1>5, <2>2, <2>4, <2>5, <2>7, <2>8, <2>9 DEF Magnitude
  <2> HIDE DEF p, q
  <2> QED
    BY SMT, <2>5, <2>9, <2>10 DEF Magnitude
<1>8. ASSUME NEW m \in Limbs, m # i, m # j
      PROVE  100 * Magnitude(g[m]) <= c[m + 1] * half(m)
  <2>1. g[m] = h[m] /\ h[m] \in Int /\ c[m + 1] >= b[m + 1]
    BY SMT, <1>2, <1>4, <1>8 DEF Widens, j
  <2>2. 100 * Magnitude(h[m]) <= b[m + 1] * half(m)
    BY SMT DEF Spread, half
  <2>3. b[m + 1] * half(m) <= c[m + 1] * half(m)
    BY SMT, <1>3, <2>1
  <2>4. b[m + 1] * half(m) \in Int /\ c[m + 1] * half(m) \in Int /\ Magnitude(h[m]) \in Int
    BY SMT, <1>3, <2>1 DEF Magnitude
  <2> QED
    BY SMT, <2>1, <2>2, <2>3, <2>4
<1> QED
  BY SMT, <1>4, <1>6, <1>7, <1>8 DEF Spread, g, half

\* Limbs no wider than the code's words hold, at every moment.
LEMMA SpreadFits ==
    ASSUME AsInTheCode, NEW b \in [1 .. 10 -> Nat],
           \A m \in 1 .. 10 : b[m] <= 20000000000000,
           NEW h, Spread(h, b), NEW i \in Limbs
    PROVE  Fits64(h[i]) /\ Fits64(h[i] + Size(i) \div 2)
<1> DEFINE t == Size(i) \div 2
           e == b[i + 1]
<1>1. t \in {16777216, 33554432} /\ e \in Nat /\ e <= 20000000000000 /\ h[i] \in Int
  BY SMT, CodeSizes DEF Limbs, Spread, Elements
<1>2. 100 * Magnitude(h[i]) <= e * t
  BY SMT DEF Spread
<1> HIDE DEF t, e
<1>3. Fits64(h[i]) /\ Fits64(h[i] + t)
  <2> DEFINE v == h[i]
  <2>1. v \in Int
    BY SMT, <1>1
  <2>2. 100 * Magnitude(v) <= e * t
    BY SMT, <1>2
  <2> HIDE DEF v
  <2>3. CASE t = 16777216
    <3>1. 100 * Magnitude(v) <= 16777216 * e
      BY SMT, <1>1, <2>2, <2>3
    <3> QED
      BY SMT, <1>1, <2>1, <2>3, <3>1 DEF Magnitude, Fits64, v
  <2>4. CASE t = 33554432
    <3>1. 100 * Magnitude(v) <= 33554432 * e
      BY SMT, <1>1, <2>2, <2>4
    <3> QED
      BY SMT, <1>1, <2>1, <2>4, <3>1 DEF Magnitude, Fits64, v
  <2> QED
    BY SMT, <1>1, <2>3, <2>4
<1> QED
  BY SMT, <1>3 DEF t

\* The carries after a multiplication.
LEMMA ProductsSettle ==
    ASSUME AsInTheCode, NEW h \in Elements,
           \A i \in Limbs : 100 * Magnitude(h[i]) <= 14000000000000 * (Size(i) \div 2)
    PROVE  CarriesFit(h, ProductOrder) /\ Within(Carried(h, ProductOrder), 101)
<1> DEFINE now(n) == Carried(h, SubSeq(ProductOrder, 1, n))
           Fit(n) == \A i \in Limbs : Fits64(now(n)[i]) /\ Fits64(now(n)[i] + Size(i) \div 2)
           b0 == <<14000000000000, 14000000000000, 14000000000000, 14000000000000, 14000000000000, 14000000000000, 14000000000000, 14000000000000, 14000000000000, 14000000000000>>
           b1 == <<100, 14100000000000, 14000000000000, 14000000000000, 14000000000000, 14000000000000, 14000000000000, 14000000000000, 14000000000000, 14000000000000>>
           b2 == <<100, 14100000000000, 14000000000000, 14000000000000, 100, 14100000000000, 14000000000000, 14000000000000, 14000000000000, 14000000000000>>
           b3 == <<100, 100, 14100000000000, 14000000000000, 100, 14100000000000, 14000000000000, 14000000000000, 14000000000000, 14000000000000>>
           b4 == <<100, 100, 14100000000000, 14000000000000, 100, 100, 14100000000000, 14000000000000, 14000000000000, 14000000000000>>
           b5 == <<100, 100, 100, 14100000000000, 100, 100, 14100000000000, 14000000000000, 14000000000000, 14000000000000>>
           b6 == <<100, 100, 100, 14100000000000, 100, 100, 100, 14100000000000, 14000000000000, 14000000000000>>
           b7 == <<100, 100, 100, 100, 10000000, 100, 100, 14100000000000, 14000000000000, 14000000000000>>
           b8 == <<100, 100, 100, 100, 10000000, 100, 100, 100, 14100000000000, 14000000000000>>
           b9 == <<100, 100, 100, 100, 100, 101, 100, 100, 14100000000000, 14000000000000>>
           b10 == <<100, 100, 100, 100, 100, 101, 100, 100, 100, 14100000000000>>
           b11 == <<10000000, 100, 100, 100, 100, 101, 100, 100, 100, 100>>
           b12 == <<100, 101, 100, 100, 100, 101, 100, 100, 100, 100>>
<1>1. /\ Shaped /\ ProductOrder \in Seq(Limbs)
      /\ Len(ProductOrder) = 12
  BY SMT, CodeIsShaped, Orders DEF ProductOrder
<1>2. now(0) = h /\ now(Len(ProductOrder)) = Carried(h, ProductOrder)
  <2>1. Shaped /\ ProductOrder \in Seq(Limbs)
    BY <1>1
  <2> QED
    BY ONLY <2>1, h \in Elements, CarriedEnds DEF now
<1>3. \A n \in 0 .. 11 : now(n + 1) = Carry(now(n), ProductOrder[n + 1])
  <2>1. Shaped /\ ProductOrder \in Seq(Limbs)
    BY <1>1
  <2>2. \A n \in 0 .. Len(ProductOrder) - 1 : now(n + 1) = Carry(now(n), ProductOrder[n + 1])
    BY ONLY <2>1, h \in Elements, CarriedStepwise DEF now
  <2> HIDE DEF now
  <2>3. 12 - 1 = 11
    OBVIOUS
  <2> QED
    BY <1>1, <2>2, <2>3
<1> HIDE DEF now
<1>4. /\ now(1) = Carry(now(0), 0)
      /\ now(2) = Carry(now(1), 4)
      /\ now(3) = Carry(now(2), 1)
      /\ now(4) = Carry(now(3), 5)
      /\ now(5) = Carry(now(4), 2)
      /\ now(6) = Carry(now(5), 6)
      /\ now(7) = Carry(now(6), 3)
      /\ now(8) = Carry(now(7), 7)
      /\ now(9) = Carry(now(8), 4)
      /\ now(10) = Carry(now(9), 8)
      /\ now(11) = Carry(now(10), 9)
      /\ now(12) = Carry(now(11), 0)
  BY SMT, <1>3 DEF ProductOrder
<1>5. Spread(now(0), b0) /\ Fit(0)
  <2>1. b0 \in [1 .. 10 -> Nat] /\ \A m \in 1 .. 10 : b0[m] <= 20000000000000 /\ b0[m] = 14000000000000
    BY SMT
  <2>2. \A i \in Limbs : i + 1 \in 1 .. 10
    BY SMT DEF Limbs
  <2> HIDE DEF b0
  <2>3. Spread(now(0), b0)
    BY SMT, <1>2, <2>1, <2>2 DEF Spread
  <2> QED
    BY <2>1, <2>3, SpreadFits
<1>6. Spread(now(1), b1) /\ Fit(1)
  <2>1. 0 \in Limbs /\ b0 \in [1 .. 10 -> Nat] /\ b1 \in [1 .. 10 -> Nat]
    BY SMT DEF Limbs
  <2>2. \A m \in 1 .. 10 : b1[m] <= 20000000000000
    BY SMT
  <2>3. Widens(b0, 0, b1)
    BY SMT DEF Widens, Limbs
  <2> HIDE DEF b0, b1
  <2>4. Spread(now(1), b1)
    BY SMT, <1>4, <1>5, <2>1, <2>3, CarrySpreads
  <2> QED
    BY <2>1, <2>2, <2>4, SpreadFits
<1>7. Spread(now(2), b2) /\ Fit(2)
  <2>1. 4 \in Limbs /\ b1 \in [1 .. 10 -> Nat] /\ b2 \in [1 .. 10 -> Nat]
    BY SMT DEF Limbs
  <2>2. \A m \in 1 .. 10 : b2[m] <= 20000000000000
    BY SMT
  <2>3. Widens(b1, 4, b2)
    BY SMT DEF Widens, Limbs
  <2> HIDE DEF b1, b2
  <2>4. Spread(now(2), b2)
    BY SMT, <1>4, <1>6, <2>1, <2>3, CarrySpreads
  <2> QED
    BY <2>1, <2>2, <2>4, SpreadFits
<1>8. Spread(now(3), b3) /\ Fit(3)
  <2>1. 1 \in Limbs /\ b2 \in [1 .. 10 -> Nat] /\ b3 \in [1 .. 10 -> Nat]
    BY SMT DEF Limbs
  <2>2. \A m \in 1 .. 10 : b3[m] <= 20000000000000
    BY SMT
  <2>3. Widens(b2, 1, b3)
    BY SMT DEF Widens, Limbs
  <2> HIDE DEF b2, b3
  <2>4. Spread(now(3), b3)
    BY SMT, <1>4, <1>7, <2>1, <2>3, CarrySpreads
  <2> QED
    BY <2>1, <2>2, <2>4, SpreadFits
<1>9. Spread(now(4), b4) /\ Fit(4)
  <2>1. 5 \in Limbs /\ b3 \in [1 .. 10 -> Nat] /\ b4 \in [1 .. 10 -> Nat]
    BY SMT DEF Limbs
  <2>2. \A m \in 1 .. 10 : b4[m] <= 20000000000000
    BY SMT
  <2>3. Widens(b3, 5, b4)
    BY SMT DEF Widens, Limbs
  <2> HIDE DEF b3, b4
  <2>4. Spread(now(4), b4)
    BY SMT, <1>4, <1>8, <2>1, <2>3, CarrySpreads
  <2> QED
    BY <2>1, <2>2, <2>4, SpreadFits
<1>10. Spread(now(5), b5) /\ Fit(5)
  <2>1. 2 \in Limbs /\ b4 \in [1 .. 10 -> Nat] /\ b5 \in [1 .. 10 -> Nat]
    BY SMT DEF Limbs
  <2>2. \A m \in 1 .. 10 : b5[m] <= 20000000000000
    BY SMT
  <2>3. Widens(b4, 2, b5)
    BY SMT DEF Widens, Limbs
  <2> HIDE DEF b4, b5
  <2>4. Spread(now(5), b5)
    BY SMT, <1>4, <1>9, <2>1, <2>3, CarrySpreads
  <2> QED
    BY <2>1, <2>2, <2>4, SpreadFits
<1>11. Spread(now(6), b6) /\ Fit(6)
  <2>1. 6 \in Limbs /\ b5 \in [1 .. 10 -> Nat] /\ b6 \in [1 .. 10 -> Nat]
    BY SMT DEF Limbs
  <2>2. \A m \in 1 .. 10 : b6[m] <= 20000000000000
    BY SMT
  <2>3. Widens(b5, 6, b6)
    BY SMT DEF Widens, Limbs
  <2> HIDE DEF b5, b6
  <2>4. Spread(now(6), b6)
    BY SMT, <1>4, <1>10, <2>1, <2>3, CarrySpreads
  <2> QED
    BY <2>1, <2>2, <2>4, SpreadFits
<1>12. Spread(now(7), b7) /\ Fit(7)
  <2>1. 3 \in Limbs /\ b6 \in [1 .. 10 -> Nat] /\ b7 \in [1 .. 10 -> Nat]
    BY SMT DEF Limbs
  <2>2. \A m \in 1 .. 10 : b7[m] <= 20000000000000
    BY SMT
  <2>3. Widens(b6, 3, b7)
    BY SMT DEF Widens, Limbs
  <2> HIDE DEF b6, b7
  <2>4. Spread(now(7), b7)
    BY SMT, <1>4, <1>11, <2>1, <2>3, CarrySpreads
  <2> QED
    BY <2>1, <2>2, <2>4, SpreadFits
<1>13. Spread(now(8), b8) /\ Fit(8)
  <2>1. 7 \in Limbs /\ b7 \in [1 .. 10 -> Nat] /\ b8 \in [1 .. 10 -> Nat]
    BY SMT DEF Limbs
  <2>2. \A m \in 1 .. 10 : b8[m] <= 20000000000000
    BY SMT
  <2>3. Widens(b7, 7, b8)
    BY SMT DEF Widens, Limbs
  <2> HIDE DEF b7, b8
  <2>4. Spread(now(8), b8)
    BY SMT, <1>4, <1>12, <2>1, <2>3, CarrySpreads
  <2> QED
    BY <2>1, <2>2, <2>4, SpreadFits
<1>14. Spread(now(9), b9) /\ Fit(9)
  <2>1. 4 \in Limbs /\ b8 \in [1 .. 10 -> Nat] /\ b9 \in [1 .. 10 -> Nat]
    BY SMT DEF Limbs
  <2>2. \A m \in 1 .. 10 : b9[m] <= 20000000000000
    BY SMT
  <2>3. Widens(b8, 4, b9)
    BY SMT DEF Widens, Limbs
  <2> HIDE DEF b8, b9
  <2>4. Spread(now(9), b9)
    BY SMT, <1>4, <1>13, <2>1, <2>3, CarrySpreads
  <2> QED
    BY <2>1, <2>2, <2>4, SpreadFits
<1>15. Spread(now(10), b10) /\ Fit(10)
  <2>1. 8 \in Limbs /\ b9 \in [1 .. 10 -> Nat] /\ b10 \in [1 .. 10 -> Nat]
    BY SMT DEF Limbs
  <2>2. \A m \in 1 .. 10 : b10[m] <= 20000000000000
    BY SMT
  <2>3. Widens(b9, 8, b10)
    BY SMT DEF Widens, Limbs
  <2> HIDE DEF b9, b10
  <2>4. Spread(now(10), b10)
    BY SMT, <1>4, <1>14, <2>1, <2>3, CarrySpreads
  <2> QED
    BY <2>1, <2>2, <2>4, SpreadFits
<1>16. Spread(now(11), b11) /\ Fit(11)
  <2>1. 9 \in Limbs /\ b10 \in [1 .. 10 -> Nat] /\ b11 \in [1 .. 10 -> Nat]
    BY SMT DEF Limbs
  <2>2. \A m \in 1 .. 10 : b11[m] <= 20000000000000
    BY SMT
  <2>3. Widens(b10, 9, b11)
    BY SMT DEF Widens, Limbs
  <2> HIDE DEF b10, b11
  <2>4. Spread(now(11), b11)
    BY SMT, <1>4, <1>15, <2>1, <2>3, CarrySpreads
  <2> QED
    BY <2>1, <2>2, <2>4, SpreadFits
<1>17. Spread(now(12), b12) /\ Fit(12)
  <2>1. 0 \in Limbs /\ b11 \in [1 .. 10 -> Nat] /\ b12 \in [1 .. 10 -> Nat]
    BY SMT DEF Limbs
  <2>2. \A m \in 1 .. 10 : b12[m] <= 20000000000000
    BY SMT
  <2>3. Widens(b11, 0, b12)
    BY SMT DEF Widens, Limbs
  <2> HIDE DEF b11, b12
  <2>4. Spread(now(12), b12)
    BY SMT, <1>4, <1>16, <2>1, <2>3, CarrySpreads
  <2> QED
    BY <2>1, <2>2, <2>4, SpreadFits
<1>18. \A n \in 0 .. 12 : Fit(n)
  <2> HIDE DEF Fit
  <2> QED
    BY SMT, <1>5, <1>6, <1>7, <1>8, <1>9, <1>10, <1>11, <1>12, <1>13, <1>14, <1>15, <1>16, <1>17
<1>19. Within(now(12), 101)
  <2>1. \A i \in Limbs : b12[i + 1] \in {100, 101}
    BY SMT DEF Limbs
  <2> HIDE DEF b12
  <2>2. ASSUME NEW i \in Limbs PROVE 100 * Magnitude(now(12)[i]) <= 101 * (Size(i) \div 2)
    <3>1. 100 * Magnitude(now(12)[i]) <= b12[i + 1] * (Size(i) \div 2)
      BY <1>17 DEF Spread
    <3>2. Size(i) \div 2 \in {16777216, 33554432} /\ now(12)[i] \in Int
      BY SMT, <1>17, CodeSizes DEF Limbs, Spread, Elements
    <3> QED
      BY SMT, <2>1, <3>1, <3>2 DEF Magnitude
  <2> QED
    BY <1>17, <2>2 DEF Spread, Within
<1> QED
  BY <1>1, <1>2, <1>18, <1>19 DEF CarriesFit, now

\* The carries after the loads or the multiplication by the small number.
LEMMA LoadsSettle ==
    ASSUME AsInTheCode, NEW h \in Elements,
           \A i \in Limbs : 100 * Magnitude(h[i]) <= 28000000 * (Size(i) \div 2)
    PROVE  CarriesFit(h, OddEvenOrder) /\ Within(Carried(h, OddEvenOrder), 101)
<1> DEFINE now(n) == Carried(h, SubSeq(OddEvenOrder, 1, n))
           Fit(n) == \A i \in Limbs : Fits64(now(n)[i]) /\ Fits64(now(n)[i] + Size(i) \div 2)
           b0 == <<28000000, 28000000, 28000000, 28000000, 28000000, 28000000, 28000000, 28000000, 28000000, 28000000>>
           b1 == <<28000100, 28000000, 28000000, 28000000, 28000000, 28000000, 28000000, 28000000, 28000000, 100>>
           b2 == <<28000100, 100, 28000100, 28000000, 28000000, 28000000, 28000000, 28000000, 28000000, 100>>
           b3 == <<28000100, 100, 28000100, 100, 28000100, 28000000, 28000000, 28000000, 28000000, 100>>
           b4 == <<28000100, 100, 28000100, 100, 28000100, 100, 28000100, 28000000, 28000000, 100>>
           b5 == <<28000100, 100, 28000100, 100, 28000100, 100, 28000100, 100, 28000100, 100>>
           b6 == <<100, 101, 28000100, 100, 28000100, 100, 28000100, 100, 28000100, 100>>
           b7 == <<100, 101, 100, 101, 28000100, 100, 28000100, 100, 28000100, 100>>
           b8 == <<100, 101, 100, 101, 100, 101, 28000100, 100, 28000100, 100>>
           b9 == <<100, 101, 100, 101, 100, 101, 100, 101, 28000100, 100>>
           b10 == <<100, 101, 100, 101, 100, 101, 100, 101, 100, 101>>
<1>1. /\ Shaped /\ OddEvenOrder \in Seq(Limbs)
      /\ Len(OddEvenOrder) = 10
  BY SMT, CodeIsShaped, Orders DEF OddEvenOrder
<1>2. now(0) = h /\ now(Len(OddEvenOrder)) = Carried(h, OddEvenOrder)
  <2>1. Shaped /\ OddEvenOrder \in Seq(Limbs)
    BY <1>1
  <2> QED
    BY ONLY <2>1, h \in Elements, CarriedEnds DEF now
<1>3. \A n \in 0 .. 9 : now(n + 1) = Carry(now(n), OddEvenOrder[n + 1])
  <2>1. Shaped /\ OddEvenOrder \in Seq(Limbs)
    BY <1>1
  <2>2. \A n \in 0 .. Len(OddEvenOrder) - 1 : now(n + 1) = Carry(now(n), OddEvenOrder[n + 1])
    BY ONLY <2>1, h \in Elements, CarriedStepwise DEF now
  <2> HIDE DEF now
  <2>3. 10 - 1 = 9
    OBVIOUS
  <2> QED
    BY <1>1, <2>2, <2>3
<1> HIDE DEF now
<1>4. /\ now(1) = Carry(now(0), 9)
      /\ now(2) = Carry(now(1), 1)
      /\ now(3) = Carry(now(2), 3)
      /\ now(4) = Carry(now(3), 5)
      /\ now(5) = Carry(now(4), 7)
      /\ now(6) = Carry(now(5), 0)
      /\ now(7) = Carry(now(6), 2)
      /\ now(8) = Carry(now(7), 4)
      /\ now(9) = Carry(now(8), 6)
      /\ now(10) = Carry(now(9), 8)
  BY SMT, <1>3 DEF OddEvenOrder
<1>5. Spread(now(0), b0) /\ Fit(0)
  <2>1. b0 \in [1 .. 10 -> Nat] /\ \A m \in 1 .. 10 : b0[m] <= 20000000000000 /\ b0[m] = 28000000
    BY SMT
  <2>2. \A i \in Limbs : i + 1 \in 1 .. 10
    BY SMT DEF Limbs
  <2> HIDE DEF b0
  <2>3. Spread(now(0), b0)
    BY SMT, <1>2, <2>1, <2>2 DEF Spread
  <2> QED
    BY <2>1, <2>3, SpreadFits
<1>6. Spread(now(1), b1) /\ Fit(1)
  <2>1. 9 \in Limbs /\ b0 \in [1 .. 10 -> Nat] /\ b1 \in [1 .. 10 -> Nat]
    BY SMT DEF Limbs
  <2>2. \A m \in 1 .. 10 : b1[m] <= 20000000000000
    BY SMT
  <2>3. Widens(b0, 9, b1)
    BY SMT DEF Widens, Limbs
  <2> HIDE DEF b0, b1
  <2>4. Spread(now(1), b1)
    BY SMT, <1>4, <1>5, <2>1, <2>3, CarrySpreads
  <2> QED
    BY <2>1, <2>2, <2>4, SpreadFits
<1>7. Spread(now(2), b2) /\ Fit(2)
  <2>1. 1 \in Limbs /\ b1 \in [1 .. 10 -> Nat] /\ b2 \in [1 .. 10 -> Nat]
    BY SMT DEF Limbs
  <2>2. \A m \in 1 .. 10 : b2[m] <= 20000000000000
    BY SMT
  <2>3. Widens(b1, 1, b2)
    BY SMT DEF Widens, Limbs
  <2> HIDE DEF b1, b2
  <2>4. Spread(now(2), b2)
    BY SMT, <1>4, <1>6, <2>1, <2>3, CarrySpreads
  <2> QED
    BY <2>1, <2>2, <2>4, SpreadFits
<1>8. Spread(now(3), b3) /\ Fit(3)
  <2>1. 3 \in Limbs /\ b2 \in [1 .. 10 -> Nat] /\ b3 \in [1 .. 10 -> Nat]
    BY SMT DEF Limbs
  <2>2. \A m \in 1 .. 10 : b3[m] <= 20000000000000
    BY SMT
  <2>3. Widens(b2, 3, b3)
    BY SMT DEF Widens, Limbs
  <2> HIDE DEF b2, b3
  <2>4. Spread(now(3), b3)
    BY SMT, <1>4, <1>7, <2>1, <2>3, CarrySpreads
  <2> QED
    BY <2>1, <2>2, <2>4, SpreadFits
<1>9. Spread(now(4), b4) /\ Fit(4)
  <2>1. 5 \in Limbs /\ b3 \in [1 .. 10 -> Nat] /\ b4 \in [1 .. 10 -> Nat]
    BY SMT DEF Limbs
  <2>2. \A m \in 1 .. 10 : b4[m] <= 20000000000000
    BY SMT
  <2>3. Widens(b3, 5, b4)
    BY SMT DEF Widens, Limbs
  <2> HIDE DEF b3, b4
  <2>4. Spread(now(4), b4)
    BY SMT, <1>4, <1>8, <2>1, <2>3, CarrySpreads
  <2> QED
    BY <2>1, <2>2, <2>4, SpreadFits
<1>10. Spread(now(5), b5) /\ Fit(5)
  <2>1. 7 \in Limbs /\ b4 \in [1 .. 10 -> Nat] /\ b5 \in [1 .. 10 -> Nat]
    BY SMT DEF Limbs
  <2>2. \A m \in 1 .. 10 : b5[m] <= 20000000000000
    BY SMT
  <2>3. Widens(b4, 7, b5)
    BY SMT DEF Widens, Limbs
  <2> HIDE DEF b4, b5
  <2>4. Spread(now(5), b5)
    BY SMT, <1>4, <1>9, <2>1, <2>3, CarrySpreads
  <2> QED
    BY <2>1, <2>2, <2>4, SpreadFits
<1>11. Spread(now(6), b6) /\ Fit(6)
  <2>1. 0 \in Limbs /\ b5 \in [1 .. 10 -> Nat] /\ b6 \in [1 .. 10 -> Nat]
    BY SMT DEF Limbs
  <2>2. \A m \in 1 .. 10 : b6[m] <= 20000000000000
    BY SMT
  <2>3. Widens(b5, 0, b6)
    BY SMT DEF Widens, Limbs
  <2> HIDE DEF b5, b6
  <2>4. Spread(now(6), b6)
    BY SMT, <1>4, <1>10, <2>1, <2>3, CarrySpreads
  <2> QED
    BY <2>1, <2>2, <2>4, SpreadFits
<1>12. Spread(now(7), b7) /\ Fit(7)
  <2>1. 2 \in Limbs /\ b6 \in [1 .. 10 -> Nat] /\ b7 \in [1 .. 10 -> Nat]
    BY SMT DEF Limbs
  <2>2. \A m \in 1 .. 10 : b7[m] <= 20000000000000
    BY SMT
  <2>3. Widens(b6, 2, b7)
    BY SMT DEF Widens, Limbs
  <2> HIDE DEF b6, b7
  <2>4. Spread(now(7), b7)
    BY SMT, <1>4, <1>11, <2>1, <2>3, CarrySpreads
  <2> QED
    BY <2>1, <2>2, <2>4, SpreadFits
<1>13. Spread(now(8), b8) /\ Fit(8)
  <2>1. 4 \in Limbs /\ b7 \in [1 .. 10 -> Nat] /\ b8 \in [1 .. 10 -> Nat]
    BY SMT DEF Limbs
  <2>2. \A m \in 1 .. 10 : b8[m] <= 20000000000000
    BY SMT
  <2>3. Widens(b7, 4, b8)
    BY SMT DEF Widens, Limbs
  <2> HIDE DEF b7, b8
  <2>4. Spread(now(8), b8)
    BY SMT, <1>4, <1>12, <2>1, <2>3, CarrySpreads
  <2> QED
    BY <2>1, <2>2, <2>4, SpreadFits
<1>14. Spread(now(9), b9) /\ Fit(9)
  <2>1. 6 \in Limbs /\ b8 \in [1 .. 10 -> Nat] /\ b9 \in [1 .. 10 -> Nat]
    BY SMT DEF Limbs
  <2>2. \A m \in 1 .. 10 : b9[m] <= 20000000000000
    BY SMT
  <2>3. Widens(b8, 6, b9)
    BY SMT DEF Widens, Limbs
  <2> HIDE DEF b8, b9
  <2>4. Spread(now(9), b9)
    BY SMT, <1>4, <1>13, <2>1, <2>3, CarrySpreads
  <2> QED
    BY <2>1, <2>2, <2>4, SpreadFits
<1>15. Spread(now(10), b10) /\ Fit(10)
  <2>1. 8 \in Limbs /\ b9 \in [1 .. 10 -> Nat] /\ b10 \in [1 .. 10 -> Nat]
    BY SMT DEF Limbs
  <2>2. \A m \in 1 .. 10 : b10[m] <= 20000000000000
    BY SMT
  <2>3. Widens(b9, 8, b10)
    BY SMT DEF Widens, Limbs
  <2> HIDE DEF b9, b10
  <2>4. Spread(now(10), b10)
    BY SMT, <1>4, <1>14, <2>1, <2>3, CarrySpreads
  <2> QED
    BY <2>1, <2>2, <2>4, SpreadFits
<1>16. \A n \in 0 .. 10 : Fit(n)
  <2> HIDE DEF Fit
  <2> QED
    BY SMT, <1>5, <1>6, <1>7, <1>8, <1>9, <1>10, <1>11, <1>12, <1>13, <1>14, <1>15
<1>17. Within(now(10), 101)
  <2>1. \A i \in Limbs : b10[i + 1] \in {100, 101}
    BY SMT DEF Limbs
  <2> HIDE DEF b10
  <2>2. ASSUME NEW i \in Limbs PROVE 100 * Magnitude(now(10)[i]) <= 101 * (Size(i) \div 2)
    <3>1. 100 * Magnitude(now(10)[i]) <= b10[i + 1] * (Size(i) \div 2)
      BY <1>15 DEF Spread
    <3>2. Size(i) \div 2 \in {16777216, 33554432} /\ now(10)[i] \in Int
      BY SMT, <1>15, CodeSizes DEF Limbs, Spread, Elements
    <3> QED
      BY SMT, <2>1, <3>1, <3>2 DEF Magnitude
  <2> QED
    BY <1>15, <2>2 DEF Spread, Within
<1> QED
  BY <1>1, <1>2, <1>16, <1>17 DEF CarriesFit, now

-----------------------------------------------------------------------------
(* Sums and products of bounded limbs *)

LEMMA MagnitudesMultiply ==
    ASSUME NEW a \in Int, NEW b \in Int, NEW A \in Nat, NEW B \in Nat,
           Magnitude(a) <= A, Magnitude(b) <= B
    PROVE  Magnitude(a * b) <= A * B
<1>1. -A <= a /\ a <= A /\ -B <= b /\ b <= B
  BY DEF Magnitude
<1>2. (A - a) * (B + b) >= 0 /\ (A + a) * (B - b) >= 0 /\ (A - a) * (B - b) >= 0 /\ (A + a) * (B + b) >= 0
  <2>1. ASSUME NEW u \in Nat, NEW v \in Nat PROVE u * v >= 0
    OBVIOUS
  <2>2. A - a \in Nat /\ A + a \in Nat /\ B - b \in Nat /\ B + b \in Nat
    BY <1>1
  <2> QED
    BY <2>1, <2>2
<1> DEFINE p == a * b
           q == A * B
           r == A * b
           s == a * B
<1>3. p \in Int /\ q \in Int /\ r \in Int /\ s \in Int
  OBVIOUS
<1>4. /\ (A - a) * (B + b) = q + r - s - p /\ (A + a) * (B - b) = q - r + s - p
      /\ (A - a) * (B - b) = q - r - s + p /\ (A + a) * (B + b) = q + r + s + p
  OBVIOUS
<1> HIDE DEF p, q, r, s
<1>5. -q <= p /\ p <= q
  BY <1>2, <1>3, <1>4
<1>6. Magnitude(p) <= q
  BY <1>3, <1>5 DEF Magnitude
<1> QED
  BY <1>6 DEF p, q

LEMMA SumBounded ==
    ASSUME NEW a \in Elements, NEW B \in Nat, \A i \in Limbs : Magnitude(a[i]) <= B
    PROVE  /\ Magnitude(LimbSum(a)) <= 10 * B
           /\ LimbSum([i \in Limbs |-> Magnitude(a[i])]) \in 0 .. 10 * B
<1>1. /\ a[0] \in Int /\ a[1] \in Int /\ a[2] \in Int /\ a[3] \in Int /\ a[4] \in Int
      /\ a[5] \in Int /\ a[6] \in Int /\ a[7] \in Int /\ a[8] \in Int /\ a[9] \in Int
  BY TenTerms
<1>2. /\ Magnitude(a[0]) <= B /\ Magnitude(a[1]) <= B /\ Magnitude(a[2]) <= B
      /\ Magnitude(a[3]) <= B /\ Magnitude(a[4]) <= B /\ Magnitude(a[5]) <= B
      /\ Magnitude(a[6]) <= B /\ Magnitude(a[7]) <= B /\ Magnitude(a[8]) <= B
      /\ Magnitude(a[9]) <= B
  BY DEF Limbs
<1>3. LimbSum([i \in Limbs |-> Magnitude(a[i])]) =
        Magnitude(a[0]) + Magnitude(a[1]) + Magnitude(a[2]) + Magnitude(a[3]) + Magnitude(a[4])
          + Magnitude(a[5]) + Magnitude(a[6]) + Magnitude(a[7]) + Magnitude(a[8]) + Magnitude(a[9])
  BY DEF LimbSum, Limbs
<1>4. \A n \in Int : Magnitude(n) \in Nat /\ -Magnitude(n) <= n /\ n <= Magnitude(n)
  BY DEF Magnitude
<1>5. LimbSum([i \in Limbs |-> Magnitude(a[i])]) \in 0 .. 10 * B
  <2> DEFINE m(i) == Magnitude(a[i])
  <2>1. /\ m(0) \in Nat /\ m(1) \in Nat /\ m(2) \in Nat /\ m(3) \in Nat /\ m(4) \in Nat
        /\ m(5) \in Nat /\ m(6) \in Nat /\ m(7) \in Nat /\ m(8) \in Nat /\ m(9) \in Nat
    BY <1>1, <1>4
  <2>2. /\ m(0) <= B /\ m(1) <= B /\ m(2) <= B /\ m(3) <= B /\ m(4) <= B
        /\ m(5) <= B /\ m(6) <= B /\ m(7) <= B /\ m(8) <= B /\ m(9) <= B
    BY <1>2
  <2>3. LimbSum([i \in Limbs |-> Magnitude(a[i])]) =
          m(0) + m(1) + m(2) + m(3) + m(4) + m(5) + m(6) + m(7) + m(8) + m(9)
    BY <1>3
  <2> HIDE DEF m
  <2> QED
    BY <2>1, <2>2, <2>3
<1>6. LimbSum(a) \in Int /\ -(10 * B) <= LimbSum(a) /\ LimbSum(a) <= 10 * B
  BY <1>1, <1>2, <1>4 DEF LimbSum
<1> QED
  BY <1>5, <1>6 DEF Magnitude

\* Whatever meets in a column, its ten terms are bounded.
LEMMA TermBounded ==
    ASSUME AsInTheCode, NEW f, NEW g, Within(f, 330), Within(g, 330),
           NEW k \in Limbs, NEW i \in Limbs
    PROVE  /\ Term(f, g, k, i) \in Int
           /\ 100 * Magnitude(Term(f, g, k, i)) <= 700000000000 * (Size(k) \div 2)
<1> DEFINE j == (k - i) % 10
           a == f[i]
           b == g[j]
           t == Term(f, g, k, i)
           wrap == IF i > k THEN C ELSE 1
<1>1. f \in Elements /\ g \in Elements /\ Shaped
  BY CodeIsShaped DEF Within
<1>2. t \in Int /\ j \in Limbs /\ t = a * b * Doubling(i, j) * wrap
  BY <1>1, TermTyped
<1>3. a \in Int /\ b \in Int /\ wrap \in {1, 19}
  BY SMT, <1>1, <1>2 DEF Elements, AsInTheCode
<1>4. 100 * Magnitude(a) <= 330 * (Size(i) \div 2) /\ 100 * Magnitude(b) <= 330 * (Size(j) \div 2)
  BY <1>2 DEF Within
<1>5. (k % 2 = 0) <=> (i % 2 = j % 2)
  BY SMT DEF Limbs
<1>6. i % 2 \in {0, 1} /\ j % 2 \in {0, 1} /\ k % 2 \in {0, 1}
  BY SMT, <1>2 DEF Limbs
<1>7. \A m \in Limbs : Size(m) \div 2 = IF m % 2 = 0 THEN 33554432 ELSE 16777216
  BY SMT, CodeSizes DEF Limbs
<1> HIDE DEF a, b, t, wrap, j
<1>8. CASE i % 2 = 0 /\ j % 2 = 0
  <2>1. Magnitude(a) <= 110729626 /\ Magnitude(b) <= 110729626
    BY SMT, <1>2, <1>3, <1>4, <1>7, <1>8 DEF Magnitude
  <2>2. Magnitude(a * b) <= 110729626 * 110729626
    BY SMT, <1>3, <2>1, MagnitudesMultiply
  <2>3. Doubling(i, j) = 1
    BY SMT, <1>8 DEF Doubling
  <2>4. t = a * b \/ t = 19 * (a * b)
    BY SMT, <1>2, <1>3, <2>3
  <2>5. Size(k) \div 2 = 33554432
    BY SMT, <1>5, <1>7, <1>8
  <2> DEFINE p == a * b
  <2>6. p \in Int
    BY SMT, <1>3
  <2> HIDE DEF p
  <2> QED
    BY SMT, <2>2, <2>4, <2>5, <2>6, <1>2 DEF Magnitude, p, t
<1>9. CASE i % 2 = 1 /\ j % 2 = 1
  <2>1. Magnitude(a) <= 55364813 /\ Magnitude(b) <= 55364813
    BY SMT, <1>2, <1>3, <1>4, <1>7, <1>9 DEF Magnitude
  <2>2. Magnitude(a * b) <= 55364813 * 55364813
    BY SMT, <1>3, <2>1, MagnitudesMultiply
  <2>3. Doubling(i, j) = 2
    BY SMT, <1>9 DEF Doubling
  <2>4. t = 2 * (a * b) \/ t = 38 * (a * b)
    BY SMT, <1>2, <1>3, <2>3
  <2>5. Size(k) \div 2 = 33554432
    BY SMT, <1>5, <1>7, <1>9
  <2> DEFINE p == a * b
  <2>6. p \in Int
    BY SMT, <1>3
  <2> HIDE DEF p
  <2> QED
    BY SMT, <2>2, <2>4, <2>5, <2>6, <1>2 DEF Magnitude, p, t
<1>10. CASE i % 2 # j % 2
  <2>1. \/ Magnitude(a) <= 110729626 /\ Magnitude(b) <= 55364813
        \/ Magnitude(a) <= 55364813 /\ Magnitude(b) <= 110729626
    BY SMT, <1>2, <1>3, <1>4, <1>6, <1>7, <1>10 DEF Magnitude
  <2>2. Magnitude(a * b) <= 110729626 * 55364813
    <3>1. CASE Magnitude(a) <= 110729626 /\ Magnitude(b) <= 55364813
      BY SMT, <1>3, <3>1, MagnitudesMultiply
    <3>2. CASE Magnitude(a) <= 55364813 /\ Magnitude(b) <= 110729626
      <4>1. Magnitude(a * b) <= 55364813 * 110729626
        BY SMT, <1>3, <3>2, MagnitudesMultiply
      <4> QED
        BY SMT, <4>1
    <3> QED
      BY <2>1, <3>1, <3>2
  <2>3. Doubling(i, j) = 1
    BY SMT, <1>10, <1>6 DEF Doubling
  <2>4. t = a * b \/ t = 19 * (a * b)
    BY SMT, <1>2, <1>3, <2>3
  <2>5. Size(k) \div 2 = 16777216
    BY SMT, <1>5, <1>6, <1>7, <1>10
  <2> DEFINE p == a * b
  <2>6. p \in Int
    BY SMT, <1>3
  <2> HIDE DEF p
  <2> QED
    BY SMT, <2>2, <2>4, <2>5, <2>6, <1>2 DEF Magnitude, p, t
<1> QED
  BY SMT, <1>2, <1>6, <1>8, <1>9, <1>10 DEF t

\* What the terms of column k amount to at most, in whatever order they are added.
Total(f, g, k) == LimbSum([i \in Limbs |-> Magnitude(Term(f, g, k, i))])

LEMMA ColumnsBounded ==
    ASSUME AsInTheCode, NEW f, NEW g, Within(f, 330), Within(g, 330), NEW k \in Limbs
    PROVE  /\ Products(f, g) \in Elements
           /\ 100 * Magnitude(Products(f, g)[k]) <= 7000000000000 * (Size(k) \div 2)
           /\ Fits64(Total(f, g, k)) /\ Fits64(2 * Total(f, g, k))
<1> DEFINE t == [i \in Limbs |-> Term(f, g, k, i)]
           half == Size(k) \div 2
           B == 7000000000 * half
<1>1. f \in Elements /\ g \in Elements /\ Shaped
  BY CodeIsShaped DEF Within
<1>2. Products(f, g) \in Elements /\ Products(f, g)[k] = LimbSum(t)
  BY <1>1, ProductsTyped DEF Products
<1>3. half \in {16777216, 33554432}
  BY SMT, CodeSizes DEF Limbs
<1>4. \A i \in Limbs : Term(f, g, k, i) \in Int /\ 100 * Magnitude(Term(f, g, k, i)) <= 700000000000 * half
  BY TermBounded
<1> HIDE DEF half
<1>5. t \in Elements
  BY <1>4 DEF Elements
<1>6. \A i \in Limbs : Magnitude(t[i]) <= B
  <2>1. ASSUME NEW n \in Int, 100 * Magnitude(n) <= 700000000000 * half PROVE Magnitude(n) <= B
    BY SMT, <1>3, <2>1 DEF Magnitude
  <2> HIDE DEF B
  <2> QED
    BY <1>4, <2>1
<1>7. B \in Nat
  BY SMT, <1>3
<1>8. [i \in Limbs |-> Magnitude(t[i])] = [i \in Limbs |-> Magnitude(Term(f, g, k, i))]
  OBVIOUS
<1> HIDE DEF t
<1>9. /\ Magnitude(LimbSum(t)) <= 10 * B
      /\ LimbSum([i \in Limbs |-> Magnitude(t[i])]) \in 0 .. 10 * B
  <2> HIDE DEF B
  <2> QED
    BY <1>5, <1>6, <1>7, SumBounded
<1>10. LimbSum(t) \in Int
  BY <1>5, SumTyped
<1>11. 100 * Magnitude(LimbSum(t)) <= 7000000000000 * half
  BY SMT, <1>3, <1>9, <1>10 DEF Magnitude
<1> DEFINE m == LimbSum([i \in Limbs |-> Magnitude(t[i])])
<1>12. m \in Int /\ 0 <= m /\ m <= 10 * B
  BY SMT, <1>7, <1>9
<1> HIDE DEF m
<1>13. Fits64(m) /\ Fits64(2 * m)
  BY SMT, <1>3, <1>12 DEF Fits64
<1>14. Total(f, g, k) = m
  BY <1>8 DEF Total, m
<1> QED
  BY <1>2, <1>11, <1>13, <1>14 DEF half

-----------------------------------------------------------------------------
(* The bounds the comments of fe.c state *)

\* Adding and subtracting: hundredths add up.
THEOREM SumsFit ==
    ASSUME AsInTheCode, NEW f, NEW g, NEW m \in 0 .. 200, NEW n \in 0 .. 200,
           Within(f, m), Within(g, n)
    PROVE  /\ Within(fe_add(f, g), m + n) /\ Within(fe_sub(f, g), m + n)
           /\ Within(fe_neg(f), m)
           /\ \A i \in Limbs : Fits32(f[i] + g[i]) /\ Fits32(f[i] - g[i])
<1> DEFINE half(i) == Size(i) \div 2
<1>1. \A i \in Limbs : f[i] \in Int /\ g[i] \in Int
  BY SMT DEF Within, Elements
<1>2. \A i \in Limbs : half(i) \in {16777216, 33554432}
  BY SMT, CodeSizes DEF Limbs
<1>3. /\ fe_add(f, g) \in Elements /\ fe_sub(f, g) \in Elements /\ fe_neg(f) \in Elements
  BY SMT, <1>1 DEF fe_add, fe_sub, fe_neg, Elements
<1>4. ASSUME NEW i \in Limbs
      PROVE  /\ 100 * Magnitude(f[i] + g[i]) <= (m + n) * half(i)
             /\ 100 * Magnitude(f[i] - g[i]) <= (m + n) * half(i)
             /\ 100 * Magnitude(-f[i]) <= m * half(i)
             /\ Fits32(f[i] + g[i]) /\ Fits32(f[i] - g[i])
  <2> DEFINE a == f[i]
             b == g[i]
             u == m * half(i)
             v == n * half(i)
  <2>1. 100 * Magnitude(a) <= u /\ 100 * Magnitude(b) <= v
    BY SMT DEF Within
  <2>2. a \in Int /\ b \in Int /\ half(i) \in Nat
    BY SMT, <1>1, <1>2
  <2>3. u \in Int /\ v \in Int /\ (m + n) * half(i) = u + v
    <3> DEFINE t == half(i)
    <3>1. t \in Int
      BY SMT, <2>2
    <3> HIDE DEF t
    <3> QED
      BY SMT, <3>1 DEF t
  <2>4. u <= 200 * 33554432 /\ v <= 200 * 33554432
    <3>1. ASSUME NEW w \in 0 .. 200, NEW t \in {16777216, 33554432} PROVE w * t <= 200 * 33554432
      BY SMT
    <3> QED
      BY SMT, <1>2, <3>1
  <2> HIDE DEF a, b, u, v, half
  <2>5. 100 * Magnitude(a + b) <= u + v /\ 100 * Magnitude(a - b) <= u + v
    BY SMT, <2>1, <2>2, <2>3 DEF Magnitude
  <2>6. 100 * Magnitude(-a) <= u
    BY SMT, <2>1, <2>2, <2>3 DEF Magnitude
  <2>7. Fits32(a + b) /\ Fits32(a - b)
    BY SMT, <2>2, <2>3, <2>4, <2>5 DEF Magnitude, Fits32
  <2> QED
    BY SMT, <2>3, <2>5, <2>6, <2>7 DEF a, b, u
<1> HIDE DEF half
<1>5. \A i \in Limbs : /\ fe_add(f, g)[i] = f[i] + g[i] /\ fe_sub(f, g)[i] = f[i] - g[i]
                       /\ fe_neg(f)[i] = -f[i]
  BY SMT DEF fe_add, fe_sub, fe_neg
<1> QED
  BY SMT, <1>3, <1>4, <1>5 DEF Within, half

\* The factors the code multiplies by 2, 19 and 38 beforehand fit in 32 bits.
LEMMA FactorsFit ==
    ASSUME AsInTheCode, NEW f, Within(f, 330), NEW i \in Limbs
    PROVE  /\ Fits32(2 * f[i]) /\ Fits32(19 * f[i])
           /\ i % 2 = 1 => Fits32(38 * f[i])
<1>1. f[i] \in Int /\ 100 * Magnitude(f[i]) <= 330 * (Size(i) \div 2)
  BY SMT DEF Within, Elements
<1>2. Size(i) \div 2 = IF i % 2 = 0 THEN 33554432 ELSE 16777216
  BY SMT, CodeSizes DEF Limbs
<1>3. CASE i % 2 = 0
  BY SMT, <1>1, <1>2, <1>3 DEF Magnitude, Fits32
<1>4. CASE i % 2 # 0
  BY SMT, <1>1, <1>2, <1>4 DEF Magnitude, Fits32
<1> QED
  BY SMT, <1>3, <1>4

\* fe_mul on limbs within 1.65 * 2^26 and 1.65 * 2^25: nothing overflows, and the
\* product is within 1.01 * 2^25 and 1.01 * 2^24.
THEOREM ProductsFit ==
    ASSUME AsInTheCode, NEW f, NEW g, Within(f, 330), Within(g, 330)
    PROVE  /\ \A i \in Limbs : Fits32(2 * f[i]) /\ Fits32(19 * g[i])
           /\ \A k \in Limbs : Fits64(Total(f, g, k))
           /\ CarriesFit(Products(f, g), ProductOrder)
           /\ Within(fe_mul(f, g), 101)
<1>1. \A i \in Limbs : Fits32(2 * f[i]) /\ Fits32(19 * g[i])
  BY SMT, FactorsFit
<1>2. \A k \in Limbs : Fits64(Total(f, g, k))
  BY SMT, ColumnsBounded
<1>3. Products(f, g) \in Elements
  BY SMT, CodeIsShaped, ProductsTyped DEF Within
<1>4. ASSUME NEW k \in Limbs
      PROVE  100 * Magnitude(Products(f, g)[k]) <= 14000000000000 * (Size(k) \div 2)
  <2> DEFINE c == Products(f, g)[k]
  <2>1. c \in Int /\ Size(k) \div 2 \in {16777216, 33554432}
    <3>1. c \in Int
      BY SMT, <1>3 DEF Elements
    <3> QED
      BY SMT, <3>1, CodeSizes DEF Limbs
  <2>2. 100 * Magnitude(c) <= 7000000000000 * (Size(k) \div 2)
    BY SMT, ColumnsBounded
  <2> HIDE DEF c
  <2>3. 100 * Magnitude(c) <= 14000000000000 * (Size(k) \div 2)
    BY SMT, <2>1, <2>2 DEF Magnitude
  <2> QED
    BY SMT, <2>3 DEF c
<1> QED
  BY SMT, <1>1, <1>2, <1>3, <1>4, ProductsSettle DEF fe_mul

\* fe_sq and fe_sq2 on limbs within the same bounds: the doubled columns of
\* fe_sq2 fit as well.
THEOREM SquaresFit ==
    ASSUME AsInTheCode, NEW f, Within(f, 330)
    PROVE  /\ \A i \in Limbs : /\ Fits32(2 * f[i]) /\ Fits32(19 * f[i])
                               /\ i % 2 = 1 => Fits32(38 * f[i])
           /\ \A k \in Limbs : Fits64(2 * Total(f, f, k))
           /\ CarriesFit(Squares(f), ProductOrder)
           /\ CarriesFit([k \in Limbs |-> Squares(f)[k] + Squares(f)[k]], ProductOrder)
           /\ Within(fe_sq(f), 101) /\ Within(fe_sq2(f), 101)
<1> DEFINE h == Squares(f)
           d == [k \in Limbs |-> h[k] + h[k]]
<1>1. Shaped /\ f \in Elements
  BY SMT, CodeIsShaped DEF Within
<1>2. h = Products(f, f)
  BY SMT, <1>1, SquaresAreProducts
<1>3. fe_sq(f) = fe_mul(f, f)
  BY SMT, <1>2 DEF fe_sq, fe_mul
<1>4. CarriesFit(h, ProductOrder) /\ Within(fe_sq(f), 101)
  BY SMT, <1>2, <1>3, ProductsFit
<1>5. Products(f, f) \in Elements
  BY SMT, <1>1, ProductsTyped
<1>6. d \in Elements
  <2>1. ASSUME NEW k \in Limbs PROVE h[k] + h[k] \in Int
    BY SMT, <1>2, <1>5 DEF Elements
  <2> QED
    BY SMT, <2>1 DEF Elements
<1>7. ASSUME NEW k \in Limbs PROVE 100 * Magnitude(d[k]) <= 14000000000000 * (Size(k) \div 2)
  <2> DEFINE c == Products(f, f)[k]
  <2>1. c \in Int /\ Size(k) \div 2 \in {16777216, 33554432}
    <3>1. c \in Int
      BY SMT, <1>5 DEF Elements
    <3> QED
      BY SMT, <3>1, CodeSizes DEF Limbs
  <2>2. 100 * Magnitude(c) <= 7000000000000 * (Size(k) \div 2)
    BY SMT, ColumnsBounded
  <2>3. d[k] = c + c
    BY SMT, <1>2
  <2> HIDE DEF c, d
  <2>4. 100 * Magnitude(c + c) <= 14000000000000 * (Size(k) \div 2)
    BY SMT, <2>1, <2>2 DEF Magnitude
  <2> QED
    BY SMT, <2>3, <2>4
<1>8. fe_sq2(f) = Carried(d, ProductOrder)
  BY SMT DEF fe_sq2
<1> HIDE DEF d
<1>9. CarriesFit(d, ProductOrder) /\ Within(fe_sq2(f), 101)
  BY SMT, <1>6, <1>7, <1>8, ProductsSettle
<1>10. \A i \in Limbs : /\ Fits32(2 * f[i]) /\ Fits32(19 * f[i])
                        /\ i % 2 = 1 => Fits32(38 * f[i])
  BY SMT, FactorsFit
<1>11. \A k \in Limbs : Fits64(2 * Total(f, f, k))
  BY SMT, ColumnsBounded
<1> QED
  BY SMT, <1>4, <1>9, <1>10, <1>11 DEF h, d

\* fe_mul121666 on limbs within 1.1 * 2^26 and 1.1 * 2^25.
THEOREM SmallProductsFit ==
    ASSUME AsInTheCode, NEW f, Within(f, 220)
    PROVE  /\ CarriesFit([i \in Limbs |-> 121666 * f[i]], OddEvenOrder)
           /\ Within(fe_mul121666(f, 121666), 101)
<1> DEFINE h == [i \in Limbs |-> 121666 * f[i]]
<1>1. \A i \in Limbs : f[i] \in Int
  BY SMT DEF Within, Elements
<1>2. ASSUME NEW i \in Limbs
      PROVE  /\ 121666 * f[i] \in Int
             /\ 100 * Magnitude(121666 * f[i]) <= 28000000 * (Size(i) \div 2)
  <2> DEFINE a == f[i]
  <2>1. a \in Int /\ Size(i) \div 2 \in {16777216, 33554432}
    BY SMT, <1>1, CodeSizes DEF Limbs
  <2>2. 100 * Magnitude(a) <= 220 * (Size(i) \div 2)
    BY SMT DEF Within
  <2> HIDE DEF a
  <2>3. 121666 * a \in Int /\ 100 * Magnitude(121666 * a) <= 28000000 * (Size(i) \div 2)
    BY SMT, <2>1, <2>2 DEF Magnitude
  <2> QED
    BY SMT, <2>3 DEF a
<1>3. h \in Elements /\ \A i \in Limbs : 100 * Magnitude(h[i]) <= 28000000 * (Size(i) \div 2)
  BY SMT, <1>2 DEF Elements
<1>4. fe_mul121666(f, 121666) = Carried(h, OddEvenOrder)
  BY SMT DEF fe_mul121666
<1> HIDE DEF h
<1>5. CarriesFit(h, OddEvenOrder) /\ Within(Carried(h, OddEvenOrder), 101)
  BY SMT, <1>3, LoadsSettle
<1> QED
  BY SMT, <1>4, <1>5 DEF h


LEMMA LoadBounded ==
    ASSUME AsInTheCode, NEW s \in Int, NEW i \in Limbs
    PROVE  /\ Load(s, i) \in Int
           /\ 100 * Magnitude(Load(s, i)) <= 28000000 * (Size(i) \div 2)
<1>1. PICK v, high, low \in Int :
        /\ Load(s, i) = v /\ s % Cut[i + 1] = high /\ s % Cut[i] = low
        /\ v * Weight(i) = high - low
  BY SMT, CodeIsShaped, LoadIs
<1>2. Cut[i] \in Positive /\ Cut[i + 1] \in Positive
  BY SMT, CodeIsShaped DEF Shaped, Limbs, Positive
<1>3. 0 <= high /\ high < Cut[i + 1] /\ 0 <= low /\ low < Cut[i]
  <2>1. ASSUME NEW m \in Positive PROVE 0 <= s % m /\ s % m < m
    BY SMT DEF Positive
  <2> QED
    BY SMT, <1>1, <1>2, <2>1
<1>4. Size(i) \div 2 \in {16777216, 33554432}
  BY SMT, CodeSizes DEF Limbs
<1>5. Magnitude(v) <= 4294967296
  <2>1. CASE i = 0
    <3>1. Cut[i + 1] = 4294967296 /\ Cut[i] = 1 /\ Weight(i) = 1
      BY SMT, <2>1, CodeWeights DEF AsInTheCode
    <3>2. v * 1 = high - low
      BY SMT, <1>1, <3>1
    <3> QED
      BY SMT, <1>3, <3>1, <3>2 DEF Magnitude
  <2>2. CASE i = 1
    <3>1. Cut[i + 1] = 72057594037927936 /\ Cut[i] = 4294967296 /\ Weight(i) = 67108864
      BY SMT, <2>2, CodeWeights DEF AsInTheCode
    <3>2. v * 67108864 = high - low
      BY SMT, <1>1, <3>1
    <3> QED
      BY SMT, <1>3, <3>1, <3>2 DEF Magnitude
  <2>3. CASE i = 2
    <3>1. Cut[i + 1] = 1208925819614629174706176 /\ Cut[i] = 72057594037927936 /\ Weight(i) = 2251799813685248
      BY SMT, <2>3, CodeWeights DEF AsInTheCode
    <3>2. v * 2251799813685248 = high - low
      BY SMT, <1>1, <3>1
    <3> QED
      BY SMT, <1>3, <3>1, <3>2 DEF Magnitude
  <2>4. CASE i = 3
    <3>1. Cut[i + 1] = 20282409603651670423947251286016 /\ Cut[i] = 1208925819614629174706176 /\ Weight(i) = 151115727451828646838272
      BY SMT, <2>4, CodeWeights DEF AsInTheCode
    <3>2. v * 151115727451828646838272 = high - low
      BY SMT, <1>1, <3>1
    <3> QED
      BY SMT, <1>3, <3>1, <3>2 DEF Magnitude
  <2>5. CASE i = 4
    <3>1. Cut[i + 1] = 340282366920938463463374607431768211456 /\ Cut[i] = 20282409603651670423947251286016 /\ Weight(i) = 5070602400912917605986812821504
      BY SMT, <2>5, CodeWeights DEF AsInTheCode
    <3>2. v * 5070602400912917605986812821504 = high - low
      BY SMT, <1>1, <3>1
    <3> QED
      BY SMT, <1>3, <3>1, <3>2 DEF Magnitude
  <2>6. CASE i = 5
    <3>1. Cut[i + 1] = 1461501637330902918203684832716283019655932542976 /\ Cut[i] = 340282366920938463463374607431768211456 /\ Weight(i) = 340282366920938463463374607431768211456
      BY SMT, <2>6, CodeWeights DEF AsInTheCode
    <3>2. v * 340282366920938463463374607431768211456 = high - low
      BY SMT, <1>1, <3>1
    <3> QED
      BY SMT, <1>3, <3>1, <3>2 DEF Magnitude
  <2>7. CASE i = 6
    <3>1. Cut[i + 1] = 24519928653854221733733552434404946937899825954937634816 /\ Cut[i] = 1461501637330902918203684832716283019655932542976 /\ Weight(i) = 11417981541647679048466287755595961091061972992
      BY SMT, <2>7, CodeWeights DEF AsInTheCode
    <3>2. v * 11417981541647679048466287755595961091061972992 = high - low
      BY SMT, <1>1, <3>1
    <3> QED
      BY SMT, <1>3, <3>1, <3>2 DEF Magnitude
  <2>8. CASE i = 7
    <3>1. Cut[i + 1] = 411376139330301510538742295639337626245683966408394965837152256 /\ Cut[i] = 24519928653854221733733552434404946937899825954937634816 /\ Weight(i) = 766247770432944429179173513575154591809369561091801088
      BY SMT, <2>8, CodeWeights DEF AsInTheCode
    <3>2. v * 766247770432944429179173513575154591809369561091801088 = high - low
      BY SMT, <1>1, <3>1
    <3> QED
      BY SMT, <1>3, <3>1, <3>2 DEF Magnitude
  <2>9. CASE i = 8
    <3>1. Cut[i + 1] = 6901746346790563787434755862277025452451108972170386555162524223799296 /\ Cut[i] = 411376139330301510538742295639337626245683966408394965837152256 /\ Weight(i) = 25711008708143844408671393477458601640355247900524685364822016
      BY SMT, <2>9, CodeWeights DEF AsInTheCode
    <3>2. v * 25711008708143844408671393477458601640355247900524685364822016 = high - low
      BY SMT, <1>1, <3>1
    <3> QED
      BY SMT, <1>3, <3>1, <3>2 DEF Magnitude
  <2>10. CASE i = 9
    <3>1. Cut[i + 1] = 57896044618658097711785492504343953926634992332820282019728792003956564819968 /\ Cut[i] = 6901746346790563787434755862277025452451108972170386555162524223799296 /\ Weight(i) = 1725436586697640946858688965569256363112777243042596638790631055949824
      BY SMT, <2>10, CodeWeights DEF AsInTheCode
    <3>2. v * 1725436586697640946858688965569256363112777243042596638790631055949824 = high - low
      BY SMT, <1>1, <3>1
    <3> QED
      BY SMT, <1>3, <3>1, <3>2 DEF Magnitude
  <2> QED
    BY SMT, <2>1, <2>2, <2>3, <2>4, <2>5, <2>6, <2>7, <2>8, <2>9, <2>10 DEF Limbs
<1> QED
  BY SMT, <1>1, <1>4, <1>5 DEF Magnitude

\* fe_frombytes, whatever the bytes.
THEOREM LoadsFit ==
    ASSUME AsInTheCode, NEW s \in Nat
    PROVE  /\ CarriesFit([i \in Limbs |-> Load(s, i)], OddEvenOrder)
           /\ Within(fe_frombytes(s), 101)
<1> DEFINE h == [i \in Limbs |-> Load(s, i)]
<1>1. h \in Elements /\ \A i \in Limbs : 100 * Magnitude(h[i]) <= 28000000 * (Size(i) \div 2)
  BY SMT, LoadBounded DEF Elements
<1>2. fe_frombytes(s) = Carried(h, OddEvenOrder)
  BY SMT DEF fe_frombytes
<1> HIDE DEF h
<1>3. CarriesFit(h, OddEvenOrder) /\ Within(Carried(h, OddEvenOrder), 101)
  BY SMT, <1>1, LoadsSettle
<1> QED
  BY SMT, <1>2, <1>3 DEF h


\* fe_tobytes on limbs within 1.1 * 2^26 and 1.1 * 2^25: the comment's bounds are
\* enough for its claim about the quotient.
THEOREM PackingFits ==
    ASSUME AsInTheCode, NEW h, Within(h, 220)
    PROVE  /\ Fits32(19 * h[9] + 16777216)
           /\ Packable(h)
           /\ fe_tobytes(h) = Number(h) % P
<1> DEFINE a(i) == h[i]
           others ==
               1 * a(0)
             + 67108864 * a(1)
             + 2251799813685248 * a(2)
             + 151115727451828646838272 * a(3)
             + 5070602400912917605986812821504 * a(4)
             + 340282366920938463463374607431768211456 * a(5)
             + 11417981541647679048466287755595961091061972992 * a(6)
             + 766247770432944429179173513575154591809369561091801088 * a(7)
             + 25711008708143844408671393477458601640355247900524685364822016 * a(8)
<1>1. h \in Elements /\ Shaped /\ P = 57896044618658097711785492504343953926634992332820282019728792003956564819949 /\ C = 19
  BY SMT, CodeIsShaped DEF Within, AsInTheCode
<1>2. \A i \in Limbs : a(i) \in Int /\ 100 * Magnitude(a(i)) <= 220 * (Size(i) \div 2)
  BY SMT DEF Within, Elements
<1>3. ASSUME NEW i \in Limbs
      PROVE  a(i) \in Int /\ -73819750 <= a(i) /\ a(i) <= 73819750
  <2>1. a(i) \in Int /\ 100 * Magnitude(a(i)) <= 220 * (Size(i) \div 2)
    BY SMT, <1>2
  <2>2. Size(i) \div 2 \in {16777216, 33554432}
    BY SMT, CodeSizes DEF Limbs
  <2> HIDE DEF a
  <2> QED
    BY SMT, <2>1, <2>2 DEF Magnitude
<1>4. a(9) \in Int /\ -36909875 <= a(9) /\ a(9) <= 36909875
  <2>1. a(9) \in Int /\ 100 * Magnitude(a(9)) <= 220 * 16777216
    BY SMT, <1>2, CodeSizes DEF Limbs
  <2> HIDE DEF a
  <2> QED
    BY SMT, <2>1 DEF Magnitude
<1>5. Number(h) = others + 1725436586697640946858688965569256363112777243042596638790631055949824 * a(9)
  <2>1. Number(h) = LimbSum(Parts(h))
    BY SMT, <1>1, PartsTyped
  <2>2. /\ Parts(h)[0] = a(0) * 1
       /\ Parts(h)[1] = a(1) * 67108864
       /\ Parts(h)[2] = a(2) * 2251799813685248
       /\ Parts(h)[3] = a(3) * 151115727451828646838272
       /\ Parts(h)[4] = a(4) * 5070602400912917605986812821504
       /\ Parts(h)[5] = a(5) * 340282366920938463463374607431768211456
       /\ Parts(h)[6] = a(6) * 11417981541647679048466287755595961091061972992
       /\ Parts(h)[7] = a(7) * 766247770432944429179173513575154591809369561091801088
       /\ Parts(h)[8] = a(8) * 25711008708143844408671393477458601640355247900524685364822016
       /\ Parts(h)[9] = a(9) * 1725436586697640946858688965569256363112777243042596638790631055949824
    BY SMT, CodeWeights DEF Parts, Limbs
  <2>3. LimbSum(Parts(h)) = others + 1725436586697640946858688965569256363112777243042596638790631055949824 * a(9)
    BY SMT, <1>1, <2>2, TenTerms DEF LimbSum
  <2> QED
    BY SMT, <2>1, <2>3
<1>6. Number([h EXCEPT ![9] = 0]) = others
  <2> DEFINE g == [h EXCEPT ![9] = 0]
  <2>1. g \in Elements /\ g[9] = 0 /\ \A i \in 0 .. 8 : g[i] = h[i]
    BY SMT, <1>1 DEF Elements, Limbs
  <2> HIDE DEF g
  <2>2. Number(g) = LimbSum(Parts(g))
    BY SMT, <1>1, <2>1, PartsTyped
  <2>3. /\ Parts(g)[0] = g[0] * 1
       /\ Parts(g)[1] = g[1] * 67108864
       /\ Parts(g)[2] = g[2] * 2251799813685248
       /\ Parts(g)[3] = g[3] * 151115727451828646838272
       /\ Parts(g)[4] = g[4] * 5070602400912917605986812821504
       /\ Parts(g)[5] = g[5] * 340282366920938463463374607431768211456
       /\ Parts(g)[6] = g[6] * 11417981541647679048466287755595961091061972992
       /\ Parts(g)[7] = g[7] * 766247770432944429179173513575154591809369561091801088
       /\ Parts(g)[8] = g[8] * 25711008708143844408671393477458601640355247900524685364822016
       /\ Parts(g)[9] = g[9] * 1725436586697640946858688965569256363112777243042596638790631055949824
    BY SMT, CodeWeights DEF Parts, Limbs
  <2>4. /\ g[9] = 0 /\ g[0] = a(0) /\ g[1] = a(1) /\ g[2] = a(2) /\ g[3] = a(3) /\ g[4] = a(4) /\ g[5] = a(5) /\ g[6] = a(6) /\ g[7] = a(7) /\ g[8] = a(8)
    BY SMT, <2>1
  <2>5. LimbSum(Parts(g)) = others
    BY SMT, <1>1, <2>3, <2>4, TenTerms DEF LimbSum
  <2> QED
    BY SMT, <2>2, <2>5 DEF g
<1>7. /\ a(0) \in Int /\ -73819750 <= a(0) /\ a(0) <= 73819750
      /\ a(1) \in Int /\ -73819750 <= a(1) /\ a(1) <= 73819750
      /\ a(2) \in Int /\ -73819750 <= a(2) /\ a(2) <= 73819750
      /\ a(3) \in Int /\ -73819750 <= a(3) /\ a(3) <= 73819750
      /\ a(4) \in Int /\ -73819750 <= a(4) /\ a(4) <= 73819750
      /\ a(5) \in Int /\ -73819750 <= a(5) /\ a(5) <= 73819750
      /\ a(6) \in Int /\ -73819750 <= a(6) /\ a(6) <= 73819750
      /\ a(7) \in Int /\ -73819750 <= a(7) /\ a(7) <= 73819750
      /\ a(8) \in Int /\ -73819750 <= a(8) /\ a(8) <= 73819750
  BY SMT, <1>3 DEF Limbs
<1> HIDE DEF a
<1>8. others \in Int /\ -1897980291647221252576937653162803847759256403264325490088282759259750 <= others /\ others <= 1897980291647221252576937653162803847759256403264325490088282759259750
  BY SMT, <1>3, <1>7 DEF Limbs
<1> HIDE DEF others
<1>9. Packable(h)
  BY SMT, <1>1, <1>4, <1>5, <1>6, <1>8, CodeWeights DEF Packable
<1>10. Fits32(19 * a(9) + 16777216)
  BY SMT, <1>4 DEF Fits32
<1> QED
  BY SMT, <1>1, <1>9, <1>10, PacksResidue DEF a

\* At the sizes of the code, fe_tobytes writes the one encoding of whatever value
\* limbs within 1.1 * 2^26 and 1.1 * 2^25 have been brought to.
THEOREM CodePacksCanonically ==
    ASSUME AsInTheCode, Reference
    PROVE  Spec => [](Within(x.limbs, 220) => fe_tobytes(x.limbs) = x.value)
<1>1. Shaped
  BY CodeIsShaped
<1>2. EncodingIsCanonical => (Within(x.limbs, 220) => fe_tobytes(x.limbs) = x.value)
  BY PackingFits DEF EncodingIsCanonical
<1>3. Spec => []EncodingIsCanonical
  BY <1>1, FieldPacksCanonically
<1> QED
  BY <1>2, <1>3, PTL
=============================================================================
