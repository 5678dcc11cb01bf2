--------------------------- MODULE FecCodeProofs ---------------------------
(***************************************************************************)
(* The fountain code decodes what was sent, and waits only when it must.   *)
(***************************************************************************)
EXTENDS FecCode, SequenceTheorems, WellFoundedInduction, TLAPS

-----------------------------------------------------------------------------
(* Induction over the numbers, with a set in place of a predicate: the        *)
(* library's well-founded minimum is stated so.                               *)

LEMMA LeastNumber ==
    ASSUME NEW T \in SUBSET Nat, T # {}
    PROVE  \E x \in T : \A y \in T : x <= y
<1>1. PICK x \in T : \A y \in T : ~(<<y, x>> \in OpToRel(<, Nat))
  BY NatLessThanWellFounded, WFMin
<1>2. \A y \in T : y \in Nat /\ x \in Nat /\ ~(y < x)
  BY <1>1 DEF OpToRel
<1>3. \A y \in T : x <= y
  BY <1>2
<1> QED
  BY <1>3

LEMMA Induction ==
    ASSUME NEW n \in Nat, NEW S, 0 \in S, \A i \in 0 .. n - 1 : i \in S => i + 1 \in S
    PROVE  0 .. n \subseteq S
<1> DEFINE T == {i \in 0 .. n : i \notin S}
<1>1. SUFFICES ASSUME T # {} PROVE FALSE
  OBVIOUS
<1>2. T \in SUBSET Nat
  OBVIOUS
<1>3. \E x \in T : \A y \in T : x <= y
  <2> HIDE DEF T
  <2> QED
    BY <1>1, <1>2, LeastNumber
<1>4. PICK x \in T : \A y \in T : x <= y
  BY <1>3
<1>5. x \in 1 .. n
  BY <1>4
<1>6. x - 1 \in 0 .. n - 1 /\ x - 1 \notin T
  BY <1>4, <1>5
<1>7. (x - 1) + 1 \in S
  BY <1>6
<1> QED
  BY <1>4, <1>5, <1>7

-----------------------------------------------------------------------------
(* The laws of the field, for every byte.                                     *)

\* A set of bytes that holds 0 and the powers of x, and the sum of any two of
\* its members, holds every byte.
LEMMA ByteInduction ==
    ASSUME NEW L \in SUBSET Bytes, 0 \in L, Powers \subseteq L,
           \A a, b \in L : Xor[a][b] \in L
    PROVE  L = Bytes
<1> DEFINE T == Bytes \ L
<1>1. SUFFICES ASSUME T # {} PROVE FALSE
  OBVIOUS
<1>2. T \in SUBSET Nat
  BY DEF Bytes
<1>3. \E x \in T : \A y \in T : x <= y
  <2> HIDE DEF T
  <2> QED
    BY <1>1, <1>2, LeastNumber
<1>4. PICK x \in T : \A y \in T : x <= y
  BY <1>3
<1>5. x \in Bytes \ {0}
  OBVIOUS
<1>6. PICK c \in Powers : Xor[x][c] < x
  BY <1>5, XorAssumption
<1>7. c \in Bytes /\ c \in L
  OBVIOUS
<1>8. Xor[x][c] \in Bytes
  BY <1>5, <1>7, XorAssumption
<1>9. Xor[x][c] \in L
  <2>1. \A i, j \in Bytes : i < j => ~(j <= i)
    BY DEF Bytes
  <2> QED
    BY <1>4, <1>5, <1>6, <1>8, <2>1
<1>10. Xor[Xor[x][c]][c] = Xor[x][Xor[c][c]]
  BY <1>5, <1>7, XorAssumption
<1>11. Xor[x][Xor[c][c]] = x
  BY <1>5, <1>7, XorAssumption
<1>12. Xor[Xor[x][c]][c] \in L
  BY <1>7, <1>9
<1> QED
  BY <1>10, <1>11, <1>12

LEMMA Constants01 == 0 \in Bytes /\ 1 \in Bytes /\ Powers \subseteq Bytes
  BY DEF Bytes, Powers

LEMMA XorTyped == \A a, b \in Bytes : Xor[a][b] \in Bytes
  BY XorAssumption

LEMMA XorCommutes == \A a, b \in Bytes : Xor[a][b] = Xor[b][a]
  BY XorAssumption

LEMMA XorZero == \A a \in Bytes : Xor[a][0] = a /\ Xor[0][a] = a
<1>1. \A a \in Bytes : Xor[a][0] = a
  BY XorAssumption
<1> QED
  BY <1>1, Constants01, XorCommutes

LEMMA XorSelf == \A a \in Bytes : Xor[a][a] = 0
  BY XorAssumption

LEMMA XorAssociates == \A a, b, c \in Bytes : Xor[Xor[a][b]][c] = Xor[a][Xor[b][c]]
<1> DEFINE L == {c \in Bytes : \A a, b \in Bytes : Xor[Xor[a][b]][c] = Xor[a][Xor[b][c]]}
<1>1. 0 \in L
  BY Constants01, XorTyped, XorZero
<1>2. Powers \subseteq L
  <2>1. \A a, b \in Bytes, c \in Powers : Xor[Xor[a][b]][c] = Xor[a][Xor[b][c]]
    BY XorAssumption
  <2> QED
    BY <2>1, Constants01
<1>3. ASSUME NEW c \in L, NEW d \in L PROVE Xor[c][d] \in L
  <2> SUFFICES ASSUME NEW a \in Bytes, NEW b \in Bytes
               PROVE  Xor[Xor[a][b]][Xor[c][d]] = Xor[a][Xor[b][Xor[c][d]]]
    BY XorTyped
  <2>1. Xor[a][b] \in Bytes /\ Xor[b][c] \in Bytes
    BY XorTyped
  <2>2. Xor[Xor[a][b]][Xor[c][d]] = Xor[Xor[Xor[a][b]][c]][d]
    BY <2>1
  <2>3. @ = Xor[Xor[a][Xor[b][c]]][d]
    OBVIOUS
  <2>4. @ = Xor[a][Xor[Xor[b][c]][d]]
    BY <2>1
  <2>5. @ = Xor[a][Xor[b][Xor[c][d]]]
    OBVIOUS
  <2> QED
    BY <2>2, <2>3, <2>4, <2>5
<1>4. L = Bytes
  BY <1>1, <1>2, <1>3, ByteInduction
<1> QED
  BY <1>4

LEMMA TimesTyped == \A a, b \in Bytes : Times[a][b] \in Bytes
  BY TimesAssumption

LEMMA TimesCommutes == \A a, b \in Bytes : Times[a][b] = Times[b][a]
  BY TimesAssumption

LEMMA TimesZeroOne ==
    \A a \in Bytes : /\ Times[a][0] = 0 /\ Times[0][a] = 0
                     /\ Times[a][1] = a /\ Times[1][a] = a
<1>1. \A a \in Bytes : Times[a][0] = 0 /\ Times[a][1] = a
  BY TimesAssumption
<1> QED
  BY <1>1, Constants01, TimesCommutes

LEMMA TimesDistributes ==
    \A a, b, c \in Bytes : Times[a][Xor[b][c]] = Xor[Times[a][b]][Times[a][c]]
<1> DEFINE L == {c \in Bytes : \A a, b \in Bytes :
                    Times[a][Xor[b][c]] = Xor[Times[a][b]][Times[a][c]]}
<1>1. 0 \in L
  BY Constants01, TimesTyped, TimesZeroOne, XorZero
<1>2. Powers \subseteq L
  <2>1. \A a, b \in Bytes, c \in Powers :
            Times[a][Xor[b][c]] = Xor[Times[a][b]][Times[a][c]]
    BY TimesAssumption
  <2> QED
    BY <2>1, Constants01
<1>3. ASSUME NEW c \in L, NEW d \in L PROVE Xor[c][d] \in L
  <2> SUFFICES ASSUME NEW a \in Bytes, NEW b \in Bytes
               PROVE  Times[a][Xor[b][Xor[c][d]]] = Xor[Times[a][b]][Times[a][Xor[c][d]]]
    BY XorTyped
  <2>1. /\ Xor[b][c] \in Bytes
        /\ Times[a][b] \in Bytes /\ Times[a][c] \in Bytes /\ Times[a][d] \in Bytes
    BY XorTyped, TimesTyped
  <2>2. Times[a][Xor[b][Xor[c][d]]] = Times[a][Xor[Xor[b][c]][d]]
    <3>1. Xor[b][Xor[c][d]] = Xor[Xor[b][c]][d]
      BY XorAssociates
    <3> QED
      BY <3>1
  <2>3. @ = Xor[Times[a][Xor[b][c]]][Times[a][d]]
    BY <2>1
  <2>4. @ = Xor[Xor[Times[a][b]][Times[a][c]]][Times[a][d]]
    OBVIOUS
  <2>5. @ = Xor[Times[a][b]][Xor[Times[a][c]][Times[a][d]]]
    <3> DEFINE ab == Times[a][b]
               ac == Times[a][c]
               ad == Times[a][d]
    <3>1. ab \in Bytes /\ ac \in Bytes /\ ad \in Bytes
      BY <2>1
    <3> HIDE DEF L, ab, ac, ad
    <3>2. Xor[Xor[ab][ac]][ad] = Xor[ab][Xor[ac][ad]]
      BY <3>1, XorAssociates
    <3> QED
      BY <3>2 DEF ab, ac, ad
  <2>6. @ = Xor[Times[a][b]][Times[a][Xor[c][d]]]
    OBVIOUS
  <2> QED
    BY <2>2, <2>3, <2>4, <2>5, <2>6
<1>4. L = Bytes
  BY <1>1, <1>2, <1>3, ByteInduction
<1> QED
  BY <1>4

LEMMA TimesDistributesRight ==
    \A a, b, c \in Bytes : Times[Xor[b][c]][a] = Xor[Times[b][a]][Times[c][a]]
<1> SUFFICES ASSUME NEW a \in Bytes, NEW b \in Bytes, NEW c \in Bytes
             PROVE  Times[Xor[b][c]][a] = Xor[Times[b][a]][Times[c][a]]
  OBVIOUS
<1>1. Times[a][Xor[b][c]] = Xor[Times[a][b]][Times[a][c]]
  BY TimesDistributes
<1>2. /\ Times[a][Xor[b][c]] = Times[Xor[b][c]][a]
      /\ Times[a][b] = Times[b][a] /\ Times[a][c] = Times[c][a]
  BY XorTyped, TimesCommutes
<1> QED
  BY <1>1, <1>2

LEMMA TimesAssociates ==
    \A a, b, c \in Bytes : Times[Times[a][b]][c] = Times[a][Times[b][c]]
<1>1. ASSUME NEW b \in Bytes,
             \A a \in Bytes, c \in Powers : Times[Times[a][b]][c] = Times[a][Times[b][c]]
      PROVE  \A a, c \in Bytes : Times[Times[a][b]][c] = Times[a][Times[b][c]]
  <2> DEFINE L == {c \in Bytes : \A a \in Bytes :
                      Times[Times[a][b]][c] = Times[a][Times[b][c]]}
  <2>1. 0 \in L
    BY Constants01, TimesTyped, TimesZeroOne
  <2>2. Powers \subseteq L
    BY <1>1, Constants01
  <2>3. ASSUME NEW c \in L, NEW d \in L PROVE Xor[c][d] \in L
    <3> SUFFICES ASSUME NEW a \in Bytes
                 PROVE  Times[Times[a][b]][Xor[c][d]] = Times[a][Times[b][Xor[c][d]]]
      BY XorTyped
    <3>1. /\ c \in Bytes /\ d \in Bytes
          /\ Times[a][b] \in Bytes /\ Times[b][c] \in Bytes /\ Times[b][d] \in Bytes
      BY TimesTyped
    <3>2. Times[Times[a][b]][Xor[c][d]] = Xor[Times[Times[a][b]][c]][Times[Times[a][b]][d]]
      <4> DEFINE ab == Times[a][b]
      <4>1. ab \in Bytes /\ c \in Bytes /\ d \in Bytes
        BY <3>1
      <4> HIDE DEF L, ab
      <4>2. Times[ab][Xor[c][d]] = Xor[Times[ab][c]][Times[ab][d]]
        BY <4>1, TimesDistributes
      <4> QED
        BY <4>2 DEF ab
    <3>3. @ = Xor[Times[a][Times[b][c]]][Times[a][Times[b][d]]]
      OBVIOUS
    <3>4. @ = Times[a][Xor[Times[b][c]][Times[b][d]]]
      <4>1. \A u, v \in Bytes : Times[a][Xor[u][v]] = Xor[Times[a][u]][Times[a][v]]
        BY TimesDistributes
      <4> HIDE DEF L
      <4> QED
        BY <3>1, <4>1
    <3>5. @ = Times[a][Times[b][Xor[c][d]]]
      <4>1. Xor[Times[b][c]][Times[b][d]] = Times[b][Xor[c][d]]
        BY TimesDistributes
      <4> QED
        BY <4>1
    <3> QED
      BY <3>2, <3>3, <3>4, <3>5
  <2>4. L = Bytes
    BY <2>1, <2>2, <2>3, ByteInduction
  <2> QED
    BY <2>4
<1> DEFINE L == {b \in Bytes : \A a, c \in Bytes :
                    Times[Times[a][b]][c] = Times[a][Times[b][c]]}
<1>2. 0 \in L
  BY Constants01, TimesZeroOne
<1>3. Powers \subseteq L
  <2> SUFFICES ASSUME NEW b \in Powers PROVE b \in L
    OBVIOUS
  <2>1. \A a \in Bytes, c \in Powers : Times[Times[a][b]][c] = Times[a][Times[b][c]]
    BY TimesAssumption
  <2> QED
    BY <1>1, <2>1, Constants01
<1>4. ASSUME NEW b \in L, NEW d \in L PROVE Xor[b][d] \in L
  <2> SUFFICES ASSUME NEW a \in Bytes, NEW c \in Bytes
               PROVE  Times[Times[a][Xor[b][d]]][c] = Times[a][Times[Xor[b][d]][c]]
    BY XorTyped
  <2>1. /\ Times[a][b] \in Bytes /\ Times[a][d] \in Bytes
        /\ Times[b][c] \in Bytes /\ Times[d][c] \in Bytes
    BY TimesTyped
  <2>2. Times[Times[a][Xor[b][d]]][c] = Times[Xor[Times[a][b]][Times[a][d]]][c]
    <3>1. Times[a][Xor[b][d]] = Xor[Times[a][b]][Times[a][d]]
      BY TimesDistributes
    <3> QED
      BY <3>1
  <2>3. @ = Xor[Times[Times[a][b]][c]][Times[Times[a][d]][c]]
    <3>1. \A u, v \in Bytes : Times[Xor[u][v]][c] = Xor[Times[u][c]][Times[v][c]]
      BY TimesDistributesRight
    <3> HIDE DEF L
    <3> QED
      BY <2>1, <3>1
  <2>4. @ = Xor[Times[a][Times[b][c]]][Times[a][Times[d][c]]]
    OBVIOUS
  <2>5. @ = Times[a][Xor[Times[b][c]][Times[d][c]]]
    <3>1. \A u, v \in Bytes : Times[a][Xor[u][v]] = Xor[Times[a][u]][Times[a][v]]
      BY TimesDistributes
    <3> HIDE DEF L
    <3> QED
      BY <2>1, <3>1
  <2>6. @ = Times[a][Times[Xor[b][d]][c]]
    <3>1. Xor[Times[b][c]][Times[d][c]] = Times[Xor[b][d]][c]
      BY TimesDistributesRight
    <3> QED
      BY <3>1
  <2> QED
    BY <2>2, <2>3, <2>4, <2>5, <2>6
<1>5. L = Bytes
  BY <1>2, <1>3, <1>4, ByteInduction
<1> QED
  BY <1>5

LEMMA XorRegroups ==
    ASSUME NEW a \in Bytes, NEW b \in Bytes, NEW x \in Bytes, NEW y \in Bytes
    PROVE  Xor[Xor[a][b]][Xor[x][y]] = Xor[Xor[a][x]][Xor[b][y]]
<1> DEFINE xy == Xor[x][y]
           by == Xor[b][y]
<1>1. xy \in Bytes /\ by \in Bytes
  BY XorTyped
<1>2. Xor[b][xy] = Xor[x][by]
  <2>1. Xor[b][xy] = Xor[Xor[b][x]][y]
    BY XorAssociates
  <2>2. Xor[b][x] = Xor[x][b]
    BY XorCommutes
  <2>3. Xor[Xor[x][b]][y] = Xor[x][by]
    BY XorAssociates
  <2> QED
    BY <2>1, <2>2, <2>3
<1> HIDE DEF xy, by
<1>3. Xor[Xor[a][b]][xy] = Xor[a][Xor[b][xy]]
  BY <1>1, XorAssociates
<1>4. Xor[Xor[a][x]][by] = Xor[a][Xor[x][by]]
  BY <1>1, XorAssociates
<1> QED
  BY <1>2, <1>3, <1>4 DEF xy, by

LEMMA XorCancels ==
    ASSUME NEW a \in Bytes, NEW b \in Bytes, NEW k \in Bytes, Xor[a][k] = Xor[b][k]
    PROVE  a = b
<1>1. Xor[Xor[a][k]][k] = Xor[a][Xor[k][k]] /\ Xor[Xor[b][k]][k] = Xor[b][Xor[k][k]]
  BY XorAssociates
<1> QED
  BY <1>1, XorSelf, XorZero

LEMMA TimesInverse ==
    ASSUME NEW p \in Bytes, p # 0
    PROVE  gf256_inv(p) \in Bytes /\ Times[p][gf256_inv(p)] = 1
  BY InverseAssumption

LEMMA TimesCancels ==
    ASSUME NEW p \in Bytes, p # 0, NEW a \in Bytes, NEW b \in Bytes,
           Times[a][gf256_inv(p)] = Times[b][gf256_inv(p)]
    PROVE  a = b
<1> DEFINE k == gf256_inv(p)
<1>1. k \in Bytes /\ Times[k][p] = 1
  BY TimesInverse, TimesCommutes
<1> HIDE DEF k
<1>2. Times[Times[a][k]][p] = Times[a][Times[k][p]] /\ Times[Times[b][k]][p] = Times[b][Times[k][p]]
  BY <1>1, TimesAssociates
<1>3. Times[a][k] = Times[b][k]
  BY DEF k
<1> QED
  BY <1>1, <1>2, <1>3, TimesZeroOne

-----------------------------------------------------------------------------
(* What the loop of fec_encode_symbol computes.                               *)

Products(coeffs, bytes) == [c \in Columns |-> Times[coeffs[c]][bytes[c]]]

\* out holds the sums the loop goes through when it adds up the terms.
Running(out, terms) ==
    /\ out \in [0 .. FEC_SOURCE_SYMBOLS -> Bytes]
    /\ out[0] = 0
    /\ \A c \in Columns : out[c + 1] = Xor[out[c]][terms[c]]

\* the terms t3 are those of t1 and t2 added up
Added(t1, t2, t3) == \A c \in Columns : t3[c] = Xor[t1[c]][t2[c]]

LEMMA ColumnsFacts ==
    /\ FEC_SOURCE_SYMBOLS \in Nat /\ FEC_SOURCE_SYMBOLS >= 1
    /\ 0 \in Columns
    /\ \A c \in Columns : c \in Nat /\ c + 1 \in 1 .. FEC_SOURCE_SYMBOLS
  BY FecCodeAssumption DEF Columns

LEMMA ProductsTyped ==
    ASSUME NEW a \in Rows, NEW v \in Rows
    PROVE  Products(a, v) \in Rows
  BY TimesTyped DEF Products, Rows

LEMMA RunExists ==
    ASSUME NEW terms \in Rows
    PROVE  \E out : Running(out, terms)
<1> DEFINE N == FEC_SOURCE_SYMBOLS
           Upto(n, out) == /\ out \in [0 .. n -> Bytes]
                           /\ out[0] = 0
                           /\ \A c \in 0 .. n - 1 : out[c + 1] = Xor[out[c]][terms[c]]
           S == {n \in 0 .. N : \E out : Upto(n, out)}
<1>1. N \in Nat /\ Columns = 0 .. N - 1
  BY FecCodeAssumption DEF Columns
<1> HIDE DEF N
<1>2. 0 \in S
  <2>1. Upto(0, [i \in 0 .. 0 |-> 0])
    BY Constants01
  <2>2. 0 \in 0 .. N
    BY <1>1
  <2> HIDE DEF Upto
  <2> QED
    BY <2>1, <2>2
<1>3. ASSUME NEW n \in 0 .. N - 1, n \in S PROVE n + 1 \in S
  <2>1. PICK out : Upto(n, out)
    BY <1>3
  <2> DEFINE new == [i \in 0 .. n + 1 |-> IF i = n + 1 THEN Xor[out[n]][terms[n]] ELSE out[i]]
  <2>2. terms[n] \in Bytes /\ out[n] \in Bytes /\ n \in Nat /\ n + 1 \in 0 .. N
    BY <1>1, <2>1 DEF Rows
  <2>3. Xor[out[n]][terms[n]] \in Bytes
    BY <2>2, XorTyped
  <2>4. new \in [0 .. n + 1 -> Bytes]
    BY <2>1, <2>2, <2>3
  <2>5. new[0] = 0
    BY <2>1, <2>2
  <2>6. ASSUME NEW c \in 0 .. (n + 1) - 1 PROVE new[c + 1] = Xor[new[c]][terms[c]]
    <3>1. c # n + 1 /\ c \in 0 .. n + 1 /\ c + 1 \in 0 .. n + 1 /\ new[c] = out[c]
      BY <2>2
    <3>2. CASE c = n
      BY <3>1, <3>2
    <3>3. CASE c # n
      <4>1. c \in 0 .. n - 1 /\ c + 1 # n + 1
        BY <2>2, <3>3
      <4>2. out[c + 1] = Xor[out[c]][terms[c]]
        BY <2>1, <4>1
      <4> QED
        BY <3>1, <4>1, <4>2
    <3> QED
      BY <3>2, <3>3
  <2>7. Upto(n + 1, new)
    BY <2>4, <2>5, <2>6
  <2> QED
    BY <2>2, <2>7
<1>4. N \in S
  <2> HIDE DEF S
  <2>1. 0 .. N \subseteq S
    BY <1>1, <1>2, <1>3, Induction
  <2> QED
    BY <1>1, <2>1
<1>5. PICK out : Upto(N, out)
  BY <1>4
<1>6. Running(out, terms)
  BY <1>1, <1>5 DEF Running, N
<1> QED
  BY <1>6

\* Dot is the last of the running sums.
LEMMA DotRuns ==
    ASSUME NEW a \in Rows, NEW v \in Rows
    PROVE  \E out : Running(out, Products(a, v)) /\ Dot(a, v) = out[FEC_SOURCE_SYMBOLS]
<1> DEFINE N == FEC_SOURCE_SYMBOLS
           Loop(out) == [c \in 0 .. N |->
                            IF c = 0 THEN 0
                            ELSE Xor[out[c - 1]][Times[a[c - 1]][v[c - 1]]]]
           sums == CHOOSE out : out = Loop(out)
<1>1. N \in Nat /\ Columns = 0 .. N - 1
  BY FecCodeAssumption DEF Columns
<1>2. Dot(a, v) = sums[N]
  BY DEF Dot
<1>3. ASSUME NEW out, Running(out, Products(a, v)) PROVE out = Loop(out)
  <2>1. ASSUME NEW c \in 0 .. N PROVE out[c] = Loop(out)[c]
    <3>1. CASE c = 0
      BY <1>3, <3>1 DEF Running
    <3>2. CASE c # 0
      <4>1. c - 1 \in Columns /\ (c - 1) + 1 = c
        BY <1>1, <3>2
      <4>2. out[(c - 1) + 1] = Xor[out[c - 1]][Products(a, v)[c - 1]]
        BY <1>3, <4>1 DEF Running
      <4> QED
        BY <3>2, <4>1, <4>2 DEF Products
    <3> QED
      BY <3>1, <3>2
  <2>2. out = [c \in 0 .. N |-> out[c]]
    BY <1>3 DEF Running
  <2> HIDE DEF N
  <2> QED
    BY <2>1, <2>2
<1>4. \E out : out = Loop(out)
  BY <1>3, RunExists, ProductsTyped
<1>5. sums = Loop(sums)
  <2> HIDE DEF Loop
  <2> QED
    BY <1>4
<1> HIDE DEF sums
<1>6. /\ sums[0] = 0
      /\ \A c \in Columns : sums[c + 1] = Xor[sums[c]][Products(a, v)[c]]
  <2>1. 0 \in 0 .. N /\ \A c \in Columns : c + 1 \in 0 .. N /\ c + 1 # 0 /\ (c + 1) - 1 = c
    BY <1>1
  <2>2. sums[0] = Loop(sums)[0] /\ \A c \in Columns : sums[c + 1] = Loop(sums)[c + 1]
    BY <1>5
  <2> QED
    BY <2>1, <2>2 DEF Products
<1>7. \A n \in 0 .. N : sums[n] \in Bytes
  <2> DEFINE S == {n \in 0 .. N : sums[n] \in Bytes}
  <2>1. 0 \in S
    BY <1>1, <1>6, Constants01
  <2>2. ASSUME NEW n \in 0 .. N - 1, n \in S PROVE n + 1 \in S
    <3>1. n \in Columns /\ n + 1 \in 0 .. N
      BY <1>1
    <3>2. Products(a, v)[n] \in Bytes
      BY <3>1, ProductsTyped DEF Rows
    <3>3. sums[n + 1] \in Bytes
      BY <1>6, <2>2, <3>1, <3>2, XorTyped
    <3> QED
      BY <3>1, <3>3
  <2>3. 0 .. N \subseteq S
    <3> HIDE DEF S
    <3> QED
      BY <1>1, <2>1, <2>2, Induction
  <2> QED
    BY <2>3
<1>8. sums \in [0 .. N -> Bytes]
  <2>1. sums = [c \in 0 .. N |-> sums[c]]
    BY <1>5
  <2> QED
    BY <1>7, <2>1
<1>9. Running(sums, Products(a, v))
  BY <1>6, <1>8 DEF Running
<1> QED
  BY <1>2, <1>9

LEMMA DotTyped ==
    ASSUME NEW a \in Rows, NEW v \in Rows
    PROVE  Dot(a, v) \in Bytes
<1>1. PICK out : Running(out, Products(a, v)) /\ Dot(a, v) = out[FEC_SOURCE_SYMBOLS]
  BY DotRuns
<1> QED
  BY <1>1, ColumnsFacts DEF Running

\* Running sums of the sums of two lists of terms.
LEMMA RunAdds ==
    ASSUME NEW t1 \in Rows, NEW t2 \in Rows, NEW t3, Added(t1, t2, t3),
           NEW o1, NEW o2, NEW o3,
           Running(o1, t1), Running(o2, t2), Running(o3, t3)
    PROVE  o3[FEC_SOURCE_SYMBOLS] = Xor[o1[FEC_SOURCE_SYMBOLS]][o2[FEC_SOURCE_SYMBOLS]]
<1> DEFINE N == FEC_SOURCE_SYMBOLS
           S == {n \in 0 .. N : o3[n] = Xor[o1[n]][o2[n]]}
<1>1. N \in Nat /\ Columns = 0 .. N - 1
  BY FecCodeAssumption DEF Columns
<1>2. \A n \in 0 .. N : o1[n] \in Bytes /\ o2[n] \in Bytes
  BY DEF Running
<1>3. /\ o1[0] = 0 /\ o2[0] = 0 /\ o3[0] = 0
      /\ \A c \in Columns : /\ o1[c + 1] = Xor[o1[c]][t1[c]]
                            /\ o2[c + 1] = Xor[o2[c]][t2[c]]
                            /\ o3[c + 1] = Xor[o3[c]][Xor[t1[c]][t2[c]]]
  BY DEF Running, Added
<1>4. \A c \in Columns : t1[c] \in Bytes /\ t2[c] \in Bytes
  BY DEF Rows
<1> HIDE DEF N
<1>5. 0 \in S
  BY <1>1, <1>3, Constants01, XorZero
<1>6. ASSUME NEW n \in 0 .. N - 1, n \in S PROVE n + 1 \in S
  <2>1. n \in Columns /\ n \in 0 .. N /\ n + 1 \in 0 .. N
    BY <1>1
  <2> DEFINE a == o1[n]
             b == o2[n]
             x == t1[n]
             y == t2[n]
  <2>2. a \in Bytes /\ b \in Bytes /\ x \in Bytes /\ y \in Bytes
    BY <1>2, <1>4, <2>1
  <2>3. o1[n + 1] = Xor[a][x] /\ o2[n + 1] = Xor[b][y] /\ o3[n + 1] = Xor[Xor[a][b]][Xor[x][y]]
    BY <1>3, <1>6, <2>1
  <2> HIDE DEF a, b, x, y
  <2>4. Xor[Xor[a][b]][Xor[x][y]] = Xor[Xor[a][x]][Xor[b][y]]
    BY <2>2, XorRegroups
  <2> QED
    BY <2>1, <2>3, <2>4
<1>7. N \in S
  <2> HIDE DEF S
  <2>1. 0 .. N \subseteq S
    BY <1>1, <1>5, <1>6, Induction
  <2> QED
    BY <1>1, <2>1
<1> QED
  BY <1>7 DEF N

\* Running sums of the multiples of a list of terms.
LEMMA RunScales ==
    ASSUME NEW t1 \in Rows, NEW k \in Bytes, NEW t2,
           \A c \in Columns : t2[c] = Times[t1[c]][k],
           NEW o1, NEW o2, Running(o1, t1), Running(o2, t2)
    PROVE  o2[FEC_SOURCE_SYMBOLS] = Times[o1[FEC_SOURCE_SYMBOLS]][k]
<1> DEFINE N == FEC_SOURCE_SYMBOLS
           S == {n \in 0 .. N : o2[n] = Times[o1[n]][k]}
<1>1. N \in Nat /\ Columns = 0 .. N - 1
  BY FecCodeAssumption DEF Columns
<1>2. \A n \in 0 .. N : o1[n] \in Bytes
  BY DEF Running
<1>3. /\ o1[0] = 0 /\ o2[0] = 0
      /\ \A c \in Columns : /\ o1[c + 1] = Xor[o1[c]][t1[c]]
                            /\ o2[c + 1] = Xor[o2[c]][Times[t1[c]][k]]
  BY DEF Running
<1>4. \A c \in Columns : t1[c] \in Bytes
  BY DEF Rows
<1> HIDE DEF N
<1>5. 0 \in S
  BY <1>1, <1>3, TimesZeroOne
<1>6. ASSUME NEW n \in 0 .. N - 1, n \in S PROVE n + 1 \in S
  <2>1. n \in Columns /\ n \in 0 .. N /\ n + 1 \in 0 .. N
    BY <1>1
  <2>2. o1[n] \in Bytes /\ t1[n] \in Bytes
    BY <1>2, <1>4, <2>1
  <2>3. o1[n + 1] = Xor[o1[n]][t1[n]] /\ o2[n + 1] = Xor[Times[o1[n]][k]][Times[t1[n]][k]]
    BY <1>3, <1>6, <2>1
  <2>4. Times[Xor[o1[n]][t1[n]]][k] = Xor[Times[o1[n]][k]][Times[t1[n]][k]]
    BY <2>2, TimesDistributesRight
  <2> QED
    BY <2>1, <2>3, <2>4
<1>7. N \in S
  <2> HIDE DEF S
  <2>1. 0 .. N \subseteq S
    BY <1>1, <1>5, <1>6, Induction
  <2> QED
    BY <1>1, <2>1
<1> QED
  BY <1>7 DEF N

\* Running sums of a list with one term that counts.
LEMMA RunSelects ==
    ASSUME NEW t \in Rows, NEW i \in Columns, \A c \in Columns \ {i} : t[c] = 0,
           NEW out, Running(out, t)
    PROVE  out[FEC_SOURCE_SYMBOLS] = t[i]
<1> DEFINE N == FEC_SOURCE_SYMBOLS
           S == {n \in 0 .. N : out[n] = IF n <= i THEN 0 ELSE t[i]}
<1>1. N \in Nat /\ Columns = 0 .. N - 1
  BY FecCodeAssumption DEF Columns
<1>2. out[0] = 0 /\ \A c \in Columns : out[c + 1] = Xor[out[c]][t[c]]
  BY DEF Running
<1>3. t[i] \in Bytes
  BY DEF Rows
<1> HIDE DEF N
<1>4. 0 \in S
  BY <1>1, <1>2
<1>5. ASSUME NEW n \in 0 .. N - 1, n \in S PROVE n + 1 \in S
  <2>1. n \in Columns /\ n \in 0 .. N /\ n + 1 \in 0 .. N
    BY <1>1
  <2>2. out[n + 1] = Xor[out[n]][t[n]]
    BY <1>2, <2>1
  <2>3. CASE n = i
    BY <1>3, <1>5, <2>1, <2>2, <2>3, XorZero
  <2>4. CASE n < i
    <3>1. out[n] = 0 /\ t[n] = 0 /\ n + 1 <= i
      BY <1>1, <1>5, <2>1, <2>4
    <3> QED
      BY <2>1, <2>2, <3>1, Constants01, XorZero
  <2>5. CASE n > i
    <3>1. out[n] = t[i] /\ t[n] = 0 /\ ~(n + 1 <= i)
      BY <1>1, <1>5, <2>1, <2>5
    <3> QED
      BY <1>3, <2>1, <2>2, <3>1, XorZero
  <2> QED
    BY <1>1, <2>1, <2>3, <2>4, <2>5
<1>6. N \in S
  <2> HIDE DEF S
  <2>1. 0 .. N \subseteq S
    BY <1>1, <1>4, <1>5, Induction
  <2> QED
    BY <1>1, <2>1
<1> QED
  BY <1>1, <1>6 DEF N

\* the row r is the row a plus k times the row p
Combined(a, k, p, r) == \A c \in Columns : r[c] = Xor[a[c]][Times[k][p[c]]]

LEMMA DotAddsRows ==
    ASSUME NEW a \in Rows, NEW p \in Rows, NEW k \in Bytes, NEW v \in Rows,
           NEW r \in Rows, Combined(a, k, p, r)
    PROVE  Dot(r, v) = Xor[Dot(a, v)][Times[k][Dot(p, v)]]
<1> DEFINE N == FEC_SOURCE_SYMBOLS
           av == Products(a, v)
           pv == Products(p, v)
           kpv == [c \in Columns |-> Times[pv[c]][k]]
<1>1. av \in Rows /\ pv \in Rows /\ Products(r, v) \in Rows
  BY ProductsTyped
<1>2. kpv \in Rows
  BY <1>1, TimesTyped DEF Rows
<1>3. ASSUME NEW c \in Columns PROVE Products(r, v)[c] = Xor[av[c]][kpv[c]]
  <2> DEFINE x == a[c]
             y == p[c]
             z == v[c]
             ky == Times[k][y]
  <2>1. x \in Bytes /\ y \in Bytes /\ z \in Bytes
    BY DEF Rows
  <2>2. ky \in Bytes
    BY <2>1, TimesTyped
  <2>3. Products(r, v)[c] = Times[Xor[x][ky]][z]
    BY DEF Products, Combined
  <2>4. kpv[c] = Times[Times[y][z]][k] /\ av[c] = Times[x][z]
    BY DEF Products
  <2>5. Times[ky][z] = Times[Times[y][z]][k]
    <3>1. Times[ky][z] = Times[k][Times[y][z]]
      BY <2>1, TimesAssociates
    <3>2. Times[y][z] \in Bytes
      BY <2>1, TimesTyped
    <3> QED
      BY <3>1, <3>2, TimesCommutes
  <2> HIDE DEF x, y, z, ky, av, pv, kpv
  <2>6. Times[Xor[x][ky]][z] = Xor[Times[x][z]][Times[ky][z]]
    BY <2>1, <2>2, TimesDistributesRight
  <2> QED
    BY <2>3, <2>4, <2>5, <2>6
<1>4. PICK o1 : Running(o1, av) /\ Dot(a, v) = o1[N]
  BY DotRuns
<1>5. PICK o2 : Running(o2, pv) /\ Dot(p, v) = o2[N]
  BY DotRuns
<1>6. PICK o3 : Running(o3, Products(r, v)) /\ Dot(r, v) = o3[N]
  BY DotRuns
<1>7. PICK o4 : Running(o4, kpv)
  BY <1>2, RunExists
<1>8. \A c \in Columns : kpv[c] = Times[pv[c]][k]
  OBVIOUS
<1> HIDE DEF av, pv, kpv
<1>9. o4[N] = Times[o2[N]][k]
  BY <1>1, <1>5, <1>7, <1>8, RunScales
<1>10. o3[N] = Xor[o1[N]][o4[N]]
  <2>1. Added(av, kpv, Products(r, v))
    BY <1>3 DEF Added
  <2> QED
    BY <1>1, <1>2, <1>4, <1>6, <1>7, <2>1, RunAdds
<1>11. Times[o2[N]][k] = Times[k][o2[N]]
  BY <1>5, DotTyped, TimesCommutes
<1> QED
  BY <1>4, <1>5, <1>6, <1>9, <1>10, <1>11

LEMMA DotScalesRow ==
    ASSUME NEW a \in Rows, NEW k \in Bytes, NEW v \in Rows,
           NEW r \in Rows, \A c \in Columns : r[c] = Times[a[c]][k]
    PROVE  Dot(r, v) = Times[Dot(a, v)][k]
<1>1. ASSUME NEW c \in Columns PROVE Products(r, v)[c] = Times[Products(a, v)[c]][k]
  <2> DEFINE x == a[c]
             z == v[c]
  <2>1. x \in Bytes /\ z \in Bytes
    BY DEF Rows
  <2>2. Products(r, v)[c] = Times[Times[x][k]][z] /\ Products(a, v)[c] = Times[x][z]
    BY DEF Products
  <2> HIDE DEF x, z
  <2>3. Times[Times[x][k]][z] = Times[x][Times[k][z]]
    BY <2>1, TimesAssociates
  <2>4. Times[Times[x][z]][k] = Times[x][Times[z][k]]
    BY <2>1, TimesAssociates
  <2>5. Times[k][z] = Times[z][k]
    BY <2>1, TimesCommutes
  <2> QED
    BY <2>2, <2>3, <2>4, <2>5
<1>2. PICK o1 : Running(o1, Products(a, v)) /\ Dot(a, v) = o1[FEC_SOURCE_SYMBOLS]
  BY DotRuns
<1>3. PICK o2 : Running(o2, Products(r, v)) /\ Dot(r, v) = o2[FEC_SOURCE_SYMBOLS]
  BY DotRuns
<1>4. o2[FEC_SOURCE_SYMBOLS] = Times[o1[FEC_SOURCE_SYMBOLS]][k]
  BY <1>1, <1>2, <1>3, ProductsTyped, RunScales
<1> QED
  BY <1>2, <1>3, <1>4

\* Of a row against a block in which at most one product counts.
LEMMA DotSelects ==
    ASSUME NEW a \in Rows, NEW v \in Rows, NEW i \in Columns,
           \A c \in Columns \ {i} : Times[a[c]][v[c]] = 0
    PROVE  Dot(a, v) = Times[a[i]][v[i]]
<1>1. PICK out : Running(out, Products(a, v)) /\ Dot(a, v) = out[FEC_SOURCE_SYMBOLS]
  BY DotRuns
<1>2. \A c \in Columns : Products(a, v)[c] = Times[a[c]][v[c]]
  BY DEF Products
<1>3. out[FEC_SOURCE_SYMBOLS] = Products(a, v)[i]
  BY <1>1, <1>2, ProductsTyped, RunSelects
<1> QED
  BY <1>1, <1>2, <1>3

\* ... and of one in which at most two products count.
LEMMA DotSelectsTwo ==
    ASSUME NEW a \in Rows, NEW v \in Rows, NEW i \in Columns, NEW j \in Columns, i # j,
           \A c \in Columns \ {i, j} : Times[a[c]][v[c]] = 0
    PROVE  Dot(a, v) = Xor[Times[a[i]][v[i]]][Times[a[j]][v[j]]]
<1> DEFINE N == FEC_SOURCE_SYMBOLS
           t == Products(a, v)
           t1 == [c \in Columns |-> IF c = i THEN t[c] ELSE 0]
           t2 == [c \in Columns |-> IF c = i THEN 0 ELSE t[c]]
<1>1. t \in Rows /\ \A c \in Columns : t[c] \in Bytes /\ t[c] = Times[a[c]][v[c]]
  <2>1. t \in Rows
    BY ProductsTyped
  <2> QED
    BY <2>1 DEF Products, Rows
<1> HIDE DEF t
<1>2. t1 \in Rows /\ t2 \in Rows
  BY <1>1, Constants01 DEF Rows
<1>3. Added(t1, t2, t)
  BY <1>1, XorZero DEF Added
<1>4. /\ t1[i] = t[i] /\ \A c \in Columns \ {i} : t1[c] = 0
      /\ t2[j] = t[j] /\ \A c \in Columns \ {j} : t2[c] = 0
  BY <1>1
<1> HIDE DEF t1, t2
<1>5. PICK o1 : Running(o1, t1)
  BY <1>2, RunExists
<1>6. PICK o2 : Running(o2, t2)
  BY <1>2, RunExists
<1>7. PICK o3 : Running(o3, t) /\ Dot(a, v) = o3[N]
  BY DotRuns DEF t
<1>8. o1[N] = t[i]
  BY <1>2, <1>4, <1>5, RunSelects
<1>9. o2[N] = t[j]
  BY <1>2, <1>4, <1>6, RunSelects
<1>10. o3[N] = Xor[o1[N]][o2[N]]
  BY <1>2, <1>3, <1>5, <1>6, <1>7, RunAdds
<1> QED
  BY <1>1, <1>7, <1>8, <1>9, <1>10

LEMMA DotAddsBlocks ==
    ASSUME NEW a \in Rows, NEW v \in Rows, NEW w \in Rows,
           NEW s \in Rows, \A c \in Columns : s[c] = Xor[v[c]][w[c]]
    PROVE  Dot(a, s) = Xor[Dot(a, v)][Dot(a, w)]
<1>1. Added(Products(a, v), Products(a, w), Products(a, s))
  <2> SUFFICES ASSUME NEW c \in Columns
               PROVE  Times[a[c]][s[c]] = Xor[Times[a[c]][v[c]]][Times[a[c]][w[c]]]
    BY DEF Products, Added
  <2> DEFINE x == a[c]
             y == v[c]
             z == w[c]
  <2>1. x \in Bytes /\ y \in Bytes /\ z \in Bytes /\ s[c] = Xor[y][z]
    BY DEF Rows
  <2> HIDE DEF x, y, z
  <2>2. Times[x][Xor[y][z]] = Xor[Times[x][y]][Times[x][z]]
    BY <2>1, TimesDistributes
  <2> QED
    BY <2>1, <2>2 DEF x, y, z
<1>2. PICK o1 : Running(o1, Products(a, v)) /\ Dot(a, v) = o1[FEC_SOURCE_SYMBOLS]
  BY DotRuns
<1>3. PICK o2 : Running(o2, Products(a, w)) /\ Dot(a, w) = o2[FEC_SOURCE_SYMBOLS]
  BY DotRuns
<1>4. PICK o3 : Running(o3, Products(a, s)) /\ Dot(a, s) = o3[FEC_SOURCE_SYMBOLS]
  BY DotRuns
<1>5. o3[FEC_SOURCE_SYMBOLS] = Xor[o1[FEC_SOURCE_SYMBOLS]][o2[FEC_SOURCE_SYMBOLS]]
  <2>1. Products(a, v) \in Rows /\ Products(a, w) \in Rows
    BY ProductsTyped
  <2> QED
    BY <1>1, <1>2, <1>3, <1>4, <2>1, RunAdds
<1> QED
  BY <1>2, <1>3, <1>4, <1>5

-----------------------------------------------------------------------------
(* Equations, and what a step of the elimination does to them.                *)

Equations == [a : Rows, b : Symbols]

\* An equation stands for three: its left-hand side is each of the two bytes
\* of the symbol, or zero.
Sides == 0 .. 2
Rhs(eq, side) == IF side = 0 THEN 0 ELSE eq.b[side]
Holds(eq, v, side) == Dot(eq.a, v) = Rhs(eq, side)
AllHold(eqs, v, side) == \A r \in 1 .. Len(eqs) : Holds(eqs[r], v, side)

LEMMA RhsTyped ==
    ASSUME NEW eq \in Equations, NEW side \in Sides
    PROVE  Rhs(eq, side) \in Bytes
<1>1. side = 0 \/ side = 1 \/ side = 2
  BY DEF Sides
<1>2. eq.b \in Bytes \X Bytes
  BY DEF Equations, Symbols
<1>3. eq.b[1] \in Bytes /\ eq.b[2] \in Bytes
  BY <1>2
<1> QED
  BY <1>1, <1>3, Constants01 DEF Rhs

LEMMA ScaledHolds ==
    ASSUME NEW eq \in Equations, NEW p \in Bytes, p # 0
    PROVE  /\ Scaled(eq, gf256_inv(p)) \in Equations
           /\ \A v \in Rows, side \in Sides :
                 Holds(Scaled(eq, gf256_inv(p)), v, side) <=> Holds(eq, v, side)
<1> DEFINE k == gf256_inv(p)
           s == Scaled(eq, k)
<1>1. k \in Bytes
  BY TimesInverse
<1>2. eq.a \in Rows /\ eq.b \in Bytes \X Bytes
  BY DEF Equations, Symbols
<1>3. \A x, y \in Bytes : Times[x][k] = Times[y][k] => x = y
  BY TimesCancels
<1> HIDE DEF k
<1>4. s.a \in Rows /\ s.b \in Bytes \X Bytes /\ s = [a |-> s.a, b |-> s.b]
  BY <1>1, <1>2, TimesTyped DEF Scaled, Rows
<1>5. ASSUME NEW v \in Rows, NEW side \in Sides
      PROVE  Holds(s, v, side) <=> Holds(eq, v, side)
  <2>1. Rhs(s, side) = Times[Rhs(eq, side)][k]
    <3>1. side = 0 \/ side = 1 \/ side = 2
      BY DEF Sides
    <3>2. s.b[1] = Times[eq.b[1]][k] /\ s.b[2] = Times[eq.b[2]][k]
      BY DEF Scaled
    <3> QED
      BY <1>1, <3>1, <3>2, TimesZeroOne DEF Rhs
  <2>2. Dot(s.a, v) = Times[Dot(eq.a, v)][k]
    <3>1. \A c \in Columns : s.a[c] = Times[eq.a[c]][k]
      BY DEF Scaled
    <3> HIDE DEF s
    <3> QED
      BY <1>1, <1>2, <1>4, <3>1, DotScalesRow
  <2>3. Dot(eq.a, v) \in Bytes /\ Rhs(eq, side) \in Bytes
    BY <1>2, DotTyped, RhsTyped
  <2> QED
    BY <1>3, <2>1, <2>2, <2>3 DEF Holds
<1> QED
  BY <1>4, <1>5 DEF k, Equations, Symbols

LEMMA MinusHolds ==
    ASSUME NEW eq \in Equations, NEW k \in Bytes, NEW pivot \in Equations
    PROVE  /\ Minus(eq, k, pivot) \in Equations
           /\ \A v \in Rows, side \in Sides :
                 Holds(pivot, v, side) =>
                     (Holds(Minus(eq, k, pivot), v, side) <=> Holds(eq, v, side))
<1> DEFINE s == Minus(eq, k, pivot)
<1>1. /\ eq.a \in Rows /\ eq.b \in Bytes \X Bytes
      /\ pivot.a \in Rows /\ pivot.b \in Bytes \X Bytes
  BY DEF Equations, Symbols
<1>2. /\ \A c \in Columns : s.a[c] = Xor[eq.a[c]][Times[k][pivot.a[c]]]
      /\ s.b[1] = Xor[eq.b[1]][Times[k][pivot.b[1]]]
      /\ s.b[2] = Xor[eq.b[2]][Times[k][pivot.b[2]]]
      /\ s = [a |-> s.a, b |-> << s.b[1], s.b[2] >>]
      /\ s.a = [c \in Columns |-> s.a[c]]
  BY DEF Minus
<1> HIDE DEF s
<1>3. s.a \in Rows
  <2>1. ASSUME NEW c \in Columns PROVE s.a[c] \in Bytes
    <3>1. eq.a[c] \in Bytes /\ pivot.a[c] \in Bytes
      BY <1>1 DEF Rows
    <3>2. Times[k][pivot.a[c]] \in Bytes
      BY <3>1, TimesTyped
    <3> QED
      BY <1>2, <3>1, <3>2, XorTyped
  <2> QED
    BY <1>2, <2>1 DEF Rows
<1>4. s.b[1] \in Bytes /\ s.b[2] \in Bytes
  <2>1. /\ eq.b[1] \in Bytes /\ eq.b[2] \in Bytes
        /\ pivot.b[1] \in Bytes /\ pivot.b[2] \in Bytes
    BY <1>1
  <2>2. Times[k][pivot.b[1]] \in Bytes /\ Times[k][pivot.b[2]] \in Bytes
    BY <2>1, TimesTyped
  <2> QED
    BY <1>2, <2>1, <2>2, XorTyped
<1>5. ASSUME NEW v \in Rows, NEW side \in Sides, Holds(pivot, v, side)
      PROVE  Holds(s, v, side) <=> Holds(eq, v, side)
  <2> DEFINE b == Rhs(eq, side)
             e == Dot(eq.a, v)
             kp == Times[k][Rhs(pivot, side)]
  <2>1. b \in Bytes /\ e \in Bytes /\ kp \in Bytes
    BY <1>1, DotTyped, RhsTyped, TimesTyped
  <2>2. Rhs(s, side) = Xor[b][kp]
    <3>1. side = 0 \/ side = 1 \/ side = 2
      BY DEF Sides
    <3> QED
      BY <1>2, <3>1, Constants01, TimesZeroOne, XorZero DEF Rhs
  <2>3. Dot(s.a, v) = Xor[e][kp]
    <3>1. Dot(s.a, v) = Xor[Dot(eq.a, v)][Times[k][Dot(pivot.a, v)]]
      <4>1. Combined(eq.a, k, pivot.a, s.a)
        BY <1>2 DEF Combined
      <4> QED
        BY <1>1, <1>3, <4>1, DotAddsRows
    <3> QED
      BY <1>5, <3>1 DEF Holds
  <2>4. Holds(s, v, side) <=> Xor[e][kp] = Xor[b][kp]
    BY <2>2, <2>3 DEF Holds
  <2>5. Holds(eq, v, side) <=> e = b
    BY DEF Holds
  <2> HIDE DEF b, e, kp
  <2> QED
    BY <2>1, <2>4, <2>5, XorCancels
<1>6. [a |-> s.a, b |-> << s.b[1], s.b[2] >>] \in Equations
  <2>1. << s.b[1], s.b[2] >> \in Symbols
    BY <1>4 DEF Symbols
  <2> HIDE DEF s
  <2> QED
    BY <1>3, <2>1 DEF Equations
<1>7. s \in Equations
  <2> HIDE DEF s
  <2> QED
    BY <1>2, <1>6
<1> QED
  BY <1>5, <1>7 DEF s

\* The parts of Eliminated: where a pivot may be, the pivot of row sel, the
\* equations once it is in its place, and once its column is cleared.
PivotRows(m, col) == {r \in m.rank + 1 .. Len(m.eqs) : m.eqs[r].a[col] # 0}

Pivot(m, col, sel) == Scaled(m.eqs[sel], gf256_inv(m.eqs[sel].a[col]))

Swapped(m, col, sel) ==
    [m.eqs EXCEPT ![sel] = m.eqs[m.rank + 1], ![m.rank + 1] = Pivot(m, col, sel)]

Cleared(m, col, sel) ==
    [r \in 1 .. Len(m.eqs) |->
        IF r = m.rank + 1 \/ Swapped(m, col, sel)[r].a[col] = 0
        THEN Swapped(m, col, sel)[r]
        ELSE Minus(Swapped(m, col, sel)[r], Swapped(m, col, sel)[r].a[col],
                   Pivot(m, col, sel))]

LEMMA EliminatedStep ==
    ASSUME NEW m, m.rank \in Nat, Len(m.eqs) \in Nat, NEW col
    PROVE  \/ PivotRows(m, col) = {} /\ Eliminated(m, col) = m
           \/ \E sel \in PivotRows(m, col) :
                 Eliminated(m, col) = [eqs |-> Cleared(m, col, sel), rank |-> m.rank + 1]
<1>1. CASE PivotRows(m, col) = {}
  BY <1>1 DEF PivotRows, Eliminated
<1>2. CASE PivotRows(m, col) # {}
  <2> DEFINE sel == Min(PivotRows(m, col))
  <2>1. PivotRows(m, col) \subseteq Nat
    BY DEF PivotRows
  <2>2. \E x \in PivotRows(m, col) : \A y \in PivotRows(m, col) : x <= y
    BY <1>2, <2>1, LeastNumber
  <2>3. sel \in PivotRows(m, col)
    BY <2>2 DEF Min
  <2>4. Eliminated(m, col) = [eqs |-> Cleared(m, col, sel), rank |-> m.rank + 1]
    BY <1>2 DEF PivotRows, Eliminated, Cleared, Swapped, Pivot
  <2> QED
    BY <2>3, <2>4
<1> QED
  BY <1>1, <1>2

\* What the rows are once the column is cleared.
LEMMA ClearedRows ==
    ASSUME NEW m, m.eqs \in Seq(Equations), m.rank \in Nat,
           NEW col \in Columns, NEW sel \in PivotRows(m, col),
           NEW row, row = m.rank + 1
    PROVE  /\ row \in 1 .. Len(m.eqs) /\ sel \in row .. Len(m.eqs)
           /\ m.eqs[sel].a[col] \in Bytes \ {0}
           /\ Pivot(m, col, sel) \in Equations
           /\ Cleared(m, col, sel) \in Seq(Equations)
           /\ Len(Cleared(m, col, sel)) = Len(m.eqs)
           /\ Cleared(m, col, sel)[row] = Pivot(m, col, sel)
           /\ \A r \in 1 .. Len(m.eqs) \ {row} : \E old \in {r, row} :
                 /\ old = IF r = sel THEN row ELSE r
                 /\ m.eqs[old] \in Equations
                 /\ m.eqs[old].a[col] \in Bytes
                 /\ Cleared(m, col, sel)[r] =
                       IF m.eqs[old].a[col] = 0 THEN m.eqs[old]
                       ELSE Minus(m.eqs[old], m.eqs[old].a[col], Pivot(m, col, sel))
<1> DEFINE L == Len(m.eqs)
           p == Pivot(m, col, sel)
           swapped == Swapped(m, col, sel)
<1>1. L \in Nat /\ m.eqs \in [1 .. L -> Equations]
  BY LenProperties
<1>2. row \in 1 .. L /\ sel \in row .. L /\ sel \in 1 .. L /\ m.eqs[sel].a[col] # 0
  BY <1>1 DEF PivotRows
<1>3. \A r \in 1 .. L : m.eqs[r] \in Equations /\ m.eqs[r].a[col] \in Bytes
  BY <1>1 DEF Equations, Rows
<1>4. p \in Equations
  BY <1>2, <1>3, ScaledHolds DEF Pivot
<1>5. swapped = [m.eqs EXCEPT ![sel] = m.eqs[row], ![row] = p]
  BY DEF Swapped
<1> HIDE DEF L, p, swapped
<1>6. /\ swapped[row] = p
      /\ \A r \in 1 .. L \ {row} : swapped[r] = IF r = sel THEN m.eqs[row] ELSE m.eqs[r]
  BY <1>1, <1>2, <1>5
<1>7. Cleared(m, col, sel) =
        [r \in 1 .. L |-> IF r = row \/ swapped[r].a[col] = 0 THEN swapped[r]
                          ELSE Minus(swapped[r], swapped[r].a[col], p)]
  BY DEF Cleared, L, p, swapped
<1>8. ASSUME NEW r \in 1 .. L \ {row}
      PROVE  \E old \in {r, row} :
                 /\ old = IF r = sel THEN row ELSE r
                 /\ m.eqs[old] \in Equations
                 /\ m.eqs[old].a[col] \in Bytes
                 /\ Cleared(m, col, sel)[r] =
                       IF m.eqs[old].a[col] = 0 THEN m.eqs[old]
                       ELSE Minus(m.eqs[old], m.eqs[old].a[col], p)
  <2> DEFINE old == IF r = sel THEN row ELSE r
  <2>1. old \in {r, row} /\ old \in 1 .. L /\ swapped[r] = m.eqs[old]
    BY <1>2, <1>6
  <2>2. m.eqs[old] \in Equations /\ m.eqs[old].a[col] \in Bytes
    BY <1>3, <2>1
  <2>3. Cleared(m, col, sel)[r] = IF swapped[r].a[col] = 0 THEN swapped[r]
                                  ELSE Minus(swapped[r], swapped[r].a[col], p)
    BY <1>7
  <2> QED
    BY <2>1, <2>2, <2>3
<1>9. Cleared(m, col, sel)[row] = p
  BY <1>2, <1>6, <1>7
<1>10. \A r \in 1 .. L : Cleared(m, col, sel)[r] \in Equations
  <2> SUFFICES ASSUME NEW r \in 1 .. L, r # row PROVE Cleared(m, col, sel)[r] \in Equations
    BY <1>4, <1>9
  <2>1. PICK old \in {r, row} :
                 /\ m.eqs[old] \in Equations
                 /\ m.eqs[old].a[col] \in Bytes
                 /\ Cleared(m, col, sel)[r] =
                       IF m.eqs[old].a[col] = 0 THEN m.eqs[old]
                       ELSE Minus(m.eqs[old], m.eqs[old].a[col], p)
    BY <1>8
  <2> QED
    BY <1>4, <2>1, MinusHolds
<1>11. Cleared(m, col, sel) \in [1 .. L -> Equations]
  BY <1>7, <1>10
<1>12. Cleared(m, col, sel) \in Seq(Equations) /\ Len(Cleared(m, col, sel)) = L
  BY <1>1, <1>11
<1> QED
  BY <1>2, <1>3, <1>4, <1>8, <1>9, <1>12 DEF L, p

\* Clearing a column changes no solution, of either byte or of zero.
LEMMA ClearedHolds ==
    ASSUME NEW m, m.eqs \in Seq(Equations), m.rank \in Nat,
           NEW col \in Columns, NEW sel \in PivotRows(m, col),
           NEW v \in Rows, NEW side \in Sides
    PROVE  AllHold(Cleared(m, col, sel), v, side) <=> AllHold(m.eqs, v, side)
<1> DEFINE L == Len(m.eqs)
           row == m.rank + 1
           p == Pivot(m, col, sel)
           new == Cleared(m, col, sel)
           was(r) == IF r = sel THEN row ELSE r
<1>1. /\ row \in 1 .. L /\ sel \in row .. L /\ L \in Nat /\ row \in Nat
      /\ m.eqs[sel] \in Equations /\ m.eqs[sel].a[col] \in Bytes \ {0}
      /\ p \in Equations /\ Len(new) = L /\ new[row] = p
  BY ClearedRows, LenProperties
<1>2. ASSUME NEW r \in 1 .. L \ {row}
      PROVE  /\ m.eqs[was(r)] \in Equations /\ m.eqs[was(r)].a[col] \in Bytes
             /\ new[r] = IF m.eqs[was(r)].a[col] = 0 THEN m.eqs[was(r)]
                         ELSE Minus(m.eqs[was(r)], m.eqs[was(r)].a[col], p)
  BY ClearedRows
<1>3. Holds(p, v, side) <=> Holds(m.eqs[sel], v, side)
  BY <1>1, ScaledHolds DEF Pivot
<1> HIDE DEF L, p, new
<1>4. ASSUME NEW r \in 1 .. L \ {row}, Holds(p, v, side)
      PROVE  Holds(new[r], v, side) <=> Holds(m.eqs[was(r)], v, side)
  <2> HIDE DEF was
  <2>1. CASE m.eqs[was(r)].a[col] = 0
    BY <1>2, <2>1
  <2>2. CASE m.eqs[was(r)].a[col] # 0
    <3>1. new[r] = Minus(m.eqs[was(r)], m.eqs[was(r)].a[col], p)
      BY <1>2, <2>2
    <3> QED
      BY <1>1, <1>2, <1>4, <3>1, MinusHolds
  <2> QED
    BY <2>1, <2>2
<1>5. ASSUME AllHold(m.eqs, v, side) PROVE AllHold(new, v, side)
  <2>1. \A r \in 1 .. L : Holds(m.eqs[r], v, side)
    BY <1>5 DEF AllHold, L
  <2>2. Holds(p, v, side)
    BY <1>1, <1>3, <2>1
  <2>3. ASSUME NEW r \in 1 .. L PROVE Holds(new[r], v, side)
    <3>1. CASE r = row
      BY <1>1, <2>2, <3>1
    <3>2. CASE r # row
      <4>1. was(r) \in 1 .. L
        BY <1>1
      <4> QED
        BY <1>4, <2>1, <2>2, <3>2, <4>1
    <3> QED
      BY <3>1, <3>2
  <2> QED
    BY <1>1, <2>3 DEF AllHold
<1>6. ASSUME AllHold(new, v, side) PROVE AllHold(m.eqs, v, side)
  <2>1. \A r \in 1 .. L : Holds(new[r], v, side)
    BY <1>1, <1>6 DEF AllHold
  <2>2. Holds(p, v, side)
    BY <1>1, <2>1
  <2>3. ASSUME NEW r \in 1 .. L PROVE Holds(m.eqs[r], v, side)
    <3>1. CASE r = sel
      BY <1>3, <2>2, <3>1
    <3>2. CASE r # sel /\ r = row
      <4>1. sel \in 1 .. L \ {row} /\ was(sel) = row
        BY <1>1, <3>2
      <4>2. Holds(m.eqs[was(sel)], v, side)
        <5> HIDE DEF was
        <5> QED
          BY <1>4, <2>1, <2>2, <4>1
      <4> QED
        BY <3>2, <4>1, <4>2
    <3>3. CASE r # sel /\ r # row
      <4>1. was(r) = r
        BY <3>3
      <4> HIDE DEF was
      <4> QED
        BY <1>4, <2>1, <2>2, <3>3, <4>1
    <3> QED
      BY <3>1, <3>2, <3>3
  <2> QED
    BY <2>3 DEF AllHold, L
<1> QED
  BY <1>5, <1>6 DEF new

-----------------------------------------------------------------------------
(* The columns already cleared.                                               *)

\* Each column before col has its one entry in the row of its number.
UnitsUpto(eqs, col) ==
    \A c \in 0 .. col - 1, r \in 1 .. Len(eqs) :
        eqs[r].a[c] = IF r = c + 1 THEN 1 ELSE 0

LEMMA ClearedUnits ==
    ASSUME NEW m, m.eqs \in Seq(Equations),
           NEW col \in Columns, m.rank = col, UnitsUpto(m.eqs, col),
           NEW sel \in PivotRows(m, col)
    PROVE  UnitsUpto(Cleared(m, col, sel), col + 1)
<1> DEFINE L == Len(m.eqs)
           row == m.rank + 1
           p == Pivot(m, col, sel)
           new == Cleared(m, col, sel)
           was(r) == IF r = sel THEN row ELSE r
<1>1. /\ m.rank \in Nat /\ col \in Nat /\ \A c \in 0 .. col : c \in Columns
  BY ColumnsFacts DEF Columns
<1>2. /\ row \in 1 .. L /\ sel \in row .. L /\ L \in Nat /\ row \in Nat /\ row = col + 1
      /\ m.eqs[sel] \in Equations /\ m.eqs[sel].a[col] \in Bytes \ {0}
      /\ p \in Equations /\ Len(new) = L /\ new[row] = p
  BY <1>1, ClearedRows, LenProperties
<1>3. ASSUME NEW r \in 1 .. L \ {row}
      PROVE  /\ m.eqs[was(r)] \in Equations /\ m.eqs[was(r)].a[col] \in Bytes
             /\ new[r] = IF m.eqs[was(r)].a[col] = 0 THEN m.eqs[was(r)]
                         ELSE Minus(m.eqs[was(r)], m.eqs[was(r)].a[col], p)
  BY <1>1, ClearedRows
<1>4. /\ p.a[col] = 1
      /\ \A c \in 0 .. col - 1 : p.a[c] = 0
  <2> DEFINE k == gf256_inv(m.eqs[sel].a[col])
  <2>1. k \in Bytes /\ Times[m.eqs[sel].a[col]][k] = 1
    BY <1>2, TimesInverse
  <2> HIDE DEF k
  <2>2. \A c \in Columns : p.a[c] = Times[m.eqs[sel].a[c]][k]
    BY DEF Pivot, Scaled, k
  <2>3. \A c \in 0 .. col - 1 : m.eqs[sel].a[c] = 0
    BY <1>1, <1>2 DEF UnitsUpto
  <2>4. \A c \in 0 .. col - 1 : c \in Columns
    BY <1>1
  <2> QED
    BY <2>1, <2>2, <2>3, <2>4, TimesZeroOne
<1> HIDE DEF L, p, new
<1>5. ASSUME NEW c \in 0 .. col, NEW r \in 1 .. L
      PROVE  new[r].a[c] = IF r = c + 1 THEN 1 ELSE 0
  <2>1. CASE r = row
    <3>1. CASE c = col
      BY <1>2, <1>4, <2>1, <3>1
    <3>2. CASE c # col
      <4>1. c \in 0 .. col - 1 /\ r # c + 1
        BY <1>1, <1>2, <2>1, <3>2
      <4> QED
        BY <1>2, <1>4, <2>1, <4>1
    <3> QED
      BY <3>1, <3>2
  <2>2. CASE r # row
    <3> DEFINE old == m.eqs[was(r)]
    <3>1. /\ old \in Equations /\ old.a[col] \in Bytes
          /\ new[r] = IF old.a[col] = 0 THEN old ELSE Minus(old, old.a[col], p)
      BY <1>3, <2>2
    <3>2. was(r) \in 1 .. L
      BY <1>2
    <3>3. \A d \in 0 .. col - 1 : old.a[d] = IF r = d + 1 THEN 1 ELSE 0
      <4> SUFFICES ASSUME NEW d \in 0 .. col - 1
                   PROVE  old.a[d] = IF r = d + 1 THEN 1 ELSE 0
        OBVIOUS
      <4>1. old.a[d] = IF was(r) = d + 1 THEN 1 ELSE 0
        BY <3>2 DEF UnitsUpto, L
      <4>2. row # d + 1 /\ sel # d + 1
        BY <1>1, <1>2
      <4>3. was(r) = d + 1 <=> r = d + 1
        BY <4>2
      <4> QED
        BY <4>1, <4>3
    <3>4. \A d \in Columns : Minus(old, old.a[col], p).a[d]
                                = Xor[old.a[d]][Times[old.a[col]][p.a[d]]]
      BY DEF Minus
    <3>5. c \in Columns /\ col \in Columns /\ old.a[c] \in Bytes
      BY <1>1, <3>1 DEF Equations, Rows
    <3> HIDE DEF old
    <3>6. CASE c = col
      <4>1. r # c + 1
        BY <1>2, <2>2, <3>6
      <4>2. CASE old.a[col] = 0
        BY <3>1, <3>6, <4>1, <4>2
      <4>3. CASE old.a[col] # 0
        <5>1. new[r].a[c] = Xor[old.a[col]][Times[old.a[col]][1]]
          BY <1>4, <3>1, <3>4, <3>5, <3>6, <4>3
        <5>2. Times[old.a[col]][1] = old.a[col]
          BY <3>1, TimesZeroOne
        <5> QED
          BY <3>1, <4>1, <5>1, <5>2, XorSelf
      <4> QED
        BY <4>2, <4>3
    <3>7. CASE c # col
      <4>1. c \in 0 .. col - 1
        BY <1>1, <3>7
      <4>2. Minus(old, old.a[col], p).a[c] = old.a[c]
        <5>1. p.a[c] = 0 /\ Times[old.a[col]][0] = 0 /\ Xor[old.a[c]][0] = old.a[c]
          BY <1>4, <3>1, <3>5, <4>1, TimesZeroOne, XorZero
        <5> QED
          BY <3>4, <3>5, <5>1
      <4>3. new[r].a[c] = old.a[c]
        BY <3>1, <4>2
      <4> QED
        BY <3>3, <4>1, <4>3
    <3> QED
      BY <3>6, <3>7
  <2> QED
    BY <2>1, <2>2
<1>6. (col + 1) - 1 = col
  BY <1>1
<1> QED
  BY <1>2, <1>5, <1>6 DEF UnitsUpto, new

\* More than one block has the symbols: two that have differ by a block that is
\* not zero and that all the rows take to zero.
Undetermined(eqs) ==
    \E v \in Rows : (\E c \in Columns : v[c] # 0) /\ AllHold(eqs, v, 0)

\* Without a pivot for the first column that is not cleared, that column is a
\* sum of the cleared ones.
LEMMA NoPivotNoBlock ==
    ASSUME NEW eqs \in Seq(Equations), NEW col \in Columns, col <= Len(eqs),
           UnitsUpto(eqs, col), \A r \in col + 1 .. Len(eqs) : eqs[r].a[col] = 0
    PROVE  Undetermined(eqs)
<1> DEFINE v == [c \in Columns |-> IF c = col THEN 1
                                   ELSE IF c < col THEN eqs[c + 1].a[col] ELSE 0]
<1>1. /\ Len(eqs) \in Nat /\ col \in Nat
      /\ \A r \in 1 .. Len(eqs) : eqs[r] \in Equations /\ eqs[r].a \in Rows
  <2>1. Len(eqs) \in Nat /\ col \in Nat
    BY ColumnsFacts, LenProperties
  <2>2. \A r \in 1 .. Len(eqs) : eqs[r] \in Equations
    BY ElementOfSeq
  <2> QED
    BY <2>1, <2>2 DEF Equations
<1>2. v \in Rows
  <2>1. ASSUME NEW c \in Columns PROVE v[c] \in Bytes
    <3>1. c \in Nat
      BY ColumnsFacts
    <3>2. CASE c < col
      <4>1. c + 1 \in 1 .. Len(eqs)
        BY <1>1, <3>1, <3>2
      <4>2. eqs[c + 1].a[col] \in Bytes
        BY <1>1, <4>1 DEF Rows
      <4> QED
        BY <1>1, <3>2, <4>2
    <3>3. CASE ~(c < col)
      BY <3>3, Constants01
    <3> QED
      BY <3>2, <3>3
  <2> QED
    BY <2>1 DEF Rows
<1>3. v[col] = 1 /\ \A c \in Columns : c # col /\ ~(c < col) => v[c] = 0
  OBVIOUS
<1>4. \A c \in Columns : c < col => v[c] = eqs[c + 1].a[col]
  BY <1>1, ColumnsFacts
<1> HIDE DEF v
<1>5. ASSUME NEW r \in 1 .. Len(eqs) PROVE Dot(eqs[r].a, v) = 0
  <2> DEFINE a == eqs[r].a
  <2>1. a \in Rows /\ \A c \in Columns : a[c] \in Bytes /\ v[c] \in Bytes
    BY <1>1, <1>2 DEF Rows
  <2>2. \A c \in Columns : c < col => a[c] = IF r = c + 1 THEN 1 ELSE 0
    BY <1>1, ColumnsFacts DEF UnitsUpto
  <2>3. \A c \in Columns : c # col /\ ~(c < col) => Times[a[c]][v[c]] = 0
    BY <1>3, <2>1, TimesZeroOne
  <2>4. \A c \in Columns : c < col /\ r # c + 1 => Times[a[c]][v[c]] = 0
    BY <2>1, <2>2, TimesZeroOne
  <2>5. r \in col + 1 .. Len(eqs) => a[col] = 0
    OBVIOUS
  <2> HIDE DEF a
  <2>6. CASE r > col
    <3>1. r \in col + 1 .. Len(eqs)
      BY <1>1, <2>6
    <3>2. a[col] = 0 /\ Times[a[col]][v[col]] = 0
      BY <2>1, <2>5, <3>1, TimesZeroOne
    <3>3. \A c \in Columns \ {col} : Times[a[c]][v[c]] = 0
      <4>1. \A c \in Columns : c < col => r # c + 1
        BY <1>1, <2>6, ColumnsFacts
      <4> QED
        BY <2>3, <2>4, <4>1
    <3>4. Dot(a, v) = Times[a[col]][v[col]]
      BY <1>2, <2>1, <3>3, DotSelects
    <3> QED
      BY <3>2, <3>4 DEF a
  <2>7. CASE r <= col
    <3> DEFINE i == r - 1
    <3>1. i \in Columns /\ i < col /\ i # col /\ r = i + 1
      BY <1>1, <2>7, ColumnsFacts DEF Columns
    <3> HIDE DEF i
    <3>2. \A c \in Columns \ {i, col} : Times[a[c]][v[c]] = 0
      <4>1. i \in Nat /\ \A c \in Columns : c \in Nat
        BY <3>1, ColumnsFacts
      <4>2. \A c \in Columns \ {i, col} : c < col => r # c + 1
        BY <3>1, <4>1
      <4> QED
        BY <2>3, <2>4, <4>2
    <3>3. Dot(a, v) = Xor[Times[a[i]][v[i]]][Times[a[col]][v[col]]]
      BY <1>2, <2>1, <3>1, <3>2, DotSelectsTwo
    <3>4. a[i] = 1 /\ v[i] = a[col]
      BY <1>4, <2>2, <3>1 DEF a
    <3>5. Times[1][a[col]] = a[col] /\ Times[a[col]][1] = a[col] /\ Xor[a[col]][a[col]] = 0
      BY <2>1, TimesZeroOne, XorSelf
    <3> QED
      BY <1>3, <3>3, <3>4, <3>5 DEF a
  <2> QED
    BY <1>1, <2>6, <2>7
<1>6. AllHold(eqs, v, 0)
  BY <1>5 DEF AllHold, Holds, Rhs
<1>7. v[col] # 0
  BY <1>3, Constants01
<1> QED
  BY <1>2, <1>6, <1>7 DEF Undetermined

-----------------------------------------------------------------------------
(* The whole of fec_try_decode.                                               *)

\* m is what the elimination has made of the equations when it comes to column
\* col: the same solutions, and either a unit column for every column so far or
\* more than one block.
Reduced(eqs, m, col) ==
    /\ m.eqs \in Seq(Equations) /\ Len(m.eqs) = Len(eqs)
    /\ m.rank \in 0 .. col /\ m.rank <= Len(eqs)
    /\ \A v \in Rows, side \in Sides : AllHold(m.eqs, v, side) <=> AllHold(eqs, v, side)
    /\ m.rank = col => UnitsUpto(m.eqs, col)
    /\ m.rank < col => Undetermined(eqs)

LEMMA EliminatedReduces ==
    ASSUME NEW eqs \in Seq(Equations), NEW m, NEW col \in Columns, Reduced(eqs, m, col)
    PROVE  Reduced(eqs, Eliminated(m, col), col + 1)
<1>1. /\ col \in Nat /\ Len(eqs) \in Nat /\ Len(m.eqs) = Len(eqs)
      /\ m.eqs \in Seq(Equations) /\ m.rank \in Nat /\ m.rank <= col /\ m.rank <= Len(eqs)
  BY ColumnsFacts, LenProperties DEF Reduced
<1>2. 0 \in Sides
  BY DEF Sides
<1>3. CASE PivotRows(m, col) = {} /\ Eliminated(m, col) = m
  <2>1. m.rank # col + 1 /\ m.rank \in 0 .. col + 1
    BY <1>1
  <2>2. Undetermined(eqs)
    <3>1. CASE m.rank < col
      BY <3>1 DEF Reduced
    <3>2. CASE m.rank = col
      <4>1. \A r \in col + 1 .. Len(m.eqs) : m.eqs[r].a[col] = 0
        BY <1>3, <3>2 DEF PivotRows
      <4>2. UnitsUpto(m.eqs, col)
        BY <3>2 DEF Reduced
      <4>3. Undetermined(m.eqs)
        BY <1>1, <3>2, <4>1, <4>2, NoPivotNoBlock
      <4>4. PICK v \in Rows : (\E c \in Columns : v[c] # 0) /\ AllHold(m.eqs, v, 0)
        BY <4>3 DEF Undetermined
      <4>5. AllHold(eqs, v, 0)
        BY <1>2, <4>4 DEF Reduced
      <4> QED
        BY <4>4, <4>5 DEF Undetermined
    <3> QED
      BY <1>1, <3>1, <3>2
  <2> QED
    BY <1>3, <2>1, <2>2 DEF Reduced
<1>4. ASSUME NEW sel \in PivotRows(m, col),
             Eliminated(m, col) = [eqs |-> Cleared(m, col, sel), rank |-> m.rank + 1]
      PROVE  Reduced(eqs, Eliminated(m, col), col + 1)
  <2> DEFINE e == Eliminated(m, col)
  <2>1. e.eqs = Cleared(m, col, sel) /\ e.rank = m.rank + 1
    BY <1>4
  <2> HIDE DEF e
  <2>2. /\ e.eqs \in Seq(Equations) /\ Len(e.eqs) = Len(m.eqs)
        /\ m.rank + 1 \in 1 .. Len(m.eqs)
    BY <1>1, <2>1, ClearedRows
  <2>3. \A v \in Rows, side \in Sides : AllHold(e.eqs, v, side) <=> AllHold(eqs, v, side)
    <3> SUFFICES ASSUME NEW v \in Rows, NEW side \in Sides
                 PROVE  AllHold(e.eqs, v, side) <=> AllHold(eqs, v, side)
      OBVIOUS
    <3>1. AllHold(e.eqs, v, side) <=> AllHold(m.eqs, v, side)
      BY <1>1, <2>1, ClearedHolds
    <3> QED
      BY <3>1 DEF Reduced
  <2>4. e.rank = col + 1 => UnitsUpto(e.eqs, col + 1)
    <3> SUFFICES ASSUME e.rank = col + 1 PROVE UnitsUpto(e.eqs, col + 1)
      OBVIOUS
    <3>1. m.rank = col
      BY <1>1, <2>1
    <3>2. UnitsUpto(m.eqs, col)
      BY <3>1 DEF Reduced
    <3> QED
      BY <1>1, <2>1, <3>1, <3>2, ClearedUnits
  <2>5. e.rank < col + 1 => Undetermined(eqs)
    <3> SUFFICES ASSUME e.rank < col + 1 PROVE Undetermined(eqs)
      OBVIOUS
    <3>1. m.rank < col
      BY <1>1, <2>1
    <3> QED
      BY <3>1 DEF Reduced
  <2>6. e.rank \in 0 .. col + 1 /\ e.rank <= Len(eqs)
    BY <1>1, <2>1, <2>2
  <2> QED
    BY <1>1, <2>2, <2>3, <2>4, <2>5, <2>6 DEF Reduced, e
<1> QED
  BY <1>1, <1>3, <1>4, EliminatedStep

\* fec_try_decode reads the result of such an elimination of every column.
LEMMA DecodeRuns ==
    ASSUME NEW eqs \in Seq(Equations)
    PROVE  \E m : /\ Reduced(eqs, m, FEC_SOURCE_SYMBOLS)
                  /\ fec_try_decode(eqs) =
                        IF Len(eqs) < FEC_SOURCE_SYMBOLS \/ m.rank < FEC_SOURCE_SYMBOLS
                        THEN <<>>
                        ELSE [c \in Columns |-> m.eqs[c + 1].b]
<1> DEFINE N == FEC_SOURCE_SYMBOLS
           start == [eqs |-> eqs, rank |-> 0]
           Loop(f) == [col \in 0 .. N |->
                          IF col = 0 THEN start ELSE Eliminated(f[col - 1], col - 1)]
           m == CHOOSE f : f = Loop(f)
           Upto(n, f) == /\ f = [i \in 0 .. n |-> f[i]]
                         /\ f[0] = start
                         /\ \A c \in 0 .. n - 1 : f[c + 1] = Eliminated(f[c], c)
           S == {n \in 0 .. N : \E f : Upto(n, f)}
           R == {n \in 0 .. N : Reduced(eqs, m[n], n)}
<1>1. N \in Nat /\ Columns = 0 .. N - 1
  BY FecCodeAssumption DEF Columns
<1>2. fec_try_decode(eqs) = IF Len(eqs) < N \/ m[N].rank < N THEN <<>>
                            ELSE [c \in Columns |-> m[N].eqs[c + 1].b]
  BY DEF fec_try_decode
<1> HIDE DEF N, start, m
<1>3. 0 \in S
  <2>1. Upto(0, [i \in 0 .. 0 |-> start])
    OBVIOUS
  <2>2. 0 \in 0 .. N
    BY <1>1
  <2> HIDE DEF Upto
  <2> QED
    BY <2>1, <2>2
<1>4. ASSUME NEW n \in 0 .. N - 1, n \in S PROVE n + 1 \in S
  <2>1. PICK f : Upto(n, f)
    BY <1>4
  <2>2. n \in Nat /\ n + 1 \in 0 .. N
    BY <1>1
  <2> DEFINE new == [i \in 0 .. n + 1 |-> IF i = n + 1 THEN Eliminated(f[n], n) ELSE f[i]]
  <2>3. new = [i \in 0 .. n + 1 |-> new[i]]
    OBVIOUS
  <2>4. new[0] = start
    BY <2>1, <2>2
  <2>5. ASSUME NEW c \in 0 .. (n + 1) - 1 PROVE new[c + 1] = Eliminated(new[c], c)
    <3>1. c # n + 1 /\ c \in 0 .. n + 1 /\ c + 1 \in 0 .. n + 1 /\ new[c] = f[c]
      BY <2>2
    <3>2. CASE c = n
      BY <3>1, <3>2
    <3>3. CASE c # n
      <4>1. c \in 0 .. n - 1 /\ c + 1 # n + 1
        BY <2>2, <3>3
      <4>2. f[c + 1] = Eliminated(f[c], c)
        BY <2>1, <4>1
      <4> QED
        BY <3>1, <4>1, <4>2
    <3> QED
      BY <3>2, <3>3
  <2>6. Upto(n + 1, new)
    BY <2>3, <2>4, <2>5
  <2> HIDE DEF Upto
  <2> QED
    BY <2>2, <2>6
<1>5. N \in S
  <2> HIDE DEF S
  <2>1. 0 .. N \subseteq S
    BY <1>1, <1>3, <1>4, Induction
  <2> QED
    BY <1>1, <2>1
<1>6. \E f : f = Loop(f)
  <2>1. PICK f : Upto(N, f)
    BY <1>5
  <2>2. ASSUME NEW col \in 0 .. N PROVE f[col] = Loop(f)[col]
    <3>1. CASE col = 0
      BY <2>1, <3>1
    <3>2. CASE col # 0
      <4>1. col - 1 \in 0 .. N - 1 /\ (col - 1) + 1 = col
        BY <1>1, <3>2
      <4>2. f[(col - 1) + 1] = Eliminated(f[col - 1], col - 1)
        BY <2>1, <4>1
      <4> QED
        BY <3>2, <4>1, <4>2
    <3> QED
      BY <3>1, <3>2
  <2>3. f = [col \in 0 .. N |-> f[col]]
    BY <2>1
  <2>4. f = Loop(f)
    BY <2>2, <2>3
  <2> HIDE DEF Loop
  <2> QED
    BY <2>4
<1>7. m = Loop(m)
  <2> HIDE DEF Loop
  <2> QED
    BY <1>6 DEF m
<1>8. m[0] = start /\ \A col \in Columns : m[col + 1] = Eliminated(m[col], col)
  <2>1. 0 \in 0 .. N /\ \A c \in Columns : c + 1 \in 0 .. N /\ c + 1 # 0 /\ (c + 1) - 1 = c
    BY <1>1
  <2>2. m[0] = Loop(m)[0] /\ \A c \in Columns : m[c + 1] = Loop(m)[c + 1]
    BY <1>7
  <2> QED
    BY <2>1, <2>2
<1>9. 0 \in R
  <2>1. start.eqs = eqs /\ start.rank = 0
    BY DEF start
  <2>2. Len(eqs) \in Nat
    BY LenProperties
  <2>3. UnitsUpto(start.eqs, 0)
    BY <2>1 DEF UnitsUpto
  <2>4. Reduced(eqs, start, 0)
    BY <2>1, <2>2, <2>3 DEF Reduced
  <2> QED
    BY <1>1, <1>8, <2>4
<1>10. ASSUME NEW n \in 0 .. N - 1, n \in R PROVE n + 1 \in R
  <2>1. n \in Columns /\ n + 1 \in 0 .. N
    BY <1>1
  <2>2. Reduced(eqs, Eliminated(m[n], n), n + 1)
    BY <1>10, <2>1, EliminatedReduces
  <2> QED
    BY <1>8, <2>1, <2>2
<1>11. N \in R
  <2> HIDE DEF R
  <2>1. 0 .. N \subseteq R
    BY <1>1, <1>9, <1>10, Induction
  <2> QED
    BY <1>1, <2>1
<1> QED
  BY <1>2, <1>11 DEF N

\* With a unit column for every column, the right-hand sides are the block.
LEMMA UnitsDecode ==
    ASSUME NEW eqs \in Seq(Equations), FEC_SOURCE_SYMBOLS <= Len(eqs),
           UnitsUpto(eqs, FEC_SOURCE_SYMBOLS),
           NEW v \in Rows, NEW side \in Sides, AllHold(eqs, v, side),
           NEW c \in Columns
    PROVE  v[c] = Rhs(eqs[c + 1], side)
<1>1. /\ FEC_SOURCE_SYMBOLS \in Nat /\ Len(eqs) \in Nat /\ c \in Nat
      /\ c + 1 \in 1 .. Len(eqs) /\ Columns = 0 .. FEC_SOURCE_SYMBOLS - 1
  BY ColumnsFacts, LenProperties DEF Columns
<1> DEFINE a == eqs[c + 1].a
<1>2. a \in Rows
  <2>1. eqs[c + 1] \in Equations
    BY <1>1, ElementOfSeq
  <2> QED
    BY <2>1 DEF Equations
<1>3. \A d \in Columns : a[d] = IF d = c THEN 1 ELSE 0
  <2>1. \A d \in Columns : d \in Nat /\ (c + 1 = d + 1 <=> d = c)
    BY <1>1
  <2>2. \A d \in Columns : a[d] = IF c + 1 = d + 1 THEN 1 ELSE 0
    BY <1>1 DEF UnitsUpto
  <2> QED
    BY <2>1, <2>2
<1>4. Dot(a, v) = Rhs(eqs[c + 1], side)
  BY <1>1 DEF AllHold, Holds
<1> HIDE DEF a
<1>5. \A d \in Columns : v[d] \in Bytes
  BY DEF Rows
<1>6. Times[a[c]][v[c]] = v[c] /\ \A d \in Columns \ {c} : Times[a[d]][v[d]] = 0
  BY <1>3, <1>5, TimesZeroOne
<1>7. Dot(a, v) = Times[a[c]][v[c]]
  BY <1>2, <1>6, DotSelects
<1> QED
  BY <1>4, <1>6, <1>7

\* The symbols of the block s.
Explains(s, eqs) ==
    \A r \in 1 .. Len(eqs) : fec_encode_symbol(s, eqs[r].a) = eqs[r].b

\* Half of the symbols of a block: their first or their second bytes.
Half(s, side) == [c \in Columns |-> s[c][side]]

LEMMA ExplainsHolds ==
    ASSUME NEW eqs, NEW s, Explains(s, eqs), NEW side \in {1, 2}
    PROVE  AllHold(eqs, Half(s, side), side)
<1> SUFFICES ASSUME NEW r \in 1 .. Len(eqs) PROVE Holds(eqs[r], Half(s, side), side)
  BY DEF AllHold
<1>1. eqs[r].b = << Dot(eqs[r].a, Half(s, 1)), Dot(eqs[r].a, Half(s, 2)) >>
  BY DEF Explains, fec_encode_symbol, Half
<1>2. side = 1 \/ side = 2
  OBVIOUS
<1> QED
  BY <1>1, <1>2 DEF Holds, Rhs

-----------------------------------------------------------------------------
(* What fec_try_decode promises its caller, for every number of symbols and   *)
(* every list of equations.                                                   *)

\* When the symbols are those of a block, decoding gives that block or nothing.
THEOREM DecodesOnlyTheBlock ==
    ASSUME NEW eqs \in Seq(Equations), NEW s \in Blocks, Explains(s, eqs),
           fec_try_decode(eqs) # <<>>
    PROVE  fec_try_decode(eqs) = s
<1> DEFINE N == FEC_SOURCE_SYMBOLS
<1>1. PICK m : /\ Reduced(eqs, m, N)
               /\ fec_try_decode(eqs) = IF Len(eqs) < N \/ m.rank < N THEN <<>>
                                        ELSE [c \in Columns |-> m.eqs[c + 1].b]
  BY DecodeRuns
<1>2. ~(Len(eqs) < N \/ m.rank < N) /\ fec_try_decode(eqs) = [c \in Columns |-> m.eqs[c + 1].b]
  BY <1>1
<1>3. /\ m.eqs \in Seq(Equations) /\ N <= Len(m.eqs) /\ UnitsUpto(m.eqs, N)
  <2>1. N \in Nat /\ Len(eqs) \in Nat /\ m.rank \in 0 .. N /\ Len(m.eqs) = Len(eqs)
    BY <1>1, ColumnsFacts, LenProperties DEF Reduced
  <2>2. m.rank = N
    BY <1>2, <2>1
  <2> QED
    BY <1>1, <1>2, <2>1, <2>2 DEF Reduced
<1>4. ASSUME NEW c \in Columns PROVE m.eqs[c + 1].b = s[c]
  <2>1. ASSUME NEW side \in {1, 2} PROVE s[c][side] = m.eqs[c + 1].b[side]
    <3>1. Half(s, side) \in Rows /\ side \in Sides /\ side # 0
      BY DEF Half, Rows, Blocks, Symbols, Sides
    <3>2. AllHold(eqs, Half(s, side), side)
      BY ExplainsHolds
    <3>3. AllHold(m.eqs, Half(s, side), side)
      BY <1>1, <3>1, <3>2 DEF Reduced
    <3>4. Half(s, side)[c] = Rhs(m.eqs[c + 1], side)
      BY <1>3, <3>1, <3>3, UnitsDecode
    <3> QED
      BY <3>1, <3>4 DEF Half, Rhs
  <2>2. m.eqs[c + 1].b \in Bytes \X Bytes /\ s[c] \in Bytes \X Bytes
    <3>1. c + 1 \in 1 .. Len(m.eqs)
      BY <1>3, ColumnsFacts, LenProperties
    <3>2. m.eqs[c + 1] \in Equations
      BY <1>3, <3>1, ElementOfSeq
    <3> QED
      BY <3>2 DEF Equations, Symbols, Blocks
  <2>3. s[c][1] = m.eqs[c + 1].b[1] /\ s[c][2] = m.eqs[c + 1].b[2]
    BY <2>1
  <2> QED
    BY <2>2, <2>3
<1>5. s = [c \in Columns |-> s[c]]
  BY DEF Blocks
<1> QED
  BY <1>2, <1>4, <1>5

\* Decoding gives nothing exactly when the rows leave more than one block: it
\* never fails on equations that determine the block, whatever their order.
THEOREM WaitsOnlyForRank ==
    ASSUME NEW eqs \in Seq(Equations)
    PROVE  fec_try_decode(eqs) = <<>> <=> Undetermined(eqs)
<1> DEFINE N == FEC_SOURCE_SYMBOLS
<1>1. PICK m : /\ Reduced(eqs, m, N)
               /\ fec_try_decode(eqs) = IF Len(eqs) < N \/ m.rank < N THEN <<>>
                                        ELSE [c \in Columns |-> m.eqs[c + 1].b]
  BY DecodeRuns
<1>2. /\ N \in Nat /\ Len(eqs) \in Nat /\ m.rank \in 0 .. N /\ m.rank <= Len(eqs)
      /\ m.eqs \in Seq(Equations) /\ Len(m.eqs) = Len(eqs) /\ 0 \in Sides
  BY <1>1, ColumnsFacts, LenProperties DEF Reduced, Sides
<1>3. CASE m.rank < N
  BY <1>1, <1>3 DEF Reduced
<1>4. CASE m.rank = N
  <2>1. fec_try_decode(eqs) = [c \in Columns |-> m.eqs[c + 1].b]
    BY <1>1, <1>2, <1>4
  <2>2. fec_try_decode(eqs) # <<>>
    <3>1. DOMAIN fec_try_decode(eqs) = Columns
      BY <2>1
    <3>2. DOMAIN <<>> = {}
      OBVIOUS
    <3> QED
      BY <3>1, <3>2, ColumnsFacts
  <2>3. ASSUME Undetermined(eqs) PROVE FALSE
    <3>1. PICK v \in Rows : (\E c \in Columns : v[c] # 0) /\ AllHold(eqs, v, 0)
      BY <2>3 DEF Undetermined
    <3>2. AllHold(m.eqs, v, 0)
      BY <1>1, <1>2, <3>1 DEF Reduced
    <3>3. UnitsUpto(m.eqs, N)
      BY <1>1, <1>4 DEF Reduced
    <3>4. ASSUME NEW c \in Columns PROVE v[c] = 0
      <4>1. v[c] = Rhs(m.eqs[c + 1], 0)
        BY <1>2, <1>4, <3>2, <3>3, UnitsDecode
      <4> QED
        BY <4>1 DEF Rhs
    <3> QED
      BY <3>1, <3>4
  <2> QED
    BY <2>2, <2>3
<1> QED
  BY <1>2, <1>3, <1>4

\* The order of arrival and repeated packets do not matter, and a packet more
\* never undoes a decoding: what decides is the set of the rows.
THEOREM DecodabilityIsOfRows ==
    ASSUME NEW few \in Seq(Equations), NEW many \in Seq(Equations),
           \A r \in 1 .. Len(few) : \E q \in 1 .. Len(many) : many[q].a = few[r].a,
           fec_try_decode(few) # <<>>
    PROVE  fec_try_decode(many) # <<>>
<1>1. ASSUME Undetermined(many) PROVE Undetermined(few)
  <2>1. PICK v \in Rows : (\E c \in Columns : v[c] # 0) /\ AllHold(many, v, 0)
    BY <1>1 DEF Undetermined
  <2>2. ASSUME NEW r \in 1 .. Len(few) PROVE Holds(few[r], v, 0)
    <3>1. PICK q \in 1 .. Len(many) : many[q].a = few[r].a
      OBVIOUS
    <3>2. Holds(many[q], v, 0)
      BY <2>1 DEF AllHold
    <3> QED
      BY <3>1, <3>2 DEF Holds, Rhs
  <2> QED
    BY <2>1, <2>2 DEF Undetermined, AllHold
<1> QED
  BY <1>1, WaitsOnlyForRank

LEMMA SystematicRow ==
    ASSUME NEW i \in Columns, NEW v \in Rows
    PROVE  Systematic(i) \in Rows /\ Dot(Systematic(i), v) = v[i]
<1> DEFINE a == Systematic(i)
<1>1. a \in Rows
  BY Constants01 DEF Systematic, Rows
<1>2. a[i] = 1 /\ \A c \in Columns \ {i} : a[c] = 0
  BY DEF Systematic
<1> HIDE DEF a
<1>3. \A c \in Columns : v[c] \in Bytes
  BY DEF Rows
<1>4. Times[a[i]][v[i]] = v[i] /\ \A c \in Columns \ {i} : Times[a[c]][v[c]] = 0
  BY <1>2, <1>3, TimesZeroOne
<1>5. Dot(a, v) = Times[a[i]][v[i]]
  BY <1>1, <1>4, DotSelects
<1> QED
  BY <1>1, <1>4, <1>5 DEF a

LEMMA SystematicDecodes ==
    ASSUME NEW eqs \in Seq(Equations),
           \A c \in Columns : \E r \in 1 .. Len(eqs) : eqs[r].a = Systematic(c)
    PROVE  fec_try_decode(eqs) # <<>>
<1> SUFFICES ASSUME Undetermined(eqs) PROVE FALSE
  BY WaitsOnlyForRank
<1>1. PICK v \in Rows : (\E c \in Columns : v[c] # 0) /\ AllHold(eqs, v, 0)
  BY DEF Undetermined
<1>2. PICK c \in Columns : v[c] # 0
  BY <1>1
<1>3. PICK r \in 1 .. Len(eqs) : eqs[r].a = Systematic(c)
  OBVIOUS
<1>4. Dot(eqs[r].a, v) = 0
  BY <1>1 DEF AllHold, Holds, Rhs
<1> QED
  BY <1>2, <1>3, <1>4, SystematicRow

-----------------------------------------------------------------------------
(* The round.                                                                 *)

LEMMA CoeffsTyped ==
    ASSUME NEW hint, NEW epoch, NEW n
    PROVE  fec_equation_coeffs(hint, epoch, n) \in Rows
<1>1. \A i : Systematic(i) \in Rows
  BY Constants01 DEF Systematic, Rows
<1>2. \A word : Low(word) \in Bytes
  BY DEF Low, Bytes
<1>3. Recovery(hint, epoch, n) \in Rows
  BY <1>1, <1>2 DEF Recovery, Rows
<1> QED
  BY <1>1, <1>3 DEF fec_equation_coeffs

\* Counter of the systematic packet of a column.
Carrier(c) == IF c < head THEN c ELSE c + g_fec_interleave_recovery

LEMMA CarrierRow ==
    ASSUME NEW hint, NEW epoch, NEW c \in Columns
    PROVE  /\ Carrier(c) \in (0 .. head - 1) \cup (tail_start .. tail_end - 1)
           /\ Carrier(c) \in Nat /\ Carrier(c) < tail_end
           /\ fec_equation_coeffs(hint, epoch, Carrier(c)) = Systematic(c)
<1>1. /\ head \in Nat /\ head <= FEC_SOURCE_SYMBOLS /\ g_fec_interleave_recovery \in Nat
      /\ FEC_SOURCE_SYMBOLS \in Nat /\ c \in Nat /\ c < FEC_SOURCE_SYMBOLS
      /\ tail_start = head + g_fec_interleave_recovery
      /\ tail_end = tail_start + FEC_SOURCE_SYMBOLS - head
  BY FecCodeAssumption DEF head, tail_start, tail_end, Columns
<1>2. CASE c < head
  <2>1. Carrier(c) = c
    BY <1>2 DEF Carrier
  <2>2. fec_equation_coeffs(hint, epoch, c) = Systematic(c)
    BY <1>1, <1>2 DEF fec_equation_coeffs
  <2> QED
    BY <1>1, <1>2, <2>1, <2>2
<1>3. CASE ~(c < head)
  <2> DEFINE n == c + g_fec_interleave_recovery
  <2>1. Carrier(c) = n
    BY <1>3 DEF Carrier
  <2>2. /\ n \in Nat /\ ~(n < head) /\ n \in tail_start .. tail_end - 1 /\ n < tail_end
        /\ n - g_fec_interleave_recovery = c
    BY <1>1, <1>3
  <2> HIDE DEF n
  <2>3. fec_equation_coeffs(hint, epoch, n) = Systematic(c)
    BY <2>2 DEF fec_equation_coeffs
  <2> QED
    BY <2>1, <2>2, <2>3
<1> QED
  BY <1>2, <1>3

\* What a cache is under a heading: its equations, that its symbols are those of
\* the sender, and that it has every packet up to n that was not lost, while
\* there was room for it.
Entries == [counter : Nat, symbol : Symbols]

RowUnder(h, n) == fec_equation_coeffs(h[1], h[2], n)

EquationsOf(h, rx) ==
    [i \in DOMAIN rx |-> [a |-> RowUnder(h, rx[i].counter), b |-> rx[i].symbol]]

Honest(h, rx) ==
    \A i \in 1 .. Len(rx) :
        rx[i].symbol = fec_encode_symbol(Source, RowUnder(h, rx[i].counter))

Complete(rx, missing, n) ==
    \A k \in 0 .. n - 1 :
        k \notin missing /\ k < FEC_MAX_EQUATIONS =>
            \E i \in 1 .. Len(rx) : rx[i].counter = k

Taken(rx, n) ==
    Len(rx) >= FEC_MAX_EQUATIONS \/ \E i \in 1 .. Len(rx) : rx[i].counter = n

\* The inductive invariant: what is above, a packet that comes again finds its
\* equation taken or no room, and block is what decoding the cache gives.
CodeInv ==
    /\ counter \in Nat
    /\ cache \in Seq(Entries) /\ Len(cache) <= counter
    /\ Honest(heading, cache)
    /\ Complete(cache, lost, counter)
    /\ again > 0 => Taken(cache, counter - 1)
    /\ block = fec_try_decode(EquationsOf(heading, cache))

LEMMA EquationsTyped ==
    ASSUME NEW h, NEW rx \in Seq(Entries)
    PROVE  /\ EquationsOf(h, rx) \in Seq(Equations)
           /\ Len(EquationsOf(h, rx)) = Len(rx)
           /\ \A i \in 1 .. Len(rx) :
                 EquationsOf(h, rx)[i] = [a |-> RowUnder(h, rx[i].counter), b |-> rx[i].symbol]
<1>1. Len(rx) \in Nat /\ DOMAIN rx = 1 .. Len(rx)
  BY LenProperties
<1>2. ASSUME NEW i \in 1 .. Len(rx)
      PROVE  [a |-> RowUnder(h, rx[i].counter), b |-> rx[i].symbol] \in Equations
  <2>1. rx[i] \in Entries
    BY ElementOfSeq
  <2>2. RowUnder(h, rx[i].counter) \in Rows
    BY CoeffsTyped DEF RowUnder
  <2> QED
    BY <2>1, <2>2 DEF Equations, Entries
<1>3. EquationsOf(h, rx) \in [1 .. Len(rx) -> Equations]
  BY <1>1, <1>2 DEF EquationsOf
<1> QED
  BY <1>1, <1>3 DEF EquationsOf

LEMMA ShortDecodesNothing ==
    ASSUME NEW h, NEW rx \in Seq(Entries), Len(rx) < FEC_SOURCE_SYMBOLS
    PROVE  fec_try_decode(EquationsOf(h, rx)) = <<>>
<1>1. Len(EquationsOf(h, rx)) < FEC_SOURCE_SYMBOLS
  BY EquationsTyped
<1> QED
  BY <1>1 DEF fec_try_decode

LEMMA SymbolTyped ==
    ASSUME NEW a \in Rows
    PROVE  fec_encode_symbol(Source, a) \in Symbols
<1>1. /\ [c \in Columns |-> Source[c][1]] \in Rows
      /\ [c \in Columns |-> Source[c][2]] \in Rows
  BY FecCodeAssumption DEF Blocks, Symbols, Rows
<1> QED
  BY <1>1, DotTyped DEF fec_encode_symbol, Symbols

LEMMA CodeInitInv == CodeInit => CodeInv
<1> SUFFICES ASSUME CodeInit PROVE CodeInv
  OBVIOUS
<1>1. counter = 0 /\ cache = <<>> /\ block = <<>> /\ ~(again > 0)
  BY DEF CodeInit
<1>2. cache \in Seq(Entries) /\ Len(cache) = 0 /\ Len(cache) < FEC_SOURCE_SYMBOLS
  BY <1>1, ColumnsFacts
<1>3. fec_try_decode(EquationsOf(heading, cache)) = <<>>
  BY <1>2, ShortDecodesNothing
<1> QED
  BY <1>1, <1>2, <1>3 DEF CodeInv, Honest, Complete

LEMMA LoseInv ==
    ASSUME CodeInv, CodeNext, Lose
    PROVE  CodeInv'
<1>1. /\ counter \in lost /\ counter' = counter + 1 /\ ~(again' > 0)
      /\ cache' = cache /\ block' = block /\ heading' = heading /\ lost' = lost
  BY DEF CodeNext, Lose
<1>2. counter \in Nat /\ counter' \in Nat /\ Len(cache) \in Nat /\ Len(cache) <= counter'
  BY <1>1, LenProperties DEF CodeInv
<1>3. Complete(cache, lost, counter')
  <2>1. \A k \in 0 .. counter' - 1 : k \in 0 .. counter - 1 \/ k = counter
    BY <1>1, <1>2
  <2> QED
    BY <1>1, <2>1 DEF CodeInv, Complete
<1> QED
  BY <1>1, <1>2, <1>3 DEF CodeInv

\* block is what decoding the cache gives after it has taken in what came.
LEMMA CollectedBlock ==
    ASSUME NEW n, Collected(n), cache' \in Seq(Entries), heading' = heading
    PROVE  block' = fec_try_decode(EquationsOf(heading, cache'))
<1>1. block' = IF Len(cache') < FEC_SOURCE_SYMBOLS THEN <<>>
               ELSE fec_rx_try_decode_candidate(cache')
  BY DEF Collected
<1>2. CASE Len(cache') < FEC_SOURCE_SYMBOLS
  BY <1>1, <1>2, ShortDecodesNothing
<1>3. CASE ~(Len(cache') < FEC_SOURCE_SYMBOLS)
  BY <1>1, <1>3 DEF fec_rx_try_decode_candidate, EquationsOf, Row, RowUnder
<1> QED
  BY <1>2, <1>3

LEMMA GatherInv ==
    ASSUME CodeInv, CodeNext, Gather
    PROVE  CodeInv'
<1> DEFINE entry == [counter |-> counter,
                     symbol |-> fec_encode_symbol(Source, RowUnder(heading, counter))]
           taken == \E i \in 1 .. Len(cache) : cache[i].counter = counter
<1>1. /\ counter \notin lost /\ counter' = counter + 1
      /\ heading' = heading /\ lost' = lost
      /\ Collected(counter)
      /\ cache' = IF Len(cache) >= FEC_MAX_EQUATIONS \/ taken THEN cache
                  ELSE Append(cache, entry)
  <2>1. DOMAIN cache = 1 .. Len(cache)
    BY LenProperties DEF CodeInv
  <2> QED
    BY <2>1 DEF CodeNext, Gather, Collected, fec_rx_add_symbol, Row, RowUnder
<1>2. /\ counter \in Nat /\ cache \in Seq(Entries) /\ Len(cache) \in Nat
      /\ Len(cache) <= counter /\ FEC_MAX_EQUATIONS \in Nat
  BY LenProperties, FecCodeAssumption DEF CodeInv
<1>3. /\ entry \in Entries /\ entry.counter = counter
      /\ entry.symbol = fec_encode_symbol(Source, RowUnder(heading, counter))
  BY <1>2, CoeffsTyped, SymbolTyped DEF RowUnder, Entries
<1> HIDE DEF entry
<1>4. /\ cache' \in Seq(Entries) /\ Len(cache') \in Nat /\ Len(cache') <= counter'
      /\ \A i \in 1 .. Len(cache) : i \in 1 .. Len(cache') /\ cache'[i] = cache[i]
      /\ \A i \in 1 .. Len(cache') : i \in 1 .. Len(cache) \/ cache'[i] = entry
      /\ counter < FEC_MAX_EQUATIONS \/ ~(Len(cache) >= FEC_MAX_EQUATIONS) =>
            \E i \in 1 .. Len(cache') : cache'[i].counter = counter
  <2>1. CASE Len(cache) >= FEC_MAX_EQUATIONS \/ taken
    BY <1>1, <1>2, <2>1
  <2>2. CASE ~(Len(cache) >= FEC_MAX_EQUATIONS \/ taken)
    <3>1. cache' = Append(cache, entry)
      BY <1>1, <2>2
    <3>2. /\ cache' \in Seq(Entries) /\ Len(cache') = Len(cache) + 1
          /\ cache'[Len(cache) + 1] = entry
          /\ \A i \in 1 .. Len(cache) : cache'[i] = cache[i]
      BY <1>2, <1>3, <3>1
    <3> QED
      BY <1>1, <1>2, <1>3, <3>2
  <2> QED
    BY <2>1, <2>2
<1>5. Honest(heading, cache')
  <2> SUFFICES ASSUME NEW i \in 1 .. Len(cache')
               PROVE  cache'[i].symbol
                         = fec_encode_symbol(Source, RowUnder(heading, cache'[i].counter))
    BY DEF Honest
  <2>1. CASE i \in 1 .. Len(cache)
    BY <1>4, <2>1 DEF CodeInv, Honest
  <2>2. CASE cache'[i] = entry
    BY <1>3, <2>2
  <2> QED
    BY <1>4, <2>1, <2>2
<1>6. Complete(cache', lost, counter')
  <2> SUFFICES ASSUME NEW k \in 0 .. counter' - 1, k \notin lost, k < FEC_MAX_EQUATIONS
               PROVE  \E i \in 1 .. Len(cache') : cache'[i].counter = k
    BY DEF Complete
  <2>1. CASE k = counter
    BY <1>3, <1>4, <2>1
  <2>2. CASE k # counter
    <3>1. k \in 0 .. counter - 1
      BY <1>1, <1>2, <2>2
    <3>2. PICK i \in 1 .. Len(cache) : cache[i].counter = k
      BY <3>1 DEF CodeInv, Complete
    <3> QED
      BY <1>4, <3>2
  <2> QED
    BY <2>1, <2>2
<1>7. block' = fec_try_decode(EquationsOf(heading, cache'))
  BY <1>1, <1>4, CollectedBlock
<1>8. counter' \in Nat /\ counter' - 1 = counter
  BY <1>1, <1>2
<1>9. Taken(cache', counter' - 1)
  <2>1. CASE Len(cache) >= FEC_MAX_EQUATIONS
    BY <1>1, <2>1 DEF Taken
  <2>2. CASE ~(Len(cache) >= FEC_MAX_EQUATIONS)
    BY <1>3, <1>4, <1>8, <2>2 DEF Taken
  <2> QED
    BY <2>1, <2>2
<1> QED
  BY <1>1, <1>4, <1>5, <1>6, <1>7, <1>8, <1>9 DEF CodeInv

LEMMA RepeatInv ==
    ASSUME CodeInv, CodeNext, Repeat
    PROVE  CodeInv'
<1>1. Collected(counter - 1) /\ Taken(cache, counter - 1)
  BY DEF Repeat, CodeInv
<1>2. cache' = cache
  <2>1. DOMAIN cache = 1 .. Len(cache)
    BY LenProperties DEF CodeInv
  <2> QED
    BY <1>1, <2>1 DEF Taken, Collected, fec_rx_add_symbol
<1>3. counter' = counter /\ heading' = heading /\ lost' = lost
  BY DEF CodeNext, Repeat
<1>4. block' = fec_try_decode(EquationsOf(heading, cache'))
  BY <1>1, <1>2, <1>3, CollectedBlock DEF CodeInv
<1>5. Taken(cache', counter' - 1)
  BY <1>1, <1>2, <1>3
<1> QED
  BY <1>2, <1>3, <1>4, <1>5 DEF CodeInv

\* CodeInv holds in every state of a round.
THEOREM CodeInvariance == CodeSpec => []CodeInv
<1>1. CodeInv /\ [CodeNext]_codeVars => CodeInv'
  <2> SUFFICES ASSUME CodeInv, [CodeNext]_codeVars PROVE CodeInv'
    OBVIOUS
  <2>1. CASE CodeNext
    BY <2>1, LoseInv, GatherInv, RepeatInv DEF CodeNext
  <2>2. CASE UNCHANGED codeVars
    BY <2>2 DEF codeVars, CodeInv
  <2> QED
    BY <2>1, <2>2
<1> QED
  BY CodeInitInv, <1>1, PTL DEF CodeSpec

LEMMA CacheExplained ==
    ASSUME CodeInv
    PROVE  /\ EquationsOf(heading, cache) \in Seq(Equations)
           /\ Explains(Source, EquationsOf(heading, cache))
<1>1. /\ EquationsOf(heading, cache) \in Seq(Equations)
      /\ Len(EquationsOf(heading, cache)) = Len(cache)
      /\ \A i \in 1 .. Len(cache) :
            EquationsOf(heading, cache)[i]
               = [a |-> RowUnder(heading, cache[i].counter), b |-> cache[i].symbol]
  BY EquationsTyped DEF CodeInv
<1> DEFINE eqs == EquationsOf(heading, cache)
<1> HIDE DEF eqs
<1>2. ASSUME NEW r \in 1 .. Len(eqs)
      PROVE  fec_encode_symbol(Source, eqs[r].a) = eqs[r].b
  <2>1. r \in 1 .. Len(cache)
    BY <1>1 DEF eqs
  <2>2. eqs[r] = [a |-> RowUnder(heading, cache[r].counter), b |-> cache[r].symbol]
    BY <1>1, <2>1 DEF eqs
  <2>3. eqs[r].a = RowUnder(heading, cache[r].counter) /\ eqs[r].b = cache[r].symbol
    BY <2>2
  <2>4. cache[r].symbol = fec_encode_symbol(Source, RowUnder(heading, cache[r].counter))
    BY <2>1 DEF CodeInv, Honest
  <2> QED
    BY <2>3, <2>4
<1>3. Explains(Source, eqs)
  BY <1>2 DEF Explains
<1> QED
  BY <1>1, <1>3 DEF eqs

\* Whatever is lost, and whatever the coefficients of the rows that arrive, the
\* block that fec_rx_try_decode_candidate writes is the one that was sent.
THEOREM SourceDecoded == CodeSpec => []DecodesTheSource
<1>1. CodeInv => DecodesTheSource
  BY CacheExplained, DecodesOnlyTheBlock, FecCodeAssumption DEF CodeInv, DecodesTheSource
<1> QED
  BY <1>1, CodeInvariance, PTL

\* When the systematic packets all arrive, the round needs no recovery row.
THEOREM SystematicIsEnough == CodeSpec => []SystematicSuffices
<1>1. CodeInv => SystematicSuffices
  <2> SUFFICES ASSUME CodeInv, tail_end <= FEC_MAX_EQUATIONS, tail_end <= counter,
                      lost \cap ((0 .. head - 1) \cup (tail_start .. tail_end - 1)) = {}
               PROVE  block # <<>>
    BY DEF SystematicSuffices
  <2> DEFINE eqs == EquationsOf(heading, cache)
  <2>1. /\ eqs \in Seq(Equations) /\ Len(eqs) = Len(cache)
        /\ \A i \in 1 .. Len(cache) :
              eqs[i] = [a |-> RowUnder(heading, cache[i].counter), b |-> cache[i].symbol]
    BY EquationsTyped DEF CodeInv
  <2> HIDE DEF eqs
  <2>2. ASSUME NEW c \in Columns PROVE \E r \in 1 .. Len(eqs) : eqs[r].a = Systematic(c)
    <3> DEFINE n == Carrier(c)
    <3>1. /\ n \in (0 .. head - 1) \cup (tail_start .. tail_end - 1)
          /\ n \in Nat /\ n < tail_end /\ RowUnder(heading, n) = Systematic(c)
      BY CarrierRow DEF RowUnder
    <3>2. tail_end \in Int /\ counter \in Nat /\ FEC_MAX_EQUATIONS \in Nat
      BY FecCodeAssumption DEF CodeInv, tail_end, tail_start, head
    <3> HIDE DEF n
    <3>3. n \in 0 .. counter - 1 /\ n \notin lost /\ n < FEC_MAX_EQUATIONS
      BY <3>1, <3>2
    <3>4. PICK i \in 1 .. Len(cache) : cache[i].counter = n
      BY <3>3 DEF CodeInv, Complete
    <3>5. eqs[i].a = RowUnder(heading, n)
      <4>1. eqs[i] = [a |-> RowUnder(heading, cache[i].counter), b |-> cache[i].symbol]
        BY <2>1
      <4>2. eqs[i].a = RowUnder(heading, cache[i].counter)
        BY <4>1
      <4> QED
        BY <3>4, <4>2
    <3> QED
      BY <2>1, <3>1, <3>4, <3>5
  <2> QED
    BY <2>1, <2>2, SystematicDecodes DEF CodeInv, eqs
<1> QED
  BY <1>1, CodeInvariance, PTL

\* A block that the rows take to zero, added to the first bytes of a block,
\* gives another with the same symbols.
LEMMA AnotherExplains ==
    ASSUME NEW eqs \in Seq(Equations), NEW s \in Blocks, Explains(s, eqs), Undetermined(eqs)
    PROVE  \E t \in Blocks : t # s /\ Explains(t, eqs)
<1>1. PICK v \in Rows : (\E c \in Columns : v[c] # 0) /\ AllHold(eqs, v, 0)
  BY DEF Undetermined
<1> DEFINE first == Half(s, 1)
           sum == [c \in Columns |-> Xor[first[c]][v[c]]]
           t == [c \in Columns |-> << sum[c], s[c][2] >>]
<1>2. \A c \in Columns : s[c] \in Bytes \X Bytes
  BY DEF Blocks, Symbols
<1>3. /\ first \in Rows /\ v \in Rows
      /\ \A c \in Columns : first[c] \in Bytes /\ v[c] \in Bytes /\ first[c] = s[c][1]
  BY <1>2 DEF Rows, Half
<1>4. /\ sum \in Rows /\ \A c \in Columns : sum[c] = Xor[first[c]][v[c]]
  <2> HIDE DEF first
  <2> QED
    BY <1>3, XorTyped DEF Rows
<1>5. \A c \in Columns : t[c] = << sum[c], s[c][2] >>
  OBVIOUS
<1>6. t \in Blocks
  <2> HIDE DEF sum
  <2> QED
    BY <1>2, <1>4 DEF Blocks, Symbols, Rows
<1>7. Half(t, 1) = sum /\ Half(t, 2) = Half(s, 2)
  <2>1. \A c \in Columns : t[c][1] = sum[c] /\ t[c][2] = s[c][2]
    BY <1>5
  <2> HIDE DEF t
  <2> QED
    BY <2>1 DEF Half
<1>8. t # s
  <2>1. PICK c \in Columns : v[c] # 0
    BY <1>1
  <2>2. sum[c] # first[c]
    <3> DEFINE x == first[c]
               y == v[c]
    <3>1. x \in Bytes /\ y \in Bytes /\ y # 0 /\ sum[c] = Xor[x][y]
      BY <1>3, <1>4, <2>1
    <3> HIDE DEF x, y
    <3>2. Xor[x][y] = Xor[y][x] /\ Xor[0][x] = x
      BY <3>1, XorCommutes, XorZero
    <3>3. Xor[x][y] # x
      BY <3>1, <3>2, Constants01, XorCancels
    <3> QED
      BY <3>1, <3>3 DEF x
  <2>3. t[c][1] = sum[c] /\ s[c][1] = first[c]
    BY <1>3, <1>5
  <2> QED
    BY <2>2, <2>3
<1>9. ASSUME NEW r \in 1 .. Len(eqs)
      PROVE  fec_encode_symbol(t, eqs[r].a) = eqs[r].b
  <2> DEFINE a == eqs[r].a
  <2>1. a \in Rows
    <3>1. eqs[r] \in Equations
      BY <1>9, ElementOfSeq
    <3> QED
      BY <3>1 DEF Equations
  <2>2. Dot(a, v) = 0
    BY <1>1 DEF AllHold, Holds, Rhs
  <2>3. Dot(a, sum) = Xor[Dot(a, first)][Dot(a, v)]
    <3> HIDE DEF first, sum, a
    <3> QED
      BY <1>3, <1>4, <2>1, DotAddsBlocks
  <2>4. Dot(a, sum) = Dot(a, first)
    <3>1. Dot(a, first) \in Bytes
      <4> HIDE DEF first, a
      <4> QED
        BY <1>3, <2>1, DotTyped
    <3> QED
      BY <2>2, <2>3, <3>1, XorZero
  <2>5. << Dot(a, first), Dot(a, Half(s, 2)) >> = eqs[r].b
    BY DEF Explains, fec_encode_symbol, Half
  <2>6. fec_encode_symbol(t, a) = << Dot(a, Half(t, 1)), Dot(a, Half(t, 2)) >>
    BY DEF fec_encode_symbol, Half
  <2> QED
    BY <1>7, <2>4, <2>5, <2>6
<1> QED
  BY <1>6, <1>8, <1>9 DEF Explains

\* While the receiver waits, another block than the one sent explains everything
\* it has cached: no decoder could end the round.
THEOREM WaitsWhileAmbiguous ==
    CodeSpec => [](block = <<>> => \E other \in Blocks :
                       other # Source /\ Explains(other, EquationsOf(heading, cache)))
<1>1. CodeInv => (block = <<>> => \E other \in Blocks :
                     other # Source /\ Explains(other, EquationsOf(heading, cache)))
  <2> SUFFICES ASSUME CodeInv, block = <<>>
               PROVE  \E other \in Blocks :
                          other # Source /\ Explains(other, EquationsOf(heading, cache))
    OBVIOUS
  <2> DEFINE eqs == EquationsOf(heading, cache)
  <2>1. eqs \in Seq(Equations) /\ Explains(Source, eqs) /\ Source \in Blocks
    BY CacheExplained, FecCodeAssumption
  <2>2. fec_try_decode(eqs) = <<>>
    BY DEF CodeInv
  <2> HIDE DEF eqs
  <2>3. Undetermined(eqs)
    BY <2>1, <2>2, WaitsOnlyForRank
  <2>4. \E other \in Blocks : other # Source /\ Explains(other, eqs)
    BY <2>1, <2>3, AnotherExplains
  <2> QED
    BY <2>4 DEF eqs
<1> QED
  BY <1>1, CodeInvariance, PTL
=============================================================================
