---------------------------- MODULE FieldElement ----------------------------
(***************************************************************************)
(* Arithmetic modulo P on ten signed limbs: the operators of               *)
(* lib/ed25519/fe.c.  Limbs 0, 2, 4, 6, 8 count up to Wide, the others up  *)
(* to Narrow, and a field element f stands for                             *)
(*                                                                         *)
(*     f[0] * Weight(0) + f[1] * Weight(1) + ... + f[9] * Weight(9)        *)
(*                                                                         *)
(* modulo P = Weight(10) - C.  The code has Wide = 2^26, Narrow = 2^25 and *)
(* C = 19, so that P = 2^255 - 19; a shift by n bits is a product with or  *)
(* a quotient by 2^n.  Its byte strings enter the limbs by 24- and 32-bit  *)
(* loads whose first bits, of which Cut has the weights, are not the       *)
(* limbs' own first bits: fe_frombytes shifts each load into place and     *)
(* lets the carries move what overflows.                                   *)
(*                                                                         *)
(* Every sum, product, rounded carry and carry order is the code's; only   *)
(* the sizes, C and the loads are parameters, so that TLC can run the same *)
(* algorithm on numbers it can hold.                                       *)
(***************************************************************************)
EXTENDS Integers, Sequences

CONSTANTS
  Wide,     \* 2^26
  Narrow,   \* 2^25
  C,        \* 19
  Cut       \* 1, 2^32, 2^56, ... : the weight of the first bit of each of the
            \* ten loads, and of the end of the last

Limbs == 0 .. 9

Size(i) == IF i % 2 = 0 THEN Wide ELSE Narrow

Weight(i) ==
  LET weight[n \in 0 .. 10] == IF n = 0 THEN 1 ELSE weight[n - 1] * Size(n - 1)
  IN  weight[i]

P == Weight(10) - C

\* What the parameters must have in common with those of the code.
Shaped ==
  /\ Narrow \in Nat \ {0} /\ Narrow % 2 = 0 /\ Wide = 2 * Narrow
  /\ C \in Nat /\ C < Weight(10)
  /\ Cut \in [0 .. 10 -> Nat \ {0}] /\ Cut[0] = 1 /\ Cut[10] = Weight(10)
  /\ \A i \in Limbs : Cut[i + 1] % Cut[i] = 0 /\ Cut[i] % Weight(i) = 0

LimbSum(h) ==
  h[0] + h[1] + h[2] + h[3] + h[4] + h[5] + h[6] + h[7] + h[8] + h[9]

\* The number the limbs stand for, before it is taken modulo P.
Number(h) == LimbSum([i \in Limbs |-> h[i] * Weight(i)])

-----------------------------------------------------------------------------
(* Carries. *)

\* Hand k units of limb i to the next limb; those of the last come back as C.
Hand(h, i, k) ==
  [h EXCEPT ![i] = @ - k * Size(i),
            ![(i + 1) % 10] = @ + (IF i = 9 THEN C * k ELSE k)]

\* The rounded carry: it leaves limb i between -Size/2 and Size/2 - 1.
Carry(h, i) == Hand(h, i, (h[i] + Size(i) \div 2) \div Size(i))

Carried(h, order) ==
  LET after[n \in 0 .. Len(order)] ==
        IF n = 0 THEN h ELSE Carry(after[n - 1], order[n])
  IN  after[Len(order)]

\* The two carry orders of the code: after a multiplication, and after the
\* loads or the multiplication by a small number.
ProductOrder == <<0, 4, 1, 5, 2, 6, 3, 7, 4, 8, 9, 0>>
OddEvenOrder == <<9, 1, 3, 5, 7, 0, 2, 4, 6, 8>>

-----------------------------------------------------------------------------
(* The operations of fe.h. *)

fe_0 == [i \in Limbs |-> 0]
fe_1 == [i \in Limbs |-> IF i = 0 THEN 1 ELSE 0]
fe_copy(f) == f
fe_add(f, g) == [i \in Limbs |-> f[i] + g[i]]
fe_sub(f, g) == [i \in Limbs |-> f[i] - g[i]]
fe_neg(f) == [i \in Limbs |-> -f[i]]
fe_cmov(f, g, b) == IF b = 1 THEN g ELSE f
fe_cswap(f, g, b) == IF b = 1 THEN <<g, f>> ELSE <<f, g>>

\* Mutant: narrow limbs that meet are not doubled.
TermUndoubled(f, g, k, i) ==
  f[i] * g[(k - i) % 10] * (IF i > k THEN C ELSE 1)

\* The product of limb i of f and the limb of g that meets it in column k:
\* doubled when two narrow limbs meet, times C when it wraps around.
Term(f, g, k, i) ==
  f[i] * g[(k - i) % 10] * (IF i % 2 = 1 /\ (k - i) % 2 = 1 THEN 2 ELSE 1)
                         * (IF i > k THEN C ELSE 1)

Products(f, g) ==
  [k \in Limbs |-> LimbSum([i \in Limbs |-> Term(f, g, k, i)])]

fe_mul(f, g) == Carried(Products(f, g), ProductOrder)

\* fe_sq forms each product of two different limbs once and doubles it.
Squares(f) ==
  [k \in Limbs |->
     LimbSum([i \in Limbs |->
       LET j == (k - i) % 10
       IN  Term(f, f, k, i) * (CASE i < j -> 2 [] i = j -> 1 [] i > j -> 0)])]

fe_sq(f) == Carried(Squares(f), ProductOrder)

\* 2 * f^2: the columns are doubled before the carries.
fe_sq2(f) ==
  LET h == Squares(f)
  IN  Carried([k \in Limbs |-> h[k] + h[k]], ProductOrder)

\* f times the curve's small number n, 121666 in the code.
fe_mul121666(f, n) == Carried([i \in Limbs |-> n * f[i]], OddEvenOrder)

-----------------------------------------------------------------------------
(* Byte strings, as the number whose little-endian bytes they are. *)

\* The load of limb i, shifted to the limb's first bit.
Load(s, i) ==
  ((s \div Cut[i]) % (Cut[i + 1] \div Cut[i])) * (Cut[i] \div Weight(i))

\* What s has from Cut[10] up (the top bit of the last byte) are ignored.
fe_frombytes(s) == Carried([i \in Limbs |-> Load(s, i)], OddEvenOrder)

\* Mutant: the carry out of the last limb is taken without the limb.
QuotientShort(h) ==
  LET q[n \in 0 .. 9] ==
        IF n = 0 THEN (C * h[9] + Narrow \div 2) \div Narrow
        ELSE (q[n - 1] + h[n - 1]) \div Size(n - 1)
  IN  q[9]

\* The quotient of h by P, carried through the limbs from an estimate of the
\* last one.
Quotient(h) ==
  LET q[n \in 0 .. 10] ==
        IF n = 0 THEN (C * h[9] + Narrow \div 2) \div Narrow
        ELSE (q[n - 1] + h[n - 1]) \div Size(n - 1)
  IN  q[10]

\* Floor carries from limb 0 to limb 9; what limb 9 carries out is dropped.
FloorCarry(h, i) == Hand(h, i, h[i] \div Size(i))

FloorCarried(h) ==
  LET after[n \in 0 .. 9] ==
        IF n = 0 THEN h ELSE FloorCarry(after[n - 1], n - 1)
  IN  [after[9] EXCEPT ![9] = @ % Narrow]

fe_tobytes(h) ==
  LET t == FloorCarried([h EXCEPT ![0] = @ + C * Quotient(h)])
  IN  Number(t)

fe_isnegative(f) == fe_tobytes(f) % 2
fe_isnonzero(f) == IF fe_tobytes(f) = 0 THEN 0 ELSE 1
=============================================================================
