---------------------------- MODULE GroupElement ----------------------------
(***************************************************************************)
(* The group of points of lib/ed25519/ge.c, over any field: the field's    *)
(* operations, the curve's constants and the precomputed tables are        *)
(* parameters, so that the same formulas can be read on numbers modulo a   *)
(* prime or on the sizes of the limbs.                                     *)
(*                                                                         *)
(* A point has the code's five shapes: p2 (X, Y, Z), p3 (X, Y, Z, T),      *)
(* p1p1 (X, Y, Z, T, the result of a formula before its four products),    *)
(* cached and precomp (the right operand of an addition).  A 32-byte       *)
(* string is a number of StringBits bits, 256 in the code.                 *)
(***************************************************************************)
EXTENDS Integers, Sequences, FiniteSetsExt

CONSTANTS
  fe,              \* the field elements
  fe_0, fe_1, fe_add(_, _), fe_sub(_, _), fe_neg(_),
  fe_mul(_, _), fe_sq(_), fe_sq2(_), fe_mul121666(_),
  fe_invert(_), fe_pow22523(_),
  fe_frombytes(_), fe_tobytes(_), fe_isnegative(_), fe_isnonzero(_),
  d, d2, sqrtm1,   \* the curve's constant, its double, a root of -1
  base, Bi,        \* the tables of precomp_data.h
  StringBits       \* bits of a 32-byte string

Bit(n, i) == (n \div 2^i) % 2

TopBit == 2^(StringBits - 1)

-----------------------------------------------------------------------------
(* Shapes and conversions. *)

ge_p2 == [X : fe, Y : fe, Z : fe]

ge_p2_0 == [X |-> fe_0, Y |-> fe_1, Z |-> fe_1]

ge_p3_0 == [X |-> fe_0, Y |-> fe_1, Z |-> fe_1, T |-> fe_0]

ge_p3_to_p2(p) == [X |-> p.X, Y |-> p.Y, Z |-> p.Z]

ge_p3_to_cached(p) ==
  [YplusX |-> fe_add(p.Y, p.X), YminusX |-> fe_sub(p.Y, p.X),
   Z |-> p.Z, T2d |-> fe_mul(p.T, d2)]

ge_p1p1_to_p2(p) ==
  [X |-> fe_mul(p.X, p.T), Y |-> fe_mul(p.Y, p.Z), Z |-> fe_mul(p.Z, p.T)]

ge_p1p1_to_p3(p) ==
  [X |-> fe_mul(p.X, p.T), Y |-> fe_mul(p.Y, p.Z), Z |-> fe_mul(p.Z, p.T),
   T |-> fe_mul(p.X, p.Y)]

-----------------------------------------------------------------------------
(* The formulas. *)

\* The completed point of an addition or a subtraction: plus and minus are
\* what multiplies Y + X and Y - X, zz the doubled product of the Zs.
Completed(p, plus, minus, zz, t2d) ==
  LET a == fe_mul(fe_add(p.Y, p.X), plus)
      b == fe_mul(fe_sub(p.Y, p.X), minus)
      c == fe_mul(t2d, p.T)
  IN  [X |-> fe_sub(a, b), Y |-> fe_add(a, b),
       Z |-> fe_add(zz, c), T |-> fe_sub(zz, c)]

\* A subtraction exchanges Z and T of the completed point.
Subtracted(r) == [r EXCEPT !.Z = r.T, !.T = r.Z]

ge_add(p, q) ==
  LET zz == fe_mul(p.Z, q.Z)
  IN  Completed(p, q.YplusX, q.YminusX, fe_add(zz, zz), q.T2d)

ge_sub(p, q) ==
  LET zz == fe_mul(p.Z, q.Z)
  IN  Subtracted(Completed(p, q.YminusX, q.YplusX, fe_add(zz, zz), q.T2d))

ge_madd(p, q) ==
  Completed(p, q.yplusx, q.yminusx, fe_add(p.Z, p.Z), q.xy2d)

ge_msub(p, q) ==
  Subtracted(Completed(p, q.yminusx, q.yplusx, fe_add(p.Z, p.Z), q.xy2d))

\* Mutant: the doubled square of Z as a sum instead of fe_sq2.
ge_p2_dbl_by_sum(p) ==
  LET xx == fe_sq(p.X)
      yy == fe_sq(p.Y)
      zz == fe_sq(p.Z)
      sum == fe_add(yy, xx)
      dif == fe_sub(yy, xx)
  IN  [X |-> fe_sub(fe_sq(fe_add(p.X, p.Y)), sum), Y |-> sum,
       Z |-> dif, T |-> fe_sub(fe_add(zz, zz), dif)]

ge_p2_dbl(p) ==
  LET xx == fe_sq(p.X)
      yy == fe_sq(p.Y)
      sum == fe_add(yy, xx)
      dif == fe_sub(yy, xx)
  IN  [X |-> fe_sub(fe_sq(fe_add(p.X, p.Y)), sum), Y |-> sum,
       Z |-> dif, T |-> fe_sub(fe_sq2(p.Z), dif)]

ge_p3_dbl(p) == ge_p2_dbl(ge_p3_to_p2(p))

-----------------------------------------------------------------------------
(* Strings. *)

\* y with the sign of x in the top bit; ge_tobytes and ge_p3_tobytes.
ge_tobytes(h) ==
  LET recip == fe_invert(h.Z)
  IN  fe_tobytes(fe_mul(h.Y, recip))
        + TopBit * fe_isnegative(fe_mul(h.X, recip))

\* Mutant: the other root is not multiplied by the root of -1.
ge_frombytes_one_root(s) ==
  LET y   == fe_frombytes(s)
      yy  == fe_sq(y)
      u   == fe_sub(yy, fe_1)
      v   == fe_add(fe_mul(yy, d), fe_1)
      v3  == fe_mul(fe_sq(v), v)
      uv7 == fe_mul(fe_mul(fe_sq(v3), v), u)
      x0  == fe_mul(fe_mul(fe_pow22523(uv7), v3), u)
      vxx == fe_mul(fe_sq(x0), v)
      root  == fe_isnonzero(fe_sub(vxx, u)) = 0
      iroot == fe_isnonzero(fe_add(vxx, u)) = 0
      x   == IF fe_isnegative(x0) = s \div TopBit THEN fe_neg(x0) ELSE x0
  IN  [valid |-> root \/ iroot,
       point |-> [X |-> x, Y |-> y, Z |-> fe_1, T |-> fe_mul(x, y)]]

\* The point whose string is s, negated, if there is one.
ge_frombytes_negate_vartime(s) ==
  LET y   == fe_frombytes(s)
      yy  == fe_sq(y)
      u   == fe_sub(yy, fe_1)
      v   == fe_add(fe_mul(yy, d), fe_1)
      v3  == fe_mul(fe_sq(v), v)
      uv7 == fe_mul(fe_mul(fe_sq(v3), v), u)
      x0  == fe_mul(fe_mul(fe_pow22523(uv7), v3), u)
      vxx == fe_mul(fe_sq(x0), v)
      root  == fe_isnonzero(fe_sub(vxx, u)) = 0
      iroot == fe_isnonzero(fe_add(vxx, u)) = 0
      x1  == IF root THEN x0 ELSE fe_mul(x0, sqrtm1)
      x   == IF fe_isnegative(x1) = s \div TopBit THEN fe_neg(x1) ELSE x1
  IN  [valid |-> root \/ iroot,
       point |-> [X |-> x, Y |-> y, Z |-> fe_1, T |-> fe_mul(x, y)]]

-----------------------------------------------------------------------------
(* a * B, by signed digits of four bits. *)

\* The digits of a, each from -8 to 8.
Radix16(a) ==
  LET last == StringBits \div 4 - 1
      nibble(i) == (a \div 16^i) % 16
      carry[i \in -1 .. last - 1] ==
        IF i = -1 THEN 0 ELSE (nibble(i) + carry[i - 1] + 8) \div 16
  IN  [i \in 0 .. last |->
         nibble(i) + carry[i - 1] - (IF i = last THEN 0 ELSE 16 * carry[i])]

\* b * 256^pos * B, from the table of the positive multiples.
select(pos, b) ==
  LET babs == IF b < 0 THEN -b ELSE b
      t == IF babs \in 1 .. 8 THEN base[pos][babs - 1]
           ELSE [yplusx |-> fe_1, yminusx |-> fe_1, xy2d |-> fe_0]
  IN  IF b < 0
      THEN [yplusx |-> t.yminusx, yminusx |-> t.yplusx,
            xy2d |-> fe_neg(t.xy2d)]
      ELSE t

\* The odd digits, four doublings, then the even digits; a below TopBit.
ge_scalarmult_base(a) ==
  LET e == Radix16(a)
      Added(h, i) == ge_p1p1_to_p3(ge_madd(h, select(i \div 2, e[i])))
      last == StringBits \div 4 - 1
      odd[i \in -1 .. last] ==
        IF i = -1 THEN ge_p3_0 ELSE Added(odd[i - 2], i)
      Twice(h) == ge_p1p1_to_p2(ge_p2_dbl(h))
      sixteen == ge_p1p1_to_p3(
                   ge_p2_dbl(Twice(Twice(Twice(ge_p3_to_p2(odd[last]))))))
      even[i \in -2 .. last - 1] ==
        IF i = -2 THEN sixteen ELSE Added(even[i - 2], i)
  IN  even[last - 1]

-----------------------------------------------------------------------------
(* a * A + b * B, by sliding windows of odd digits from -15 to 15. *)

\* Mutant: the zero that ends the ones is not set.
IncrementedShort(r, k) ==
  LET zeros == {m \in k .. StringBits - 1 : r[m] = 0}
      m == IF zeros = {} THEN StringBits ELSE Min(zeros)
  IN  [j \in 0 .. StringBits - 1 |-> IF j \in k .. m - 1 THEN 0 ELSE r[j]]

\* Add one to the number whose bits start at k: ones become zeros up to the
\* first zero, which becomes one.
Incremented(r, k) ==
  LET zeros == {m \in k .. StringBits - 1 : r[m] = 0}
      m == IF zeros = {} THEN StringBits ELSE Min(zeros)
  IN  [j \in 0 .. StringBits - 1 |->
         CASE j \in k .. m - 1 -> 0 [] j = m -> 1 [] OTHER -> r[j]]

\* Digit i takes the bits above it one by one, until one does not fit.
Widened(r, i) ==
  LET after[b \in 0 .. 6] ==
        IF b = 0 THEN [r |-> r, open |-> TRUE]
        ELSE LET was == after[b - 1]
                 own == was.r[i]
                 bit == IF i + b < StringBits THEN was.r[i + b] * 2^b ELSE 0
             IN  CASE ~was.open \/ bit = 0 -> was
                   [] own + bit <= 15 ->
                        [was EXCEPT !.r[i] = own + bit, !.r[i + b] = 0]
                   [] own - bit >= -15 ->
                        [was EXCEPT !.r = Incremented(
                            [was.r EXCEPT ![i] = own - bit], i + b)]
                   [] OTHER -> [was EXCEPT !.open = FALSE]
  IN  after[6].r

slide(a) ==
  LET after[i \in -1 .. StringBits - 1] ==
        IF i = -1 THEN [j \in 0 .. StringBits - 1 |-> Bit(a, j)]
        ELSE LET was == after[i - 1]
             IN  IF was[i] = 0 THEN was ELSE Widened(was, i)
  IN  after[StringBits - 1]

\* A, 3A, 5A, ... 15A.
OddMultiples(A) ==
  LET A2 == ge_p1p1_to_p3(ge_p3_dbl(A))
      multiple[i \in 0 .. 7] ==
        IF i = 0 THEN ge_p3_to_cached(A)
        ELSE ge_p3_to_cached(ge_p1p1_to_p3(ge_add(A2, multiple[i - 1])))
  IN  multiple

\* t plus the odd digit times the point whose odd multiples are given.
WithDigit(t, digit, plus(_, _), minus(_, _), multiples) ==
  IF digit = 0 THEN t
  ELSE IF digit > 0 THEN plus(ge_p1p1_to_p3(t), multiples[digit \div 2])
  ELSE minus(ge_p1p1_to_p3(t), multiples[(-digit) \div 2])

ge_double_scalarmult_vartime(a, A, b) ==
  LET aslide == slide(a)
      bslide == slide(b)
      Ai == OddMultiples(A)
      used == {i \in 0 .. StringBits - 1 : aslide[i] # 0 \/ bslide[i] # 0}
      top == IF used = {} THEN -1 ELSE Max(used)
      step[r \in ge_p2, i \in 0 .. top] ==
        LET withA == WithDigit(ge_p2_dbl(r), aslide[i], ge_add, ge_sub, Ai)
        IN  ge_p1p1_to_p2(WithDigit(withA, bslide[i], ge_madd, ge_msub, Bi))
      after[n \in 0 .. top + 1] ==
        IF n = 0 THEN ge_p2_0 ELSE step[after[n - 1], top + 1 - n]
  IN  after[top + 1]
=============================================================================
