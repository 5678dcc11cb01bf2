----------------------------- MODULE SmallCurve -----------------------------
(***************************************************************************)
(* The small curve on which TLC runs the machines over GroupElement:       *)
(* -x^2 + y^2 = 1 + 688 x^2 y^2 modulo 2^15 - 19, with 8 * 4099 points,    *)
(* and a base point (9256, 4/5) of order 4099: a prime of the same shape   *)
(* and residue modulo 8, the same cofactor, the same y of the base point,  *)
(* and scalars and strings of 16 bits.  Its field, its scalars and a hash  *)
(* are values for the constants of GroupElement and Ed25519.               *)
(***************************************************************************)
EXTENDS Integers, Sequences

Prime == 32749
Slope == 688
TwiceSlope == 1376
BasePoint == <<9256, 26200>>

SmallGroup ==
  INSTANCE EdwardsCurve WITH p <- Prime, d <- Slope, B <- BasePoint

BaseTable == SmallGroup!base
OddTable == SmallGroup!Bi
RootOfMinusOne == SmallGroup!PowerMod(2, (Prime - 1) \div 4, Prime)

FieldValues == 0 .. Prime - 1
Zero == 0
One == 1
Sum(f, g) == (f + g) % Prime
Difference(f, g) == (f - g) % Prime
Negative(f) == (-f) % Prime
Product(f, g) == (f * g) % Prime
Square(f) == (f * f) % Prime
TwiceSquare(f) == (2 * ((f * f) % Prime)) % Prime
SmallMultiple(f) == (1521 * f) % Prime
Inverted(f) == SmallGroup!PowerMod(f, Prime - 2, Prime)
RootPower(f) == SmallGroup!PowerMod(f, (Prime - 5) \div 8, Prime)
OfString(s) == (s % 2^15) % Prime
ToString(f) == f
LowBit(f) == f % 2
NonZero(f) == IF f = 0 THEN 0 ELSE 1

\* Limbs of one bit, and the order 2^12 + 3.
Order == INSTANCE Scalar WITH
  Width <- 1, D <- [j \in 0 .. 5 |-> <<1, 0, -1, 0, 0, 0>>[j + 1]]

\* A digest is 26 bits: 16 low ones and 10 high ones.
ReducedDigest(low, high) ==
  Order!sc_reduce(low % 4096, low \div 4096 + 16 * high)

MultipliedScalar(a, b, c) == Order!sc_muladd(a, b, c)

\* A function of the whole message with no structure the protocol knows.
Digest(strings) ==
  LET acc[i \in 0 .. Len(strings)] ==
        IF i = 0 THEN 4711
        ELSE (acc[i - 1] * 8191 + strings[i] * 127 + 12345) % 65521
      n == acc[Len(strings)]
  IN  <<n, (n * 997 + 31) % 1024>>
=============================================================================
