---------------------------- MODULE EdwardsCurve ----------------------------
(***************************************************************************)
(* The reference group: the points <<x, y>> of -x^2 + y^2 = 1 + d x^2 y^2  *)
(* modulo a prime p, with the affine addition law, and the strings that    *)
(* stand for them.  lib/ed25519/ge.h names this curve; its formulas in     *)
(* GroupElement are compared with the definitions below, and the tables of *)
(* precomp_data.h are the multiples of the base point B in the form the    *)
(* additions take.                                                         *)
(***************************************************************************)
EXTENDS Residues

CONSTANTS p, d, B

Inverse(n) == PowerMod(n % p, p - 2, p)

OnCurve(P) ==
  LET xx == (P[1] * P[1]) % p
      yy == (P[2] * P[2]) % p
  IN  (yy - xx) % p = (1 + ((d * xx) % p) * yy) % p

Points == (0 .. p - 1) \X (0 .. p - 1)

Identity == <<0, 1>>

Plus(P, Q) ==
  LET xy == (P[1] * Q[2]) % p
      yx == (P[2] * Q[1]) % p
      xx == (P[1] * Q[1]) % p
      yy == (P[2] * Q[2]) % p
      dxy == (d * ((xx * yy) % p)) % p
  IN  << (((xy + yx) % p) * Inverse(1 + dxy)) % p,
         (((yy + xx) % p) * Inverse(1 - dxy)) % p >>

Minus(P) == <<(-P[1]) % p, P[2]>>

\* n * P, for n below 2^16.
TimesPoint(n, P) ==
  LET Step[half, Q \in Points, bit \in 0 .. 1] ==
        LET twice == Plus(half, half)
        IN  IF bit = 1 THEN Plus(twice, Q) ELSE twice
      sum[Q \in Points, i \in 0 .. 16] ==
        IF i = 0 THEN Identity
        ELSE Step[sum[Q, i - 1], Q, (n \div 2^(16 - i)) % 2]
  IN  sum[P, 16]

\* The string of a point: y, and the lowest bit of x on top of it.
Encoded(P) == P[2] + 2^15 * (P[1] % 2)

MontgomeryU(P) == ((1 + P[2]) * Inverse(1 - P[2])) % p

-----------------------------------------------------------------------------
(* precomp_data.h *)

Precomputed(P) ==
  [yplusx |-> (P[2] + P[1]) % p, yminusx |-> (P[2] - P[1]) % p,
   xy2d |-> ((((2 * d * P[1]) % p) * P[2]) % p)]

\* base[i][j] stands for (j + 1) * 256^i * B.
base ==
  [i \in 0 .. 1 |->
     [j \in 0 .. 7 |-> Precomputed(TimesPoint((j + 1) * 256^i, B))]]

\* B, 3B, 5B, ... 15B.
Bi == [i \in 0 .. 7 |-> Precomputed(TimesPoint(2 * i + 1, B))]
=============================================================================
