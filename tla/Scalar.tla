------------------------------- MODULE Scalar -------------------------------
(***************************************************************************)
(* Arithmetic modulo the group order L on limbs of Width bits: sc_reduce   *)
(* and sc_muladd of lib/ed25519/sc.c.  The order is                        *)
(*                                                                         *)
(*     L = 2^(12*Width) - sum of D[j] * 2^(Width*j), j in 0..5             *)
(*                                                                         *)
(* so limb i >= 12 folds into limbs i-12 .. i-7 with the digits D.  The    *)
(* code has Width = 21 and D = 666643, 470296, 654183, -997805, 136657,    *)
(* -683901.  Folds and carries are interleaved to keep every limb within   *)
(* 64 bits, and the last ones are what makes the result canonical: below   *)
(* L, whatever the input.                                                  *)
(***************************************************************************)
EXTENDS Integers, Sequences

CONSTANTS Width, D

Limbs == 0 .. 23

L == 2^(12 * Width)
       - ( D[0] + D[1] * 2^Width + D[2] * 2^(2 * Width) + D[3] * 2^(3 * Width)
         + D[4] * 2^(4 * Width) + D[5] * 2^(5 * Width) )

\* Limb i of the twelve limbs of n; the last takes every bit that is left.
Limb(n, i) ==
  IF i < 11 THEN (n \div 2^(Width * i)) % 2^Width ELSE n \div 2^(Width * 11)

-----------------------------------------------------------------------------
(* Folds and carries. *)

Fold(s, i) ==
  [j \in Limbs |->
     CASE j = i -> 0
       [] j \in i - 12 .. i - 7 -> s[j] + s[i] * D[j - (i - 12)]
       [] OTHER -> s[j]]

Hand(s, i, k) == [s EXCEPT ![i] = @ - k * 2^Width, ![i + 1] = @ + k]

RoundCarry(s, i) == Hand(s, i, (s[i] + 2^(Width - 1)) \div 2^Width)

FloorCarry(s, i) == Hand(s, i, s[i] \div 2^Width)

\* Op for each limb of order, one after the other.  A step, and the whole, are
\* functions so that TLC computes their argument before their value.
Each(Op(_, _), s, order) ==
  LET step[t \in [Limbs -> Int], i \in Limbs] == Op(t, i)
      all[t \in [Limbs -> Int]] ==
        LET after[n \in 0 .. Len(order)] ==
              IF n = 0 THEN t ELSE step[after[n - 1], order[n]]
        IN  after[Len(order)]
  IN  all[s]

\* Mutant: the carry out of limb 11 is folded in once.
ReducedOnce(s) ==
  LET upper   == Each(Fold, s, <<23, 22, 21, 20, 19, 18>>)
      middle  == Each(RoundCarry, upper,
                      <<6, 8, 10, 12, 14, 16, 7, 9, 11, 13, 15>>)
      lower   == Each(Fold, middle, <<17, 16, 15, 14, 13, 12>>)
      carried == Each(RoundCarry, lower,
                      <<0, 2, 4, 6, 8, 10, 1, 3, 5, 7, 9, 11>>)
  IN  Each(FloorCarry, Fold(carried, 12),
           <<0, 1, 2, 3, 4, 5, 6, 7, 8, 9, 10>>)

\* The tail both functions end in: from 24 limbs to the twelve of the result.
Reduced(s) ==
  LET upper   == Each(Fold, s, <<23, 22, 21, 20, 19, 18>>)
      middle  == Each(RoundCarry, upper,
                      <<6, 8, 10, 12, 14, 16, 7, 9, 11, 13, 15>>)
      lower   == Each(Fold, middle, <<17, 16, 15, 14, 13, 12>>)
      carried == Each(RoundCarry, lower,
                      <<0, 2, 4, 6, 8, 10, 1, 3, 5, 7, 9, 11>>)
      floored == Each(FloorCarry, Fold(carried, 12),
                      <<0, 1, 2, 3, 4, 5, 6, 7, 8, 9, 10, 11>>)
  IN  Each(FloorCarry, Fold(floored, 12),
           <<0, 1, 2, 3, 4, 5, 6, 7, 8, 9, 10>>)

\* The twelve limbs as one number.
Store(s) ==
    s[0] + s[1] * 2^Width + s[2] * 2^(2 * Width) + s[3] * 2^(3 * Width)
  + s[4] * 2^(4 * Width) + s[5] * 2^(5 * Width) + s[6] * 2^(6 * Width)
  + s[7] * 2^(7 * Width) + s[8] * 2^(8 * Width) + s[9] * 2^(9 * Width)
  + s[10] * 2^(10 * Width) + s[11] * 2^(11 * Width)

-----------------------------------------------------------------------------
(* The two operations of sc.h. *)

\* The 64-byte input is low + 2^(12*Width) * high.
sc_reduce(low, high) ==
  Store(Reduced([i \in Limbs |->
                   IF i < 12 THEN Limb(low, i) ELSE Limb(high, i - 12)]))

\* Column k of a * b + c.
Column(a, b, c, k) ==
  LET term[i \in 0 .. 11] ==
        (IF k - i \in 0 .. 11 THEN Limb(a, i) * Limb(b, k - i) ELSE 0)
          + (IF i = 0 THEN 0 ELSE term[i - 1])
  IN  term[11] + (IF k < 12 THEN Limb(c, k) ELSE 0)

sc_muladd(a, b, c) ==
  LET columns == [k \in Limbs |-> Column(a, b, c, k)]
  IN  Store(Reduced(Each(RoundCarry, columns,
        <<0, 2, 4, 6, 8, 10, 12, 14, 16, 18, 20, 22,
          1, 3, 5, 7, 9, 11, 13, 15, 17, 19, 21>>)))
=============================================================================
