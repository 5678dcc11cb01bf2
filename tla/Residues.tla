------------------------------ MODULE Residues ------------------------------
(***************************************************************************)
(* Reference arithmetic modulo m: what the limb algorithms are compared    *)
(* with.  The product is taken five bits at a time, so that TLC's integers *)
(* can hold each step for any m below 2^25.                                *)
(***************************************************************************)
EXTENDS Integers

\* a * b modulo m, for a < m and b < 2^30.
TimesMod(a, b, m) ==
  LET acc[f, g \in Int, i \in 0 .. 6] ==
        IF i = 0 THEN 0
        ELSE (acc[f, g, i - 1] * 32 + f * ((g \div 32^(6 - i)) % 32)) % m
  IN  acc[a, b, 6]

\* a^n modulo m, for m below 2^15.
PowerMod(a, n, m) ==
  LET pow[b \in Int, i \in 0 .. 15] ==
        IF i = 0 THEN 1
        ELSE LET half == pow[b, i - 1]
             IN  (((half * half) % m)
                    * (IF (n \div 2^(15 - i)) % 2 = 1 THEN b ELSE 1)) % m
  IN  pow[a, 15]
=============================================================================
