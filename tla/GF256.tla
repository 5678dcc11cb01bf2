------------------------------- MODULE GF256 -------------------------------
(***************************************************************************)
(* The arithmetic of the fountain code: the field of 256 elements of       *)
(* fec.cpp.  No constant occurs in this module, so that evaluating its     *)
(* assumption once, as every run over it does, decides it.                 *)
(***************************************************************************)
EXTENDS Integers

Bytes == 0 .. 255

\* Bit by bit; eight of the bits are enough for two bytes.
BitwiseXor(a, b) ==
    LET bits[i \in 0 .. 8] ==
            IF i = 8 THEN 0
            ELSE (((a \div 2^i) + (b \div 2^i)) % 2) + 2 * bits[i + 1]
    IN  bits[0]

Xor == [a \in Bytes |-> [b \in Bytes |-> BitwiseXor(a, b)]]

\* a times x, reduced by x^8 + x^4 + x^3 + x + 1
Double(a) == IF a >= 128 THEN Xor[(2 * a) % 256][27] ELSE 2 * a

gf256_mul(x, y) ==
    LET round[i \in 0 .. 8] ==
            IF i = 0 THEN [p |-> 0, a |-> x, b |-> y]
            ELSE LET s == round[i - 1]
                 IN  [p |-> IF s.b % 2 = 1 THEN Xor[s.p][s.a] ELSE s.p,
                      a |-> Double(s.a),
                      b |-> s.b \div 2]
    IN  round[8].p

\* gf256_mul, tabulated
Times == [a \in Bytes |-> [b \in Bytes |-> gf256_mul(a, b)]]

\* The loop runs while e is not zero: at most eight times.
gf256_pow(x, n) ==
    LET round[i \in 0 .. 8] ==
            IF i = 0 THEN [out |-> 1, a |-> x, e |-> n]
            ELSE LET s == round[i - 1]
                 IN  [out |-> IF s.e % 2 = 1 THEN Times[s.out][s.a] ELSE s.out,
                      a |-> Times[s.a][s.a],
                      e |-> s.e \div 2]
    IN  round[8].out

gf256_inv(a) == IF a = 0 THEN 0 ELSE gf256_pow(a, 254)

-----------------------------------------------------------------------------
(* The laws of the field, in a form small enough to evaluate: a law of three  *)
(* variables is stated with one or two of them ranging over the powers of x   *)
(* only, of which every byte is a sum.                                        *)

Powers == {1, 2, 4, 8, 16, 32, 64, 128}

ASSUME XorAssumption ==
    /\ \A a, b \in Bytes : Xor[a][b] \in Bytes /\ Xor[a][b] = Xor[b][a]
    /\ \A a \in Bytes : Xor[a][0] = a /\ Xor[a][a] = 0
    /\ \A a, b \in Bytes, c \in Powers : Xor[Xor[a][b]][c] = Xor[a][Xor[b][c]]
    \* clearing the highest bit makes a byte smaller
    /\ \A a \in Bytes \ {0} : \E c \in Powers : Xor[a][c] < a

ASSUME TimesAssumption ==
    /\ \A a, b \in Bytes : Times[a][b] \in Bytes /\ Times[a][b] = Times[b][a]
    /\ \A a \in Bytes : Times[a][0] = 0 /\ Times[a][1] = a
    /\ \A a, b \in Bytes, c \in Powers :
            Times[a][Xor[b][c]] = Xor[Times[a][b]][Times[a][c]]
    /\ \A a \in Bytes, b, c \in Powers :
            Times[Times[a][b]][c] = Times[a][Times[b][c]]

ASSUME InverseAssumption ==
    \A a \in Bytes \ {0} : gf256_inv(a) \in Bytes /\ Times[a][gf256_inv(a)] = 1
=============================================================================
