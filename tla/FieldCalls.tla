----------------------------- MODULE FieldCalls -----------------------------
(***************************************************************************)
(* Two field elements and any sequence of fe.h calls on them.  Each        *)
(* register holds the limbs the code computes beside the value they should *)
(* stand for, which is computed apart from them.                           *)
(***************************************************************************)
EXTENDS FieldElement

CONSTANTS
  Times(_, _), \* the product of two residues modulo P
  Strings,     \* the byte strings unpacked, as numbers
  Small,       \* the small multiplier, 121666 in the code
  MaxCalls     \* calls made on the two registers

VARIABLES x, y, calls

vars == <<x, y, calls>>

\* fe_tobytes estimates the quotient by P from the last limb.  Its comment
\* proves the estimate for limbs within 1.1 * Size, from two bounds: on the
\* number, whose quotient is small, and on what the other limbs stand for.
\* The limbs of the code, 25 bits and more, leave both far away; with limbs
\* of few bits they are a case.
Packable(h) ==
  LET others == Number([h EXCEPT ![9] = 0])
  IN  /\ -2 * P <= Number(h) /\ Number(h) < 2 * P
      /\ 2 * ((IF others < 0 THEN -others ELSE others) * C + 2 * C * C) < Weight(10)

Unpacked(s) == [limbs |-> fe_frombytes(s), value |-> (s % Cut[10]) % P]

Init ==
  /\ \E r, s \in Strings : x = Unpacked(r) /\ y = Unpacked(s)
  /\ calls = 0

Call == calls < MaxCalls /\ calls' = calls + 1

Set(limbs, value) ==
  /\ Call
  /\ x' = [limbs |-> limbs, value |-> value % P]
  /\ y' = y

Add == Set(fe_add(x.limbs, y.limbs), x.value + y.value)

Sub == Set(fe_sub(x.limbs, y.limbs), x.value - y.value)

Neg == Set(fe_neg(x.limbs), -x.value)

Mul == Set(fe_mul(x.limbs, y.limbs), Times(x.value, y.value))

Sq == Set(fe_sq(x.limbs), Times(x.value, x.value))

Sq2 == Set(fe_sq2(x.limbs), 2 * Times(x.value, x.value))

Mul121666 == Set(fe_mul121666(x.limbs, Small), Times(x.value, Small))

Repack ==
  /\ Packable(x.limbs)
  /\ Set(fe_frombytes(fe_tobytes(x.limbs)), x.value)

Swap ==
  /\ Call
  /\ LET s == fe_cswap(x.limbs, y.limbs, 1)
     IN  /\ x' = [y EXCEPT !.limbs = s[1]]
         /\ y' = [x EXCEPT !.limbs = s[2]]

Next == Add \/ Sub \/ Neg \/ Mul \/ Sq \/ Sq2 \/ Mul121666 \/ Repack \/ Swap

Spec == Init /\ [][Next]_vars

-----------------------------------------------------------------------------
Value(h) == Number(h) % P

\* Ten limbs stand for the right number after any sequence of calls: no
\* column of a product is doubled, wrapped or dropped wrongly, whatever sign
\* and size the limbs have when they meet.
LimbsCarryTheValue == Value(x.limbs) = x.value

\* fe_tobytes returns the one encoding below P: 0 for P and for -P, P - 1 for
\* -1, whichever limbs stand for them.  Keys, hints, shared secrets and the
\* sign of a point are compared as these bytes.
EncodingIsCanonical ==
  Packable(x.limbs) => fe_tobytes(x.limbs) = x.value
=============================================================================
