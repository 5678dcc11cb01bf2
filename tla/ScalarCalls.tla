---------------------------- MODULE ScalarCalls -----------------------------
(***************************************************************************)
(* A scalar and any sequence of sc_reduce and sc_muladd on it, beside the  *)
(* number it should be modulo L.                                           *)
(***************************************************************************)
EXTENDS Scalar, Residues

CONSTANTS
  Words,       \* 32-byte arguments, as numbers
  MaxScalars   \* calls made on the scalar

VARIABLES scalar, expected, rounds

vars == <<scalar, expected, rounds>>

Init ==
  /\ scalar \in Words
  /\ expected = scalar % L
  /\ rounds = 0

Set(n, value) ==
  /\ rounds < MaxScalars
  /\ rounds' = rounds + 1
  /\ scalar' = n
  /\ expected' = value % L

\* A 64-byte digest that starts with the scalar's first 12 * Width bits.
Reduce ==
  \E high \in Words :
    LET low == scalar % 2^(12 * Width)
    IN  Set(sc_reduce(low, high), low + TimesMod(2^(12 * Width), high, L))

MulAdd ==
  \E b, c \in Words :
    Set(sc_muladd(scalar, b, c), TimesMod(expected, b % L, L) + (c % L))

Next == Reduce \/ MulAdd

-----------------------------------------------------------------------------
\* After a call the scalar is the reference's residue itself, not another
\* member of its class: a signature's second half is below L, and scalars
\* computed along two routes are equal as bytes.
ScalarIsReduced == rounds > 0 => scalar = expected
=============================================================================
