----------------------------- MODULE GroupSizes -----------------------------
(***************************************************************************)
(* How large the limbs of a point can get: GroupElement and Ed25519 read   *)
(* on sizes instead of numbers, a size being the bound fe.c documents for  *)
(* the largest limb, in hundredths of 2^25 (2^24 for the narrow limbs).    *)
(* Additions and subtractions do not carry, so sizes add up until the next *)
(* multiplication; fe.c leaves it to its callers that no sum gets too      *)
(* large for it.  The machine calls the functions of ge.c, and the steps   *)
(* of the ladder, in any order their types allow.                          *)
(***************************************************************************)
EXTENDS Ed25519

CONSTANTS TooLarge   \* the size that stands for a broken precondition

VARIABLES p2, p3, p1p1, cached, ladder

vars == <<p2, p3, p1p1, cached, ladder>>

Init ==
  /\ p2 = ge_p2_0
  /\ p3 \in {ge_p3_0, ge_frombytes_negate_vartime(0).point}
  /\ p1p1 = ge_p2_dbl(ge_p2_0)
  /\ cached = ge_p3_to_cached(ge_p3_0)
  /\ ladder = LadderStart(MontgomeryX(0))

Complete(r) == p1p1' = r /\ UNCHANGED <<p2, p3, cached, ladder>>

Add == Complete(ge_add(p3, cached))
Sub == Complete(ge_sub(p3, cached))

AddBase ==
  \E pos \in 0 .. 1, digit \in {-8, 0, 1} :
    Complete(ge_madd(p3, select(pos, digit)))

SubBase == \E i \in 0 .. 7 : Complete(ge_msub(p3, Bi[i]))

Double == Complete(ge_p2_dbl(p2)) \/ Complete(ge_p3_dbl(p3))

ToP2 ==
  /\ p2' \in {ge_p1p1_to_p2(p1p1), ge_p3_to_p2(p3)}
  /\ UNCHANGED <<p3, p1p1, cached, ladder>>

ToP3 ==
  /\ p3' = ge_p1p1_to_p3(p1p1)
  /\ UNCHANGED <<p2, p1p1, cached, ladder>>

ToCached ==
  /\ cached' = ge_p3_to_cached(p3)
  /\ UNCHANGED <<p2, p3, p1p1, ladder>>

\* add_scalar.c undoes the negation of the unpacked point.
UndoNegate ==
  /\ p3' = [p3 EXCEPT !.X = fe_neg(p3.X), !.T = fe_neg(p3.T)]
  /\ UNCHANGED <<p2, p1p1, cached, ladder>>

Ladder ==
  /\ \E b \in 0 .. 1 : ladder' = LadderStep(ladder, MontgomeryX(0), b)
  /\ UNCHANGED <<p2, p3, p1p1, cached>>

Next ==
  \/ Add \/ Sub \/ AddBase \/ SubBase \/ Double
  \/ ToP2 \/ ToP3 \/ ToCached \/ UndoNegate \/ Ladder

-----------------------------------------------------------------------------
\* Whatever the order of the group's operations and of the ladder's steps,
\* no multiplication meets limbs larger than it takes, and a point that is
\* packed meets none larger than fe_tobytes takes.
SumsStayMultipliable ==
  /\ \A r \in {p2, p3, p1p1, cached} :
       \A f \in DOMAIN r : r[f] < TooLarge
  /\ \A f \in DOMAIN ladder : ladder[f] < TooLarge
  /\ ge_tobytes(p3) < TooLarge
=============================================================================
