---------------------------- MODULE AsconRounds -----------------------------
(***************************************************************************)
(* The twelve rounds of the permutation, one at a time, on the initial     *)
(* value of the XOF.  constants.h keeps that value both as it is defined   *)
(* and after the permutation; ascon_inithash starts from the second.       *)
(***************************************************************************)
EXTENDS Ascon

VARIABLES s, round

\* ASCON_XOF_IV of constants.h.
InitialValue ==
  [x0 |-> Word(0, \h0800, \h00cc, \h0003),
   x1 |-> {}, x2 |-> {}, x3 |-> {}, x4 |-> {}]

RoundsInit == s = InitialValue /\ round = 0

NextRound ==
  /\ round < 12
  /\ s' = ROUND[s, RC[round + 1]]
  /\ round' = round + 1

-----------------------------------------------------------------------------
\* Twelve rounds turn the defined initial value into the five words the code
\* starts every sponge from: the round function, its constants and its
\* rotations are those the constants were computed with.
StartsWhereDefined == round = 12 => s = ascon_inithash
=============================================================================
