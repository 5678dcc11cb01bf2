----------------------------- MODULE RatchetPair -----------------------------
(***************************************************************************)
(* What the ratchet of mesh-crypto.cpp promises, without packets, counters *)
(* or fountain code: two nodes step through the same sequence of root      *)
(* keys, never more than one step apart, and the one behind always holds   *)
(* what it takes to catch up.                                              *)
(***************************************************************************)
EXTENDS Integers

VARIABLES
    gen,        \* gen[p]: ratchet steps p has taken
    rk,         \* rk[p]: p's root key
    holds,      \* holds[p]: p knows the key the other will ratchet with
    confirmed   \* confirmed[p]: p knows that the other holds p's

pairVars == <<gen, rk, holds, confirmed>>

Nodes == {0, 1}
Mate(p) == 1 - p

InStep == gen[0] = gen[1]
Ahead(p) == gen[p] = gen[Mate(p)] + 1

PairInit ==
    /\ gen = [p \in Nodes |-> 0]
    /\ rk \in [Nodes -> {rk[0]}]
    /\ holds = [p \in Nodes |-> FALSE]
    /\ confirmed = [p \in Nodes |-> FALSE]

\* p takes a packet in: it may complete the other's key, and it may carry the
\* other's confirmation.
Hear(p) ==
    /\ \E learns, hears \in BOOLEAN :
          /\ learns => InStep
          /\ hears => Ahead(Mate(p)) \/ (InStep /\ holds[Mate(p)])
          /\ holds' = [holds EXCEPT ![p] = @ \/ learns]
          /\ confirmed' = [confirmed EXCEPT ![p] = @ \/ hears]
    /\ UNCHANGED <<gen, rk>>

\* p moves first, or both do at once: the second to do so arrives at the key
\* the other already has.
Lead(p) ==
    /\ holds[p] /\ confirmed[p]
    /\ (InStep /\ holds[Mate(p)]) \/ Ahead(Mate(p))
    /\ gen' = [gen EXCEPT ![p] = @ + 1]
    /\ rk' = [rk EXCEPT ![p] = rk'[p]]
    /\ Ahead(Mate(p)) => rk'[p] = rk[Mate(p)]
    /\ holds' = [holds EXCEPT ![p] = FALSE]
    /\ confirmed' = [confirmed EXCEPT ![p] = FALSE]

\* p catches up with the other, and may learn its next key at once.
CatchUp(p) ==
    /\ holds[p]
    /\ Ahead(Mate(p))
    /\ gen' = [gen EXCEPT ![p] = @ + 1]
    /\ rk' = [rk EXCEPT ![p] = rk[Mate(p)]]
    /\ \E learns \in BOOLEAN : holds' = [holds EXCEPT ![p] = learns]
    /\ confirmed' = [confirmed EXCEPT ![p] = FALSE]

PairNext == \E p \in Nodes : Hear(p) \/ Lead(p) \/ CatchUp(p)

PairSpec == PairInit /\ [][PairNext]_pairVars

-----------------------------------------------------------------------------
\* Nodes in step share the root key; a node is at most one step ahead, and
\* then the other holds what it takes to follow (ratchet_on_epoch_advance never
\* takes its early return).
PairAgreement ==
    \/ InStep /\ rk[0] = rk[1]
    \/ \E p \in Nodes : Ahead(p) /\ holds[Mate(p)]
=============================================================================
