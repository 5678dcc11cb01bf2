------------------------- MODULE RatchetPairProofs -------------------------
(***************************************************************************)
(* The abstract ratchet keeps its promise: Hear, Lead and CatchUp never    *)
(* leave a node without the key of the other.                              *)
(***************************************************************************)
EXTENDS RatchetPair, TLAPS

PairType ==
    /\ gen \in [Nodes -> Nat]
    /\ rk = [p \in Nodes |-> rk[p]]
    /\ holds = [p \in Nodes |-> holds[p]]

PairInv == PairType /\ PairAgreement

LEMMA MateIsOther ==
    ASSUME NEW p \in Nodes
    PROVE  /\ Mate(p) \in Nodes /\ Mate(p) # p /\ Mate(Mate(p)) = p
           /\ \A x \in Nodes : x = p \/ x = Mate(p)
           /\ InStep <=> gen[p] = gen[Mate(p)]
           /\ rk[0] = rk[1] <=> rk[p] = rk[Mate(p)]
BY DEF Nodes, Mate, InStep

\* A function on the nodes stays one when it is updated.
LEMMA Updated ==
    ASSUME NEW f, f = [x \in Nodes |-> f[x]], NEW p, NEW v, NEW g, g = [f EXCEPT ![p] = v]
    PROVE  g = [x \in Nodes |-> g[x]]
OBVIOUS

LEMMA InitPairInv == PairInit => PairInv
BY DEF PairInit, PairInv, PairType, PairAgreement, InStep, Nodes

LEMMA NextPairInv == PairInv /\ [PairNext]_pairVars => PairInv'
<1> SUFFICES ASSUME PairInv, [PairNext]_pairVars PROVE PairInv'
  OBVIOUS
<1>1. CASE UNCHANGED pairVars
  BY <1>1 DEF pairVars, PairInv, PairType, PairAgreement, InStep, Ahead
<1>2. ASSUME NEW p \in Nodes, Hear(p) PROVE PairInv'
  <2>1. PICK learns \in BOOLEAN : holds' = [holds EXCEPT ![p] = @ \/ learns]
    BY <1>2 DEF Hear
  <2>2. gen' = gen /\ rk' = rk
    BY <1>2 DEF Hear
  <2>3. PairType'
    BY <2>1, <2>2 DEF PairInv, PairType
  <2>4. \A x \in Nodes : holds[x] => holds'[x]
    BY <2>1 DEF PairInv, PairType
  <2>5. PairAgreement'
    BY <2>2, <2>4 DEF PairInv, PairAgreement, InStep, Ahead, Mate, Nodes
  <2> QED
    BY <2>3, <2>5 DEF PairInv
<1>3. ASSUME NEW p \in Nodes, Lead(p) PROVE PairInv'
  <2> DEFINE q == Mate(p)
  <2>1. /\ gen'[p] = gen[p] + 1 /\ gen'[q] = gen[q]
        /\ rk'[q] = rk[q] /\ holds'[q] = holds[q]
    BY <1>3, MateIsOther DEF Lead, PairInv, PairType
  <2>2. PairType'
    <3>1. gen' \in [Nodes -> Nat]
      BY <1>3 DEF Lead, PairInv, PairType
    <3>2. rk' = [x \in Nodes |-> rk'[x]] /\ holds' = [x \in Nodes |-> holds'[x]]
      BY <1>3, Updated DEF Lead, PairInv, PairType
    <3> QED
      BY <3>1, <3>2 DEF PairType
  <2>3. CASE InStep /\ holds[q]
    <3>1. gen'[p] = gen'[q] + 1 /\ holds'[q]
      BY <2>1, <2>3, MateIsOther
    <3> QED
      BY <2>2, <3>1 DEF PairInv, PairAgreement, Ahead
  <2>4. CASE Ahead(q)
    <3>1. gen'[p] = gen'[q]
      BY <2>1, <2>4, MateIsOther DEF Ahead
    <3>2. rk'[p] = rk'[q]
      BY <1>3, <2>1, <2>4 DEF Lead
    <3>3. gen'[0] = gen'[1] /\ rk'[0] = rk'[1]
      BY <3>1, <3>2 DEF Nodes, Mate
    <3> QED
      BY <2>2, <3>3 DEF PairInv, PairAgreement, InStep
  <2> QED
    BY <1>3, <2>3, <2>4 DEF Lead
<1>4. ASSUME NEW p \in Nodes, CatchUp(p) PROVE PairInv'
  <2> DEFINE q == Mate(p)
  <2>1. /\ gen'[p] = gen[p] + 1 /\ gen'[q] = gen[q]
        /\ rk'[p] = rk[q] /\ rk'[q] = rk[q]
    BY <1>4, MateIsOther DEF CatchUp, PairInv, PairType
  <2>2. PairType'
    <3>1. gen' \in [Nodes -> Nat]
      BY <1>4 DEF CatchUp, PairInv, PairType
    <3>2. rk' = [x \in Nodes |-> rk'[x]] /\ holds' = [x \in Nodes |-> holds'[x]]
      BY <1>4, Updated DEF CatchUp, PairInv, PairType
    <3> QED
      BY <3>1, <3>2 DEF PairType
  <2>3. gen'[p] = gen'[q]
    BY <1>4, <2>1, MateIsOther DEF CatchUp, Ahead
  <2>4. gen'[0] = gen'[1] /\ rk'[0] = rk'[1]
    BY <2>1, <2>3 DEF Nodes, Mate
  <2> QED
    BY <2>2, <2>4 DEF PairInv, PairAgreement, InStep
<1> QED
  BY <1>1, <1>2, <1>3, <1>4 DEF PairNext

\* In step the nodes share the root key; otherwise the one behind can follow.
THEOREM Agreement == PairSpec => []PairAgreement
<1>1. PairInv => PairAgreement
  BY DEF PairInv
<1> QED
  BY <1>1, InitPairInv, NextPairInv, PTL DEF PairSpec
=============================================================================
