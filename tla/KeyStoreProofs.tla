--------------------------- MODULE KeyStoreProofs ---------------------------
(***************************************************************************)
(* The rows of key cells, for any seeds and any number of ratchet steps.   *)
(* What depends on the curve's numbers is a hypothesis of the theorems:    *)
(* that ge_scalarmult_base multiplies the base point, and that an exchange *)
(* gives both ends the same string.                                        *)
(***************************************************************************)
EXTENDS KeyStore, TLAPS

Derived(pub, priv) == priv \in PrivateKeys /\ pub = ed25519_derive_pub(priv)

\* A PeerState's cells: two key pairs, and nothing written beside them.
RowOK(row) ==
    /\ row = [c \in Cells |-> row[c]]
    /\ Derived(row["ephemeral_current"], row["ephemeral_current_priv"])
    /\ Derived(row["ephemeral_candidate"], row["ephemeral_candidate_priv"])
    /\ \A c \in {"RK", "CKr_prev", "epoch"} : row[c] = 0

StoreInv ==
    \A s \in Peers :
       /\ cells = [x \in Peers |-> cells[x]]
       /\ RowOK(cells[s])
       /\ Derived(statics[s].pub, statics[s].priv)

-----------------------------------------------------------------------------
(* The struct *)

\* Each private key is followed by its public key, so that the 32 bytes too
\* many are overwritten next.
LEMMA StructOrder ==
    /\ Cells = {"RK", "CKr_prev", "ephemeral_current_priv", "ephemeral_current",
                "ephemeral_candidate_priv", "ephemeral_candidate", "epoch"}
    /\ Following("ephemeral_current_priv") = "ephemeral_current"
    /\ Following("ephemeral_candidate_priv") = "ephemeral_candidate"
<1>1. Len(Layout) = 7
  BY DEF Layout
<1>2. /\ Layout[1] = "RK" /\ Layout[2] = "CKr_prev"
      /\ Layout[3] = "ephemeral_current_priv" /\ Layout[4] = "ephemeral_current"
      /\ Layout[5] = "ephemeral_candidate_priv" /\ Layout[6] = "ephemeral_candidate"
      /\ Layout[7] = "epoch"
  BY DEF Layout
<1>3. \A j \in 1 .. 7 : j = 1 \/ j = 2 \/ j = 3 \/ j = 4 \/ j = 5 \/ j = 6 \/ j = 7
  OBVIOUS
<1>4. \A j \in 1 .. 7 : Layout[j] = "ephemeral_current_priv" => j = 3
  BY <1>2, <1>3
<1>5. \A j \in 1 .. 7 : Layout[j] = "ephemeral_candidate_priv" => j = 5
  BY <1>2, <1>3
<1>6. (CHOOSE j \in 1 .. Len(Layout) : Layout[j] = "ephemeral_current_priv") = 3
  BY <1>1, <1>2, <1>4
<1>7. (CHOOSE j \in 1 .. Len(Layout) : Layout[j] = "ephemeral_candidate_priv") = 5
  BY <1>1, <1>2, <1>5
<1>8. Cells = {Layout[i] : i \in 1 .. 7}
  BY <1>1 DEF Cells
<1>9. /\ Following("ephemeral_current_priv") = Layout[3 + 1]
      /\ Following("ephemeral_candidate_priv") = Layout[5 + 1]
  BY <1>6, <1>7 DEF Following
<1>10. Cells = {Layout[1], Layout[2], Layout[3], Layout[4], Layout[5], Layout[6], Layout[7]}
  BY <1>3, <1>8
<1> QED
  BY <1>2, <1>9, <1>10

\* The two places for a key pair.
LEMMA PairCells ==
    /\ "ephemeral_current" \in Cells /\ "ephemeral_current_priv" \in Cells
    /\ "ephemeral_candidate" \in Cells /\ "ephemeral_candidate_priv" \in Cells
    /\ "ephemeral_current" # "ephemeral_current_priv"
    /\ "ephemeral_candidate" # "ephemeral_candidate_priv"
    /\ Following("ephemeral_current_priv") = "ephemeral_current"
    /\ Following("ephemeral_candidate_priv") = "ephemeral_candidate"
BY StructOrder

\* A key pair written into a row: its two cells, and no other.
LEMMA CreatedRow ==
    ASSUME NEW row, row = [c \in Cells |-> row[c]],
           NEW pub \in Cells, NEW priv \in Cells, pub # priv,
           Following(priv) = pub, NEW seed \in Seeds,
           NEW new, new = Created(row, pub, priv, seed)
    PROVE  /\ new = [c \in Cells |-> new[c]]
           /\ Derived(new[pub], new[priv])
           /\ \A c \in Cells \ {pub, priv} : new[c] = row[c]
<1> DEFINE pair == ed25519_create_keypair(seed)
<1>1. pair.public = ed25519_derive_pub(pair.private[1]) /\ pair.private[1] \in PrivateKeys
  BY DEF ed25519_create_keypair, PrivateKeys
<1> HIDE DEF pair
<1>2. new = [[row EXCEPT ![priv] = pair.private[1], ![pub] = pair.private[2]]
               EXCEPT ![pub] = pair.public]
  BY DEF Created, pair
<1>3. /\ new = [c \in Cells |-> new[c]]
      /\ new[pub] = pair.public /\ new[priv] = pair.private[1]
      /\ \A c \in Cells \ {pub, priv} : new[c] = row[c]
  BY <1>2
<1> QED
  BY <1>1, <1>3 DEF Derived

\* A new candidate leaves the rest of a row as it was.
LEMMA CandidateRow ==
    ASSUME NEW row, row = [c \in Cells |-> row[c]],
           Derived(row["ephemeral_current"], row["ephemeral_current_priv"]),
           \A c \in {"RK", "CKr_prev", "epoch"} : row[c] = 0,
           NEW new \in NewCandidates(row)
    PROVE  RowOK(new)
<1>1. PICK seed \in Seeds :
         new = Created(row, "ephemeral_candidate", "ephemeral_candidate_priv", seed)
  BY DEF NewCandidates
<1>2. /\ new = [c \in Cells |-> new[c]]
      /\ Derived(new["ephemeral_candidate"], new["ephemeral_candidate_priv"])
      /\ \A c \in Cells \ {"ephemeral_candidate", "ephemeral_candidate_priv"} :
            new[c] = row[c]
  BY <1>1, PairCells, CreatedRow
<1> QED
  BY <1>2, StructOrder DEF RowOK

\* The promoted candidate stays beside its private key.
LEMMA PromotedRow ==
    ASSUME NEW row, RowOK(row), NEW new \in Promoted(row)
    PROVE  RowOK(new)
<1> DEFINE t == [row EXCEPT
                   !["ephemeral_current_priv"] = row["ephemeral_candidate_priv"],
                   !["ephemeral_current"] = row["ephemeral_candidate"]]
<1>1. /\ t = [c \in Cells |-> t[c]]
      /\ t["ephemeral_current"] = row["ephemeral_candidate"]
      /\ t["ephemeral_current_priv"] = row["ephemeral_candidate_priv"]
      /\ \A c \in {"RK", "CKr_prev", "epoch"} : t[c] = 0
  BY StructOrder DEF RowOK
<1>2. new \in NewCandidates(t)
  BY DEF Promoted
<1> HIDE DEF t
<1> QED
  BY <1>1, <1>2, CandidateRow DEF RowOK

-----------------------------------------------------------------------------
(* The invariant *)

LEMMA InitStoreInv == Init => StoreInv
<1> SUFFICES ASSUME Init PROVE StoreInv
  OBVIOUS
<1>1. PICK seed \in [Peers -> Seeds] :
         LET current == [s \in Peers |-> WithCurrent(Zeroed, seed[s])]
         IN  /\ statics = [s \in Peers |->
                             [pub  |-> current[s]["ephemeral_current"],
                              priv |-> current[s]["ephemeral_current_priv"]]]
             /\ \E a \in NewCandidates(current["A"]),
                   b \in NewCandidates(current["B"]) :
                  cells = [s \in Peers |-> IF s = "A" THEN a ELSE b]
  BY DEF Init
<1> DEFINE row(s) == WithCurrent(Zeroed, seed[s])
<1>2. ASSUME NEW s \in Peers
      PROVE  /\ row(s) = [c \in Cells |-> row(s)[c]]
             /\ Derived(row(s)["ephemeral_current"], row(s)["ephemeral_current_priv"])
             /\ \A c \in {"RK", "CKr_prev", "epoch"} : row(s)[c] = 0
  <2>1. seed[s] \in Seeds
    OBVIOUS
  <2>2. /\ Zeroed = [c \in Cells |-> Zeroed[c]]
        /\ \A c \in {"RK", "CKr_prev", "epoch"} : Zeroed[c] = 0
    BY StructOrder DEF Zeroed
  <2>3. row(s) = Created(Zeroed, "ephemeral_current", "ephemeral_current_priv", seed[s])
    BY DEF WithCurrent
  <2> HIDE DEF row
  <2>4. /\ row(s) = [c \in Cells |-> row(s)[c]]
        /\ Derived(row(s)["ephemeral_current"], row(s)["ephemeral_current_priv"])
        /\ \A c \in Cells \ {"ephemeral_current", "ephemeral_current_priv"} :
              row(s)[c] = Zeroed[c]
    BY <2>1, <2>2, <2>3, PairCells, CreatedRow
  <2> QED
    BY <2>2, <2>4, StructOrder
<1>3. PICK a \in NewCandidates(row("A")), b \in NewCandidates(row("B")) :
         cells = [s \in Peers |-> IF s = "A" THEN a ELSE b]
  BY <1>1 DEF Peers
<1>4. \A s \in Peers : statics[s].pub = row(s)["ephemeral_current"]
                       /\ statics[s].priv = row(s)["ephemeral_current_priv"]
  BY <1>1
<1> HIDE DEF row
<1>5. RowOK(a) /\ RowOK(b)
  BY <1>2, CandidateRow DEF Peers
<1> QED
  BY <1>2, <1>3, <1>4, <1>5 DEF StoreInv, Peers

LEMMA NextStoreInv == StoreInv /\ [Next]_vars => StoreInv'
<1> SUFFICES ASSUME StoreInv, [Next]_vars PROVE StoreInv'
  OBVIOUS
<1>1. CASE UNCHANGED vars
  BY <1>1 DEF vars, StoreInv
<1>2. ASSUME NEW s \in Peers, Ratchet(s) PROVE StoreInv'
  <2>1. PICK new \in Promoted(cells[s]) : cells' = [cells EXCEPT ![s] = new]
    BY <1>2 DEF Ratchet
  <2>2. RowOK(new)
    BY <2>1, PromotedRow DEF StoreInv
  <2>3. statics' = statics
    BY <1>2 DEF Ratchet
  <2>4. cells' = [x \in Peers |-> cells'[x]] /\ \A x \in Peers : RowOK(cells'[x])
    BY <2>1, <2>2 DEF StoreInv
  <2> QED
    BY <2>3, <2>4 DEF StoreInv
<1> QED
  BY <1>1, <1>2 DEF Next

LEMMA StoreInvariance == Spec => []StoreInv
BY InitStoreInv, NextStoreInv, PTL DEF Spec

\* Every stored public key is the one of the private key beside it, and the
\* 32 bytes ed25519_create_keypair writes past a private key reach nothing
\* but the public key that is written next, whatever is drawn and however
\* often the peers ratchet.
THEOREM StoredKeys ==
    ASSUME MultipliesBase
    PROVE  Spec => []StoredKeysMatch
<1>1. StoreInv => StoredKeysMatch
  BY DEF StoreInv, RowOK, Derived, StoredKeysMatch, Matches, MultipliesBase
<1> QED
  BY <1>1, StoreInvariance, PTL

-----------------------------------------------------------------------------
(* The key material *)

\* memcmp orders strings totally: sorting two gives the same list in either
\* order.
LEMMA SortingForgetsOrder ==
    ASSUME NEW f \in Nat, NEW g \in Nat
    PROVE  (IF NotAfter(f, g) THEN <<f, g>> ELSE <<g, f>>)
             = (IF NotAfter(g, f) THEN <<g, f>> ELSE <<f, g>>)
<1>1. NotAfter(f, g) \/ NotAfter(g, f)
  BY DEF NotAfter
<1>2. NotAfter(f, g) /\ NotAfter(g, f) => f = g
  BY DEF NotAfter
<1> QED
  BY <1>1, <1>2

\* Both peers feed the same three secrets in the same order into kdf_rk.
\* Each mixes its static key with the other's candidate and its candidate
\* with the other's static key, so that what comes second to one comes third
\* to the other until they are sorted.
THEOREM SameIkm ==
    ASSUME ExchangeCommutes
    PROVE  Spec => []BothBuildTheSameIkm
<1>1. ASSUME StoreInv PROVE BothBuildTheSameIkm
  <2> DEFINE own(s) == cells[s]["ephemeral_candidate_priv"]
             remote(s) == cells[s]["ephemeral_candidate"]
             first(s, r) == ed25519_key_exchange(remote(r), own(s))
             second(s, r) == ed25519_key_exchange(statics[r].pub, own(s))
             third(s, r) == ed25519_key_exchange(remote(r), statics[s].priv)
  <2>1. \A s \in Peers : Derived(remote(s), own(s)) /\ Derived(statics[s].pub, statics[s].priv)
    BY <1>1 DEF StoreInv, RowOK
  <2>2. ASSUME NEW s \in Peers, NEW r \in Peers
        PROVE  /\ first(s, r) = first(r, s) /\ second(s, r) = third(r, s)
               /\ second(s, r) \in Nat /\ third(s, r) \in Nat
    BY <2>1 DEF ExchangeCommutes, Derived
  <2>3. /\ ratchet_build_ikm("A") =
             <<first("A", "B")>>
               \o (IF NotAfter(second("A", "B"), third("A", "B"))
                   THEN <<second("A", "B"), third("A", "B")>>
                   ELSE <<third("A", "B"), second("A", "B")>>)
        /\ ratchet_build_ikm("B") =
             <<first("B", "A")>>
               \o (IF NotAfter(second("B", "A"), third("B", "A"))
                   THEN <<second("B", "A"), third("B", "A")>>
                   ELSE <<third("B", "A"), second("B", "A")>>)
    BY DEF ratchet_build_ikm, Other
  <2> HIDE DEF first, second, third
  <2>4. /\ first("A", "B") = first("B", "A") /\ second("A", "B") = third("B", "A")
        /\ second("B", "A") = third("A", "B")
        /\ second("A", "B") \in Nat /\ third("A", "B") \in Nat
    BY <2>2 DEF Peers
  <2> QED
    BY <2>3, <2>4, SortingForgetsOrder DEF BothBuildTheSameIkm
<1> QED
  BY <1>1, StoreInvariance, PTL
=============================================================================
