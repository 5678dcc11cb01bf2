------------------------------ MODULE KeyStore ------------------------------
(***************************************************************************)
(* The key pairs two peers keep in their PeerState, as mesh-crypto.cpp and *)
(* simulator.cpp write them with lib/ed25519, and the key material both    *)
(* feed into a ratchet step.                                               *)
(*                                                                         *)
(* A PeerState is a row of 32-byte cells, in the order of the struct.      *)
(* ed25519_create_keypair writes 64 bytes through its private-key pointer, *)
(* though every private key of the struct is declared with 32: the second  *)
(* half lands in the cell that follows, before the public key is written.  *)
(***************************************************************************)
EXTENDS Ed25519

CONSTANTS
  p, B,          \* the reference curve's prime and base point
  Seeds,         \* what random_bytes returns
  MaxRatchets    \* ratchet steps of the two peers together

VARIABLES
  cells,      \* the 32-byte cells of each PeerState
  statics,    \* g_static_pub_A, g_static_priv_A, and B's
  ratchets

vars == <<cells, statics, ratchets>>

Curve == INSTANCE EdwardsCurve

Peers == {"A", "B"}

Other(s) == IF s = "A" THEN "B" ELSE "A"

\* Mutant: each public key is declared before its private key.
LayoutReordered ==
  <<"RK", "CKr_prev", "ephemeral_current", "ephemeral_current_priv",
    "ephemeral_candidate", "ephemeral_candidate_priv", "epoch">>

\* The struct, in memory order; the last cell stands for what follows.
Layout ==
  <<"RK", "CKr_prev", "ephemeral_current_priv", "ephemeral_current",
    "ephemeral_candidate_priv", "ephemeral_candidate", "epoch">>

Cells == {Layout[i] : i \in 1 .. Len(Layout)}

Following(cell) ==
  LET i == CHOOSE j \in 1 .. Len(Layout) : Layout[j] = cell
  IN  Layout[i + 1]

-----------------------------------------------------------------------------
(* Writing key pairs. *)

\* ed25519_create_keypair into two cells: 64 private bytes, then the public
\* key.
Created(row, pub, priv, seed) ==
  LET pair == ed25519_create_keypair(seed)
      private == [row EXCEPT ![priv] = pair.private[1],
                             ![Following(priv)] = pair.private[2]]
  IN  [private EXCEPT ![pub] = pair.public]

WithCurrent(row, seed) ==
  Created(row, "ephemeral_current", "ephemeral_current_priv", seed)

\* The hint of a public key is its first byte.
compute_hint(pub) == pub % 256

\* The new candidates the loop can end with: another hint than the old one.
NewCandidates(row) ==
  {new \in { Created(row, "ephemeral_candidate", "ephemeral_candidate_priv",
                     seed) : seed \in Seeds } :
     compute_hint(new["ephemeral_candidate"])
       # compute_hint(row["ephemeral_candidate"])}

\* The candidate becomes the current pair and a new candidate is drawn.
Promoted(row) ==
  NewCandidates([row EXCEPT
    !["ephemeral_current_priv"] = row["ephemeral_candidate_priv"],
    !["ephemeral_current"] = row["ephemeral_candidate"]])

Zeroed == [c \in Cells |-> 0]

\* bootstrap: the current pairs, their copies as static pairs, the first
\* candidates.
Init ==
  \E seed \in [Peers -> Seeds] :
    LET current == [s \in Peers |-> WithCurrent(Zeroed, seed[s])]
    IN  /\ statics = [s \in Peers |->
                        [pub  |-> current[s]["ephemeral_current"],
                         priv |-> current[s]["ephemeral_current_priv"]]]
        /\ \E a \in NewCandidates(current["A"]),
              b \in NewCandidates(current["B"]) :
             cells = [s \in Peers |-> IF s = "A" THEN a ELSE b]
        /\ ratchets = 0

\* The keys' part of ratchet_on_epoch_advance.
Ratchet(s) ==
  /\ ratchets < MaxRatchets
  /\ ratchets' = ratchets + 1
  /\ \E new \in Promoted(cells[s]) : cells' = [cells EXCEPT ![s] = new]
  /\ UNCHANGED statics

Next == \E s \in Peers : Ratchet(s)

Spec == Init /\ [][Next]_vars

-----------------------------------------------------------------------------
(* The key material of a ratchet step. *)

\* memcmp(f, g) <= 0 on strings of two bytes.
NotAfter(f, g) ==
  \/ f % 256 < g % 256
  \/ f % 256 = g % 256 /\ f \div 256 <= g \div 256

\* Mutant: the two mixed secrets stay in the order each peer computes them.
ratchet_build_ikm_unsorted(s) ==
  LET own == cells[s]["ephemeral_candidate_priv"]
      remote == cells[Other(s)]["ephemeral_candidate"]
  IN  << ed25519_key_exchange(remote, own),
         ed25519_key_exchange(statics[Other(s)].pub, own),
         ed25519_key_exchange(remote, statics[s].priv) >>

\* s's three shared secrets with the other's candidate, the mixed two in the
\* order of their bytes.
ratchet_build_ikm(s) ==
  LET own == cells[s]["ephemeral_candidate_priv"]
      remote == cells[Other(s)]["ephemeral_candidate"]
      dh2 == ed25519_key_exchange(statics[Other(s)].pub, own)
      dh3 == ed25519_key_exchange(remote, statics[s].priv)
  IN  <<ed25519_key_exchange(remote, own)>>
        \o (IF NotAfter(dh2, dh3) THEN <<dh2, dh3>> ELSE <<dh3, dh2>>)

-----------------------------------------------------------------------------
(* What the store relies on the curve for. *)

\* The scalars ed25519_create_keypair can write.
PrivateKeys == {ed25519_create_keypair(seed).private[1] : seed \in Seeds}

\* The tables and the ladder over them multiply the base point.
MultipliesBase ==
  \A a \in PrivateKeys : ed25519_derive_pub(a) = Curve!Encoded(Curve!TimesPoint(a, B))

\* Two holders of key pairs compute the same secret, whichever they are.
ExchangeCommutes ==
  \A a, b \in PrivateKeys :
     /\ ed25519_key_exchange(ed25519_derive_pub(a), b) \in Nat
     /\ ed25519_key_exchange(ed25519_derive_pub(a), b)
          = ed25519_key_exchange(ed25519_derive_pub(b), a)

-----------------------------------------------------------------------------
Matches(pub, priv) == pub = Curve!Encoded(Curve!TimesPoint(priv, B))

\* Every stored public key is the one of the private key beside it, and no
\* write of a key pair reaches a cell that is not part of one, although each
\* writes 32 bytes more than its private key's cell holds.
StoredKeysMatch ==
  \A s \in Peers :
    /\ Matches(cells[s]["ephemeral_current"],
               cells[s]["ephemeral_current_priv"])
    /\ Matches(cells[s]["ephemeral_candidate"],
               cells[s]["ephemeral_candidate_priv"])
    /\ Matches(statics[s].pub, statics[s].priv)
    /\ \A c \in {"RK", "CKr_prev", "epoch"} : cells[s][c] = 0

\* Both peers build the same key material from what each of them knows, so
\* that their root keys stay equal: the three exchanges are symmetric, and
\* sorting undoes that each peer computes the mixed ones in its own order.
BothBuildTheSameIkm == ratchet_build_ikm("A") = ratchet_build_ikm("B")

\* The ladder on the public key's Montgomery coordinate computes the
\* coordinate of the product of both scalars with B, for the scalars in use.
SecretIsTheProduct ==
  ed25519_key_exchange(cells["B"]["ephemeral_candidate"],
                       cells["A"]["ephemeral_candidate_priv"])
    = Curve!MontgomeryU(Curve!TimesPoint(cells["A"]["ephemeral_candidate_priv"],
        Curve!TimesPoint(cells["B"]["ephemeral_candidate_priv"], B)))
=============================================================================
