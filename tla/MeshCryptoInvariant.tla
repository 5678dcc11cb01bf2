------------------------ MODULE MeshCryptoInvariant ------------------------
(***************************************************************************)
(* The inductive invariant behind the properties of MeshCryptoSafety.  The *)
(* two PeerStates are either equal in all that the ratchet shares or one   *)
(* is exactly what ratchet_on_epoch_advance makes of the other; whatever   *)
(* is on the air or half decoded belongs to one of those two steps.        *)
(***************************************************************************)
EXTENDS MeshCryptoSafety

\* s and r have taken the same steps.
SameStep(s, r) ==
    /\ s.ephemeral_current.serial = r.ephemeral_current.serial
    /\ s.RK = r.RK
    /\ s.CKr_prev = r.CKr_prev
    /\ s.epoch = r.epoch
    /\ s.remote_hint = compute_hint(r.ephemeral_current)
    /\ r.remote_hint = compute_hint(s.ephemeral_current)

\* s is what r becomes when it follows.
OneAhead(s, r) ==
    /\ s.ephemeral_current.serial = r.ephemeral_current.serial + 1
    /\ s.RK = kdf_rk(r.RK, ratchet_build_ikm(r))
    /\ s.CKr_prev = chain_key(r.RK)
    /\ s.epoch = epoch_next(r.epoch)
    /\ s.remote_hint = compute_hint(r.ephemeral_candidate)
    /\ READY \in r.ratchet_flags
    /\ r.remote_candidate_pending = s.ephemeral_current

Linked(s, r) == SameStep(s, r) \/ OneAhead(s, r) \/ OneAhead(r, s)

\* What a PeerState keeps to itself.
WellFormed(s) ==
    /\ s.ephemeral_current.owner = s.peer_id
    /\ s.ephemeral_candidate =
          PublicKey(s.peer_id, s.ephemeral_current.serial + 1, s.ephemeral_candidate.hint)
    /\ compute_hint(s.ephemeral_candidate) # compute_hint(s.ephemeral_current)
    /\ Len(s.RK) = s.ephemeral_current.serial
    /\ s.epoch = EPOCH_BOOTSTRAP <=> s.ephemeral_current.serial = 0
    /\ ACK \in s.ratchet_flags <=> READY \in s.ratchet_flags
    /\ READY \notin s.ratchet_flags => s.remote_candidate_pending = ZeroKey

\* What s has learned about r: its candidate, and that it holds that of s.
Knows(s, r) ==
    /\ READY \in s.ratchet_flags =>
          \/ SameStep(s, r) /\ s.remote_candidate_pending = r.ephemeral_candidate
          \/ OneAhead(r, s)
    /\ SAW \in s.ratchet_flags =>
          \/ SameStep(s, r) /\ READY \in r.ratchet_flags
          \/ OneAhead(r, s)

\* What is collected in f, the sidecar of s, while r sends.
Collects(f, s, r) ==
    f.equations # {} =>
        /\ SameStep(s, r)
        /\ READY \notin s.ratchet_flags
        /\ f.active
        /\ f.hint = compute_hint(r.ephemeral_candidate)
        /\ f.epoch = s.epoch
        /\ Explains(f, r.ephemeral_candidate)

\* Packet k, on its way from r to s, belongs to the past or the present of r
\* and is sealed under the keys s has or had for it.
Sealed(k, s, r) ==
    LET rk == k.key.ck.rk
        ad == k.key.ad
    IN  /\ k.key.ck = chain_key(rk)
        /\ ~k.noisy <=> OnAir(k.ad) = ad
        /\ Len(rk) <= r.ephemeral_current.serial
        /\ Len(rk) = s.ephemeral_current.serial => rk = s.RK
        /\ Len(rk) + 1 = s.ephemeral_current.serial => k.key.ck = s.CKr_prev
        /\ Len(rk) = r.ephemeral_current.serial =>
              /\ rk = r.RK
              /\ ad.epoch = r.epoch
              /\ ad.hint = compute_hint(r.ephemeral_candidate)
              /\ k.ad.symbol = fec_encode_symbol(r.ephemeral_candidate,
                                   fec_equation_coeffs(ad.hint, ad.epoch, ad.counter))
              /\ ad.ack => READY \in r.ratchet_flags

\* The previous chain key is one step behind the root key.
SavedKey(s) ==
    IF s.ephemeral_current.serial = 0
    THEN s.CKr_prev = NoChainKey
    ELSE /\ s.CKr_prev = chain_key(s.CKr_prev.rk)
         /\ Len(s.CKr_prev.rk) + 1 = s.ephemeral_current.serial

\* One end of the link: its PeerState s, its sidecar f and the packets N on
\* their way to it, beside the PeerState r of the other end.
EndOK(s, r, f, N) ==
    /\ WellFormed(s)
    /\ SavedKey(s)
    /\ Knows(s, r)
    /\ Collects(f, s, r)
    /\ \A k \in N : Sealed(k, s, r)

\* The invariant: the two PeerStates are linked and each end is in order.  It
\* is inductive and implies the state properties of MeshCryptoSafety.
IInv ==
    /\ TypeOK
    /\ \A p \in Peers : peer[p].peer_id = p
    /\ Linked(peer[0], peer[1])
    /\ \A p \in Peers : EndOK(peer[p], peer[Other(p)], fec[p], net[p])
=============================================================================
