-------------------------- MODULE MeshCryptoSafety --------------------------
(***************************************************************************)
(* What two peers running encrypt_packet and decrypt_packet may rely on.   *)
(***************************************************************************)
EXTENDS MeshCrypto

Leads(p) == Generation(p) = Generation(Other(p)) + 1
InStep == Generation(0) = Generation(1)

\* The generation a packet was sealed in.
GenerationOf(k) == Len(k.key.ck.rk)

\* The packet is as its sender sealed it.
Intact(k) == ~k.noisy

-----------------------------------------------------------------------------
PeerStates ==
    [peer_id : Peers, RK : Seq(KeyMaterial), CKr_prev : ChainKeys,
     ephemeral_current : Keys, ephemeral_candidate : Keys,
     epoch : Epochs, remote_hint : Hints, remote_candidate_pending : Points,
     send_counter : Counters, recv_counter_curr : Counters, recv_counter_prev : Counters,
     ratchet_flags : SUBSET Flags]

Rows == Hints \X WireEpochs \X Counters

Symbols == [of : Keys, row : Rows]

FecRxStates ==
    [active : BOOLEAN, hint : Hints, epoch : WireEpochs,
     equations : SUBSET [counter : Counters, symbol : Symbols]]

Headers ==
    [ack : BOOLEAN, epoch : WireEpochs, counter : Counters, hint : Hints, symbol : Symbols]

SealedHeaders ==
    [ack : BOOLEAN, epoch : WireEpochs, counter : Counters, hint : Hints, symbol : Rows]

Packets == [ad : Headers, key : [ck : ChainKeys, ad : SealedHeaders], noisy : BOOLEAN]

\* Every field of the two PeerStates, the sidecars and the packets stays in
\* its range; in particular no node ever enters the reserved epoch.
TypeOK ==
    /\ peer \in [Peers -> PeerStates]
    /\ fec \in [Peers -> FecRxStates]
    /\ net \in [Peers -> SUBSET Packets]
    /\ damaged \in 0 .. MaxDamaged

\* Both peers pass through the same root keys: in step they share RK and
\* epoch; a node that is one step ahead is where ratchet_on_epoch_advance takes
\* the other, which holds the candidate that takes it there.
KeyAgreement ==
    \/ /\ InStep
       /\ peer[0].RK = peer[1].RK
       /\ peer[0].epoch = peer[1].epoch
    \/ \E p \in Peers :
          LET r == peer[Other(p)]
          IN  /\ Leads(p)
              /\ READY \in r.ratchet_flags
              /\ peer[p].RK = kdf_rk(r.RK, ratchet_build_ikm(r))
              /\ peer[p].epoch = epoch_next(r.epoch)

\* What the fountain code delivers is the key the other end will ratchet with
\* (or just did): equations of two candidates never mix, and a pending key
\* does not survive the step it was meant for.
PendingIsGenuine ==
    \A p \in Peers :
        LET s == peer[p]
            r == peer[Other(p)]
        IN  IF READY \in s.ratchet_flags
            THEN \/ InStep /\ s.remote_candidate_pending = r.ephemeral_candidate
                 \/ Leads(Other(p)) /\ s.remote_candidate_pending = r.ephemeral_current
            ELSE s.remote_candidate_pending = ZeroKey

\* SAW_PEER_ACK means what encrypt_packet takes it to mean: the other end holds
\* this node's candidate, or has already ratcheted with it.
AckIsEarned ==
    \A p \in Peers :
        SAW \in peer[p].ratchet_flags =>
            \/ InStep /\ READY \in peer[Other(p)].ratchet_flags
            \/ Leads(Other(p))

\* The FEC_DUPLICATE branch is never taken: a candidate still to be decoded
\* is never mistaken, by its one-byte hint, for the key already in use.
NoFalseDuplicate ==
    \A p \in Peers :
        InStep => compute_hint(peer[Other(p)].ephemeral_candidate) # peer[p].remote_hint

\* A sidecar holds equations of one block only, the candidate the other end is
\* now sending, each under the row the receiver will recompute for it.
RoundIsCoherent ==
    \A p \in Peers :
        LET f == fec[p]
            c == peer[Other(p)].ephemeral_candidate
        IN  f.equations # {} =>
                /\ InStep
                /\ READY \notin peer[p].ratchet_flags
                /\ f.active
                /\ f.hint = compute_hint(c)
                /\ f.epoch = peer[p].epoch
                /\ Explains(f, c)

\* The ring of epochs has just come round: epoch_prev is the bootstrap epoch,
\* not the epoch the node has left.
JustWrapped(p) == peer[p].epoch = EPOCH_MIN_ACTIVE /\ Generation(p) > 1

\* A node can read the other's present: an intact packet sealed under the
\* sender's current root key opens at the receiver, directly or by following,
\* unless its counter is behind the window or the receiver has just wrapped.
PresentIsReadable ==
    \A p \in Peers : \A k \in net[p] :
        LET s == peer[p]
        IN  Intact(k) /\ k.key.ck.rk = peer[Other(p)].RK =>
                \/ /\ InNext(s, k.ad)
                   /\ READY \in s.ratchet_flags
                   /\ Opens(k, chain_key(kdf_rk(s.RK, ratchet_build_ikm(s))))
                \/ InCurrent(s, k.ad) /\ Opens(k, chain_key(s.RK))
                \/ InPrevious(s, k.ad) /\ Opens(k, s.CKr_prev)
                \/ JustWrapped(p)

\* A late packet of the generation a receiver has just left opens under the
\* chain key saved for it ("save old CKr as CKr_prev before ratcheting").
LateOpensUnderSavedKey ==
    \A p \in Peers : \A k \in net[p] :
        Intact(k) /\ GenerationOf(k) + 1 = Generation(p) => Opens(k, peer[p].CKr_prev)

\* ... and is tried with it ("so that we can decrypt out of order packets
\* post-ratchet", mesh-crypto.cpp:271).
LateIsTried ==
    \A p \in Peers : \A k \in net[p] :
        Intact(k) /\ GenerationOf(k) + 1 = Generation(p) => InPrevious(peer[p], k.ad)
-----------------------------------------------------------------------------
\* decrypt_packet would return k.
WouldReturn(p, k) ==
    LET s == peer[p]
    IN  \/ InCurrent(s, k.ad) /\ CounterAccepted(s, k.ad) /\ Opens(k, chain_key(s.RK))
        \/ InPrevious(s, k.ad) /\ CounterAccepted(s, k.ad) /\ Opens(k, s.CKr_prev)
        \/ /\ InNext(s, k.ad)
           /\ READY \in s.ratchet_flags
           /\ Opens(k, chain_key(kdf_rk(s.RK, ratchet_build_ikm(s))))

\* decrypt_packet returns only packets the other end sealed, header included,
\* within one generation of the receiver's own, although the epoch on the wire
\* comes round every EPOCH_MAX_ACTIVE generations.
OnlyRecentIsReturned ==
    \A p \in Peers : \A k \in net[p] :
        WouldReturn(p, k) =>
            /\ Intact(k)
            /\ GenerationOf(k) \in Generation(p) - 1 .. Generation(p) + 1

\* encrypt_packet never seals two packets of a node under one packet key ("must
\* be ... unique for each encryption", ascon_encrypt).  It says nothing of the
\* packets of the other node: both derive their keys from the same chain key,
\* and nothing but the hint and two bytes of a symbol tells their headers apart.
KeyPerPacketIsFresh ==
    [][\A p \in Peers :
          SendInEpoch(p) \/ SendAsFirstMover(p) =>
              \E k \in net'[Other(p)] : \A o \in net[Other(p)] : o.key # k.key]_vars

\* "If auth fails: REJECT, do not update state" (REVIEW.md:261): a packet that
\* decrypt_packet does not return leaves the receiver as it was.
FailureLeavesNoTrace ==
    [][\A p \in Peers : \A k \in net[p] :
          Deliver(p, k) /\ ~WouldReturn(p, k) => UNCHANGED <<peer, fec>>]_vars
-----------------------------------------------------------------------------
\* The ratchet seen without packets: this specification implements RatchetPair.
Pair == INSTANCE RatchetPair WITH
            gen <- [p \in Peers |-> Generation(p)],
            rk <- [p \in Peers |-> peer[p].RK],
            holds <- [p \in Peers |-> READY \in peer[p].ratchet_flags],
            confirmed <- [p \in Peers |-> SAW \in peer[p].ratchet_flags]

\* Every step of the two peers is a step of RatchetPair or changes none of
\* what it sees.
ImplementsRatchetPair == Pair!PairSpec
=============================================================================
