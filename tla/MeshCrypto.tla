----------------------------- MODULE MeshCrypto -----------------------------
(***************************************************************************)
(* Two peers of mesh-crypto.cpp and the radio link between them.           *)
(*                                                                         *)
(* peer[p] is p's PeerState, fec[p] its FecRxState sidecar.  Cryptography  *)
(* is symbolic: a key is named by what it is derived from, so two keys are *)
(* equal exactly when the program's inputs to the KDF are equal, and a     *)
(* packet opens exactly when the receiver derives the key it was sealed    *)
(* with over the header it received.                                       *)
(*                                                                         *)
(* The link keeps every packet ever sent: a packet is delivered any number *)
(* of times, in any order, or never, and a bounded number of packets have  *)
(* their header damaged on the way.                                        *)
(***************************************************************************)
EXTENDS MeshEpoch, FecSidecar, Sequences

CONSTANTS
    REPLAY_TOLERANCE,   \* 16 in mesh-crypto.h
    CounterMod,         \* send_counter is a uint16_t: 65536
    Hints,              \* first bytes of public keys: a set of bytes with 0
    Use3XDH,            \* g_use_3xdh
    MaxRatchets,        \* bound: ratchet steps of one peer
    MaxCounter,         \* bound: a peer stops sending at this send_counter
    MaxDamaged          \* bound: packets damaged by the link

ASSUME MeshAssumption ==
    /\ REPLAY_TOLERANCE \in Nat
    /\ CounterMod \in Nat \ {0}
    /\ Hints \subseteq 0 .. 255
    /\ 0 \in Hints
    /\ Use3XDH \in BOOLEAN
    /\ MaxRatchets \in Nat
    /\ MaxCounter \in Nat
    /\ MaxDamaged \in Nat

VARIABLES
    peer,       \* peer[p]: PeerState
    fec,        \* fec[p]: FecRxState, kept beside PeerState
    net,        \* net[p]: the packets on their way to p
    damaged     \* history: number of packets the link has damaged

vars == <<peer, fec, net, damaged>>

-----------------------------------------------------------------------------
(* Keys *)

Peers == {0, 1}                 \* peer_id: 0 = A, 1 = B
Other(p) == 1 - p

Counters == 0 .. CounterMod - 1

\* A key pair is named by its owner, the number of key pairs the owner made
\* before it, and the first byte of its public half (compute_hint).
PublicKey(owner, serial, hint) == [owner |-> owner, serial |-> serial, hint |-> hint]

\* The long-term key; nothing reads its first byte after bootstrap.
StaticKey(p) == PublicKey(p, 0, 0)

\* remote_candidate_pending after memset: 32 zero bytes
ZeroKey == PublicKey(-1, 0, 0)

\* what a decoder fed with equations of two candidates would produce
GarbledKey == PublicKey(-2, 0, 0)

Keys == [owner : Peers, serial : Nat, hint : Hints]

Points == Keys \cup {ZeroKey, GarbledKey}

compute_hint(key) == key.hint

\* The shared secret of two key pairs is the same from both ends.
key_exchange(k1, k2) == {k1, k2}

\* the two secrets in the order each side computes them
ratchet_build_ikm_unsorted(s) ==
    [primary |-> key_exchange(s.remote_candidate_pending, s.ephemeral_candidate),
     static  |-> << key_exchange(StaticKey(Other(s.peer_id)), s.ephemeral_candidate),
                    key_exchange(s.remote_candidate_pending, StaticKey(s.peer_id)) >>]

\* sort_lexicographically(dh2, dh3) makes the pair of secrets a set.
ratchet_build_ikm(s) ==
    [primary |-> key_exchange(s.remote_candidate_pending, s.ephemeral_candidate),
     static  |-> IF Use3XDH
                 THEN { key_exchange(StaticKey(Other(s.peer_id)), s.ephemeral_candidate),
                        key_exchange(s.remote_candidate_pending, StaticKey(s.peer_id)) }
                 ELSE {}]

KeyMaterial == [primary : SUBSET Points, static : SUBSET (SUBSET Points)]

\* RK is the bootstrap secret with the key material of every ratchet mixed in
\* since; <<>> is the bootstrap secret itself.
kdf_rk(rk, ikm) == Append(rk, ikm)

\* compute_CKs and compute_CKr: both derive "CKs-first" from RK.
ChainKeys == [domain : {"CKs-first", "zero"}, rk : Seq(KeyMaterial)]
chain_key(rk) == [domain |-> "CKs-first", rk |-> rk]
NoChainKey == [domain |-> "zero", rk |-> <<>>]

\* A header as the six bytes on the air.
OnAir(ad) == [ad EXCEPT !.symbol = symbol_bytes(@)]

\* leaves the header out of the key
packet_key_without_header(ck, ad) == [ck |-> ck, ad |-> 0]

packet_key(ck, ad) == [ck |-> ck, ad |-> OnAir(ad)]

-----------------------------------------------------------------------------
(* PeerState *)

READY == "REMOTE_CANDIDATE_READY"
ACK == "ACK_REMOTE_CANDIDATE"
SAW == "SAW_PEER_ACK"
Flags == {READY, ACK, SAW}

\* any first byte will do
AnyHints(s) == Hints

\* A fresh candidate never repeats the first byte of the one it replaces.
FreshHints(s) == Hints \ {compute_hint(s.ephemeral_candidate)}

generate_ephemeral_candidate(s, hint) ==
    PublicKey(s.peer_id, s.ephemeral_candidate.serial + 1, hint)

\* saved once and never again; saved after the root key has moved
SavedChainKeyOnce(s) == IF s.epoch = EPOCH_BOOTSTRAP THEN chain_key(s.RK) ELSE s.CKr_prev
SavedChainKeyLate(s) == chain_key(kdf_rk(s.RK, ratchet_build_ikm(s)))

SavedChainKey(s) == chain_key(s.RK)

\* cleared before it is kept
KeptCounterLost(s) == 0

KeptCounter(s) == s.recv_counter_curr

\* forgets that the peer must confirm again; forgets that the peer's next key
\* must be learned again
ClearedFlagsKeepSaw(s) == s.ratchet_flags \ {READY, ACK}
ClearedFlagsKeepReady(s) == s.ratchet_flags \ {SAW}

ClearedFlags(s) == s.ratchet_flags \ {READY, ACK, SAW}

\* The part the two ratchet paths share.
Ratcheted(s, hint) ==
    [peer_id |-> s.peer_id,
     CKr_prev |-> SavedChainKey(s),
     RK |-> kdf_rk(s.RK, ratchet_build_ikm(s)),
     ephemeral_current |-> s.ephemeral_candidate,
     remote_hint |-> compute_hint(s.remote_candidate_pending),
     ephemeral_candidate |-> generate_ephemeral_candidate(s, hint),
     epoch |-> epoch_next(s.epoch),
     recv_counter_prev |-> KeptCounter(s),
     recv_counter_curr |-> 0,
     remote_candidate_pending |-> ZeroKey,
     ratchet_flags |-> ClearedFlags(s),
     send_counter |-> s.send_counter]

\* First mover, from encrypt_packet.
ratchet_on_fec_decode(s, hint) == [Ratcheted(s, hint) EXCEPT !.send_counter = 0]

\* Second mover, on the trial copy of decrypt_packet.
ratchet_on_epoch_advance(s, hint) == Ratcheted(s, hint)

\* After bootstrap(): the first candidate's hint differs from the zeroed
\* candidate it replaces.
BootstrapState(p, hint) ==
    [peer_id |-> p, RK |-> <<>>, CKr_prev |-> NoChainKey,
     ephemeral_current |-> StaticKey(p),
     ephemeral_candidate |-> PublicKey(p, 1, hint),
     epoch |-> EPOCH_BOOTSTRAP, remote_hint |-> 0,
     remote_candidate_pending |-> ZeroKey,
     send_counter |-> 0, recv_counter_curr |-> 0, recv_counter_prev |-> 0,
     ratchet_flags |-> {}]

\* History: the number of ratchet steps p has taken.
Generation(p) == peer[p].ephemeral_current.serial

Init ==
    /\ \E hA, hB \in Hints \ {0} :
          peer = [p \in Peers |-> BootstrapState(p, IF p = 0 THEN hA ELSE hB)]
    /\ fec = [p \in Peers |-> fec_rx_clear]
    /\ net = [p \in Peers |-> {}]
    /\ damaged = 0

-----------------------------------------------------------------------------
(* encrypt_packet *)

Header(s) ==
    LET hint == compute_hint(s.ephemeral_candidate)
    IN  [ack |-> ACK \in s.ratchet_flags,
         epoch |-> s.epoch,
         counter |-> s.send_counter,
         hint |-> hint,
         symbol |-> fec_encode_symbol(s.ephemeral_candidate,
                        fec_equation_coeffs(hint, s.epoch, s.send_counter))]

\* noisy is history: the header is no longer the one that was sealed.
Packet(s) ==
    [ad |-> Header(s), key |-> packet_key(chain_key(s.RK), Header(s)), noisy |-> FALSE]

\* a counter two bits too narrow
NextCounterNarrow(c) == (c + 1) % (CounterMod \div 4)

NextCounter(c) == (c + 1) % CounterMod

\* leads without waiting for the peer to confirm
MayLeadWithoutAck(s) == READY \in s.ratchet_flags

\* A node leads only when it holds the other's candidate and the other has
\* confirmed holding its own.
MayLead(s) == {READY, SAW} \subseteq s.ratchet_flags

Transmit(p, s) ==
    /\ s.send_counter < MaxCounter
    /\ net' = [net EXCEPT ![Other(p)] = @ \cup {Packet(s)}]
    /\ peer' = [peer EXCEPT ![p] = [s EXCEPT !.send_counter = NextCounter(@)]]
    /\ UNCHANGED damaged

SendInEpoch(p) ==
    /\ ~MayLead(peer[p])
    /\ Transmit(p, peer[p])
    /\ UNCHANGED fec

SendAsFirstMover(p) ==
    /\ MayLead(peer[p])
    /\ Generation(p) < MaxRatchets
    /\ \E hint \in FreshHints(peer[p]) :
          Transmit(p, ratchet_on_fec_decode(peer[p], hint))
    /\ fec' = [fec EXCEPT ![p] = fec_rx_clear]

-----------------------------------------------------------------------------
(* decrypt_packet *)

Opens(k, ck) == k.key = packet_key(ck, k.ad)

InNext(s, ad) == ad.epoch = epoch_next(s.epoch)
InCurrent(s, ad) == ~InNext(s, ad) /\ ad.epoch = s.epoch
InPrevious(s, ad) ==
    ~InNext(s, ad) /\ ad.epoch # s.epoch /\ ad.epoch = epoch_prev(s.epoch)

InWindow(last, counter) == counter - last >= -REPLAY_TOLERANCE

Later(last, counter) == IF counter > last THEN counter ELSE last

\* The counter of the packet is checked and noted before the tag is verified.
CounterAccepted(s, ad) ==
    InWindow(IF ad.epoch = s.epoch THEN s.recv_counter_curr ELSE s.recv_counter_prev,
             ad.counter)

CounterNoted(s, ad) ==
    IF ad.epoch = s.epoch
    THEN [s EXCEPT !.recv_counter_curr = Later(s.recv_counter_curr, ad.counter)]
    ELSE [s EXCEPT !.recv_counter_prev = Later(s.recv_counter_prev, ad.counter)]

\* never remembers the confirmation
AckForgotten(s, ad) == s

AckNoted(s, ad) ==
    IF ad.ack THEN [s EXCEPT !.ratchet_flags = @ \cup {SAW}] ELSE s

\* The symbol of an authenticated packet of the current epoch joins the round.
SymbolAdded(f, ad) ==
    fec_rx_add_symbol(fec_rx_ensure_round(f, ad.hint, ad.epoch), ad.counter, ad.symbol)

\* The block decoded from f, when there is one, becomes the pending candidate
\* unless it is the key already in use.
CandidateLearned(s, f) ==
    LET c == fec_rx_decoded(f, GarbledKey)
    IN  IF fec_rx_can_decode(f) /\ compute_hint(c) # s.remote_hint
        THEN [s EXCEPT !.remote_candidate_pending = c,
                       !.ratchet_flags = @ \cup {READY, ACK}]
        ELSE s

\* keeps the equations of a block that is decoded
RoundKept(f) == f

RoundClosed(f) == IF fec_rx_can_decode(f) THEN fec_rx_clear ELSE f

\* Delivers ad to p, whose state is s and sidecar f once the tag has verified.
Collect(p, s, f, ad) ==
    IF READY \in s.ratchet_flags
    THEN /\ peer' = [peer EXCEPT ![p] = s]
         /\ fec' = [fec EXCEPT ![p] = f]
    ELSE /\ peer' = [peer EXCEPT ![p] = CandidateLearned(s, SymbolAdded(f, ad))]
         /\ fec' = [fec EXCEPT ![p] = RoundClosed(SymbolAdded(f, ad))]

\* The epoch is reserved, out of the window, or the next one while the
\* sender's candidate is not decoded yet.
RejectEpoch(p, k) ==
    LET s == peer[p]
    IN  /\ \/ k.ad.epoch = EPOCH_RESERVED_MAX
           \/ InNext(s, k.ad) /\ READY \notin s.ratchet_flags
           \/ ~InNext(s, k.ad) /\ ~InCurrent(s, k.ad) /\ ~InPrevious(s, k.ad)
        /\ UNCHANGED <<peer, fec>>

RejectOld(p, k) ==
    LET s == peer[p]
    IN  /\ k.ad.epoch # EPOCH_RESERVED_MAX
        /\ InCurrent(s, k.ad) \/ InPrevious(s, k.ad)
        /\ ~CounterAccepted(s, k.ad)
        /\ UNCHANGED <<peer, fec>>

\* The tag does not verify; recv_counter has moved all the same.
FailOpen(p, k) ==
    LET s == peer[p]
    IN  /\ k.ad.epoch # EPOCH_RESERVED_MAX
        /\ CounterAccepted(s, k.ad)
        /\ \/ InCurrent(s, k.ad) /\ ~Opens(k, chain_key(s.RK))
           \/ InPrevious(s, k.ad) /\ ~Opens(k, s.CKr_prev)
        /\ peer' = [peer EXCEPT ![p] = CounterNoted(s, k.ad)]
        /\ UNCHANGED fec

AcceptCurrent(p, k) ==
    LET s == peer[p]
    IN  /\ InCurrent(s, k.ad)
        /\ CounterAccepted(s, k.ad)
        /\ Opens(k, chain_key(s.RK))
        /\ Collect(p, AckNoted(CounterNoted(s, k.ad), k.ad), fec[p], k.ad)

AcceptPrevious(p, k) ==
    LET s == peer[p]
    IN  /\ InPrevious(s, k.ad)
        /\ CounterAccepted(s, k.ad)
        /\ Opens(k, s.CKr_prev)
        /\ peer' = [peer EXCEPT ![p] = CounterNoted(s, k.ad)]
        /\ UNCHANGED fec

\* tries the ratchet on the state itself
FailTrialInPlace(p, k) ==
    LET s == peer[p]
    IN  /\ InNext(s, k.ad)
        /\ READY \in s.ratchet_flags
        /\ \E hint \in FreshHints(s) :
              LET trial == ratchet_on_epoch_advance(s, hint)
              IN  /\ ~Opens(k, chain_key(trial.RK))
                  /\ peer' = [peer EXCEPT ![p] = CounterNoted(trial, k.ad)]
        /\ UNCHANGED fec

\* The ratchet is tried on a copy; a failing tag throws the copy away.
FailTrial(p, k) ==
    LET s == peer[p]
    IN  /\ InNext(s, k.ad)
        /\ READY \in s.ratchet_flags
        /\ \A hint \in FreshHints(s) :
              ~Opens(k, chain_key(ratchet_on_epoch_advance(s, hint).RK))
        /\ UNCHANGED <<peer, fec>>

Follow(p, k) ==
    LET s == peer[p]
    IN  /\ InNext(s, k.ad)
        /\ READY \in s.ratchet_flags
        /\ \E hint \in FreshHints(s) :
              LET trial == ratchet_on_epoch_advance(s, hint)
              IN  /\ Opens(k, chain_key(trial.RK))
                  /\ Collect(p, [CounterNoted(trial, k.ad) EXCEPT !.send_counter = 0],
                             fec_rx_clear, k.ad)

Receive(p, k) ==
    \/ RejectEpoch(p, k)
    \/ RejectOld(p, k)
    \/ FailOpen(p, k)
    \/ FailTrial(p, k)
    \/ AcceptCurrent(p, k)
    \/ AcceptPrevious(p, k)
    \/ Follow(p, k)

-----------------------------------------------------------------------------
(* The link *)

\* A delivered packet stays on the air: it may arrive again.
Deliver(p, k) ==
    /\ Receive(p, k)
    /\ UNCHANGED <<net, damaged>>

\* Noise changes the epoch, the counter or the ack of a header on the way; the
\* fields nothing reads before the tag is verified stay.

Garbled(ad, epoch, counter, ack) ==
    [ack |-> ack, epoch |-> epoch, counter |-> counter, hint |-> ad.hint,
     symbol |-> ad.symbol]

Damage(p, k) ==
    /\ damaged < MaxDamaged
    /\ ~k.noisy
    /\ \E epoch \in WireEpochs, counter \in Counters, ack \in BOOLEAN :
          LET ad == Garbled(k.ad, epoch, counter, ack)
          IN  /\ ad # k.ad
              /\ net' = [net EXCEPT ![p] =
                           @ \cup {[ad |-> ad, key |-> k.key, noisy |-> TRUE]}]
    /\ damaged' = damaged + 1
    /\ UNCHANGED <<peer, fec>>

Next ==
    \E p \in Peers :
        \/ SendInEpoch(p)
        \/ SendAsFirstMover(p)
        \/ \E k \in net[p] : Deliver(p, k) \/ Damage(p, k)

Spec == Init /\ [][Next]_vars

=============================================================================
