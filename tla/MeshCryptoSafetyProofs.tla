----------------------- MODULE MeshCryptoSafetyProofs -----------------------
(***************************************************************************)
(* Proofs about MeshCrypto, for every number of symbols, epochs and        *)
(* packets: its types; that what one peer does keeps the two in order;     *)
(* that IInv of MeshCryptoInvariant is therefore inductive; and that it    *)
(* implies the properties of MeshCryptoSafety and the refinement of        *)
(* RatchetPair.                                                            *)
(***************************************************************************)
EXTENDS MeshCryptoInvariant, FiniteSetTheorems, TLAPS

-----------------------------------------------------------------------------
(* The ring of epochs *)

\* Every epoch has a successor that is an active epoch and differs from it;
\* two steps do not come back; epoch_prev undoes epoch_next except across the
\* wrap of the ring.
LEMMA EpochRing ==
    ASSUME NEW e \in Epochs
    PROVE  /\ epoch_next(e) \in Epochs
           /\ epoch_next(e) # EPOCH_BOOTSTRAP
           /\ epoch_next(e) # e
           /\ epoch_next(epoch_next(e)) # e
           /\ epoch_prev(epoch_next(e)) = e \/ e = EPOCH_MAX_ACTIVE
BY EpochAssumption DEF Epochs, epoch_next, epoch_prev, EPOCH_BOOTSTRAP, EPOCH_MIN_ACTIVE

-----------------------------------------------------------------------------
(* What the ratchet does to a PeerState *)

LEMMA KeyMaterialType ==
    ASSUME NEW s \in PeerStates
    PROVE  /\ ratchet_build_ikm(s) \in KeyMaterial
           /\ kdf_rk(s.RK, ratchet_build_ikm(s)) \in Seq(KeyMaterial)
           /\ Len(kdf_rk(s.RK, ratchet_build_ikm(s))) = Len(s.RK) + 1
<1>1. StaticKey(s.peer_id) \in Points /\ StaticKey(Other(s.peer_id)) \in Points
  BY MeshAssumption DEF StaticKey, PublicKey, Points, Keys, PeerStates, Peers, Other
<1>2. ratchet_build_ikm(s) \in KeyMaterial
  BY <1>1 DEF ratchet_build_ikm, key_exchange, KeyMaterial, PeerStates, Points
<1> QED
  BY <1>2 DEF kdf_rk, PeerStates

LEMMA RatchetedType ==
    ASSUME NEW s \in PeerStates, NEW hint \in FreshHints(s)
    PROVE  Ratcheted(s, hint) \in PeerStates
<1>1. epoch_next(s.epoch) \in Epochs
  BY EpochRing DEF PeerStates
<1>2. PublicKey(s.peer_id, s.ephemeral_candidate.serial + 1, hint) \in Keys
  BY DEF PublicKey, Keys, PeerStates, FreshHints
<1>3. chain_key(s.RK) \in ChainKeys
  BY DEF chain_key, ChainKeys, PeerStates
<1>4. compute_hint(s.remote_candidate_pending) \in Hints
  BY MeshAssumption DEF compute_hint, Points, Keys, ZeroKey, GarbledKey, PublicKey, PeerStates
<1>5. 0 \in Counters /\ ZeroKey \in Points
  BY MeshAssumption DEF Counters, Points
<1> QED
  BY <1>1, <1>2, <1>3, <1>4, <1>5, KeyMaterialType
     DEF Ratcheted, SavedChainKey, KeptCounter, ClearedFlags,
         generate_ephemeral_candidate, PeerStates

LEMMA RatchetOnFecDecodeType ==
    ASSUME NEW s \in PeerStates, NEW hint \in FreshHints(s)
    PROVE  ratchet_on_fec_decode(s, hint) \in PeerStates
<1>1. Ratcheted(s, hint) \in PeerStates /\ 0 \in Counters
  BY RatchetedType, MeshAssumption DEF Counters
<1> QED
  BY <1>1 DEF ratchet_on_fec_decode, PeerStates

-----------------------------------------------------------------------------
(* Types of what the handlers compute *)

LEMMA SymbolBytesType ==
    ASSUME NEW symbol \in Symbols
    PROVE  symbol_bytes(symbol) \in Rows
BY DEF Symbols, symbol_bytes

LEMMA PacketType ==
    ASSUME NEW s \in PeerStates
    PROVE  Header(s) \in Headers /\ Packet(s) \in Packets
<1>1. s.epoch \in WireEpochs
  BY EpochAssumption DEF PeerStates, Epochs, WireEpochs, EPOCH_RESERVED_MAX, EPOCH_BOOTSTRAP
<1>2. compute_hint(s.ephemeral_candidate) \in Hints
  BY DEF compute_hint, PeerStates, Keys
<1>3. Header(s) \in Headers
  BY <1>1, <1>2
     DEF Header, Headers, Symbols, Rows, fec_encode_symbol, fec_equation_coeffs, PeerStates
<1>4. OnAir(Header(s)) \in SealedHeaders
  BY <1>3, SymbolBytesType DEF OnAir, Headers, SealedHeaders
<1> QED
  BY <1>3, <1>4 DEF Packet, Packets, packet_key, chain_key, ChainKeys, PeerStates

LEMMA CounterNotedType ==
    ASSUME NEW s \in PeerStates, NEW ad \in Headers
    PROVE  CounterNoted(s, ad) \in PeerStates
BY DEF CounterNoted, Later, PeerStates, Headers

LEMMA AckNotedType ==
    ASSUME NEW s \in PeerStates, NEW ad \in Headers
    PROVE  AckNoted(s, ad) \in PeerStates
BY DEF AckNoted, PeerStates, Flags

LEMMA ClearType == fec_rx_clear \in FecRxStates
BY MeshAssumption, EpochAssumption
   DEF fec_rx_clear, FecRxStates, WireEpochs, EPOCH_BOOTSTRAP, EPOCH_RESERVED_MAX

LEMMA SymbolAddedType ==
    ASSUME NEW f \in FecRxStates, NEW ad \in Headers
    PROVE  SymbolAdded(f, ad) \in FecRxStates
<1> DEFINE r == fec_rx_ensure_round(f, ad.hint, ad.epoch)
           e == [counter |-> ad.counter, symbol |-> ad.symbol]
<1>1. r \in FecRxStates
  BY DEF fec_rx_ensure_round, FecRxStates, Headers
<1>2. e \in [counter : Counters, symbol : Symbols]
  BY DEF Headers
<1> HIDE DEF r, e
<1>3. [r EXCEPT !.equations = @ \cup {e}] \in FecRxStates
  BY <1>1, <1>2 DEF FecRxStates
<1> QED
  BY <1>1, <1>3 DEF SymbolAdded, fec_rx_add_symbol, r, e

LEMMA RoundClosedType ==
    ASSUME NEW f \in FecRxStates
    PROVE  RoundClosed(f) \in FecRxStates
BY ClearType DEF RoundClosed

\* A decoded block is one of the collected blocks or the garbled one.
LEMMA DecodedType ==
    ASSUME NEW f \in FecRxStates
    PROVE  fec_rx_decoded(f, GarbledKey) \in Points
<1> DEFINE sources == {e.symbol.of : e \in f.equations}
<1>1. sources \subseteq Points
  BY DEF FecRxStates, Symbols, Points
<1>2. CASE \E c \in sources : Explains(f, c)
  <2>1. (CHOOSE c \in sources : Explains(f, c)) \in sources
    BY <1>2
  <2> QED
    BY <1>1, <1>2, <2>1 DEF fec_rx_decoded
<1>3. CASE ~\E c \in sources : Explains(f, c)
  BY <1>3 DEF fec_rx_decoded, Points
<1> QED
  BY <1>2, <1>3

\* What learning candidate c makes of s.
LEMMA LearnedFields ==
    ASSUME NEW s \in PeerStates, NEW f \in FecRxStates,
           CandidateLearned(s, f) # s
    PROVE  LET c == fec_rx_decoded(f, GarbledKey)
               t == [s EXCEPT !.remote_candidate_pending = c]
           IN  /\ t \in PeerStates
               /\ CandidateLearned(s, f) =
                     [t EXCEPT !.ratchet_flags = t.ratchet_flags \cup {READY, ACK}]
               /\ fec_rx_can_decode(f)
<1> DEFINE c == fec_rx_decoded(f, GarbledKey)
           t == [s EXCEPT !.remote_candidate_pending = c]
<1>1. fec_rx_can_decode(f) /\ compute_hint(c) # s.remote_hint
  BY DEF CandidateLearned
<1>2. t \in PeerStates
  BY DecodedType DEF PeerStates
<1>3. CandidateLearned(s, f) =
          [s EXCEPT !.remote_candidate_pending = c,
                    !.ratchet_flags = s.ratchet_flags \cup {READY, ACK}]
  BY <1>1 DEF CandidateLearned
<1>4. [s EXCEPT !.remote_candidate_pending = c,
                !.ratchet_flags = s.ratchet_flags \cup {READY, ACK}]
      = [t EXCEPT !.ratchet_flags = t.ratchet_flags \cup {READY, ACK}]
  BY DEF PeerStates
<1> QED
  BY <1>1, <1>2, <1>3, <1>4

LEMMA CandidateLearnedType ==
    ASSUME NEW s \in PeerStates, NEW f \in FecRxStates
    PROVE  CandidateLearned(s, f) \in PeerStates
<1> DEFINE t == [s EXCEPT !.remote_candidate_pending = fec_rx_decoded(f, GarbledKey)]
<1>1. CASE CandidateLearned(s, f) = s
  BY <1>1
<1>2. CASE CandidateLearned(s, f) # s
  <2>1. /\ t \in PeerStates
        /\ CandidateLearned(s, f) =
              [t EXCEPT !.ratchet_flags = t.ratchet_flags \cup {READY, ACK}]
    BY <1>2, LearnedFields
  <2> HIDE DEF t
  <2>2. t.ratchet_flags \cup {READY, ACK} \in SUBSET Flags
    BY <2>1 DEF PeerStates, Flags
  <2> QED
    BY <2>1, <2>2 DEF PeerStates
<1> QED
  BY <1>1, <1>2

LEMMA CollectType ==
    ASSUME TypeOK, NEW p \in Peers, NEW s \in PeerStates, NEW f \in FecRxStates,
           NEW ad \in Headers, Collect(p, s, f, ad)
    PROVE  peer' \in [Peers -> PeerStates] /\ fec' \in [Peers -> FecRxStates]
<1> DEFINE g == SymbolAdded(f, ad)
<1>1. g \in FecRxStates
  BY SymbolAddedType
<1> HIDE DEF g
<1>2. CandidateLearned(s, g) \in PeerStates /\ RoundClosed(g) \in FecRxStates
  BY <1>1, CandidateLearnedType, RoundClosedType
<1> QED
  BY <1>2 DEF Collect, TypeOK, g

LEMMA AcceptCurrentType ==
    ASSUME TypeOK, NEW p \in Peers, NEW k \in net[p], AcceptCurrent(p, k)
    PROVE  peer' \in [Peers -> PeerStates] /\ fec' \in [Peers -> FecRxStates]
<1> DEFINE t == CounterNoted(peer[p], k.ad)
<1>1. peer[p] \in PeerStates /\ fec[p] \in FecRxStates /\ k.ad \in Headers
  BY DEF TypeOK, Packets
<1>2. AckNoted(t, k.ad) \in PeerStates
  BY <1>1, CounterNotedType, AckNotedType
<1> QED
  BY <1>1, <1>2, CollectType DEF AcceptCurrent

LEMMA FollowType ==
    ASSUME TypeOK, NEW p \in Peers, NEW k \in net[p], Follow(p, k)
    PROVE  peer' \in [Peers -> PeerStates] /\ fec' \in [Peers -> FecRxStates]
<1> DEFINE s == peer[p]
           trial(hint) == ratchet_on_epoch_advance(s, hint)
           t(hint) == [CounterNoted(trial(hint), k.ad) EXCEPT !.send_counter = 0]
<1>1. s \in PeerStates /\ k.ad \in Headers
  BY DEF TypeOK, Packets
<1>2. PICK hint \in FreshHints(s) : Collect(p, t(hint), fec_rx_clear, k.ad)
  BY DEF Follow
<1>3. trial(hint) \in PeerStates
  BY <1>1, RatchetedType DEF ratchet_on_epoch_advance
<1>4. CounterNoted(trial(hint), k.ad) \in PeerStates
  BY <1>1, <1>3, CounterNotedType
<1>5. 0 \in Counters
  BY MeshAssumption DEF Counters
<1>6. t(hint) \in PeerStates
  BY <1>4, <1>5 DEF PeerStates
<1> QED
  BY <1>1, <1>2, <1>6, ClearType, CollectType

LEMMA TransmitType ==
    ASSUME TypeOK, NEW p \in Peers, NEW s \in PeerStates, Transmit(p, s)
    PROVE  peer' \in [Peers -> PeerStates] /\ net' \in [Peers -> SUBSET Packets]
<1>1. NextCounter(s.send_counter) \in Counters
  BY MeshAssumption DEF NextCounter, Counters, PeerStates
<1>2. [s EXCEPT !.send_counter = NextCounter(@)] \in PeerStates
  BY <1>1 DEF PeerStates
<1>3. Packet(s) \in Packets /\ Other(p) \in Peers
  BY PacketType DEF Peers, Other
<1> QED
  BY <1>2, <1>3 DEF Transmit, TypeOK

-----------------------------------------------------------------------------
(* TypeOK is an invariant. *)

LEMMA InitType == Init => TypeOK
<1> SUFFICES ASSUME Init PROVE TypeOK
  OBVIOUS
<1>1. PICK hA, hB \in Hints \ {0} :
         peer = [p \in Peers |-> BootstrapState(p, IF p = 0 THEN hA ELSE hB)]
  BY DEF Init
<1>2. ASSUME NEW p \in Peers, NEW hint \in Hints
      PROVE  BootstrapState(p, hint) \in PeerStates
  <2>1. StaticKey(p) \in Keys /\ PublicKey(p, 1, hint) \in Keys
    BY <1>2, MeshAssumption DEF StaticKey, PublicKey, Keys, Peers
  <2>2. 0 \in Counters /\ 0 \in Hints /\ EPOCH_BOOTSTRAP \in Epochs /\ ZeroKey \in Points
    BY MeshAssumption, EpochAssumption DEF Counters, Epochs, EPOCH_BOOTSTRAP, Points
  <2>3. NoChainKey \in ChainKeys /\ <<>> \in Seq(KeyMaterial)
    BY DEF NoChainKey, ChainKeys
  <2> QED
    BY <1>2, <2>1, <2>2, <2>3 DEF BootstrapState, PeerStates
<1>3. peer \in [Peers -> PeerStates]
  BY <1>1, <1>2
<1> QED
  BY <1>3, ClearType, MeshAssumption DEF Init, TypeOK

LEMMA NextType == TypeOK /\ [Next]_vars => TypeOK'
<1> SUFFICES ASSUME TypeOK, [Next]_vars PROVE TypeOK'
  OBVIOUS
<1>1. CASE UNCHANGED vars
  BY <1>1 DEF TypeOK, vars
<1>2. ASSUME NEW p \in Peers, SendInEpoch(p) PROVE TypeOK'
  <2>1. peer[p] \in PeerStates /\ Transmit(p, peer[p])
    BY <1>2 DEF SendInEpoch, TypeOK
  <2> QED
    BY <1>2, <2>1, TransmitType DEF SendInEpoch, Transmit, TypeOK
<1>3. ASSUME NEW p \in Peers, SendAsFirstMover(p) PROVE TypeOK'
  <2>1. PICK hint \in FreshHints(peer[p]) :
           Transmit(p, ratchet_on_fec_decode(peer[p], hint))
    BY <1>3 DEF SendAsFirstMover
  <2>2. ratchet_on_fec_decode(peer[p], hint) \in PeerStates
    BY RatchetOnFecDecodeType DEF TypeOK
  <2>3. peer' \in [Peers -> PeerStates] /\ net' \in [Peers -> SUBSET Packets]
    BY <2>1, <2>2, TransmitType
  <2> QED
    BY <1>3, <2>1, <2>3, ClearType DEF SendAsFirstMover, Transmit, TypeOK
<1>4. ASSUME NEW p \in Peers, NEW k \in net[p], Deliver(p, k) PROVE TypeOK'
  <2> DEFINE s == peer[p]
  <2>1. s \in PeerStates /\ fec[p] \in FecRxStates /\ k \in Packets /\ k.ad \in Headers
    BY DEF TypeOK, Packets
  <2>u. UNCHANGED <<net, damaged>>
    BY <1>4 DEF Deliver
  <2>2. CounterNoted(s, k.ad) \in PeerStates
    BY <2>1, CounterNotedType
  <2>3. CASE RejectEpoch(p, k) \/ RejectOld(p, k) \/ FailTrial(p, k)
    BY <2>u, <2>3 DEF RejectEpoch, RejectOld, FailTrial, TypeOK
  <2>4. CASE FailOpen(p, k)
    BY <2>u, <2>4, <2>2 DEF FailOpen, TypeOK
  <2>5. CASE AcceptPrevious(p, k)
    BY <2>u, <2>5, <2>2 DEF AcceptPrevious, TypeOK
  <2>6. CASE AcceptCurrent(p, k) \/ Follow(p, k)
    BY <2>u, <2>6, AcceptCurrentType, FollowType DEF TypeOK
  <2> QED
    BY <1>4, <2>3, <2>4, <2>5, <2>6 DEF Deliver, Receive
<1>5. ASSUME NEW p \in Peers, NEW k \in net[p], Damage(p, k) PROVE TypeOK'
  <2>1. PICK epoch \in WireEpochs, counter \in Counters, ack \in BOOLEAN :
           net' = [net EXCEPT ![p] = @ \cup
             {[ad |-> Garbled(k.ad, epoch, counter, ack), key |-> k.key, noisy |-> TRUE]}]
    BY <1>5 DEF Damage
  <2>2. k \in Packets
    BY DEF TypeOK
  <2>3. Garbled(k.ad, epoch, counter, ack) \in Headers
    BY <2>2 DEF Garbled, Headers, Packets
  <2>4. [ad |-> Garbled(k.ad, epoch, counter, ack), key |-> k.key, noisy |-> TRUE]
           \in Packets
    BY <2>2, <2>3 DEF Packets
  <2>5. damaged' \in 0 .. MaxDamaged
    BY <1>5, MeshAssumption DEF Damage, TypeOK
  <2> QED
    BY <1>5, <2>1, <2>4, <2>5 DEF Damage, TypeOK
<1> QED
  BY <1>1, <1>2, <1>3, <1>4, <1>5 DEF Next

\* Every reachable state is well typed: no counter leaves sixteen bits, no
\* node enters the reserved epoch, whatever is lost, repeated or damaged.
THEOREM TypeInvariant == Spec => []TypeOK
BY InitType, NextType, PTL DEF Spec

-----------------------------------------------------------------------------
(* Two peers.  The lemmas are about two PeerStates s and r, sidecars f and *)
(* g and packets N and M: s, f and N at one end of the link, r, g and M at *)
(* the other.  MeshCryptoSafetyProofs applies them to the variables.       *)

PairOK(s, r, f, g, N, M) ==
    /\ s.peer_id \in Peers /\ r.peer_id = Other(s.peer_id)
    /\ Linked(s, r)
    /\ EndOK(s, r, f, N)
    /\ EndOK(r, s, g, M)

\* t is s with more flags: what a receive handler does to a PeerState when it
\* does not ratchet.
Grown(t, s) ==
    /\ t.peer_id = s.peer_id
    /\ t.RK = s.RK
    /\ t.CKr_prev = s.CKr_prev
    /\ t.ephemeral_current = s.ephemeral_current
    /\ t.ephemeral_candidate = s.ephemeral_candidate
    /\ t.epoch = s.epoch
    /\ t.remote_hint = s.remote_hint
    /\ s.ratchet_flags \subseteq t.ratchet_flags
    /\ READY \in s.ratchet_flags =>
          t.remote_candidate_pending = s.remote_candidate_pending

LEMMA PairSymmetric ==
    ASSUME NEW s, NEW r, NEW f, NEW g, NEW N, NEW M, PairOK(s, r, f, g, N, M)
    PROVE  PairOK(r, s, g, f, M, N)
BY DEF PairOK, Linked, SameStep, Other, Peers

\* A packet that is gone from the air is missed by nobody.
LEMMA PairShrinks ==
    ASSUME NEW s, NEW r, NEW f, NEW g, NEW N, NEW M, PairOK(s, r, f, g, N, M),
           NEW K \in SUBSET N, NEW L \in SUBSET M
    PROVE  PairOK(s, r, f, g, K, L)
BY DEF PairOK, EndOK

LEMMA GrownLinks ==
    ASSUME NEW s, NEW r, NEW t, Grown(t, s)
    PROVE  /\ SameStep(s, r) => SameStep(t, r)
           /\ SameStep(r, s) => SameStep(r, t)
           /\ OneAhead(s, r) => OneAhead(t, r)
           /\ OneAhead(r, s) => OneAhead(r, t)
           /\ Linked(s, r) => Linked(t, r)
BY DEF Grown, SameStep, OneAhead, Linked, ratchet_build_ikm

\* When s grows, the other end notices nothing.
LEMMA GrowStep ==
    ASSUME NEW s, NEW r, NEW f, NEW g, NEW N, NEW M, PairOK(s, r, f, g, N, M),
           NEW t, NEW h, Grown(t, s),
           WellFormed(t), Knows(t, r), Collects(h, t, r)
    PROVE  PairOK(t, r, h, g, N, M)
<1>1. Linked(t, r)
  BY GrownLinks DEF PairOK
<1>2. SavedKey(t)
  BY DEF PairOK, EndOK, SavedKey, Grown
<1>3. Knows(r, t)
  BY GrownLinks DEF PairOK, EndOK, Knows, Grown
<1>4. Collects(g, r, t)
  BY GrownLinks DEF PairOK, EndOK, Collects, Grown
<1>5. ASSUME NEW k \in N PROVE Sealed(k, t, r)
  BY <1>5 DEF PairOK, EndOK, Sealed, Grown
<1>6. ASSUME NEW k \in M PROVE Sealed(k, r, t)
  BY <1>6 DEF PairOK, EndOK, Sealed, Grown
<1> QED
  BY <1>1, <1>2, <1>3, <1>4, <1>5, <1>6 DEF PairOK, EndOK, Grown

\* Both ends derive the same key material from each other's candidates.
LEMMA IkmAgrees ==
    ASSUME NEW s, NEW r, s.peer_id \in Peers, r.peer_id = Other(s.peer_id),
           s.remote_candidate_pending = r.ephemeral_candidate,
           r.remote_candidate_pending = s.ephemeral_candidate
    PROVE  ratchet_build_ikm(s) = ratchet_build_ikm(r)
<1>1. Other(r.peer_id) = s.peer_id
  BY DEF Peers, Other
<1> QED
  BY <1>1 DEF ratchet_build_ikm, key_exchange

\* A ratchet step of s takes it one step ahead of r, or back in step with it.
LEMMA RatchetStep ==
    ASSUME NEW s \in PeerStates, NEW r \in PeerStates, NEW f, NEW g,
           NEW N \in SUBSET Packets, NEW M \in SUBSET Packets,
           PairOK(s, r, f, g, N, M),
           NEW hint \in FreshHints(s),
           READY \in s.ratchet_flags,
           OneAhead(r, s) \/ (SameStep(s, r) /\ READY \in r.ratchet_flags)
    PROVE  PairOK(Ratcheted(s, hint), r, fec_rx_clear, g, N, M)
<1> DEFINE t == Ratcheted(s, hint)
<1>t. /\ t \in PeerStates
      /\ t.peer_id = s.peer_id
      /\ t.CKr_prev = chain_key(s.RK)
      /\ t.RK = kdf_rk(s.RK, ratchet_build_ikm(s))
      /\ t.ephemeral_current = s.ephemeral_candidate
      /\ t.remote_hint = compute_hint(s.remote_candidate_pending)
      /\ t.ephemeral_candidate =
            PublicKey(s.peer_id, s.ephemeral_candidate.serial + 1, hint)
      /\ t.epoch = epoch_next(s.epoch)
      /\ t.remote_candidate_pending = ZeroKey
      /\ t.ratchet_flags = s.ratchet_flags \ {READY, ACK, SAW}
  BY RatchetedType
     DEF Ratcheted, SavedChainKey, ClearedFlags, generate_ephemeral_candidate
<1> HIDE DEF t
<1>n. /\ s.ephemeral_current.serial \in Nat
      /\ r.ephemeral_current.serial \in Nat
      /\ s.ephemeral_candidate.serial = s.ephemeral_current.serial + 1
      /\ s.ephemeral_candidate.owner = s.peer_id
      /\ t.ephemeral_current.serial = s.ephemeral_current.serial + 1
  BY <1>t DEF PairOK, EndOK, WellFormed, PublicKey, PeerStates, Keys
<1>f. {READY, ACK, SAW} \cap t.ratchet_flags = {}
  BY <1>t
<1>1. WellFormed(t)
  <2>1. t.ephemeral_current.owner = t.peer_id
    BY <1>t, <1>n
  <2>2. /\ t.ephemeral_candidate =
              PublicKey(t.peer_id, t.ephemeral_current.serial + 1,
                        t.ephemeral_candidate.hint)
        /\ compute_hint(t.ephemeral_candidate) # compute_hint(t.ephemeral_current)
    BY <1>t DEF PublicKey, FreshHints, compute_hint
  <2>3. Len(t.RK) = t.ephemeral_current.serial
    BY <1>t, <1>n, KeyMaterialType DEF PairOK, EndOK, WellFormed
  <2>4. t.epoch # EPOCH_BOOTSTRAP /\ t.ephemeral_current.serial # 0
    BY <1>t, <1>n, EpochRing DEF PeerStates
  <2> QED
    BY <2>1, <2>2, <2>3, <2>4, <1>t, <1>f DEF WellFormed
<1>2. SavedKey(t)
  <2>1. t.ephemeral_current.serial # 0
    BY <1>n
  <2>2. Len(s.RK) = s.ephemeral_current.serial /\ chain_key(s.RK).rk = s.RK
    BY DEF PairOK, EndOK, WellFormed, chain_key
  <2> QED
    BY <1>t, <1>n, <2>1, <2>2 DEF SavedKey
<1>3. OneAhead(r, s) => SameStep(t, r)
  BY <1>t, <1>n DEF OneAhead, SameStep
<1>4. SameStep(s, r) /\ READY \in r.ratchet_flags => OneAhead(t, r)
  <2> SUFFICES ASSUME SameStep(s, r), READY \in r.ratchet_flags PROVE OneAhead(t, r)
    OBVIOUS
  <2>1. ~OneAhead(r, s) /\ ~OneAhead(s, r)
    BY <1>n DEF SameStep, OneAhead
  <2>2. /\ s.remote_candidate_pending = r.ephemeral_candidate
        /\ r.remote_candidate_pending = s.ephemeral_candidate
    BY <2>1 DEF PairOK, EndOK, Knows
  <2>3. ratchet_build_ikm(s) = ratchet_build_ikm(r)
    BY <2>2, IkmAgrees DEF PairOK
  <2> QED
    BY <1>t, <1>n, <2>2, <2>3 DEF SameStep, OneAhead
<1>5. Linked(t, r)
  BY <1>3, <1>4 DEF Linked
<1>6. Knows(t, r)
  BY <1>f DEF Knows
<1>7. OneAhead(r, s) => /\ READY \notin r.ratchet_flags
                        /\ SAW \notin r.ratchet_flags
                        /\ g.equations = {}
  BY <1>n DEF OneAhead, SameStep, PairOK, EndOK, Knows, Collects
<1>8. Knows(r, t)
  BY <1>4, <1>7 DEF Knows
<1>9. Collects(fec_rx_clear, t, r) /\ Collects(g, r, t)
  BY <1>7 DEF Collects, fec_rx_clear, PairOK, EndOK
<1>10. ASSUME NEW k \in N PROVE Sealed(k, t, r)
  <2> DEFINE rk == k.key.ck.rk
  <2>1. Len(rk) \in Nat
    BY DEF Packets, ChainKeys
  <2>2. Sealed(k, s, r)
    BY DEF PairOK, EndOK
  <2> HIDE DEF rk
  <2>3. Len(rk) = t.ephemeral_current.serial => rk = t.RK
    BY <1>3, <1>n, <2>1, <2>2 DEF Sealed, SameStep, rk
  <2>4. Len(rk) + 1 = t.ephemeral_current.serial => k.key.ck = t.CKr_prev
    BY <1>t, <1>n, <2>1, <2>2 DEF Sealed, rk
  <2> QED
    BY <2>2, <2>3, <2>4 DEF Sealed, rk
<1>11. ASSUME NEW k \in M PROVE Sealed(k, r, t)
  <2> DEFINE rk == k.key.ck.rk
  <2>1. Len(rk) \in Nat
    BY DEF Packets, ChainKeys
  <2>2. Sealed(k, r, s)
    BY DEF PairOK, EndOK
  <2> HIDE DEF rk
  <2>3. Len(rk) < t.ephemeral_current.serial
    BY <1>n, <2>1, <2>2 DEF Sealed, rk
  <2> QED
    BY <2>1, <2>2, <2>3, <1>n DEF Sealed, rk
<1> QED
  BY <1>t, <1>1, <1>2, <1>5, <1>6, <1>8, <1>9, <1>10, <1>11 DEF PairOK, EndOK, t

\* What s sends belongs to the present of s and, one step ahead or not, to a
\* key that r has or can derive.
LEMMA SendStep ==
    ASSUME NEW s \in PeerStates, NEW r \in PeerStates, NEW f, NEW g, NEW N, NEW M,
           PairOK(s, r, f, g, N, M)
    PROVE  PairOK(s, r, f, g, N, M \cup {Packet(s)})
<1> DEFINE k == Packet(s)
<1>k. /\ k.key.ck = chain_key(s.RK)
      /\ k.key.ck.rk = s.RK
      /\ k.ad = Header(s) /\ k.key.ad = OnAir(Header(s))
      /\ ~k.noisy
  BY DEF Packet, packet_key, chain_key
<1>h. /\ Header(s).epoch = s.epoch
      /\ Header(s).hint = compute_hint(s.ephemeral_candidate)
      /\ Header(s).symbol =
            fec_encode_symbol(s.ephemeral_candidate,
                fec_equation_coeffs(Header(s).hint, Header(s).epoch, Header(s).counter))
      /\ Header(s).ack => READY \in s.ratchet_flags
  BY DEF Header, PairOK, EndOK, WellFormed
<1>a. /\ OnAir(Header(s)).epoch = Header(s).epoch
      /\ OnAir(Header(s)).counter = Header(s).counter
      /\ OnAir(Header(s)).hint = Header(s).hint
      /\ OnAir(Header(s)).ack = Header(s).ack
  BY DEF OnAir, Header
<1>n. /\ Len(s.RK) = s.ephemeral_current.serial
      /\ Len(r.RK) = r.ephemeral_current.serial
      /\ s.ephemeral_current.serial \in Nat
      /\ r.ephemeral_current.serial \in Nat
  BY DEF PairOK, EndOK, WellFormed, PeerStates, Keys
<1> HIDE DEF k
<1>1. Len(s.RK) = r.ephemeral_current.serial => s.RK = r.RK
  BY <1>n DEF PairOK, Linked, SameStep, OneAhead
<1>2. Len(s.RK) + 1 = r.ephemeral_current.serial => chain_key(s.RK) = r.CKr_prev
  BY <1>n DEF PairOK, Linked, SameStep, OneAhead
<1>3. Sealed(k, r, s)
  BY <1>k, <1>h, <1>a, <1>n, <1>1, <1>2 DEF Sealed
<1> QED
  BY <1>3 DEF PairOK, EndOK, k

\* Counting a packet, or noting its counter, changes nothing that is shared.
CountersAside(t, s) ==
    /\ t.peer_id = s.peer_id
    /\ t.RK = s.RK
    /\ t.CKr_prev = s.CKr_prev
    /\ t.ephemeral_current = s.ephemeral_current
    /\ t.ephemeral_candidate = s.ephemeral_candidate
    /\ t.epoch = s.epoch
    /\ t.remote_hint = s.remote_hint
    /\ t.ratchet_flags = s.ratchet_flags
    /\ t.remote_candidate_pending = s.remote_candidate_pending

LEMMA CountStep ==
    ASSUME NEW s, NEW r, NEW f, NEW g, NEW N, NEW M, PairOK(s, r, f, g, N, M),
           NEW t, CountersAside(t, s)
    PROVE  PairOK(t, r, f, g, N, M)
<1>1. Grown(t, s)
  BY DEF Grown, CountersAside
<1>2. WellFormed(t)
  BY DEF PairOK, EndOK, WellFormed, CountersAside
<1>3. Knows(t, r) /\ Collects(f, t, r)
  BY <1>1, GrownLinks DEF PairOK, EndOK, Knows, Collects, CountersAside
<1> QED
  BY <1>1, <1>2, <1>3, GrowStep

LEMMA CounterNotedAside ==
    ASSUME NEW s \in PeerStates, NEW ad
    PROVE  CountersAside(CounterNoted(s, ad), s)
BY DEF CounterNoted, CountersAside, PeerStates

LEMMA SendCounterAside ==
    ASSUME NEW s \in PeerStates, NEW c
    PROVE  CountersAside([s EXCEPT !.send_counter = c], s)
BY DEF CountersAside, PeerStates

\* Noise shows in the bytes of the header.
LEMMA GarbledShows ==
    ASSUME NEW ad \in Headers, NEW epoch, NEW counter, NEW ack,
           Garbled(ad, epoch, counter, ack) # ad
    PROVE  OnAir(Garbled(ad, epoch, counter, ack)) # OnAir(ad)
<1> DEFINE d == Garbled(ad, epoch, counter, ack)
<1>1. /\ d.ack = ack /\ d.epoch = epoch /\ d.counter = counter
      /\ OnAir(d).ack = ack /\ OnAir(d).epoch = epoch /\ OnAir(d).counter = counter
  BY DEF Garbled, OnAir
<1>2. /\ OnAir(ad).ack = ad.ack
      /\ OnAir(ad).epoch = ad.epoch
      /\ OnAir(ad).counter = ad.counter
  BY DEF OnAir, Headers
<1>3. ~(ad.ack = ack /\ ad.epoch = epoch /\ ad.counter = counter)
  BY DEF Garbled, Headers
<1> QED
  BY <1>1, <1>2, <1>3

\* A damaged header is not the one the packet was sealed over.
LEMMA DamageStep ==
    ASSUME NEW s, NEW r, NEW f, NEW g, NEW N, NEW M, PairOK(s, r, f, g, N, M),
           NEW k \in N, ~k.noisy,
           NEW ad, OnAir(ad) # OnAir(k.ad), ad.symbol = k.ad.symbol
    PROVE  PairOK(s, r, f, g, N \cup {[ad |-> ad, key |-> k.key, noisy |-> TRUE]}, M)
<1> DEFINE d == [ad |-> ad, key |-> k.key, noisy |-> TRUE]
<1>1. d.ad = ad /\ d.key = k.key /\ d.noisy
  OBVIOUS
<1> HIDE DEF d
<1>2. Sealed(d, s, r)
  BY <1>1 DEF PairOK, EndOK, Sealed
<1> QED
  BY <1>2 DEF PairOK, EndOK, d

\* A packet that opens under the root key of s was sealed by r in the step s
\* has taken last; r may have moved since.
LEMMA OpenedFacts ==
    ASSUME NEW s \in PeerStates, NEW r \in PeerStates, NEW f, NEW g, NEW N, NEW M,
           PairOK(s, r, f, g, N, M),
           NEW k \in N, k.ad \in Headers, Opens(k, chain_key(s.RK))
    PROVE  /\ OnAir(k.ad) = k.key.ad
           /\ OneAhead(r, s) \/
              /\ SameStep(s, r)
              /\ k.ad.hint = compute_hint(r.ephemeral_candidate)
              /\ k.ad.symbol =
                    fec_encode_symbol(r.ephemeral_candidate,
                        fec_equation_coeffs(k.ad.hint, k.ad.epoch, k.ad.counter))
              /\ k.ad.ack => READY \in r.ratchet_flags
<1>1. k.key.ck.rk = s.RK /\ OnAir(k.ad) = k.key.ad
  BY DEF Opens, packet_key, chain_key
<1>h. /\ k.key.ad.hint = k.ad.hint /\ k.key.ad.epoch = k.ad.epoch
      /\ k.key.ad.counter = k.ad.counter /\ k.key.ad.ack = k.ad.ack
  BY <1>1 DEF OnAir, Headers
<1>2. /\ Len(s.RK) = s.ephemeral_current.serial
      /\ s.ephemeral_current.serial \in Nat
      /\ r.ephemeral_current.serial \in Nat
  BY DEF PairOK, EndOK, WellFormed, PeerStates, Keys
<1>3. Sealed(k, s, r)
  BY DEF PairOK, EndOK
<1>4. ~OneAhead(s, r)
  BY <1>1, <1>2, <1>3 DEF Sealed, OneAhead
<1>5. CASE OneAhead(r, s)
  BY <1>1, <1>5
<1>6. CASE SameStep(s, r)
  <2>1. Len(k.key.ck.rk) = r.ephemeral_current.serial
    BY <1>1, <1>2, <1>6 DEF SameStep
  <2> QED
    BY <1>1, <1>h, <1>3, <1>6, <2>1 DEF Sealed
<1> QED
  BY <1>4, <1>5, <1>6 DEF PairOK, Linked

LEMMA AckStep ==
    ASSUME NEW s \in PeerStates, NEW r \in PeerStates, NEW f, NEW g,
           NEW N \in SUBSET Packets, NEW M,
           PairOK(s, r, f, g, N, M),
           NEW k \in N, Opens(k, chain_key(s.RK))
    PROVE  PairOK(AckNoted(s, k.ad), r, f, g, N, M)
<1> DEFINE t == AckNoted(s, k.ad)
<1>1. CASE ~k.ad.ack
  BY <1>1 DEF AckNoted
<1>2. CASE k.ad.ack
  <2>1. t = [s EXCEPT !.ratchet_flags = s.ratchet_flags \cup {SAW}]
    BY <1>2 DEF AckNoted
  <2>2. /\ Grown(t, s)
        /\ t.ratchet_flags = s.ratchet_flags \cup {SAW}
        /\ t.remote_candidate_pending = s.remote_candidate_pending
    BY <2>1 DEF Grown, PeerStates
  <2>3. READY # SAW /\ ACK # SAW
    BY DEF READY, ACK, SAW
  <2> HIDE DEF t
  <2>4. WellFormed(t)
    BY <2>2, <2>3 DEF PairOK, EndOK, WellFormed, Grown
  <2>5. OneAhead(r, s) \/ (SameStep(s, r) /\ READY \in r.ratchet_flags)
    <3>1. k.ad \in Headers
      BY DEF Packets
    <3> QED
      BY <1>2, <3>1, OpenedFacts
  <2>6. Knows(t, r)
    BY <2>2, <2>3, <2>5, GrownLinks DEF PairOK, EndOK, Knows
  <2>7. Collects(f, t, r)
    BY <2>2, <2>3, GrownLinks DEF PairOK, EndOK, Collects, Grown
  <2>8. PairOK(t, r, f, g, N, M)
    BY <2>2, <2>4, <2>6, <2>7, GrowStep
  <2> QED
    BY <2>8 DEF t
<1> QED
  BY <1>1, <1>2

\* A symbol of candidate c joins a round that c explains.
LEMMA SymbolStep ==
    ASSUME NEW f \in FecRxStates, NEW ad \in Headers, NEW c,
           ad.hint = compute_hint(c),
           ad.symbol = fec_encode_symbol(c, fec_equation_coeffs(ad.hint, ad.epoch, ad.counter)),
           f.equations # {} => /\ f.active
                               /\ f.hint = compute_hint(c)
                               /\ f.epoch = ad.epoch
                               /\ Explains(f, c)
    PROVE  LET h == SymbolAdded(f, ad)
           IN  /\ h.active
               /\ h.hint = compute_hint(c)
               /\ h.epoch = ad.epoch
               /\ Explains(h, c)
<1> DEFINE q == fec_rx_ensure_round(f, ad.hint, ad.epoch)
           e == [counter |-> ad.counter, symbol |-> ad.symbol]
           h == SymbolAdded(f, ad)
           u == [q EXCEPT !.equations = @ \cup {e}]
<1>1. /\ q \in FecRxStates
      /\ q.active /\ q.hint = compute_hint(c) /\ q.epoch = ad.epoch
      /\ Explains(q, c)
  BY DEF fec_rx_ensure_round, FecRxStates, Headers, Explains
<1>2. e.counter = ad.counter /\ e.symbol = ad.symbol
  OBVIOUS
<1>3. h = q \/ h = u
  BY DEF SymbolAdded, fec_rx_add_symbol
<1> HIDE DEF q, e
<1>4. /\ u.active = q.active /\ u.hint = q.hint /\ u.epoch = q.epoch
      /\ u.equations = q.equations \cup {e}
  BY <1>1 DEF FecRxStates
<1> HIDE DEF u, h
<1>5. Explains(u, c)
  BY <1>1, <1>2, <1>4 DEF Explains
<1> QED
  BY <1>1, <1>3, <1>4, <1>5 DEF h

\* A round that c explains decodes to c.
LEMMA DecodeStep ==
    ASSUME NEW h, NEW c, h.active, Explains(h, c), fec_rx_can_decode(h)
    PROVE  fec_rx_decoded(h, GarbledKey) = c
<1> DEFINE sources == {e.symbol.of : e \in h.equations}
<1>1. h.equations # {}
  BY FS_EmptySet, FecAssumption DEF fec_rx_can_decode, fec_rx_eq_count
<1>2. ASSUME NEW e \in h.equations PROVE e.symbol.of = c
  <2>1. e.symbol =
           [of |-> c, row |-> fec_equation_coeffs(h.hint, h.epoch, e.counter)]
    BY DEF Explains, fec_encode_symbol
  <2> QED
    BY <2>1
<1>3. sources = {c}
  BY <1>1, <1>2
<1> QED
  BY <1>3 DEF fec_rx_decoded

\* h is a round of the candidate c.
RoundOf(h, c, epoch) ==
    h.active /\ h.hint = compute_hint(c) /\ h.epoch = epoch /\ Explains(h, c)

\* t is s once it has decoded c.
Learned(t, s, c) ==
    t = [s EXCEPT !.remote_candidate_pending = c,
                  !.ratchet_flags = s.ratchet_flags \cup {READY, ACK}]

\* A symbol of the current epoch joins the round of r's candidate, and is decoded
\* to it.
LEMMA SymbolJoins ==
    ASSUME NEW s \in PeerStates, NEW r \in PeerStates, NEW f \in FecRxStates, NEW g,
           NEW N \in SUBSET Packets, NEW M,
           PairOK(s, r, f, g, N, M), READY \notin s.ratchet_flags,
           NEW k \in N, Opens(k, chain_key(s.RK)), k.ad.epoch = s.epoch
    PROVE  /\ SameStep(s, r)
           /\ f.equations # {} => f.active /\ f.hint = k.ad.hint /\ f.epoch = k.ad.epoch
           /\ SymbolAdded(f, k.ad) \in FecRxStates
           /\ RoundOf(SymbolAdded(f, k.ad), r.ephemeral_candidate, s.epoch)
           /\ fec_rx_can_decode(SymbolAdded(f, k.ad)) =>
                 Learned(CandidateLearned(s, SymbolAdded(f, k.ad)), s, r.ephemeral_candidate)
<1> DEFINE h == SymbolAdded(f, k.ad)
           c == r.ephemeral_candidate
<1>1. /\ SameStep(s, r)
      /\ k.ad.hint = compute_hint(c)
      /\ k.ad.symbol = fec_encode_symbol(c, fec_equation_coeffs(k.ad.hint, k.ad.epoch, k.ad.counter))
  <2>1. k.ad \in Headers
    BY DEF Packets
  <2> QED
    BY <2>1, OpenedFacts DEF OneAhead
<1>2. k.ad \in Headers
  BY DEF Packets
<1>3. f.equations # {} => /\ f.active
                          /\ f.hint = compute_hint(c)
                          /\ f.epoch = k.ad.epoch
                          /\ Explains(f, c)
  BY DEF PairOK, EndOK, Collects
<1>4. h.active /\ h.hint = compute_hint(c) /\ h.epoch = s.epoch /\ Explains(h, c)
  <2> HIDE DEF c
  <2> QED
    BY <1>1, <1>2, <1>3, SymbolStep
<1>5. h \in FecRxStates
  BY <1>2, SymbolAddedType
<1>6. compute_hint(c) # s.remote_hint
  BY <1>1 DEF SameStep, PairOK, EndOK, WellFormed
<1> HIDE DEF h
<1>7. ASSUME fec_rx_can_decode(h) PROVE Learned(CandidateLearned(s, h), s, c)
  <2>1. fec_rx_decoded(h, GarbledKey) = c
    BY <1>4, <1>7, DecodeStep
  <2> QED
    BY <1>6, <1>7, <2>1 DEF CandidateLearned, Learned
<1> QED
  BY <1>1, <1>3, <1>4, <1>5, <1>7 DEF RoundOf, h

\* Collecting a symbol of the current epoch keeps the pair in order.
LEMMA CollectStep ==
    ASSUME NEW s \in PeerStates, NEW r \in PeerStates, NEW f \in FecRxStates, NEW g,
           NEW N \in SUBSET Packets, NEW M,
           PairOK(s, r, f, g, N, M), READY \notin s.ratchet_flags,
           NEW k \in N, Opens(k, chain_key(s.RK)), k.ad.epoch = s.epoch
    PROVE  PairOK(CandidateLearned(s, SymbolAdded(f, k.ad)), r,
                  RoundClosed(SymbolAdded(f, k.ad)), g, N, M)
<1> DEFINE h == SymbolAdded(f, k.ad)
           c == r.ephemeral_candidate
           t == CandidateLearned(s, h)
<1>1. /\ SameStep(s, r)
      /\ h \in FecRxStates
      /\ RoundOf(h, c, s.epoch)
      /\ fec_rx_can_decode(h) => Learned(t, s, c)
  BY SymbolJoins
<1> HIDE DEF h
<1>2. CASE ~fec_rx_can_decode(h)
  <2>1. t = s /\ RoundClosed(h) = h
    BY <1>2 DEF CandidateLearned, RoundClosed
  <2>2. Collects(h, s, r)
    BY <1>1 DEF Collects, RoundOf
  <2>3. Grown(s, s) /\ WellFormed(s) /\ Knows(s, r)
    BY DEF Grown, PairOK, EndOK
  <2> QED
    BY <2>1, <2>2, <2>3, GrowStep DEF h
<1>3. CASE fec_rx_can_decode(h)
  <2>1. t = [s EXCEPT !.remote_candidate_pending = c,
                      !.ratchet_flags = s.ratchet_flags \cup {READY, ACK}]
    BY <1>1, <1>3 DEF Learned
  <2>2. /\ Grown(t, s)
        /\ t.ratchet_flags = s.ratchet_flags \cup {READY, ACK}
        /\ t.remote_candidate_pending = c
    BY <2>1 DEF Grown, PeerStates
  <2>3. READY # SAW /\ ACK # SAW
    BY DEF READY, ACK, SAW
  <2> HIDE DEF t
  <2>4. WellFormed(t)
    BY <2>2 DEF PairOK, EndOK, WellFormed, Grown
  <2>5. Knows(t, r)
    BY <1>1, <2>2, <2>3, GrownLinks DEF PairOK, EndOK, Knows
  <2>6. RoundClosed(h) = fec_rx_clear /\ Collects(fec_rx_clear, t, r)
    BY <1>3 DEF RoundClosed, Collects, fec_rx_clear
  <2>7. PairOK(t, r, fec_rx_clear, g, N, M)
    BY <2>2, <2>4, <2>5, <2>6, GrowStep
  <2> QED
    BY <2>6, <2>7 DEF t, h
<1> QED
  BY <1>2, <1>3

-----------------------------------------------------------------------------
(* How a step moves the counters *)

\* t has the counters of s.
SameCounters(t, s) ==
    /\ t.peer_id = s.peer_id
    /\ t.ephemeral_current = s.ephemeral_current
    /\ t.send_counter = s.send_counter
    /\ t.recv_counter_curr = s.recv_counter_curr
    /\ t.recv_counter_prev = s.recv_counter_prev

\* t is s in the same generation, its receive counters where they were or ahead.
Stays(t, s) ==
    /\ t.peer_id = s.peer_id
    /\ t.ephemeral_current = s.ephemeral_current
    /\ t.recv_counter_curr >= s.recv_counter_curr
    /\ t.recv_counter_prev >= s.recv_counter_prev

\* t is s after it has received, and perhaps noted, a packet of the epoch it
\* is in or of the one before.
Receives(t, s) == Stays(t, s) /\ t.send_counter = s.send_counter

\* t is s one ratchet step on.
StepsOn(t, s) ==
    /\ t.peer_id = s.peer_id
    /\ t.ephemeral_current.serial = s.ephemeral_current.serial + 1
    /\ t.recv_counter_prev = s.recv_counter_curr

LEMMA CounterNotedMoves ==
    ASSUME NEW s \in PeerStates, NEW ad \in Headers
    PROVE  /\ Receives(CounterNoted(s, ad), s)
           /\ ad.epoch = s.epoch =>
                 /\ CounterNoted(s, ad).recv_counter_curr >= ad.counter
                 /\ CounterNoted(s, ad).recv_counter_curr \in {s.recv_counter_curr, ad.counter}
           /\ ad.epoch = s.epoch =>
                 CounterNoted(s, ad).recv_counter_prev = s.recv_counter_prev
           /\ ad.epoch # s.epoch => CounterNoted(s, ad).recv_counter_prev >= ad.counter
<1>1. /\ ad.counter \in Int
      /\ s.recv_counter_curr \in Int /\ s.recv_counter_prev \in Int
  BY MeshAssumption DEF PeerStates, Headers, Counters
<1>2. /\ Later(s.recv_counter_curr, ad.counter) >= s.recv_counter_curr
      /\ Later(s.recv_counter_curr, ad.counter) >= ad.counter
      /\ Later(s.recv_counter_curr, ad.counter) \in {s.recv_counter_curr, ad.counter}
      /\ Later(s.recv_counter_prev, ad.counter) >= s.recv_counter_prev
      /\ Later(s.recv_counter_prev, ad.counter) >= ad.counter
  BY <1>1 DEF Later
<1> HIDE DEF Later
<1> QED
  BY <1>1, <1>2 DEF CounterNoted, Stays, Receives, PeerStates

\* Confirmations and learned candidates leave the counters alone.
LEMMA AckKeepsCounters ==
    ASSUME NEW s \in PeerStates, NEW ad
    PROVE  SameCounters(AckNoted(s, ad), s)
BY DEF AckNoted, SameCounters, PeerStates

LEMMA LearnedKeepsCounters ==
    ASSUME NEW s \in PeerStates, NEW f
    PROVE  SameCounters(CandidateLearned(s, f), s)
BY DEF CandidateLearned, SameCounters, PeerStates

\* A ratchet step clears the counter of the epoch and keeps what it was.
LEMMA RatchetedMoves ==
    ASSUME NEW s \in PeerStates, NEW hint, WellFormed(s)
    PROVE  StepsOn(Ratcheted(s, hint), s) /\ Ratcheted(s, hint).recv_counter_curr = 0
BY DEF Ratcheted, KeptCounter, StepsOn, WellFormed, PublicKey, PeerStates, Keys

-----------------------------------------------------------------------------
(* From two PeerStates to the variables *)

LEMMA PairOfIInv ==
    ASSUME IInv, NEW p \in Peers
    PROVE  /\ Other(p) \in Peers /\ Other(p) # p /\ Other(Other(p)) = p
           /\ peer[p] \in PeerStates /\ peer[Other(p)] \in PeerStates
           /\ fec[p] \in FecRxStates
           /\ net[p] \in SUBSET Packets /\ net[Other(p)] \in SUBSET Packets
           /\ PairOK(peer[p], peer[Other(p)], fec[p], fec[Other(p)],
                     net[p], net[Other(p)])
<1>1. Other(p) \in Peers /\ Other(p) # p /\ Other(Other(p)) = p
  BY DEF Other, Peers
<1>2. Linked(peer[p], peer[Other(p)])
  BY DEF IInv, Linked, SameStep, Other, Peers
<1>3. peer[p].peer_id = p /\ peer[Other(p)].peer_id = Other(p)
  BY <1>1 DEF IInv
<1>4. /\ EndOK(peer[p], peer[Other(p)], fec[p], net[p])
      /\ EndOK(peer[Other(p)], peer[p], fec[Other(p)], net[Other(p)])
  BY <1>1 DEF IInv
<1>5. /\ peer[p] \in PeerStates /\ peer[Other(p)] \in PeerStates
      /\ fec[p] \in FecRxStates
      /\ net[p] \in SUBSET Packets /\ net[Other(p)] \in SUBSET Packets
  BY <1>1 DEF IInv, TypeOK
<1> QED
  BY <1>1, <1>2, <1>3, <1>4, <1>5 DEF PairOK

LEMMA IInvOfPair ==
    ASSUME TypeOK', NEW p \in Peers, peer'[p].peer_id = p,
           PairOK(peer'[p], peer'[Other(p)], fec'[p], fec'[Other(p)],
                  net'[p], net'[Other(p)])
    PROVE  IInv'
<1>1. \A q \in Peers : q = p \/ q = Other(p)
  BY DEF Other, Peers
<1>2. Other(Other(p)) = p
  BY DEF Other, Peers
<1>3. \A q \in Peers : peer'[q].peer_id = q
  BY <1>1 DEF PairOK
<1>4. \A q \in Peers : EndOK(peer'[q], peer'[Other(q)], fec'[q], net'[q])
  BY <1>1, <1>2 DEF PairOK
<1>5. Linked(peer'[0], peer'[1])
  BY DEF PairOK, Linked, SameStep, Other, Peers
<1> QED
  BY <1>3, <1>4, <1>5 DEF IInv

LEMMA InitIInv == Init => IInv
<1> SUFFICES ASSUME Init PROVE IInv
  OBVIOUS
<1>1. PICK hA, hB \in Hints \ {0} :
         peer = [p \in Peers |-> BootstrapState(p, IF p = 0 THEN hA ELSE hB)]
  BY DEF Init
<1>2. TypeOK
  BY InitType
<1> DEFINE hint(p) == IF p = 0 THEN hA ELSE hB
<1>3. ASSUME NEW p \in Peers
      PROVE  /\ peer[p].peer_id = p /\ peer[p].RK = <<>>
             /\ peer[p].CKr_prev = NoChainKey
             /\ peer[p].ephemeral_current = PublicKey(p, 0, 0)
             /\ peer[p].ephemeral_candidate = PublicKey(p, 1, hint(p))
             /\ peer[p].epoch = EPOCH_BOOTSTRAP /\ peer[p].remote_hint = 0
             /\ peer[p].remote_candidate_pending = ZeroKey
             /\ peer[p].ratchet_flags = {}
             /\ fec[p].equations = {} /\ net[p] = {}
             /\ hint(p) # 0
  <2>1. hint(p) # 0
    BY <1>1
  <2>2. peer[p] = BootstrapState(p, hint(p))
    BY <1>1
  <2>3. fec[p].equations = {} /\ net[p] = {}
    BY DEF Init, fec_rx_clear
  <2> HIDE DEF hint
  <2>4. /\ peer[p].peer_id = p /\ peer[p].RK = <<>>
        /\ peer[p].CKr_prev = NoChainKey
        /\ peer[p].epoch = EPOCH_BOOTSTRAP /\ peer[p].remote_hint = 0
        /\ peer[p].remote_candidate_pending = ZeroKey
        /\ peer[p].ratchet_flags = {}
    BY <2>2 DEF BootstrapState
  <2>5. /\ peer[p].ephemeral_current = PublicKey(p, 0, 0)
        /\ peer[p].ephemeral_candidate = PublicKey(p, 1, hint(p))
    BY <2>2 DEF BootstrapState, StaticKey
  <2> QED
    BY <2>1, <2>3, <2>4, <2>5
<1> HIDE DEF hint
<1>k. ASSUME NEW p \in Peers
      PROVE  /\ peer[p].ephemeral_current.serial = 0
             /\ compute_hint(peer[p].ephemeral_current) = 0
  <2>1. peer[p].ephemeral_current = [owner |-> p, serial |-> 0, hint |-> 0]
    BY <1>3 DEF PublicKey
  <2> QED
    BY <2>1 DEF compute_hint
<1>4. ASSUME NEW p \in Peers, NEW q \in Peers PROVE SameStep(peer[p], peer[q])
  BY <1>3, <1>k DEF SameStep
<1>5. ASSUME NEW p \in Peers PROVE WellFormed(peer[p])
  <2>1. /\ peer[p].ephemeral_current = [owner |-> p, serial |-> 0, hint |-> 0]
        /\ peer[p].ephemeral_candidate = [owner |-> p, serial |-> 1, hint |-> hint(p)]
    BY <1>3 DEF PublicKey
  <2>2. compute_hint(peer[p].ephemeral_candidate) # compute_hint(peer[p].ephemeral_current)
    BY <1>3, <2>1 DEF compute_hint
  <2>3. peer[p].ephemeral_candidate =
           PublicKey(p, peer[p].ephemeral_current.serial + 1,
                     peer[p].ephemeral_candidate.hint)
    BY <2>1 DEF PublicKey
  <2>4. Len(peer[p].RK) = 0
    BY <1>3
  <2> QED
    BY <1>3, <2>1, <2>2, <2>3, <2>4 DEF WellFormed
<1>6. ASSUME NEW p \in Peers PROVE EndOK(peer[p], peer[Other(p)], fec[p], net[p])
  <2>1. SavedKey(peer[p]) /\ Knows(peer[p], peer[Other(p)])
    BY <1>3, <1>k DEF SavedKey, Knows
  <2>2. Collects(fec[p], peer[p], peer[Other(p)])
    BY <1>3 DEF Collects
  <2> QED
    BY <1>3, <1>5, <2>1, <2>2 DEF EndOK
<1> QED
  BY <1>2, <1>3, <1>4, <1>6 DEF IInv, Linked, Peers

-----------------------------------------------------------------------------
(* One step lemma per handler *)

\* s transmits: the packet is on its way and counted.
LEMMA TransmitStep ==
    ASSUME IInv, TypeOK', NEW p \in Peers, NEW s \in PeerStates, s.peer_id = p,
           Transmit(p, s),
           PairOK(s, peer[Other(p)], fec'[p], fec[Other(p)], net[p], net[Other(p)]),
           fec'[Other(p)] = fec[Other(p)]
    PROVE  IInv'
<1> DEFINE t == [s EXCEPT !.send_counter = NextCounter(s.send_counter)]
           q == Other(p)
<1>1. q \in Peers /\ q # p /\ peer[q] \in PeerStates
  BY PairOfIInv
<1>2. /\ peer'[p] = t /\ peer'[q] = peer[q]
      /\ net'[p] = net[p] /\ net'[q] = net[q] \cup {Packet(s)}
  BY <1>1 DEF Transmit, IInv, TypeOK
<1>3. CountersAside(t, s)
  BY SendCounterAside
<1> HIDE DEF t, q
<1>4. PairOK(s, peer[q], fec'[p], fec[q], net[p], net[q] \cup {Packet(s)})
  BY <1>1, SendStep DEF q
<1>5. PairOK(t, peer[q], fec'[p], fec[q], net[p], net[q] \cup {Packet(s)})
  BY <1>3, <1>4, CountStep
<1>6. peer'[p].peer_id = p
  BY <1>2, <1>3 DEF CountersAside
<1>7. PairOK(peer'[p], peer'[q], fec'[p], fec'[q], net'[p], net'[q])
  BY <1>2, <1>5 DEF q
<1> QED
  BY <1>6, <1>7, IInvOfPair DEF q

\* The state of p is s and its sidecar f when the packet k is delivered; packets
\* may leave the air with it.
LEMMA DeliverStep ==
    ASSUME IInv, TypeOK', NEW p \in Peers, NEW s \in PeerStates, NEW f \in FecRxStates,
           NEW k \in net[p], s.peer_id = p,
           PairOK(s, peer[Other(p)], f, fec[Other(p)], net[p], net[Other(p)]),
           Opens(k, chain_key(s.RK)), k.ad.epoch = s.epoch,
           Collect(p, s, f, k.ad), \A x \in Peers : net'[x] \subseteq net[x]
    PROVE  IInv'
<1> DEFINE q == Other(p)
           h == SymbolAdded(f, k.ad)
           t == CandidateLearned(s, h)
<1>1. /\ q \in Peers /\ q # p /\ peer[q] \in PeerStates
      /\ net[p] \in SUBSET Packets
  BY PairOfIInv
<1>2. /\ peer'[q] = peer[q] /\ fec'[q] = fec[q]
      /\ net'[p] \in SUBSET net[p] /\ net'[q] \in SUBSET net[q]
  BY <1>1 DEF Collect, IInv, TypeOK
<1>3. CASE READY \in s.ratchet_flags
  <2>1. peer'[p] = s /\ fec'[p] = f
    BY <1>3 DEF Collect, IInv, TypeOK
  <2> HIDE DEF q
  <2>2. PairOK(s, peer[q], f, fec[q], net'[p], net'[q])
    BY <1>2, PairShrinks DEF q
  <2>3. PairOK(peer'[p], peer'[q], fec'[p], fec'[q], net'[p], net'[q])
    BY <1>2, <2>1, <2>2
  <2> QED
    BY <2>1, <2>3, IInvOfPair DEF q
<1>4. CASE READY \notin s.ratchet_flags
  <2>1. peer'[p] = t /\ fec'[p] = RoundClosed(h)
    BY <1>4 DEF Collect, IInv, TypeOK
  <2> HIDE DEF q
  <2>2. PairOK(t, peer[q], RoundClosed(h), fec[q], net[p], net[q])
    BY <1>1, <1>4, CollectStep DEF q
  <2> HIDE DEF h, t
  <2>3. PairOK(t, peer[q], RoundClosed(h), fec[q], net'[p], net'[q])
    BY <1>2, <2>2, PairShrinks
  <2>4. PairOK(peer'[p], peer'[q], fec'[p], fec'[q], net'[p], net'[q])
    BY <1>2, <2>1, <2>3
  <2>5. peer'[p].peer_id = p
    BY <2>1 DEF CandidateLearned, PeerStates, t
  <2> QED
    BY <2>4, <2>5, IInvOfPair DEF q
<1> QED
  BY <1>3, <1>4

LEMMA SendInEpochIInv ==
    ASSUME IInv, TypeOK', NEW p \in Peers, SendInEpoch(p)
    PROVE  IInv'
<1>1. peer[p] \in PeerStates /\ peer[p].peer_id = p
  BY DEF IInv, TypeOK
<1>2. Transmit(p, peer[p]) /\ fec' = fec
  BY DEF SendInEpoch
<1>3. PairOK(peer[p], peer[Other(p)], fec'[p], fec[Other(p)], net[p], net[Other(p)])
  BY <1>2, PairOfIInv
<1> QED
  BY <1>1, <1>2, <1>3, TransmitStep

\* Taking the lead resets the counter of the packets sent, nothing shared.
LEMMA FirstMoverAside ==
    ASSUME NEW s \in PeerStates, NEW hint \in FreshHints(s)
    PROVE  /\ ratchet_on_fec_decode(s, hint) \in PeerStates
           /\ CountersAside(ratchet_on_fec_decode(s, hint), Ratcheted(s, hint))
           /\ Ratcheted(s, hint).peer_id = s.peer_id
<1>1. Ratcheted(s, hint) \in PeerStates
  BY RatchetedType
<1>2. Ratcheted(s, hint).peer_id = s.peer_id
  BY DEF Ratcheted
<1> QED
  BY <1>1, <1>2, SendCounterAside, RatchetOnFecDecodeType DEF ratchet_on_fec_decode

LEMMA SendAsFirstMoverIInv ==
    ASSUME IInv, TypeOK', NEW p \in Peers, SendAsFirstMover(p)
    PROVE  IInv'
<1> DEFINE s == peer[p]
           q == Other(p)
<1>1. PICK hint \in FreshHints(s) : Transmit(p, ratchet_on_fec_decode(s, hint))
  BY DEF SendAsFirstMover
<1> DEFINE t == ratchet_on_fec_decode(s, hint)
<1>2. /\ q \in Peers /\ q # p /\ s \in PeerStates /\ peer[q] \in PeerStates
      /\ net[p] \in SUBSET Packets /\ net[q] \in SUBSET Packets
      /\ PairOK(s, peer[q], fec[p], fec[q], net[p], net[q])
  BY PairOfIInv
<1>3. fec'[p] = fec_rx_clear /\ fec'[q] = fec[q]
  BY <1>2 DEF SendAsFirstMover, IInv, TypeOK
<1>4. READY \in s.ratchet_flags /\ SAW \in s.ratchet_flags
  BY DEF SendAsFirstMover, MayLead
<1> HIDE DEF q
<1>5. OneAhead(peer[q], s) \/ (SameStep(s, peer[q]) /\ READY \in peer[q].ratchet_flags)
  BY <1>2, <1>4 DEF PairOK, EndOK, Knows
<1>6. PairOK(Ratcheted(s, hint), peer[q], fec_rx_clear, fec[q], net[p], net[q])
  BY <1>2, <1>4, <1>5, RatchetStep
<1>7. /\ t \in PeerStates /\ CountersAside(t, Ratcheted(s, hint))
      /\ t.peer_id = p
  BY <1>2, FirstMoverAside DEF CountersAside, IInv
<1> HIDE DEF t
<1>8. PairOK(t, peer[q], fec_rx_clear, fec[q], net[p], net[q])
  BY <1>6, <1>7, CountStep
<1>9. Transmit(p, t)
  BY <1>1 DEF t
<1> QED
  BY <1>3, <1>7, <1>8, <1>9, TransmitStep DEF q

\* FailOpen and AcceptPrevious note the counter and leave the rest alone.
LEMMA CounterOnlyIInv ==
    ASSUME IInv, TypeOK', NEW p \in Peers, NEW ad,
           peer' = [peer EXCEPT ![p] = CounterNoted(peer[p], ad)],
           UNCHANGED <<fec, net>>
    PROVE  IInv'
<1> DEFINE q == Other(p)
           t == CounterNoted(peer[p], ad)
<1>1. /\ q \in Peers /\ q # p /\ peer[p] \in PeerStates
      /\ PairOK(peer[p], peer[q], fec[p], fec[q], net[p], net[q])
  BY PairOfIInv
<1>2. CountersAside(t, peer[p])
  BY <1>1, CounterNotedAside
<1>3. peer'[p] = t /\ peer'[q] = peer[q]
  BY <1>1 DEF IInv, TypeOK
<1> HIDE DEF t, q
<1>4. PairOK(t, peer[q], fec[p], fec[q], net[p], net[q])
  BY <1>1, <1>2, CountStep
<1>5. t.peer_id = p
  BY <1>2 DEF CountersAside, IInv
<1>6. PairOK(peer'[p], peer'[q], fec'[p], fec'[q], net'[p], net'[q])
  BY <1>3, <1>4
<1> QED
  BY <1>3, <1>5, <1>6, IInvOfPair DEF q

\* The state in which a packet of the epoch is collected.
LEMMA AcceptCurrentState ==
    ASSUME IInv, NEW p \in Peers, NEW k \in net[p], AcceptCurrent(p, k)
    PROVE  \E u \in PeerStates :
              /\ u = AckNoted(CounterNoted(peer[p], k.ad), k.ad)
              /\ u.peer_id = p
              /\ Opens(k, chain_key(u.RK)) /\ k.ad.epoch = u.epoch
              /\ PairOK(u, peer[Other(p)], fec[p], fec[Other(p)], net[p], net[Other(p)])
              /\ Collect(p, u, fec[p], k.ad)
<1> DEFINE s == peer[p]
           t == CounterNoted(s, k.ad)
           u == AckNoted(t, k.ad)
           q == Other(p)
<1>1. /\ s \in PeerStates /\ peer[q] \in PeerStates /\ fec[p] \in FecRxStates
      /\ net[p] \in SUBSET Packets
      /\ PairOK(s, peer[q], fec[p], fec[q], net[p], net[q])
      /\ s.peer_id = p
  BY PairOfIInv DEF IInv
<1>2. k.ad \in Headers
  BY <1>1 DEF Packets
<1>3. Opens(k, chain_key(s.RK)) /\ k.ad.epoch = s.epoch
  BY DEF AcceptCurrent, InCurrent
<1>4. t \in PeerStates /\ CountersAside(t, s)
  BY <1>1, <1>2, CounterNotedType, CounterNotedAside
<1>5. Collect(p, u, fec[p], k.ad)
  BY DEF AcceptCurrent
<1> HIDE DEF t, q
<1>6. PairOK(t, peer[q], fec[p], fec[q], net[p], net[q])
  BY <1>1, <1>4, CountStep
<1>7. Opens(k, chain_key(t.RK)) /\ k.ad.epoch = t.epoch /\ t.peer_id = p
  BY <1>1, <1>3, <1>4 DEF CountersAside
<1>8. PairOK(u, peer[q], fec[p], fec[q], net[p], net[q])
  BY <1>1, <1>4, <1>6, <1>7, AckStep
<1>9. u \in PeerStates
  BY <1>2, <1>4, AckNotedType
<1>10. u.RK = t.RK /\ u.epoch = t.epoch /\ u.peer_id = t.peer_id
  BY <1>4 DEF AckNoted, PeerStates
<1>11. u = AckNoted(CounterNoted(peer[p], k.ad), k.ad)
  BY DEF t
<1> HIDE DEF u
<1> QED
  BY <1>5, <1>7, <1>8, <1>9, <1>10, <1>11 DEF q

LEMMA AcceptCurrentIInv ==
    ASSUME IInv, TypeOK', NEW p \in Peers, NEW k \in net[p], AcceptCurrent(p, k),
           \A x \in Peers : net'[x] \subseteq net[x]
    PROVE  IInv'
BY AcceptCurrentState, PairOfIInv, DeliverStep

\* The state in which the packet that is followed is collected.
LEMMA FollowState ==
    ASSUME IInv, NEW p \in Peers, NEW k \in net[p], Follow(p, k)
    PROVE  \E u \in PeerStates :
              /\ u.peer_id = p /\ u.ratchet_flags = {}
              /\ Opens(k, chain_key(u.RK)) /\ k.ad.epoch = u.epoch
              /\ PairOK(u, peer[Other(p)], fec_rx_clear, fec[Other(p)], net[p], net[Other(p)])
              /\ Collect(p, u, fec_rx_clear, k.ad)
<1> DEFINE s == peer[p]
           q == Other(p)
           trial(hint) == ratchet_on_epoch_advance(s, hint)
           noted(hint) == CounterNoted(trial(hint), k.ad)
           u(hint) == [noted(hint) EXCEPT !.send_counter = 0]
<1>1. /\ s \in PeerStates /\ peer[q] \in PeerStates
      /\ net[p] \in SUBSET Packets /\ net[q] \in SUBSET Packets
      /\ PairOK(s, peer[q], fec[p], fec[q], net[p], net[q])
      /\ s.peer_id = p
  BY PairOfIInv DEF IInv
<1>2. k.ad \in Headers
  BY <1>1 DEF Packets
<1>3. PICK hint \in FreshHints(s) :
         Opens(k, chain_key(trial(hint).RK)) /\ Collect(p, u(hint), fec_rx_clear, k.ad)
  BY DEF Follow
<1>4. READY \in s.ratchet_flags /\ k.ad.epoch = epoch_next(s.epoch)
  BY DEF Follow, InNext
<1>5. /\ trial(hint) \in PeerStates
      /\ trial(hint) = Ratcheted(s, hint)
      /\ trial(hint).RK = kdf_rk(s.RK, ratchet_build_ikm(s))
      /\ trial(hint).epoch = epoch_next(s.epoch)
      /\ trial(hint).peer_id = s.peer_id
  BY <1>1, RatchetedType DEF ratchet_on_epoch_advance, Ratcheted
<1> HIDE DEF trial
<1>6. noted(hint) \in PeerStates /\ CountersAside(noted(hint), trial(hint))
  BY <1>2, <1>5, CounterNotedType, CounterNotedAside
<1> HIDE DEF noted
<1>7. 0 \in Counters
  BY MeshAssumption DEF Counters
<1>8. u(hint) \in PeerStates /\ CountersAside(u(hint), noted(hint))
  BY <1>6, <1>7, SendCounterAside DEF PeerStates
<1> HIDE DEF u, q
<1>10. OneAhead(peer[q], s)
  <2>1. k.key.ck.rk = kdf_rk(s.RK, ratchet_build_ikm(s))
    BY <1>3, <1>5 DEF Opens, packet_key, chain_key
  <2>2. Len(k.key.ck.rk) = s.ephemeral_current.serial + 1
    BY <1>1, <2>1, KeyMaterialType DEF PairOK, EndOK, WellFormed
  <2>3. Len(k.key.ck.rk) <= peer[q].ephemeral_current.serial
    BY <1>1 DEF PairOK, EndOK, Sealed
  <2>4. /\ s.ephemeral_current.serial \in Nat
        /\ peer[q].ephemeral_current.serial \in Nat
    BY <1>1 DEF PeerStates, Keys
  <2> QED
    BY <1>1, <2>2, <2>3, <2>4 DEF PairOK, Linked, SameStep, OneAhead
<1>11. PairOK(Ratcheted(s, hint), peer[q], fec_rx_clear, fec[q], net[p], net[q])
  BY <1>1, <1>4, <1>10, RatchetStep
<1>12. PairOK(u(hint), peer[q], fec_rx_clear, fec[q], net[p], net[q])
  BY <1>5, <1>6, <1>8, <1>11, CountStep
<1>13. /\ u(hint).RK = trial(hint).RK
       /\ u(hint).epoch = epoch_next(s.epoch)
       /\ u(hint).peer_id = p
  BY <1>1, <1>5, <1>6, <1>8 DEF CountersAside
<1>14. u(hint).ratchet_flags = {}
  <2>1. Ratcheted(s, hint).ratchet_flags = {}
    BY <1>1 DEF Ratcheted, ClearedFlags, PeerStates, Flags
  <2> QED
    BY <1>5, <1>6, <1>8, <2>1 DEF CountersAside
<1> QED
  BY <1>3, <1>4, <1>8, <1>12, <1>13, <1>14 DEF q

LEMMA FollowIInv ==
    ASSUME IInv, TypeOK', NEW p \in Peers, NEW k \in net[p], Follow(p, k),
           \A x \in Peers : net'[x] \subseteq net[x]
    PROVE  IInv'
BY FollowState, PairOfIInv, ClearType, DeliverStep

LEMMA DamageIInv ==
    ASSUME IInv, TypeOK', NEW p \in Peers, NEW k \in net[p], Damage(p, k)
    PROVE  IInv'
<1> DEFINE q == Other(p)
<1>1. PICK epoch \in WireEpochs, counter \in Counters, ack \in BOOLEAN :
         /\ Garbled(k.ad, epoch, counter, ack) # k.ad
         /\ net' = [net EXCEPT ![p] = @ \cup
              {[ad |-> Garbled(k.ad, epoch, counter, ack), key |-> k.key, noisy |-> TRUE]}]
  BY DEF Damage
<1>2. /\ q \in Peers /\ q # p
      /\ PairOK(peer[p], peer[q], fec[p], fec[q], net[p], net[q])
      /\ peer[p].peer_id = p
  BY PairOfIInv DEF IInv
<1> DEFINE ad == Garbled(k.ad, epoch, counter, ack)
           N == net[p] \cup {[ad |-> ad, key |-> k.key, noisy |-> TRUE]}
<1>3. net'[p] = N /\ net'[q] = net[q] /\ peer' = peer /\ fec' = fec
  BY <1>1, <1>2 DEF Damage, IInv, TypeOK
<1>4. ~k.noisy /\ OnAir(ad) # OnAir(k.ad) /\ ad.symbol = k.ad.symbol
  <2>1. k.ad \in Headers
    BY DEF IInv, TypeOK, Packets
  <2> QED
    BY <1>1, <2>1, GarbledShows DEF Damage, Garbled
<1> HIDE DEF q, ad
<1>5. PairOK(peer[p], peer[q], fec[p], fec[q], N, net[q])
  BY <1>2, <1>4, DamageStep
<1> QED
  BY <1>2, <1>3, <1>5, IInvOfPair DEF q

-----------------------------------------------------------------------------
LEMMA NextIInv == IInv /\ [Next]_vars => IInv'
<1> SUFFICES ASSUME IInv, [Next]_vars PROVE IInv'
  OBVIOUS
<1>1. TypeOK'
  BY NextType DEF IInv
<1>2. ASSUME UNCHANGED vars PROVE IInv'
  <2>1. peer' = peer /\ fec' = fec /\ net' = net
    BY <1>2 DEF vars
  <2> QED
    BY <1>1, <2>1 DEF IInv
<1>3. ASSUME NEW p \in Peers, NEW k \in net[p], Deliver(p, k) PROVE IInv'
  <2>u. UNCHANGED <<net, damaged>>
    BY <1>3 DEF Deliver
  <2>1. CASE RejectEpoch(p, k) \/ RejectOld(p, k) \/ FailTrial(p, k)
    BY <1>2, <2>u, <2>1 DEF RejectEpoch, RejectOld, FailTrial, vars
  <2>2. CASE FailOpen(p, k)
    BY <1>1, <2>u, <2>2, CounterOnlyIInv DEF FailOpen
  <2>3. CASE AcceptPrevious(p, k)
    BY <1>1, <2>u, <2>3, CounterOnlyIInv DEF AcceptPrevious
  <2>4. CASE AcceptCurrent(p, k)
    BY <1>1, <2>u, <2>4, AcceptCurrentIInv
  <2>5. CASE Follow(p, k)
    BY <1>1, <2>u, <2>5, FollowIInv
  <2> QED
    BY <1>3, <2>1, <2>2, <2>3, <2>4, <2>5 DEF Deliver, Receive
<1> QED
  BY <1>1, <1>2, <1>3, SendInEpochIInv, SendAsFirstMoverIInv, DamageIInv DEF Next

\* The inductive invariant holds of every behaviour.
THEOREM Invariance == Spec => []IInv
BY InitIInv, NextIInv, PTL DEF Spec

-----------------------------------------------------------------------------
(* How the handlers move the counters *)

LEMMA CollectKeepsCounters ==
    ASSUME TypeOK, NEW p \in Peers, NEW s \in PeerStates, NEW f, NEW ad,
           Collect(p, s, f, ad)
    PROVE  SameCounters(peer'[p], s)
<1> DEFINE h == SymbolAdded(f, ad)
<1>1. SameCounters(CandidateLearned(s, h), s)
  BY LearnedKeepsCounters
<1>2. peer'[p] = s \/ peer'[p] = CandidateLearned(s, h)
  BY DEF Collect, TypeOK
<1> QED
  BY <1>1, <1>2 DEF SameCounters

LEMMA AcceptCurrentMoves ==
    ASSUME IInv, NEW p \in Peers, NEW k \in net[p], AcceptCurrent(p, k)
    PROVE  /\ Receives(peer'[p], peer[p])
           /\ peer'[p].recv_counter_curr >= k.ad.counter
           /\ peer'[p].recv_counter_curr \in {peer[p].recv_counter_curr, k.ad.counter}
<1> DEFINE s == peer[p]
           t == CounterNoted(s, k.ad)
           u == AckNoted(t, k.ad)
<1>1. s \in PeerStates /\ k.ad \in Headers
  BY PairOfIInv DEF Packets
<1>2. k.ad.epoch = s.epoch /\ Collect(p, u, fec[p], k.ad)
  BY DEF AcceptCurrent, InCurrent
<1>3. t \in PeerStates /\ u \in PeerStates
  BY <1>1, CounterNotedType, AckNotedType
<1>4. /\ Receives(t, s)
      /\ t.recv_counter_curr >= k.ad.counter
      /\ t.recv_counter_curr \in {s.recv_counter_curr, k.ad.counter}
  BY <1>1, <1>2, CounterNotedMoves
<1>5. SameCounters(u, t)
  BY <1>3, AckKeepsCounters
<1> HIDE DEF t, u
<1>6. SameCounters(peer'[p], u)
  BY <1>2, <1>3, CollectKeepsCounters DEF IInv
<1> QED
  BY <1>4, <1>5, <1>6 DEF SameCounters, Stays, Receives

LEMMA AcceptPreviousMoves ==
    ASSUME IInv, NEW p \in Peers, NEW k \in net[p], AcceptPrevious(p, k)
    PROVE  Receives(peer'[p], peer[p]) /\ peer'[p].recv_counter_prev >= k.ad.counter
<1>1. peer[p] \in PeerStates /\ k.ad \in Headers
  BY PairOfIInv DEF Packets
<1>2. k.ad.epoch # peer[p].epoch /\ peer'[p] = CounterNoted(peer[p], k.ad)
  BY DEF AcceptPrevious, InPrevious, IInv, TypeOK
<1> QED
  BY <1>1, <1>2, CounterNotedMoves

LEMMA FollowMoves ==
    ASSUME IInv, NEW p \in Peers, NEW k \in net[p], Follow(p, k)
    PROVE  /\ StepsOn(peer'[p], peer[p])
           /\ peer'[p].recv_counter_curr >= k.ad.counter
           /\ peer'[p].recv_counter_curr \in {0, k.ad.counter}
           /\ peer'[p].send_counter = 0
<1> DEFINE s == peer[p]
           trial(hint) == ratchet_on_epoch_advance(s, hint)
           noted(hint) == CounterNoted(trial(hint), k.ad)
           u(hint) == [noted(hint) EXCEPT !.send_counter = 0]
<1>1. s \in PeerStates /\ WellFormed(s) /\ k.ad \in Headers
  BY PairOfIInv DEF PairOK, EndOK, Packets
<1>2. PICK hint \in FreshHints(s) : Collect(p, u(hint), fec_rx_clear, k.ad)
  BY DEF Follow
<1>3. trial(hint) \in PeerStates /\ trial(hint) = Ratcheted(s, hint)
  BY <1>1, RatchetedType DEF ratchet_on_epoch_advance
<1>4. /\ StepsOn(trial(hint), s) /\ trial(hint).epoch = k.ad.epoch
      /\ trial(hint).recv_counter_curr = 0
  BY <1>1, <1>3, RatchetedMoves DEF Follow, InNext, Ratcheted
<1> HIDE DEF trial
<1>5. /\ noted(hint) \in PeerStates
      /\ Receives(noted(hint), trial(hint))
      /\ noted(hint).recv_counter_curr >= k.ad.counter
      /\ noted(hint).recv_counter_curr \in {0, k.ad.counter}
      /\ noted(hint).recv_counter_prev = trial(hint).recv_counter_prev
  BY <1>1, <1>3, <1>4, CounterNotedType, CounterNotedMoves
<1> HIDE DEF noted
<1>6. 0 \in Counters
  BY MeshAssumption DEF Counters
<1>7. /\ u(hint) \in PeerStates
      /\ u(hint).send_counter = 0
      /\ u(hint).peer_id = noted(hint).peer_id
      /\ u(hint).ephemeral_current = noted(hint).ephemeral_current
      /\ u(hint).recv_counter_curr = noted(hint).recv_counter_curr
      /\ u(hint).recv_counter_prev = noted(hint).recv_counter_prev
  BY <1>5, <1>6 DEF PeerStates
<1> HIDE DEF u
<1>8. SameCounters(peer'[p], u(hint))
  BY <1>2, <1>7, CollectKeepsCounters DEF IInv
<1> QED
  BY <1>4, <1>5, <1>7, <1>8 DEF SameCounters, Stays, Receives, StepsOn

\* A received packet leaves the receiver in its generation or takes it one on,
\* and the other end as it was.
LEMMA ReceiveMoves ==
    ASSUME IInv, NEW p \in Peers, NEW k \in net[p], Receive(p, k)
    PROVE  /\ peer'[Other(p)] = peer[Other(p)]
           /\ Receives(peer'[p], peer[p]) \/ StepsOn(peer'[p], peer[p])
<1> DEFINE s == peer[p]
<1>1. s \in PeerStates /\ k.ad \in Headers /\ Other(p) \in Peers /\ Other(p) # p
  BY PairOfIInv DEF Packets
<1>2. peer'[Other(p)] = peer[Other(p)]
  BY <1>1 DEF Receive, RejectEpoch, RejectOld, FailOpen, FailTrial, AcceptCurrent,
              AcceptPrevious, Follow, Collect, IInv, TypeOK
<1>3. CASE RejectEpoch(p, k) \/ RejectOld(p, k) \/ FailTrial(p, k)
  <2>1. peer'[p] = s
    BY <1>3 DEF RejectEpoch, RejectOld, FailTrial
  <2>2. s.recv_counter_curr \in Int /\ s.recv_counter_prev \in Int
    BY <1>1 DEF PeerStates, Counters
  <2> QED
    BY <1>2, <2>1, <2>2 DEF Stays, Receives
<1>4. CASE FailOpen(p, k)
  <2>1. peer'[p] = CounterNoted(s, k.ad)
    BY <1>4 DEF FailOpen, IInv, TypeOK
  <2> QED
    BY <1>1, <1>2, <2>1, CounterNotedMoves
<1>5. CASE AcceptCurrent(p, k) \/ AcceptPrevious(p, k)
  BY <1>2, <1>5, AcceptCurrentMoves, AcceptPreviousMoves
<1>6. CASE Follow(p, k)
  BY <1>2, <1>6, FollowMoves
<1> QED
  BY <1>2, <1>3, <1>4, <1>5, <1>6 DEF Receive

\* The state a sender seals with: its own, or the one it steps to.
LEMMA SendersState ==
    ASSUME IInv, NEW p \in Peers, SendInEpoch(p) \/ SendAsFirstMover(p)
    PROVE  \E s \in PeerStates :
              /\ WellFormed(s) /\ s.peer_id = p
              /\ \/ s = peer[p] /\ SendInEpoch(p)
                 \/ /\ StepsOn(s, peer[p]) /\ SendAsFirstMover(p)
                    /\ s.recv_counter_curr = 0 /\ s.send_counter = 0
                    /\ s.ratchet_flags = {}
              /\ Transmit(p, s)
<1>1. /\ peer[p] \in PeerStates /\ peer[p].peer_id = p /\ WellFormed(peer[p])
      /\ peer[Other(p)] \in PeerStates
      /\ net[p] \in SUBSET Packets /\ net[Other(p)] \in SUBSET Packets
      /\ PairOK(peer[p], peer[Other(p)], fec[p], fec[Other(p)], net[p], net[Other(p)])
  BY PairOfIInv DEF IInv, PairOK, EndOK
<1>2. CASE SendInEpoch(p)
  BY <1>1, <1>2 DEF SendInEpoch
<1>3. CASE SendAsFirstMover(p)
  <2>1. PICK hint \in FreshHints(peer[p]) : Transmit(p, ratchet_on_fec_decode(peer[p], hint))
    BY <1>3 DEF SendAsFirstMover
  <2> DEFINE s == ratchet_on_fec_decode(peer[p], hint)
             w == Ratcheted(peer[p], hint)
  <2>2. s \in PeerStates /\ CountersAside(s, w) /\ w.peer_id = p /\ w \in PeerStates
    BY <1>1, FirstMoverAside, RatchetedType
  <2>3. /\ StepsOn(w, peer[p]) /\ w.recv_counter_curr = 0
        /\ s.recv_counter_curr = w.recv_counter_curr
        /\ s.recv_counter_prev = w.recv_counter_prev
        /\ s.send_counter = 0 /\ s.ratchet_flags = w.ratchet_flags
    BY <1>1, <2>2, RatchetedMoves DEF ratchet_on_fec_decode, PeerStates
  <2>6. w.ratchet_flags = {}
    BY <1>1 DEF Ratcheted, ClearedFlags, PeerStates, Flags
  <2>4. WellFormed(w)
    <3>1. READY \in peer[p].ratchet_flags /\ SAW \in peer[p].ratchet_flags
      BY <1>3 DEF SendAsFirstMover, MayLead
    <3>2. \/ OneAhead(peer[Other(p)], peer[p])
          \/ SameStep(peer[p], peer[Other(p)]) /\ READY \in peer[Other(p)].ratchet_flags
      BY <1>1, <3>1 DEF PairOK, EndOK, Knows
    <3> HIDE DEF w
    <3>3. PairOK(w, peer[Other(p)], fec_rx_clear, fec[Other(p)], net[p], net[Other(p)])
      BY <1>1, <3>1, <3>2, RatchetStep DEF w
    <3> QED
      BY <3>3 DEF PairOK, EndOK
  <2> HIDE DEF s, w
  <2>5. WellFormed(s) /\ s.peer_id = p /\ StepsOn(s, peer[p])
    BY <2>2, <2>3, <2>4 DEF WellFormed, CountersAside, StepsOn
  <2> QED
    BY <1>3, <2>1, <2>2, <2>3, <2>5, <2>6 DEF s
<1> QED
  BY <1>2, <1>3

\* Sending leaves the sender in its generation or takes it one on.
LEMMA TransmitMoves ==
    ASSUME IInv, NEW p \in Peers, SendInEpoch(p) \/ SendAsFirstMover(p)
    PROVE  /\ peer'[Other(p)] = peer[Other(p)]
           /\ Stays(peer'[p], peer[p]) \/ StepsOn(peer'[p], peer[p])
<1>1. PICK s \in PeerStates :
         /\ s = peer[p] \/ StepsOn(s, peer[p])
         /\ Transmit(p, s)
  BY SendersState
<1> DEFINE t == [s EXCEPT !.send_counter = NextCounter(s.send_counter)]
<1>2. peer'[p] = t /\ peer'[Other(p)] = peer[Other(p)]
  BY <1>1, PairOfIInv DEF Transmit, IInv, TypeOK
<1>3. /\ t.peer_id = s.peer_id /\ t.ephemeral_current = s.ephemeral_current
      /\ t.recv_counter_curr = s.recv_counter_curr
      /\ t.recv_counter_prev = s.recv_counter_prev
      /\ s.recv_counter_curr \in Int /\ s.recv_counter_prev \in Int
  BY DEF PeerStates, Counters
<1> HIDE DEF t
<1> QED
  BY <1>1, <1>2, <1>3 DEF Stays, StepsOn

-----------------------------------------------------------------------------
(* What the invariant says of the two generations *)

LEMMA Generations ==
    ASSUME IInv, NEW p \in Peers
    PROVE  /\ Generation(p) \in Nat /\ Generation(Other(p)) \in Nat
           /\ Linked(peer[p], peer[Other(p)])
           /\ InStep <=> SameStep(peer[p], peer[Other(p)])
           /\ Leads(p) <=> OneAhead(peer[p], peer[Other(p)])
           /\ Leads(Other(p)) <=> OneAhead(peer[Other(p)], peer[p])
<1>1. /\ Generation(p) \in Nat /\ Generation(Other(p)) \in Nat
      /\ Linked(peer[p], peer[Other(p)])
  BY PairOfIInv DEF PairOK, Generation, PeerStates, Keys
<1>2. InStep <=> Generation(p) = Generation(Other(p))
  BY DEF InStep, Peers, Other
<1>3. Other(Other(p)) = p
  BY PairOfIInv
<1> QED
  BY <1>1, <1>2, <1>3 DEF Linked, SameStep, OneAhead, Leads, Generation

LEMMA IInvKeyAgreement == IInv => KeyAgreement
<1> SUFFICES ASSUME IInv PROVE KeyAgreement
  OBVIOUS
<1>1. 0 \in Peers /\ 1 \in Peers /\ Other(0) = 1 /\ Other(1) = 0
  BY DEF Peers, Other
<1>2. CASE SameStep(peer[0], peer[1])
  BY <1>1, <1>2, Generations DEF KeyAgreement, SameStep
<1>3. ASSUME NEW p \in Peers, OneAhead(peer[p], peer[Other(p)]) PROVE KeyAgreement
  BY <1>3, Generations DEF KeyAgreement, OneAhead
<1> QED
  BY <1>1, <1>2, <1>3 DEF IInv, Linked

LEMMA IInvPendingIsGenuine == IInv => PendingIsGenuine
<1> SUFFICES ASSUME IInv, NEW p \in Peers
             PROVE  LET s == peer[p]
                        r == peer[Other(p)]
                    IN  IF READY \in s.ratchet_flags
                        THEN \/ InStep /\ s.remote_candidate_pending = r.ephemeral_candidate
                             \/ Leads(Other(p)) /\ s.remote_candidate_pending = r.ephemeral_current
                        ELSE s.remote_candidate_pending = ZeroKey
  BY DEF PendingIsGenuine
<1>1. WellFormed(peer[p]) /\ Knows(peer[p], peer[Other(p)])
  BY DEF IInv, EndOK
<1> QED
  BY <1>1, Generations DEF WellFormed, Knows, OneAhead

LEMMA IInvAckIsEarned == IInv => AckIsEarned
<1> SUFFICES ASSUME IInv, NEW p \in Peers, SAW \in peer[p].ratchet_flags
             PROVE  \/ InStep /\ READY \in peer[Other(p)].ratchet_flags
                    \/ Leads(Other(p))
  BY DEF AckIsEarned
<1> QED
  BY Generations DEF IInv, EndOK, Knows

LEMMA IInvNoFalseDuplicate == IInv => NoFalseDuplicate
<1> SUFFICES ASSUME IInv, NEW p \in Peers, InStep
             PROVE  compute_hint(peer[Other(p)].ephemeral_candidate) # peer[p].remote_hint
  BY DEF NoFalseDuplicate
<1>1. SameStep(peer[p], peer[Other(p)]) /\ WellFormed(peer[Other(p)])
  BY Generations, PairOfIInv DEF PairOK, EndOK
<1> QED
  BY <1>1 DEF SameStep, WellFormed

LEMMA IInvRoundIsCoherent == IInv => RoundIsCoherent
<1> SUFFICES ASSUME IInv, NEW p \in Peers, fec[p].equations # {}
             PROVE  LET f == fec[p]
                        c == peer[Other(p)].ephemeral_candidate
                    IN  /\ InStep
                        /\ READY \notin peer[p].ratchet_flags
                        /\ f.active
                        /\ f.hint = compute_hint(c)
                        /\ f.epoch = peer[p].epoch
                        /\ Explains(f, c)
  BY DEF RoundIsCoherent
<1> QED
  BY Generations DEF IInv, EndOK, Collects

LEMMA IInvLateOpens == IInv => LateOpensUnderSavedKey
<1> SUFFICES ASSUME IInv, NEW p \in Peers, NEW k \in net[p],
                    Intact(k), GenerationOf(k) + 1 = Generation(p)
             PROVE  Opens(k, peer[p].CKr_prev)
  BY DEF LateOpensUnderSavedKey
<1>1. Sealed(k, peer[p], peer[Other(p)]) /\ k \in Packets
  BY PairOfIInv DEF PairOK, EndOK
<1>2. k.key.ck = peer[p].CKr_prev /\ OnAir(k.ad) = k.key.ad
  BY <1>1 DEF Sealed, Intact, GenerationOf, Generation
<1>3. k.key = [ck |-> k.key.ck, ad |-> k.key.ad]
  BY <1>1 DEF Packets
<1> QED
  BY <1>2, <1>3 DEF Opens, packet_key

LEMMA IInvPresentIsReadable == IInv => PresentIsReadable
<1> SUFFICES ASSUME IInv, NEW p \in Peers, NEW k \in net[p],
                    Intact(k), k.key.ck.rk = peer[Other(p)].RK, ~JustWrapped(p)
             PROVE  LET s == peer[p]
                    IN  \/ /\ InNext(s, k.ad)
                           /\ READY \in s.ratchet_flags
                           /\ Opens(k, chain_key(kdf_rk(s.RK, ratchet_build_ikm(s))))
                        \/ InCurrent(s, k.ad) /\ Opens(k, chain_key(s.RK))
                        \/ InPrevious(s, k.ad) /\ Opens(k, s.CKr_prev)
  BY DEF PresentIsReadable
<1> DEFINE s == peer[p]
           r == peer[Other(p)]
<1>1. /\ s \in PeerStates /\ r \in PeerStates /\ k \in Packets
      /\ WellFormed(s) /\ WellFormed(r)
      /\ Sealed(k, s, r)
      /\ Linked(s, r)
  BY PairOfIInv DEF PairOK, EndOK
<1>2. /\ k.key = [ck |-> chain_key(r.RK), ad |-> OnAir(k.ad)]
      /\ k.ad.epoch = r.epoch
  <2>1. k.key = [ck |-> k.key.ck, ad |-> k.key.ad]
    BY <1>1 DEF Packets
  <2>2. Len(k.key.ck.rk) = r.ephemeral_current.serial
    BY <1>1 DEF WellFormed
  <2>3. OnAir(k.ad) = k.key.ad /\ k.key.ck = chain_key(r.RK) /\ k.key.ad.epoch = r.epoch
    BY <1>1, <2>2 DEF Sealed, Intact
  <2>4. k.key.ad.epoch = k.ad.epoch
    BY <1>1, <2>3 DEF OnAir, Packets, Headers
  <2> QED
    BY <2>1, <2>3, <2>4
<1>3. /\ s.epoch \in Epochs /\ r.epoch \in Epochs
      /\ s.ephemeral_current.serial \in Nat /\ r.ephemeral_current.serial \in Nat
  BY <1>1 DEF PeerStates, Keys
<1>4. CASE SameStep(s, r)
  <2>1. InCurrent(s, k.ad)
    BY <1>2, <1>3, <1>4, EpochRing DEF InCurrent, InNext, SameStep
  <2> QED
    BY <1>2, <1>4, <2>1 DEF Opens, packet_key, SameStep
<1>5. CASE OneAhead(r, s)
  BY <1>2, <1>5 DEF Opens, packet_key, OneAhead, InNext
<1>6. CASE OneAhead(s, r)
  <2>1. s.epoch = epoch_next(r.epoch) /\ s.CKr_prev = chain_key(r.RK)
    BY <1>6 DEF OneAhead
  <2>2. r.epoch # EPOCH_MAX_ACTIVE
    <3> SUFFICES ASSUME r.epoch = EPOCH_MAX_ACTIVE PROVE FALSE
      OBVIOUS
    <3>1. s.epoch = EPOCH_MIN_ACTIVE
      BY <2>1, EpochAssumption DEF epoch_next
    <3>2. r.ephemeral_current.serial # 0
      <4>1. r.epoch # EPOCH_BOOTSTRAP
        BY EpochAssumption DEF EPOCH_BOOTSTRAP
      <4> QED
        BY <1>1, <4>1 DEF WellFormed
    <3>3. Generation(p) > 1
      BY <1>3, <1>6, <3>2 DEF OneAhead, Generation
    <3> QED
      BY <3>1, <3>3 DEF JustWrapped
  <2>3. InPrevious(s, k.ad)
    BY <1>2, <1>3, <2>1, <2>2, EpochRing DEF InPrevious, InNext
  <2> QED
    BY <1>2, <2>1, <2>3 DEF Opens, packet_key
<1> QED
  BY <1>1, <1>4, <1>5, <1>6 DEF Linked

\* Which key opens a packet tells how far its seal is from the receiver.
LEMMA OpensTells ==
    ASSUME IInv, NEW p \in Peers, NEW k \in net[p]
    PROVE  LET s == peer[p]
           IN  /\ GenerationOf(k) \in Nat /\ Generation(p) \in Nat
               /\ Opens(k, chain_key(s.RK)) => GenerationOf(k) = Generation(p)
               /\ Opens(k, s.CKr_prev) => GenerationOf(k) + 1 = Generation(p)
               /\ Opens(k, chain_key(kdf_rk(s.RK, ratchet_build_ikm(s)))) =>
                     GenerationOf(k) = Generation(p) + 1
<1> DEFINE s == peer[p]
<1>1. /\ s \in PeerStates /\ k \in Packets
      /\ WellFormed(s) /\ SavedKey(s) /\ Sealed(k, s, peer[Other(p)])
  BY PairOfIInv DEF PairOK, EndOK
<1>2. /\ Generation(p) \in Nat /\ GenerationOf(k) \in Nat
      /\ Len(s.RK) = Generation(p)
  BY <1>1, Generations DEF GenerationOf, Packets, ChainKeys, WellFormed, Generation
<1>3. ASSUME Opens(k, chain_key(s.RK)) PROVE GenerationOf(k) = Generation(p)
  BY <1>2, <1>3 DEF Opens, packet_key, chain_key, GenerationOf
<1>4. ASSUME Opens(k, s.CKr_prev) PROVE GenerationOf(k) + 1 = Generation(p)
  <2>1. k.key.ck = s.CKr_prev
    BY <1>4 DEF Opens, packet_key
  <2>2. k.key.ck.domain = "CKs-first"
    BY <1>1 DEF Sealed, chain_key
  <2>3. s.CKr_prev # NoChainKey
    BY <2>1, <2>2 DEF NoChainKey
  <2> QED
    BY <1>1, <2>1, <2>3 DEF SavedKey, Generation, GenerationOf
<1>5. ASSUME Opens(k, chain_key(kdf_rk(s.RK, ratchet_build_ikm(s))))
      PROVE  GenerationOf(k) = Generation(p) + 1
  <2>1. k.key.ck.rk = kdf_rk(s.RK, ratchet_build_ikm(s))
    BY <1>5 DEF Opens, packet_key, chain_key
  <2> QED
    BY <1>1, <1>2, <2>1, KeyMaterialType DEF GenerationOf
<1> QED
  BY <1>2, <1>3, <1>4, <1>5

LEMMA IInvOnlyRecent == IInv => OnlyRecentIsReturned
<1> SUFFICES ASSUME IInv, NEW p \in Peers, NEW k \in net[p], WouldReturn(p, k)
             PROVE  /\ Intact(k)
                    /\ GenerationOf(k) \in Generation(p) - 1 .. Generation(p) + 1
  BY DEF OnlyRecentIsReturned
<1> DEFINE s == peer[p]
<1>1. \/ Opens(k, chain_key(s.RK))
      \/ Opens(k, s.CKr_prev)
      \/ Opens(k, chain_key(kdf_rk(s.RK, ratchet_build_ikm(s))))
  BY DEF WouldReturn
<1>2. OnAir(k.ad) = k.key.ad /\ Sealed(k, s, peer[Other(p)])
  BY <1>1, PairOfIInv DEF PairOK, EndOK, Opens, packet_key
<1>3. Intact(k)
  BY <1>2 DEF Sealed, Intact
<1> HIDE DEF s
<1> QED
  BY <1>1, <1>3, OpensTells DEF s

-----------------------------------------------------------------------------
\* The two peers never diverge: same root key and epoch, or one step apart with
\* the one behind holding what takes it there.
THEOREM KeysAgree == Spec => []KeyAgreement
BY Invariance, IInvKeyAgreement, PTL

\* A pending candidate is the key the other end ratchets with.
THEOREM PendingGenuine == Spec => []PendingIsGenuine
BY Invariance, IInvPendingIsGenuine, PTL

\* A node that may lead is right to: the other end holds its candidate.
THEOREM AckEarned == Spec => []AckIsEarned
BY Invariance, IInvAckIsEarned, PTL

\* The FEC_DUPLICATE branch of decrypt_packet is dead code.
THEOREM DuplicateNeverTaken == Spec => []NoFalseDuplicate
BY Invariance, IInvNoFalseDuplicate, PTL

\* No sidecar ever mixes the equations of two candidates.
THEOREM RoundsCoherent == Spec => []RoundIsCoherent
BY Invariance, IInvRoundIsCoherent, PTL

\* The saved chain key opens the packets of the generation left behind.
THEOREM LateOpens == Spec => []LateOpensUnderSavedKey
BY Invariance, IInvLateOpens, PTL

\* What a node seals now, the other end has a key for, except just after the
\* epoch has wrapped.
THEOREM PresentReadable == Spec => []PresentIsReadable
BY Invariance, IInvPresentIsReadable, PTL

\* Nothing is returned that the other end did not seal within one generation.
THEOREM OnlyRecentReturned == Spec => []OnlyRecentIsReturned
BY Invariance, IInvOnlyRecent, PTL

-----------------------------------------------------------------------------
(* The two peers and their link implement RatchetPair: a handler that stays   *)
(* in its generation is a Hear (or changes nothing RatchetPair sees), the     *)
(* first mover's is a Lead, the second mover's a CatchUp.                     *)

\* What RatchetPair sees of the peers.
Gens == [p \in Peers |-> Generation(p)]
RootKeys == [p \in Peers |-> peer[p].RK]
HasCandidate == [p \in Peers |-> READY \in peer[p].ratchet_flags]
HasAck == [p \in Peers |-> SAW \in peer[p].ratchet_flags]

-----------------------------------------------------------------------------
(* Functions of flags *)

LEMMA FlagView ==
    ASSUME NEW P, NEW p \in P, NEW R, NEW f \in [P -> R], NEW g, NEW t, NEW flag,
           g = [f EXCEPT ![p] = t]
    PROVE  [x \in P |-> flag \in g[x].ratchet_flags] =
           [[x \in P |-> flag \in f[x].ratchet_flags]
                EXCEPT ![p] = (flag \in t.ratchet_flags)]
<1>1. \A x \in P : g[x] = IF x = p THEN t ELSE f[x]
  OBVIOUS
<1>2. \A x \in P : (flag \in g[x].ratchet_flags) =
          IF x = p THEN flag \in t.ratchet_flags ELSE flag \in f[x].ratchet_flags
  BY <1>1, Zenon
<1> QED
  BY <1>2, Zenon

\* Flags that only grow change a function of flags by what they gain.
LEMMA FlagGained ==
    ASSUME NEW A, NEW B, NEW flag, A \subseteq B
    PROVE  (flag \in B) = ((flag \in A) \/ (flag \in B /\ flag \notin A))
<1>1. (flag \in B) <=> ((flag \in A) \/ (flag \in B /\ flag \notin A))
  OBVIOUS
<1> QED
  BY <1>1

-----------------------------------------------------------------------------
\* A step that replaces the state of p by t.
LEMMA ViewAfter ==
    ASSUME IInv, NEW p \in Peers, NEW t, peer' = [peer EXCEPT ![p] = t]
    PROVE  /\ Gens' = [Gens EXCEPT ![p] = t.ephemeral_current.serial]
           /\ RootKeys' = [RootKeys EXCEPT ![p] = t.RK]
           /\ HasCandidate' = [HasCandidate EXCEPT ![p] = (READY \in t.ratchet_flags)]
           /\ HasAck' = [HasAck EXCEPT ![p] = (SAW \in t.ratchet_flags)]
<1>1. \A x \in Peers : peer'[x] = IF x = p THEN t ELSE peer[x]
  BY DEF IInv, TypeOK
<1>2. \A x \in Peers :
         /\ Generation(x)' = IF x = p THEN t.ephemeral_current.serial ELSE Generation(x)
         /\ peer'[x].RK = IF x = p THEN t.RK ELSE peer[x].RK
         /\ peer'[x].ratchet_flags =
               IF x = p THEN t.ratchet_flags ELSE peer[x].ratchet_flags
  BY <1>1 DEF Generation
<1>3. Gens' = [Gens EXCEPT ![p] = t.ephemeral_current.serial]
  BY <1>2 DEF Gens
<1>4. RootKeys' = [RootKeys EXCEPT ![p] = t.RK]
  BY <1>2 DEF RootKeys
<1>5. /\ HasCandidate' = [HasCandidate EXCEPT ![p] = (READY \in t.ratchet_flags)]
      /\ HasAck' = [HasAck EXCEPT ![p] = (SAW \in t.ratchet_flags)]
  BY FlagView DEF HasCandidate, HasAck, IInv, TypeOK
<1> QED
  BY <1>3, <1>4, <1>5

\* The relations of RatchetPair in the words of the invariant.
LEMMA ViewNow ==
    ASSUME IInv, NEW p \in Peers
    PROVE  /\ Pair!Mate(p) = Other(p)
           /\ Other(p) \in Peers /\ Other(p) # p
           /\ Pair!InStep <=> SameStep(peer[p], peer[Other(p)])
           /\ Pair!Ahead(Other(p)) <=> OneAhead(peer[Other(p)], peer[p])
           /\ Gens[p] = Generation(p)
           /\ RootKeys[p] = peer[p].RK
           /\ RootKeys[Other(p)] = peer[Other(p)].RK
           /\ HasCandidate[p] = (READY \in peer[p].ratchet_flags)
           /\ HasCandidate[Other(p)] = (READY \in peer[Other(p)].ratchet_flags)
           /\ HasAck[p] = (SAW \in peer[p].ratchet_flags)
<1>1. /\ Pair!Mate(p) = Other(p) /\ Other(p) \in Peers /\ Other(p) # p
      /\ Pair!Mate(Other(p)) = p
  BY DEF Pair!Mate, Other, Peers
<1>2. Pair!InStep <=> InStep
  BY DEF Pair!InStep, InStep, Peers
<1>3. Pair!Ahead(Other(p)) <=> Leads(Other(p))
  BY <1>1 DEF Pair!Ahead, Leads, Other, Peers
<1> QED
  BY <1>1, <1>2, <1>3, Generations DEF Gens, RootKeys, HasCandidate, HasAck

\* A handler that keeps the generation of p and forgets nothing is a Hear.
LEMMA HearStep ==
    ASSUME IInv, IInv', NEW p \in Peers, NEW t, peer' = [peer EXCEPT ![p] = t],
           t.ephemeral_current = peer[p].ephemeral_current,
           t.RK = peer[p].RK,
           peer[p].ratchet_flags \subseteq t.ratchet_flags
    PROVE  Pair!Hear(p)
<1> DEFINE s == peer[p]
           q == Other(p)
           learns == READY \in t.ratchet_flags /\ READY \notin s.ratchet_flags
           hears == SAW \in t.ratchet_flags /\ SAW \notin s.ratchet_flags
<1>1. q \in Peers /\ q # p /\ peer'[p] = t /\ peer'[q] = peer[q]
  BY ViewNow DEF IInv, TypeOK
<1>2. Knows(t, peer[q]) /\ Linked(s, peer[q])
  BY <1>1, PairOfIInv DEF IInv, EndOK, PairOK
<1>3. /\ s.ephemeral_current.serial \in Nat
      /\ peer[q].ephemeral_current.serial \in Nat
  BY <1>1, PairOfIInv DEF PeerStates, Keys
<1>4. READY \in t.ratchet_flags /\ READY \notin s.ratchet_flags => SameStep(s, peer[q])
  BY <1>2, <1>3 DEF Knows, Linked, SameStep, OneAhead
<1>5. SAW \in t.ratchet_flags =>
         \/ OneAhead(peer[q], s)
         \/ SameStep(s, peer[q]) /\ READY \in peer[q].ratchet_flags
  BY <1>2, <1>3 DEF Knows, Linked, SameStep, OneAhead
<1>6. /\ Gens' = [Gens EXCEPT ![p] = t.ephemeral_current.serial]
      /\ RootKeys' = [RootKeys EXCEPT ![p] = t.RK]
      /\ HasCandidate' = [HasCandidate EXCEPT ![p] = (READY \in t.ratchet_flags)]
      /\ HasAck' = [HasAck EXCEPT ![p] = (SAW \in t.ratchet_flags)]
  BY ViewAfter
<1>7. Gens' = Gens /\ RootKeys' = RootKeys
  BY <1>6 DEF Gens, RootKeys, Generation
<1>f. /\ (READY \in t.ratchet_flags) = (HasCandidate[p] \/ learns)
      /\ (SAW \in t.ratchet_flags) = (HasAck[p] \/ hears)
  <2>1. /\ HasCandidate[p] = (READY \in s.ratchet_flags)
        /\ HasAck[p] = (SAW \in s.ratchet_flags)
    BY ViewNow
  <2>2. /\ (READY \in t.ratchet_flags) = ((READY \in s.ratchet_flags) \/ learns)
        /\ (SAW \in t.ratchet_flags) = ((SAW \in s.ratchet_flags) \/ hears)
    BY FlagGained
  <2> QED
    BY <2>1, <2>2, Zenon
<1> HIDE DEF learns, hears
<1>8. HasCandidate' = [HasCandidate EXCEPT ![p] = @ \/ learns]
  BY <1>6, <1>f, Zenon
<1>9. HasAck' = [HasAck EXCEPT ![p] = @ \/ hears]
  BY <1>6, <1>f, Zenon
<1> USE DEF learns, hears
<1>10. learns => Pair!InStep
  BY <1>4, ViewNow
<1>11. hears => Pair!Ahead(Pair!Mate(p)) \/ (Pair!InStep /\ HasCandidate[Pair!Mate(p)])
  BY <1>5, ViewNow
<1>12. learns \in BOOLEAN /\ hears \in BOOLEAN
  OBVIOUS
<1> HIDE DEF learns, hears
<1> QED
  BY <1>7, <1>8, <1>9, <1>10, <1>11, <1>12
     DEF Pair!Hear, Gens, RootKeys, HasCandidate, HasAck

\* A handler that ratchets p moves it one generation on, to the root key that a
\* leader already has.
LEMMA RatchetView ==
    ASSUME IInv, NEW p \in Peers, NEW t, peer' = [peer EXCEPT ![p] = t],
           t.ephemeral_current = peer[p].ephemeral_candidate,
           t.RK = kdf_rk(peer[p].RK, ratchet_build_ikm(peer[p]))
    PROVE  /\ Gens' = [Gens EXCEPT ![p] = @ + 1]
           /\ RootKeys' = [RootKeys EXCEPT ![p] = t.RK]
           /\ HasCandidate' = [HasCandidate EXCEPT ![p] = (READY \in t.ratchet_flags)]
           /\ HasAck' = [HasAck EXCEPT ![p] = (SAW \in t.ratchet_flags)]
           /\ Pair!Ahead(Pair!Mate(p)) => t.RK = RootKeys[Pair!Mate(p)]
<1>1. /\ Gens' = [Gens EXCEPT ![p] = t.ephemeral_current.serial]
      /\ RootKeys' = [RootKeys EXCEPT ![p] = t.RK]
      /\ HasCandidate' = [HasCandidate EXCEPT ![p] = (READY \in t.ratchet_flags)]
      /\ HasAck' = [HasAck EXCEPT ![p] = (SAW \in t.ratchet_flags)]
  BY ViewAfter
<1>2. t.ephemeral_current.serial = peer[p].ephemeral_current.serial + 1
  <2>1. WellFormed(peer[p])
    BY PairOfIInv DEF PairOK, EndOK
  <2> QED
    BY <2>1 DEF WellFormed, PublicKey
<1>3. Gens' = [Gens EXCEPT ![p] = @ + 1]
  BY <1>1, <1>2 DEF Gens, Generation
<1>4. Pair!Ahead(Pair!Mate(p)) => t.RK = RootKeys[Pair!Mate(p)]
  BY ViewNow DEF OneAhead
<1> QED
  BY <1>1, <1>3, <1>4

LEMMA LeadStep ==
    ASSUME IInv, NEW p \in Peers, SendAsFirstMover(p)
    PROVE  Pair!Lead(p)
<1> DEFINE s == peer[p]
           q == Other(p)
<1>1. PICK hint \in FreshHints(s) : Transmit(p, ratchet_on_fec_decode(s, hint))
  BY DEF SendAsFirstMover
<1> DEFINE r == ratchet_on_fec_decode(s, hint)
           t == [r EXCEPT !.send_counter = NextCounter(r.send_counter)]
<1>2. /\ s \in PeerStates /\ READY \in s.ratchet_flags /\ SAW \in s.ratchet_flags
      /\ OneAhead(peer[q], s) \/ (SameStep(s, peer[q]) /\ READY \in peer[q].ratchet_flags)
  BY PairOfIInv DEF PairOK, EndOK, Knows, SendAsFirstMover, MayLead
<1>3. r \in PeerStates /\ CountersAside(r, Ratcheted(s, hint))
  BY <1>2, FirstMoverAside
<1>4. peer' = [peer EXCEPT ![p] = t]
  BY <1>1 DEF Transmit
<1> HIDE DEF r
<1>5. CountersAside(t, r)
  BY <1>3, SendCounterAside
<1>6. /\ t.ephemeral_current = s.ephemeral_candidate
      /\ t.RK = kdf_rk(s.RK, ratchet_build_ikm(s))
      /\ READY \notin t.ratchet_flags /\ SAW \notin t.ratchet_flags
  BY <1>3, <1>5 DEF CountersAside, Ratcheted, ClearedFlags
<1> HIDE DEF t
<1>7. /\ Gens' = [Gens EXCEPT ![p] = @ + 1]
      /\ RootKeys' = [RootKeys EXCEPT ![p] = t.RK]
      /\ HasCandidate' = [HasCandidate EXCEPT ![p] = (READY \in t.ratchet_flags)]
      /\ HasAck' = [HasAck EXCEPT ![p] = (SAW \in t.ratchet_flags)]
      /\ Pair!Ahead(Pair!Mate(p)) => t.RK = RootKeys[Pair!Mate(p)]
  BY <1>4, <1>6, RatchetView
<1>8. /\ (READY \in t.ratchet_flags) = FALSE
      /\ (SAW \in t.ratchet_flags) = FALSE
  BY <1>6
<1>9. /\ HasCandidate' = [HasCandidate EXCEPT ![p] = FALSE]
      /\ HasAck' = [HasAck EXCEPT ![p] = FALSE]
  BY <1>7, <1>8, Zenon
<1>10. RootKeys'[p] = t.RK
  BY <1>7 DEF RootKeys
<1>11. /\ HasCandidate[p] /\ HasAck[p]
       /\ (Pair!InStep /\ HasCandidate[Pair!Mate(p)]) \/ Pair!Ahead(Pair!Mate(p))
  BY <1>2, ViewNow
<1> QED
  BY <1>7, <1>9, <1>10, <1>11 DEF Pair!Lead, Gens, RootKeys, HasCandidate, HasAck

LEMMA CatchUpStep ==
    ASSUME IInv, NEW p \in Peers, NEW k \in net[p], Follow(p, k)
    PROVE  Pair!CatchUp(p)
<1> DEFINE s == peer[p]
           q == Other(p)
           u(hint) == [CounterNoted(ratchet_on_epoch_advance(s, hint), k.ad)
                          EXCEPT !.send_counter = 0]
<1>1. /\ s \in PeerStates /\ peer[q] \in PeerStates
      /\ PairOK(s, peer[q], fec[p], fec[q], net[p], net[q])
  BY PairOfIInv
<1>2. PICK hint \in FreshHints(s) :
         /\ Opens(k, chain_key(ratchet_on_epoch_advance(s, hint).RK))
         /\ Collect(p, u(hint), fec_rx_clear, k.ad)
  BY DEF Follow
<1> DEFINE r == Ratcheted(s, hint)
           n == CounterNoted(r, k.ad)
           v == [n EXCEPT !.send_counter = 0]
           t == CandidateLearned(v, SymbolAdded(fec_rx_clear, k.ad))
<1>3. /\ READY \in s.ratchet_flags
      /\ Opens(k, chain_key(r.RK))
      /\ Collect(p, v, fec_rx_clear, k.ad)
  BY <1>2 DEF Follow, ratchet_on_epoch_advance
<1>4. r \in PeerStates /\ k.ad \in Headers
  BY <1>1, RatchetedType, PairOfIInv DEF Packets
<1>5. /\ r.RK = kdf_rk(s.RK, ratchet_build_ikm(s))
      /\ r.ephemeral_current = s.ephemeral_candidate
      /\ READY \notin r.ratchet_flags /\ SAW \notin r.ratchet_flags
  BY DEF Ratcheted, ClearedFlags
<1> HIDE DEF r
<1>6. n \in PeerStates /\ CountersAside(n, r)
  BY <1>4, CounterNotedType, CounterNotedAside
<1> HIDE DEF n
<1>7. v \in PeerStates /\ CountersAside(v, n)
  <2>1. 0 \in Counters
    BY MeshAssumption DEF Counters
  <2>2. v \in PeerStates
    BY <1>6, <2>1 DEF PeerStates
  <2> QED
    BY <1>6, <2>2, SendCounterAside
<1> HIDE DEF v
<1>8. /\ v.RK = kdf_rk(s.RK, ratchet_build_ikm(s))
      /\ v.ephemeral_current = s.ephemeral_candidate
      /\ READY \notin v.ratchet_flags /\ SAW \notin v.ratchet_flags
  BY <1>5, <1>6, <1>7 DEF CountersAside
<1>9. peer' = [peer EXCEPT ![p] = t]
  BY <1>3, <1>8 DEF Collect
<1>10. /\ t.RK = v.RK /\ t.ephemeral_current = v.ephemeral_current
       /\ SAW \notin t.ratchet_flags
  BY <1>7, <1>8 DEF CandidateLearned, PeerStates, READY, ACK, SAW
<1> HIDE DEF t
<1>11. OneAhead(peer[q], s)
  <2>1. k.key.ck.rk = kdf_rk(s.RK, ratchet_build_ikm(s))
    BY <1>3, <1>5 DEF Opens, packet_key, chain_key
  <2>2. Len(k.key.ck.rk) = s.ephemeral_current.serial + 1
    BY <1>1, <2>1, KeyMaterialType DEF PairOK, EndOK, WellFormed
  <2>3. Len(k.key.ck.rk) <= peer[q].ephemeral_current.serial
    BY <1>1 DEF PairOK, EndOK, Sealed
  <2>4. /\ s.ephemeral_current.serial \in Nat
        /\ peer[q].ephemeral_current.serial \in Nat
    BY <1>1 DEF PeerStates, Keys
  <2> QED
    BY <1>1, <2>2, <2>3, <2>4 DEF PairOK, Linked, SameStep, OneAhead
<1>12. HasCandidate[p] /\ Pair!Ahead(Pair!Mate(p))
  BY <1>3, <1>11, ViewNow
<1>a. /\ t.ephemeral_current = peer[p].ephemeral_candidate
      /\ t.RK = kdf_rk(peer[p].RK, ratchet_build_ikm(peer[p]))
  BY <1>8, <1>10
<1>b. /\ Gens' = [Gens EXCEPT ![p] = @ + 1]
      /\ RootKeys' = [RootKeys EXCEPT ![p] = t.RK]
      /\ HasCandidate' = [HasCandidate EXCEPT ![p] = (READY \in t.ratchet_flags)]
      /\ HasAck' = [HasAck EXCEPT ![p] = (SAW \in t.ratchet_flags)]
      /\ Pair!Ahead(Pair!Mate(p)) => t.RK = RootKeys[Pair!Mate(p)]
  BY <1>9, <1>a, RatchetView
<1>13. RootKeys' = [RootKeys EXCEPT ![p] = RootKeys[Pair!Mate(p)]]
  BY <1>b, <1>12
<1>14. (SAW \in t.ratchet_flags) = FALSE
  BY <1>10
<1>15. HasAck' = [HasAck EXCEPT ![p] = FALSE]
  BY <1>b, <1>14, Zenon
<1>16. (READY \in t.ratchet_flags) \in BOOLEAN
  OBVIOUS
<1> QED
  BY <1>12, <1>b, <1>13, <1>15, <1>16 DEF Pair!CatchUp, Gens, RootKeys, HasCandidate, HasAck

-----------------------------------------------------------------------------
(* The handlers that keep their generation *)

\* Only the counters of p move.
LEMMA CountersHear ==
    ASSUME IInv, IInv', NEW p \in Peers, NEW t, peer' = [peer EXCEPT ![p] = t],
           CountersAside(t, peer[p])
    PROVE  Pair!Hear(p)
BY HearStep DEF CountersAside

LEMMA SendInEpochHear ==
    ASSUME IInv, IInv', NEW p \in Peers, SendInEpoch(p)
    PROVE  Pair!Hear(p)
<1> DEFINE s == peer[p]
           t == [s EXCEPT !.send_counter = NextCounter(s.send_counter)]
<1>1. CountersAside(t, s)
  BY PairOfIInv, SendCounterAside
<1>2. peer' = [peer EXCEPT ![p] = t]
  BY DEF SendInEpoch, Transmit
<1> HIDE DEF t
<1> QED
  BY <1>1, <1>2, CountersHear

LEMMA NotedHear ==
    ASSUME IInv, IInv', NEW p \in Peers, NEW k,
           FailOpen(p, k) \/ AcceptPrevious(p, k)
    PROVE  Pair!Hear(p)
<1> DEFINE t == CounterNoted(peer[p], k.ad)
<1>1. CountersAside(t, peer[p])
  BY PairOfIInv, CounterNotedAside
<1>2. peer' = [peer EXCEPT ![p] = t]
  BY DEF FailOpen, AcceptPrevious
<1> HIDE DEF t
<1> QED
  BY <1>1, <1>2, CountersHear

LEMMA AcceptCurrentHear ==
    ASSUME IInv, IInv', NEW p \in Peers, NEW k \in net[p], AcceptCurrent(p, k)
    PROVE  Pair!Hear(p)
<1> DEFINE s == peer[p]
           n == CounterNoted(s, k.ad)
           u == AckNoted(n, k.ad)
           t == IF READY \in u.ratchet_flags THEN u
                ELSE CandidateLearned(u, SymbolAdded(fec[p], k.ad))
<1>1. s \in PeerStates /\ k.ad \in Headers
  BY PairOfIInv DEF Packets
<1>2. n \in PeerStates /\ CountersAside(n, s)
  BY <1>1, CounterNotedType, CounterNotedAside
<1>3. peer' = [peer EXCEPT ![p] = t]
  BY DEF AcceptCurrent, Collect
<1> HIDE DEF n
<1>4. u \in PeerStates
  BY <1>1, <1>2, AckNotedType
<1>5. /\ u.RK = n.RK /\ u.ephemeral_current = n.ephemeral_current
      /\ n.ratchet_flags \subseteq u.ratchet_flags
  BY <1>2 DEF AckNoted, PeerStates
<1> HIDE DEF u
<1>6. /\ t.RK = u.RK /\ t.ephemeral_current = u.ephemeral_current
      /\ u.ratchet_flags \subseteq t.ratchet_flags
  BY <1>4 DEF CandidateLearned, PeerStates
<1> HIDE DEF t
<1> QED
  BY <1>2, <1>3, <1>5, <1>6, HearStep DEF CountersAside

-----------------------------------------------------------------------------
(* The refinement *)

LEMMA PairInitOfInit == Init => Pair!PairInit
<1> SUFFICES ASSUME Init PROVE Pair!PairInit
  OBVIOUS
<1>1. PICK hA, hB \in Hints \ {0} :
         peer = [p \in Peers |-> BootstrapState(p, IF p = 0 THEN hA ELSE hB)]
  BY DEF Init
<1>2. ASSUME NEW p \in Peers
      PROVE  /\ Generation(p) = 0
             /\ peer[p].RK = <<>>
             /\ peer[p].ratchet_flags = {}
  <2>1. peer[p] = BootstrapState(p, IF p = 0 THEN hA ELSE hB)
    BY <1>1
  <2> QED
    BY <2>1 DEF Generation, BootstrapState, StaticKey, PublicKey
<1>3. Pair!Nodes = Peers /\ 0 \in Peers
  BY DEF Pair!Nodes, Peers
<1>4. Gens = [p \in Peers |-> 0] /\ RootKeys \in [Peers -> {RootKeys[0]}]
  BY <1>2, <1>3 DEF Gens, RootKeys
<1>5. ASSUME NEW p \in Peers
      PROVE  /\ (READY \in peer[p].ratchet_flags) = FALSE
             /\ (SAW \in peer[p].ratchet_flags) = FALSE
  BY <1>2
<1>6. HasCandidate = [p \in Peers |-> FALSE] /\ HasAck = [p \in Peers |-> FALSE]
  BY <1>5, Zenon DEF HasCandidate, HasAck
<1> QED
  BY <1>3, <1>4, <1>6 DEF Pair!PairInit, Gens, RootKeys, HasCandidate, HasAck

\* Every step of Spec is a step of RatchetPair, or hidden from it.
LEMMA PairNextOfNext ==
    ASSUME IInv, IInv', [Next]_vars
    PROVE  [Pair!PairNext]_(Pair!pairVars)
<1>n. Pair!Nodes = Peers
  BY DEF Pair!Nodes, Peers
<1>h. peer' = peer => UNCHANGED Pair!pairVars
  BY DEF Pair!pairVars, Generation
<1>1. CASE UNCHANGED vars
  BY <1>1, <1>h DEF vars
<1>2. ASSUME NEW p \in Peers, SendInEpoch(p) PROVE Pair!PairNext
  BY <1>2, <1>n, SendInEpochHear DEF Pair!PairNext
<1>3. ASSUME NEW p \in Peers, SendAsFirstMover(p) PROVE Pair!PairNext
  BY <1>3, <1>n, LeadStep DEF Pair!PairNext
<1>4. ASSUME NEW p \in Peers, NEW k \in net[p], Deliver(p, k)
      PROVE  Pair!PairNext \/ UNCHANGED Pair!pairVars
  <2>1. CASE RejectEpoch(p, k) \/ RejectOld(p, k) \/ FailTrial(p, k)
    BY <1>h, <2>1 DEF RejectEpoch, RejectOld, FailTrial
  <2>2. CASE FailOpen(p, k) \/ AcceptPrevious(p, k)
    BY <1>n, <2>2, NotedHear DEF Pair!PairNext
  <2>3. CASE AcceptCurrent(p, k)
    BY <1>n, <2>3, AcceptCurrentHear DEF Pair!PairNext
  <2>4. CASE Follow(p, k)
    BY <1>n, <2>4, CatchUpStep DEF Pair!PairNext
  <2> QED
    BY <1>4, <2>1, <2>2, <2>3, <2>4 DEF Deliver, Receive
<1>5. ASSUME NEW p \in Peers, NEW k \in net[p], Damage(p, k)
      PROVE  UNCHANGED Pair!pairVars
  BY <1>5, <1>h DEF Damage
<1> QED
  BY <1>1, <1>2, <1>3, <1>4, <1>5 DEF Next

\* Packets, counters, hints and fountain code implement the ratchet: over a link
\* that loses, repeats, reorders and damages what the other end sends, the two
\* peers behave as RatchetPair.
THEOREM Refinement == Spec => ImplementsRatchetPair
<1>1. Init => Pair!PairInit
  BY PairInitOfInit
<1>2. IInv /\ IInv' /\ [Next]_vars => [Pair!PairNext]_(Pair!pairVars)
  BY PairNextOfNext
<1> QED
  BY <1>1, <1>2, Invariance, PTL DEF Spec, ImplementsRatchetPair, Pair!PairSpec
=============================================================================
