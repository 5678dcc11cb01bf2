----------------------- MODULE MeshCryptoCounterProofs -----------------------
(***************************************************************************)
(* What the three counters of a PeerState are for: the send counter makes  *)
(* every packet key a new one, the two receive counters bound replay.      *)
(* Both proofs follow the counters of the packets on the air through the   *)
(* ratchet steps of their sender and their receiver.                       *)
(***************************************************************************)
EXTENDS MeshCryptoReplay, MeshCryptoSafetyProofs

-----------------------------------------------------------------------------
(* No packet key seals twice *)

\* If k, sealed by r, is of the step r is in, it has a counter r has used.
SealedBy(k, r) ==
    Len(k.key.ck.rk) = r.ephemeral_current.serial => k.key.ad.counter < r.send_counter

SealInv == \A p \in Peers : \A k \in net[p] : SealedBy(k, peer[Other(p)])

\* A packet of the present or past of r stays one as r moves on.
LEMMA SealedByStays ==
    ASSUME NEW r \in PeerStates, NEW s, NEW k \in Packets, NEW t,
           Sealed(k, s, r), SealedBy(k, r),
           Receives(t, r) \/ StepsOn(t, r)
    PROVE  SealedBy(k, t)
<1>1. Len(k.key.ck.rk) \in Nat /\ r.ephemeral_current.serial \in Nat
  BY DEF Packets, ChainKeys, PeerStates, Keys
<1>2. Len(k.key.ck.rk) <= r.ephemeral_current.serial
  BY DEF Sealed
<1> QED
  BY <1>1, <1>2 DEF SealedBy, Stays, Receives, StepsOn

\* The packet that s seals is none of those p has sealed before.
LEMMA PacketIsNew ==
    ASSUME IInv, SealInv, NEW p \in Peers, NEW s \in PeerStates, WellFormed(s),
           s.peer_id = p,
           s = peer[p] \/ StepsOn(s, peer[p]),
           NEW o \in net[Other(p)]
    PROVE  o.key # Packet(s).key
<1> DEFINE q == Other(p)
<1>1. /\ peer[p] \in PeerStates /\ peer[p].peer_id = p
      /\ q \in Peers /\ Other(q) = p
      /\ o \in Packets
      /\ Sealed(o, peer[q], peer[p])
  BY PairOfIInv DEF PairOK, EndOK, IInv
<1>2. /\ Packet(s).key.ck.rk = s.RK
      /\ Packet(s).key.ad.counter = s.send_counter
  BY DEF Packet, packet_key, chain_key, OnAir, Header
<1>3. /\ Len(o.key.ck.rk) \in Nat /\ o.key.ad.counter \in Int
      /\ Len(s.RK) = s.ephemeral_current.serial
      /\ peer[p].ephemeral_current.serial \in Nat
      /\ s.send_counter \in Int
  <2>1. Len(o.key.ck.rk) \in Nat /\ o.key.ad.counter \in Int
    BY <1>1 DEF Packets, SealedHeaders, ChainKeys, Counters
  <2>2. Len(s.RK) = s.ephemeral_current.serial
    BY DEF WellFormed
  <2>3. peer[p].ephemeral_current.serial \in Nat
    BY <1>1 DEF PeerStates, Keys
  <2>4. s.send_counter \in Int
    BY DEF PeerStates, Counters
  <2> QED
    BY <2>1, <2>2, <2>3, <2>4
<1>4. Len(o.key.ck.rk) <= peer[p].ephemeral_current.serial
  BY <1>1 DEF Sealed
<1>5. SealedBy(o, peer[p])
  BY <1>1 DEF SealInv
<1>6. SUFFICES ASSUME o.key = Packet(s).key PROVE FALSE
  OBVIOUS
<1>7. o.key.ck.rk = s.RK /\ o.key.ad.counter = s.send_counter
  BY <1>2, <1>6
<1>8. CASE s = peer[p]
  BY <1>3, <1>5, <1>7, <1>8 DEF SealedBy
<1>9. CASE StepsOn(s, peer[p])
  BY <1>3, <1>4, <1>7, <1>9 DEF StepsOn
<1> QED
  BY <1>8, <1>9

\* Sealing a packet with state s, which p is in or steps to, and counting it.
LEMMA TransmitSeals ==
    ASSUME IInv, SealInv, MaxCounter < CounterMod, NEW p \in Peers,
           NEW s \in PeerStates, WellFormed(s), s.peer_id = p,
           s = peer[p] \/ StepsOn(s, peer[p]),
           Transmit(p, s)
    PROVE  SealInv'
<1> DEFINE q == Other(p)
           t == [s EXCEPT !.send_counter = NextCounter(s.send_counter)]
<1>1. /\ q \in Peers /\ q # p /\ Other(q) = p
      /\ peer[p] \in PeerStates /\ peer[q] \in PeerStates
      /\ net[p] \in SUBSET Packets /\ net[q] \in SUBSET Packets
      /\ \A k \in net[q] : Sealed(k, peer[q], peer[p])
      /\ \A x \in Peers : x = p \/ x = q
  BY PairOfIInv DEF PairOK, EndOK, Other, Peers
<1>2. /\ peer'[p] = t /\ peer'[q] = peer[q]
      /\ net'[p] = net[p] /\ net'[q] = net[q] \cup {Packet(s)}
  BY <1>1 DEF Transmit, IInv, TypeOK
<1>3. /\ t.peer_id = s.peer_id /\ t.ephemeral_current = s.ephemeral_current
      /\ t.send_counter = s.send_counter + 1
  <2>1. s.send_counter \in 0 .. MaxCounter - 1
    BY MeshAssumption DEF Transmit, PeerStates, Counters
  <2>2. NextCounter(s.send_counter) = s.send_counter + 1
    BY <2>1, MeshAssumption DEF NextCounter
  <2> QED
    BY <2>2 DEF PeerStates
<1> HIDE DEF t, q
<1>4. s.send_counter \in Int
  BY DEF PeerStates, Counters
<1>5. ASSUME NEW k \in net[q] PROVE SealedBy(k, t)
  <2>1. Sealed(k, peer[q], peer[p]) /\ SealedBy(k, peer[p]) /\ k \in Packets
    BY <1>1 DEF SealInv
  <2>2. k.key.ad.counter \in Int
    BY <2>1 DEF Packets, SealedHeaders, Counters
  <2>3. SealedBy(k, s)
    BY <1>1, <2>1, SealedByStays
  <2> QED
    BY <1>3, <1>4, <2>2, <2>3 DEF SealedBy
<1>6. SealedBy(Packet(s), t)
  <2>1. Packet(s).key.ad.counter = s.send_counter
    BY DEF Packet, packet_key, OnAir, Header
  <2> QED
    BY <1>3, <1>4, <2>1 DEF SealedBy
<1>7. ASSUME NEW k \in net'[q] PROVE SealedBy(k, peer'[p])
  BY <1>2, <1>5, <1>6
<1>8. ASSUME NEW k \in net'[p] PROVE SealedBy(k, peer'[q])
  BY <1>1, <1>2 DEF SealInv, q
<1> QED
  BY <1>1, <1>7, <1>8 DEF SealInv, q

LEMMA DeliverSeals ==
    ASSUME IInv, SealInv, NEW p \in Peers, NEW k \in net[p], Deliver(p, k)
    PROVE  SealInv'
<1> DEFINE q == Other(p)
<1>1. /\ q \in Peers /\ Other(q) = p
      /\ peer[p] \in PeerStates /\ peer[q] \in PeerStates
      /\ net[q] \in SUBSET Packets
      /\ \A o \in net[q] : Sealed(o, peer[q], peer[p])
      /\ \A x \in Peers : x = p \/ x = q
  BY PairOfIInv DEF PairOK, EndOK, Other, Peers
<1>2. net' = net /\ peer'[q] = peer[q]
  BY ReceiveMoves DEF Deliver
<1>3. Receives(peer'[p], peer[p]) \/ StepsOn(peer'[p], peer[p])
  BY ReceiveMoves DEF Deliver
<1> HIDE DEF q
<1>4. ASSUME NEW o \in net[q] PROVE SealedBy(o, peer'[p])
  <2>1. SealedBy(o, peer[p]) /\ Sealed(o, peer[q], peer[p]) /\ o \in Packets
    BY <1>1 DEF SealInv
  <2> QED
    BY <1>1, <1>3, <2>1, SealedByStays
<1>5. ASSUME NEW o \in net[p] PROVE SealedBy(o, peer'[q])
  BY <1>2 DEF SealInv, q
<1> QED
  BY <1>1, <1>2, <1>4, <1>5 DEF SealInv, q

LEMMA DamageSeals ==
    ASSUME IInv, SealInv, NEW p \in Peers, NEW k \in net[p], Damage(p, k)
    PROVE  SealInv'
<1>1. PICK epoch \in WireEpochs, counter \in Counters, ack \in BOOLEAN :
         net' = [net EXCEPT ![p] = @ \cup
             {[ad |-> Garbled(k.ad, epoch, counter, ack), key |-> k.key, noisy |-> TRUE]}]
  BY DEF Damage
<1> DEFINE d == [ad |-> Garbled(k.ad, epoch, counter, ack), key |-> k.key, noisy |-> TRUE]
<1>2. peer' = peer /\ \A x \in Peers : net'[x] = net[x] \/ (x = p /\ net'[x] = net[x] \cup {d})
  BY <1>1 DEF Damage, IInv, TypeOK
<1>3. d.key = k.key
  OBVIOUS
<1> HIDE DEF d
<1>4. SealedBy(d, peer[Other(p)])
  BY <1>3 DEF SealInv, SealedBy
<1> QED
  BY <1>2, <1>4 DEF SealInv

LEMMA NextSealInv ==
    ASSUME MaxCounter < CounterMod
    PROVE  IInv /\ SealInv /\ [Next]_vars => SealInv'
<1> SUFFICES ASSUME IInv, SealInv, [Next]_vars PROVE SealInv'
  OBVIOUS
<1>1. CASE UNCHANGED vars
  <2>1. peer' = peer /\ net' = net
    BY <1>1 DEF vars
  <2> QED
    BY <2>1 DEF SealInv
<1>2. ASSUME NEW p \in Peers, SendInEpoch(p) \/ SendAsFirstMover(p) PROVE SealInv'
  BY <1>2, SendersState, TransmitSeals
<1> QED
  BY <1>1, <1>2, DeliverSeals, DamageSeals DEF Next

\* What a step of encrypt_packet adds to the air is new there.
LEMMA SealsFreshKey ==
    ASSUME IInv, SealInv, NEW p \in Peers, SendInEpoch(p) \/ SendAsFirstMover(p)
    PROVE  \E k \in net'[Other(p)] : \A o \in net[Other(p)] : o.key # k.key
<1>1. PICK s \in PeerStates :
         /\ WellFormed(s) /\ s.peer_id = p
         /\ s = peer[p] \/ StepsOn(s, peer[p])
         /\ Transmit(p, s)
  BY SendersState
<1>2. Packet(s) \in net'[Other(p)]
  BY <1>1, PairOfIInv DEF Transmit, IInv, TypeOK
<1>3. \A o \in net[Other(p)] : o.key # Packet(s).key
  BY <1>1, PacketIsNew
<1> QED
  BY <1>2, <1>3

\* As long as no counter wraps, no node seals two of its packets under one key
\* in encrypt_packet, whatever the link loses, repeats or reorders.
THEOREM KeysAreFresh ==
    ASSUME MaxCounter < CounterMod
    PROVE  Spec => KeyPerPacketIsFresh
<1>1. Init => SealInv
  BY DEF Init, SealInv
<1>2. IInv /\ SealInv /\ [Next]_vars => SealInv'
  BY NextSealInv
<1>3. IInv /\ SealInv =>
         [\A p \in Peers :
             SendInEpoch(p) \/ SendAsFirstMover(p) =>
                \E k \in net'[Other(p)] : \A o \in net[Other(p)] : o.key # k.key]_vars
  BY SealsFreshKey
<1> QED
  BY <1>1, <1>2, <1>3, Invariance, PTL DEF Spec, KeyPerPacketIsFresh

-----------------------------------------------------------------------------
(* The window bounds replay *)

LEMMA ReplayNextIsNext == ReplayNext => Next
BY DEF ReplayNext, Returns, Refuses, Transmits, Next, Deliver, Receive

\* Every behaviour with the history of returned packets is one of the two peers
\* and their link, so that what is proved of Spec holds beside the history.
THEOREM HistoryOnly == ReplaySpec => Spec
<1>1. ReplayInit => Init
  BY DEF ReplayInit
<1>2. [ReplayNext]_replayVars => [Next]_vars
  BY ReplayNextIsNext DEF replayVars, vars
<1> QED
  BY <1>1, <1>2, PTL DEF ReplaySpec, Spec

\* k, which has been returned to s, has moved the counter of its generation.
CountedBy(k, s) ==
    LET generation == Len(k.key.ck.rk)
    IN  /\ generation <= s.ephemeral_current.serial
        /\ generation = s.ephemeral_current.serial => k.ad.counter <= s.recv_counter_curr
        /\ generation + 1 = s.ephemeral_current.serial => k.ad.counter <= s.recv_counter_prev

ReplayInv ==
    /\ accepted \in [Peers -> SUBSET Packets]
    /\ \A p \in Peers : accepted[p] \subseteq net[p]
    /\ \A p \in Peers : \A k \in accepted[p] : CountedBy(k, peer[p])

\* What was counted stays counted, also when a ratchet step makes the counter of
\* the present that of the past.
LEMMA CountedByStays ==
    ASSUME NEW s \in PeerStates, NEW t \in PeerStates, NEW k \in Packets,
           CountedBy(k, s), Stays(t, s) \/ StepsOn(t, s)
    PROVE  CountedBy(k, t)
<1>1. /\ Len(k.key.ck.rk) \in Nat /\ k.ad.counter \in Int
      /\ s.ephemeral_current.serial \in Nat
  <2>1. k.key.ck.rk \in Seq(KeyMaterial) /\ k.ad.counter \in Counters
    BY DEF Packets, Headers, ChainKeys
  <2>2. s.ephemeral_current \in Keys
    BY DEF PeerStates
  <2> QED
    BY <2>1, <2>2 DEF Counters, Keys
<1>2. /\ s.recv_counter_curr \in Int /\ s.recv_counter_prev \in Int
      /\ t.recv_counter_curr \in Int /\ t.recv_counter_prev \in Int
  BY DEF PeerStates, Counters
<1>3. CASE Stays(t, s)
  BY <1>1, <1>2, <1>3 DEF CountedBy, Stays
<1>4. CASE StepsOn(t, s)
  <2> DEFINE generation == Len(k.key.ck.rk)
  <2>1. /\ generation <= s.ephemeral_current.serial
        /\ generation = s.ephemeral_current.serial => k.ad.counter <= s.recv_counter_curr
    BY DEF CountedBy
  <2>2. /\ t.ephemeral_current.serial = s.ephemeral_current.serial + 1
        /\ t.recv_counter_prev = s.recv_counter_curr
    BY <1>4 DEF StepsOn
  <2>3. generation \in Nat
    BY <1>1
  <2> HIDE DEF generation
  <2>4. /\ generation < t.ephemeral_current.serial
        /\ generation + 1 = t.ephemeral_current.serial => k.ad.counter <= t.recv_counter_prev
    BY <1>1, <2>1, <2>2, <2>3
  <2> QED
    BY <1>1, <2>2, <2>3, <2>4 DEF CountedBy, generation
<1> QED
  BY <1>3, <1>4

LEMMA ReturnsCounts ==
    ASSUME IInv, NEW p \in Peers, NEW k \in net[p], Returns(p, k), peer' \in [Peers -> PeerStates]
    PROVE  CountedBy(k, peer'[p])
<1> DEFINE s == peer[p]
<1>1. /\ GenerationOf(k) \in Nat /\ Generation(p) \in Nat
      /\ Opens(k, chain_key(s.RK)) => GenerationOf(k) = Generation(p)
      /\ Opens(k, s.CKr_prev) => GenerationOf(k) + 1 = Generation(p)
      /\ Opens(k, chain_key(kdf_rk(s.RK, ratchet_build_ikm(s)))) =>
            GenerationOf(k) = Generation(p) + 1
  BY OpensTells
<1>2. /\ GenerationOf(k) = Len(k.key.ck.rk)
      /\ Generation(p) = s.ephemeral_current.serial
  BY DEF GenerationOf, Generation
<1>3. CASE AcceptCurrent(p, k)
  <2>1. Opens(k, chain_key(s.RK))
    BY <1>3 DEF AcceptCurrent
  <2> QED
    BY <1>1, <1>2, <1>3, <2>1, AcceptCurrentMoves DEF Receives, Stays, CountedBy
<1>4. CASE AcceptPrevious(p, k)
  <2>1. Opens(k, s.CKr_prev)
    BY <1>4 DEF AcceptPrevious
  <2> QED
    BY <1>1, <1>2, <1>4, <2>1, AcceptPreviousMoves DEF Receives, Stays, CountedBy
<1>5. CASE Follow(p, k)
  <2>1. Opens(k, chain_key(kdf_rk(s.RK, ratchet_build_ikm(s))))
    BY <1>5 DEF Follow, ratchet_on_epoch_advance, Ratcheted
  <2> QED
    BY <1>1, <1>2, <1>5, <2>1, FollowMoves DEF StepsOn, CountedBy
<1> QED
  BY <1>3, <1>4, <1>5 DEF Returns

\* Every step keeps what was returned on the air and counted.
LEMMA NextReplayInv ==
    IInv /\ ReplayInv /\ [ReplayNext]_replayVars => ReplayInv'
<1> SUFFICES ASSUME IInv, ReplayInv, [ReplayNext]_replayVars PROVE ReplayInv'
  OBVIOUS
<1>1. CASE UNCHANGED replayVars
  <2>1. peer' = peer /\ net' = net /\ accepted' = accepted
    BY <1>1 DEF replayVars
  <2> QED
    BY <2>1 DEF ReplayInv
<1>2. ASSUME ReplayNext PROVE ReplayInv'
  <2>1. TypeOK'
    BY <1>2, ReplayNextIsNext, NextType DEF IInv
  <2>2. \A p \in Peers : net[p] \subseteq net'[p]
    BY <1>2 DEF ReplayNext, Transmits, SendInEpoch, SendAsFirstMover, Transmit, Returns,
                Refuses, Damage, IInv, TypeOK
  <2>3. \A p \in Peers :
           peer'[p] = peer[p] \/ Stays(peer'[p], peer[p]) \/ StepsOn(peer'[p], peer[p])
    <3>1. ASSUME NEW p \in Peers, SendInEpoch(p) \/ SendAsFirstMover(p)
          PROVE  /\ peer'[Other(p)] = peer[Other(p)]
                 /\ Stays(peer'[p], peer[p]) \/ StepsOn(peer'[p], peer[p])
      BY <3>1, TransmitMoves
    <3>2. ASSUME NEW p \in Peers, NEW k \in net[p], Receive(p, k)
          PROVE  /\ peer'[Other(p)] = peer[Other(p)]
                 /\ Stays(peer'[p], peer[p]) \/ StepsOn(peer'[p], peer[p])
      BY <3>2, ReceiveMoves DEF Receives
    <3>3. ASSUME NEW p \in Peers PROVE \A x \in Peers : x = p \/ x = Other(p)
      BY DEF Peers, Other
    <3> QED
      BY <1>2, <3>1, <3>2, <3>3
         DEF ReplayNext, Transmits, Returns, Refuses, Receive, Damage
  <2>4. ASSUME NEW p \in Peers, NEW k \in accepted[p] PROVE CountedBy(k, peer'[p])
    <3>1. /\ peer[p] \in PeerStates /\ peer'[p] \in PeerStates
          /\ k \in Packets /\ CountedBy(k, peer[p])
      BY <2>1 DEF ReplayInv, IInv, TypeOK
    <3> QED
      BY <2>3, <3>1, CountedByStays
  <2>5. CASE accepted' = accepted
    BY <2>2, <2>4, <2>5 DEF ReplayInv
  <2>6. ASSUME NEW p \in Peers, NEW k \in net[p], Returns(p, k) PROVE ReplayInv'
    <3>1. accepted' = [accepted EXCEPT ![p] = accepted[p] \cup {k}] /\ net' = net
      BY <2>6 DEF Returns
    <3>2. k \in Packets
      BY DEF IInv, TypeOK
    <3>3. CountedBy(k, peer'[p])
      BY <2>1, <2>6, ReturnsCounts DEF TypeOK
    <3> QED
      BY <2>4, <3>1, <3>2, <3>3 DEF ReplayInv
  <2> QED
    BY <1>2, <2>5, <2>6 DEF ReplayNext, Refuses, Transmits
<1> QED
  BY <1>1, <1>2

LEMMA ReplayInvBounds == IInv /\ ReplayInv => ReplayIsBounded
<1> SUFFICES ASSUME IInv, ReplayInv,
                    NEW p \in Peers, NEW k \in accepted[p], NEW newer \in accepted[p],
                    GenerationOf(newer) = GenerationOf(k),
                    newer.ad.counter > k.ad.counter + REPLAY_TOLERANCE,
                    WouldReturn(p, k)
             PROVE  FALSE
  BY DEF ReplayIsBounded
<1> DEFINE s == peer[p]
<1>1. /\ k \in net[p] /\ k \in Packets /\ newer \in Packets /\ s \in PeerStates
      /\ CountedBy(k, s) /\ CountedBy(newer, s)
  BY DEF ReplayInv, IInv, TypeOK
<1>2. /\ k.ad.counter \in Int /\ newer.ad.counter \in Int
      /\ s.recv_counter_curr \in Int /\ s.recv_counter_prev \in Int
      /\ REPLAY_TOLERANCE \in Int
  BY <1>1, MeshAssumption DEF Packets, Headers, PeerStates, Counters
<1>3. /\ GenerationOf(k) \in Nat /\ Generation(p) \in Nat
      /\ Opens(k, chain_key(s.RK)) => GenerationOf(k) = Generation(p)
      /\ Opens(k, s.CKr_prev) => GenerationOf(k) + 1 = Generation(p)
      /\ Opens(k, chain_key(kdf_rk(s.RK, ratchet_build_ikm(s)))) =>
            GenerationOf(k) = Generation(p) + 1
  BY <1>1, OpensTells
<1>4. /\ GenerationOf(k) <= Generation(p)
      /\ GenerationOf(k) = Generation(p) => newer.ad.counter <= s.recv_counter_curr
      /\ GenerationOf(k) + 1 = Generation(p) => newer.ad.counter <= s.recv_counter_prev
  BY <1>1 DEF CountedBy, GenerationOf, Generation
<1>5. CASE InCurrent(s, k.ad) /\ CounterAccepted(s, k.ad) /\ Opens(k, chain_key(s.RK))
  <2>1. InWindow(s.recv_counter_curr, k.ad.counter)
    BY <1>5 DEF InCurrent, CounterAccepted
  <2> QED
    BY <1>2, <1>3, <1>4, <1>5, <2>1 DEF InWindow
<1>6. CASE InPrevious(s, k.ad) /\ CounterAccepted(s, k.ad) /\ Opens(k, s.CKr_prev)
  <2>1. InWindow(s.recv_counter_prev, k.ad.counter)
    BY <1>6 DEF InPrevious, CounterAccepted
  <2> QED
    BY <1>2, <1>3, <1>4, <1>6, <2>1 DEF InWindow
<1>7. CASE Opens(k, chain_key(kdf_rk(s.RK, ratchet_build_ikm(s))))
  BY <1>3, <1>4, <1>7
<1> QED
  BY <1>5, <1>6, <1>7 DEF WouldReturn

\* Once a packet of a generation has been returned, one of that generation
\* further behind than the tolerance is refused for good, ratchet or not.
THEOREM ReplayBounded == ReplaySpec => []ReplayIsBounded
<1>1. ReplayInit => ReplayInv
  BY DEF ReplayInit, ReplayInv
<1>2. ReplaySpec => []IInv
  BY HistoryOnly, Invariance, PTL
<1> QED
  BY <1>1, <1>2, NextReplayInv, ReplayInvBounds, PTL DEF ReplaySpec
=============================================================================
