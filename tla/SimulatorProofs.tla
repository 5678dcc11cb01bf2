--------------------------- MODULE SimulatorProofs ---------------------------
(***************************************************************************)
(* The main loop never sees a packet fail.  The simulator's steps are not  *)
(* those of MeshCrypto (a decrypted packet leaves the air), but each keeps *)
(* the invariant IInv; what the loop adds is that at most one packet is    *)
(* under way, and that it is the last one its sender has sealed.           *)
(***************************************************************************)
EXTENDS Simulator, MeshCryptoSafetyProofs

\* k is under way to s; r, which has just sealed it, is in step with s or has
\* stepped on to seal it.
UnderWay(k, s, r) ==
    /\ OnAir(k.ad) = k.key.ad
    /\ k.key.ck = chain_key(r.RK)
    /\ k.ad.counter <= r.send_counter
    /\ \/ /\ SameStep(s, r)
          /\ s.recv_counter_curr <= k.ad.counter
          /\ r.recv_counter_curr <= s.send_counter
       \/ /\ OneAhead(r, s)
          /\ r.recv_counter_curr = 0

\* Between two rounds: nothing on the air, and nobody has noted a counter that
\* the other end has not reached.
Settled ==
    /\ \A p \in Peers : net[p] = {}
    /\ \A p \in Peers : SameStep(peer[p], peer[Other(p)])
    /\ \A p \in Peers : peer[p].recv_counter_curr <= peer[Other(p)].send_counter

\* Between encrypt_packet at q and decrypt_packet at the other end.
InRound(q) ==
    /\ net[q] = {}
    /\ \E k \in net[Other(q)] :
          /\ net[Other(q)] = {k}
          /\ UnderWay(k, peer[Other(q)], peer[q])

SimInv ==
    /\ IInv
    /\ rx_failed = [p \in Peers |-> FALSE]
    /\ stage \in {"loop", "decrypt"}
    /\ stage = "loop" => Settled
    /\ stage = "decrypt" => InRound(SenderOf(a_sends))

-----------------------------------------------------------------------------
(* The packet under way and its receiver *)

\* A packet under way is of its sender's present, header and key.
LEMMA UnderWayOpens ==
    ASSUME NEW s \in PeerStates, NEW r \in PeerStates, NEW f, NEW g,
           NEW N \in SUBSET Packets, NEW M, PairOK(s, r, f, g, N, M),
           NEW k \in N, UnderWay(k, s, r)
    PROVE  k.key = packet_key(chain_key(r.RK), k.ad) /\ k.ad.epoch = r.epoch
<1>1. k \in Packets /\ Sealed(k, s, r) /\ WellFormed(r)
  BY DEF PairOK, EndOK
<1>2. k.key.ck.rk = r.RK /\ Len(r.RK) = r.ephemeral_current.serial
  BY <1>1 DEF UnderWay, chain_key, WellFormed
<1>3. k.key = [ck |-> k.key.ck, ad |-> k.key.ad]
  BY <1>1 DEF Packets
<1>4. k.key.ad.epoch = k.ad.epoch
  BY <1>1 DEF UnderWay, OnAir, Packets, Headers
<1> QED
  BY <1>1, <1>2, <1>3, <1>4 DEF Sealed, UnderWay, packet_key

\* In step, decrypt_packet can only accept it under the current root key.
LEMMA UnderWayIsCurrent ==
    ASSUME IInv, NEW p \in Peers, NEW k \in net[p],
           UnderWay(k, peer[p], peer[Other(p)]), SameStep(peer[p], peer[Other(p)])
    PROVE  WouldReturn(p, k) /\ (Receive(p, k) => AcceptCurrent(p, k))
<1> DEFINE s == peer[p]
           r == peer[Other(p)]
<1>1. /\ s \in PeerStates /\ r \in PeerStates /\ net[p] \in SUBSET Packets
      /\ PairOK(s, r, fec[p], fec[Other(p)], net[p], net[Other(p)])
  BY PairOfIInv
<1>2. Opens(k, chain_key(s.RK)) /\ k.ad.epoch = s.epoch
  BY <1>1, UnderWayOpens DEF Opens, SameStep
<1>3. s.epoch \in Epochs /\ epoch_next(s.epoch) # s.epoch
  BY <1>1, EpochRing DEF PeerStates
<1>4. ~InNext(s, k.ad) /\ InCurrent(s, k.ad) /\ ~InPrevious(s, k.ad)
  BY <1>2, <1>3 DEF InNext, InCurrent, InPrevious
<1>5. CounterAccepted(s, k.ad)
  <2>1. s.recv_counter_curr <= k.ad.counter
    <3>1. ~OneAhead(r, s)
      BY <1>1 DEF SameStep, OneAhead, PeerStates, Keys
    <3> QED
      BY <3>1 DEF UnderWay
  <2>2. s.recv_counter_curr \in Int /\ k.ad.counter \in Int /\ REPLAY_TOLERANCE \in Nat
    BY <1>1, MeshAssumption DEF PeerStates, Counters, Packets, Headers
  <2> QED
    BY <1>2, <2>1, <2>2 DEF CounterAccepted, InWindow
<1>6. k.ad.epoch # EPOCH_RESERVED_MAX
  BY <1>2, <1>3, EpochAssumption DEF Epochs, EPOCH_BOOTSTRAP, EPOCH_RESERVED_MAX
<1>7. WouldReturn(p, k)
  BY <1>2, <1>4, <1>5 DEF WouldReturn
<1>8. ASSUME Receive(p, k) PROVE AcceptCurrent(p, k)
  BY <1>2, <1>4, <1>5, <1>6, <1>8
     DEF Receive, RejectEpoch, RejectOld, FailOpen, FailTrial, AcceptPrevious, Follow
<1> QED
  BY <1>7, <1>8

\* One step behind, it can only follow; there is always a fresh first byte for
\* the next candidate, because the last two differed.
LEMMA UnderWayIsNext ==
    ASSUME IInv, NEW p \in Peers, NEW k \in net[p],
           UnderWay(k, peer[p], peer[Other(p)]), OneAhead(peer[Other(p)], peer[p])
    PROVE  WouldReturn(p, k) /\ (Receive(p, k) => Follow(p, k))
<1> DEFINE s == peer[p]
           r == peer[Other(p)]
<1>1. /\ s \in PeerStates /\ r \in PeerStates /\ net[p] \in SUBSET Packets
      /\ PairOK(s, r, fec[p], fec[Other(p)], net[p], net[Other(p)])
      /\ WellFormed(s)
  BY PairOfIInv DEF PairOK, EndOK
<1>2. /\ Opens(k, chain_key(kdf_rk(s.RK, ratchet_build_ikm(s))))
      /\ k.ad.epoch = epoch_next(s.epoch)
      /\ READY \in s.ratchet_flags
  BY <1>1, UnderWayOpens DEF Opens, OneAhead
<1>3. s.epoch \in Epochs /\ epoch_next(s.epoch) \in Epochs
  BY <1>1, EpochRing DEF PeerStates
<1>4. InNext(s, k.ad) /\ ~InCurrent(s, k.ad) /\ ~InPrevious(s, k.ad)
  BY <1>2 DEF InNext, InCurrent, InPrevious
<1>5. k.ad.epoch # EPOCH_RESERVED_MAX
  BY <1>2, <1>3, EpochAssumption DEF Epochs, EPOCH_BOOTSTRAP, EPOCH_RESERVED_MAX
<1>6. FreshHints(s) # {}
  <2>1. /\ compute_hint(s.ephemeral_current) \in Hints
        /\ compute_hint(s.ephemeral_current) # compute_hint(s.ephemeral_candidate)
    BY <1>1 DEF WellFormed, PeerStates, Keys, compute_hint
  <2> QED
    BY <2>1 DEF FreshHints
<1>7. \A hint : ratchet_on_epoch_advance(s, hint).RK = kdf_rk(s.RK, ratchet_build_ikm(s))
  BY DEF ratchet_on_epoch_advance, Ratcheted
<1>8. ~FailTrial(p, k)
  BY <1>2, <1>6, <1>7 DEF FailTrial
<1>9. WouldReturn(p, k)
  BY <1>2, <1>4 DEF WouldReturn
<1>10. ASSUME Receive(p, k) PROVE Follow(p, k)
  BY <1>2, <1>4, <1>5, <1>8, <1>10
     DEF Receive, RejectEpoch, RejectOld, FailOpen, AcceptCurrent, AcceptPrevious
<1> QED
  BY <1>9, <1>10

-----------------------------------------------------------------------------
(* Two linked peers, by the serials of their keys *)

LEMMA LinkedLater ==
    ASSUME IInv', NEW p \in Peers
    PROVE  Linked(peer'[p], peer'[Other(p)])
BY DEF IInv, Linked, SameStep, Other, Peers

LEMMA EqualSerials ==
    ASSUME NEW s, NEW r, Linked(s, r), s.ephemeral_current.serial \in Nat,
           s.ephemeral_current.serial = r.ephemeral_current.serial
    PROVE  SameStep(s, r) /\ SameStep(r, s)
BY DEF Linked, SameStep, OneAhead

-----------------------------------------------------------------------------
(* One lemma per step of the loop *)

\* No counter wraps within the bounds.
LEMMA NextCounterIsNext ==
    ASSUME MaxCounter < CounterMod, NEW c \in 0 .. MaxCounter - 1
    PROVE  NextCounter(c) = c + 1
BY MeshAssumption DEF NextCounter

LEMMA SenderOfType ==
    ASSUME NEW direction
    PROVE  SenderOf(direction) \in Peers
BY DEF SenderOf, Peers

\* t is s once it has counted the packet it sealed.
CountsOne(t, s) ==
    /\ CountersAside(t, s)
    /\ t.send_counter = s.send_counter + 1
    /\ t.recv_counter_curr = s.recv_counter_curr

\* q seals with its own state or with the one it steps to; the packet is then
\* the only one on the air.
Seals(q) ==
    \E s \in PeerStates :
       /\ WellFormed(s)
       /\ \/ s = peer[q] /\ SendInEpoch(q)
          \/ /\ StepsOn(s, peer[q]) /\ SendAsFirstMover(q)
             /\ s.recv_counter_curr = 0 /\ s.send_counter = 0
             /\ s.ratchet_flags = {}
       /\ CountsOne(peer'[q], s) /\ peer'[Other(q)] = peer[Other(q)]
       /\ net'[q] = {} /\ net'[Other(q)] = {Packet(s)}

LEMMA EncryptMoves ==
    ASSUME MaxCounter < CounterMod, SimInv, NEW direction, Encrypt(direction),
           NEW q \in Peers, q = SenderOf(direction)
    PROVE  Seals(q)
<1> DEFINE p == Other(q)
<1>1. p \in Peers /\ p # q /\ net[p] = {} /\ net[q] = {}
  BY PairOfIInv DEF SimInv, Encrypt, Settled
<1>2. PICK s \in PeerStates :
         /\ WellFormed(s)
         /\ \/ s = peer[q] /\ SendInEpoch(q)
            \/ /\ StepsOn(s, peer[q]) /\ SendAsFirstMover(q)
               /\ s.recv_counter_curr = 0 /\ s.send_counter = 0
               /\ s.ratchet_flags = {}
         /\ Transmit(q, s)
  BY SendersState DEF SimInv, Encrypt
<1> DEFINE t == [s EXCEPT !.send_counter = NextCounter(s.send_counter)]
<1>3. peer'[q] = t /\ peer'[p] = peer[p] /\ net'[q] = {} /\ net'[p] = {Packet(s)}
  BY <1>1, <1>2 DEF Transmit, SimInv, IInv, TypeOK
<1>4. CountsOne(t, s)
  <2>1. s.send_counter \in 0 .. MaxCounter - 1
    BY <1>2, MeshAssumption DEF Transmit, PeerStates, Counters
  <2>2. NextCounter(s.send_counter) = s.send_counter + 1
    BY <2>1, NextCounterIsNext
  <2>3. t.send_counter = s.send_counter + 1 /\ t.recv_counter_curr = s.recv_counter_curr
    BY <1>2, <2>2 DEF PeerStates
  <2> QED
    BY <1>2, <2>3, SendCounterAside DEF CountsOne
<1> HIDE DEF t
<1> QED
  BY <1>2, <1>3, <1>4 DEF Seals

\* A first mover is one step ahead of the receiver, which has not moved.
LEMMA FirstMoverLeads ==
    ASSUME IInv', NEW q \in Peers, NEW s, NEW r \in PeerStates,
           peer'[Other(q)] = r, SameStep(r, peer[q]),
           StepsOn(s, peer[q]), CountsOne(peer'[q], s)
    PROVE  OneAhead(peer'[q], r)
<1>1. peer'[q].ephemeral_current.serial = r.ephemeral_current.serial + 1
  BY DEF StepsOn, SameStep, CountsOne, CountersAside
<1>2. Linked(peer'[q], r)
  BY LinkedLater
<1>3. r.ephemeral_current.serial \in Nat
  BY DEF PeerStates, Keys
<1> QED
  BY <1>1, <1>2, <1>3 DEF Linked, SameStep, OneAhead

LEMMA EncryptSimInv ==
    ASSUME MaxCounter < CounterMod, SimInv, NEW direction, Encrypt(direction)
    PROVE  SimInv'
<1> DEFINE q == SenderOf(direction)
           p == Other(q)
<1>1. /\ q \in Peers /\ p \in Peers /\ p # q /\ Other(p) = q
      /\ peer[p] \in PeerStates
  BY SenderOfType, PairOfIInv DEF SimInv
<1>2. /\ SameStep(peer[p], peer[q])
      /\ peer[p].recv_counter_curr <= peer[q].send_counter
      /\ peer[q].recv_counter_curr <= peer[p].send_counter
  BY <1>1 DEF SimInv, Encrypt, Settled
<1>3. a_sends' = direction /\ stage' = "decrypt" /\ rx_failed' = rx_failed
  BY DEF Encrypt
<1>4. SendInEpoch(q) \/ SendAsFirstMover(q)
  BY DEF Encrypt
<1> HIDE DEF q
<1>5. IInv'
  BY <1>1, <1>4, NextIInv DEF SimInv, Next
<1>6. PICK s \in PeerStates :
         /\ WellFormed(s)
         /\ \/ s = peer[q]
            \/ StepsOn(s, peer[q]) /\ s.recv_counter_curr = 0
         /\ CountsOne(peer'[q], s) /\ peer'[p] = peer[p]
         /\ net'[q] = {} /\ net'[p] = {Packet(s)}
  <2>1. Seals(q)
    BY <1>1, EncryptMoves DEF q
  <2> QED
    BY <2>1 DEF Seals
<1> DEFINE k == Packet(s)
<1>7. OnAir(k.ad) = k.key.ad /\ k.key.ck = chain_key(s.RK) /\ k.ad.counter = s.send_counter
  BY DEF Packet, packet_key, Header
<1>8. s.send_counter <= peer'[q].send_counter
  BY <1>6, MeshAssumption DEF CountsOne, PeerStates, Counters
<1> HIDE DEF k
<1>9. UnderWay(k, peer'[p], peer'[q])
  <2>1. CASE s = peer[q]
    BY <1>2, <1>6, <1>7, <1>8, <2>1 DEF UnderWay, SameStep, CountsOne, CountersAside
  <2>2. CASE StepsOn(s, peer[q]) /\ s.recv_counter_curr = 0
    <3>1. OneAhead(peer'[q], peer'[p])
      BY <1>1, <1>2, <1>5, <1>6, <2>2, FirstMoverLeads
    <3> QED
      BY <1>6, <1>7, <1>8, <2>2, <3>1 DEF UnderWay, CountsOne, CountersAside
  <2> QED
    BY <1>6, <2>1, <2>2
<1>10. InRound(q)'
  BY <1>6, <1>9 DEF InRound, k
<1> QED
  BY <1>3, <1>5, <1>10 DEF SimInv, q

\* The packet under way is accepted or followed.
LEMMA DecryptMoves ==
    ASSUME SimInv, Decrypt, NEW q \in Peers, q = SenderOf(a_sends)
    PROVE  \E k \in net[Other(q)] :
              /\ UnderWay(k, peer[Other(q)], peer[q])
              /\ \/ SameStep(peer[Other(q)], peer[q]) /\ AcceptCurrent(Other(q), k)
                 \/ OneAhead(peer[q], peer[Other(q)]) /\ Follow(Other(q), k)
              /\ WouldReturn(Other(q), k)
              /\ net' = [net EXCEPT ![Other(q)] = {}]
              /\ rx_failed' = [rx_failed EXCEPT ![Other(q)] =
                                  rx_failed[Other(q)] \/ ~WouldReturn(Other(q), k)]
              /\ peer'[q] = peer[q]
<1> DEFINE p == Other(q)
<1>1. p \in Peers /\ Other(p) = q
  BY PairOfIInv DEF SimInv
<1>2. \E k \in net[p] : net[p] = {k} /\ UnderWay(k, peer[p], peer[q])
  BY <1>1 DEF SimInv, Decrypt, InRound
<1>3. PICK k \in net[p] :
         /\ Receive(p, k)
         /\ net' = [net EXCEPT ![p] = {}]
         /\ rx_failed' = [rx_failed EXCEPT ![p] = rx_failed[p] \/ ~WouldReturn(p, k)]
  BY DEF Decrypt
<1>4. UnderWay(k, peer[p], peer[q])
  BY <1>2
<1> HIDE DEF p
<1>5. \/ SameStep(peer[p], peer[q]) /\ AcceptCurrent(p, k)
      \/ OneAhead(peer[q], peer[p]) /\ Follow(p, k)
  BY <1>1, <1>3, <1>4, UnderWayIsCurrent, UnderWayIsNext DEF UnderWay, SimInv
<1>6. WouldReturn(p, k)
  BY <1>1, <1>4, UnderWayIsCurrent, UnderWayIsNext DEF UnderWay, SimInv
<1>7. peer'[q] = peer[q]
  BY <1>1, <1>3, ReceiveMoves DEF SimInv
<1> QED
  BY <1>3, <1>4, <1>5, <1>6, <1>7 DEF p

LEMMA DecryptSimInv ==
    ASSUME SimInv, Decrypt
    PROVE  SimInv'
<1> DEFINE q == SenderOf(a_sends)
           p == Other(q)
<1>1. /\ q \in Peers /\ p \in Peers /\ p # q /\ Other(p) = q
      /\ peer[q] \in PeerStates /\ peer[p] \in PeerStates
      /\ net[p] \in SUBSET Packets
      /\ \A x \in Peers : x = p \/ x = q
  BY SenderOfType, PairOfIInv DEF SimInv, Other, Peers
<1>2. net[q] = {}
  BY <1>1 DEF SimInv, Decrypt, InRound
<1>3. PICK k \in net[p] :
         /\ UnderWay(k, peer[p], peer[q])
         /\ \/ SameStep(peer[p], peer[q]) /\ AcceptCurrent(p, k)
            \/ OneAhead(peer[q], peer[p]) /\ Follow(p, k)
         /\ WouldReturn(p, k)
         /\ net' = [net EXCEPT ![p] = {}]
         /\ rx_failed' = [rx_failed EXCEPT ![p] = rx_failed[p] \/ ~WouldReturn(p, k)]
         /\ peer'[q] = peer[q]
  BY <1>1, DecryptMoves
<1>4. UnderWay(k, peer[p], peer[q])
  BY <1>3
<1>5. stage' = "loop" /\ damaged' = damaged
  BY DEF Decrypt
<1> HIDE DEF q
<1>6. /\ \/ SameStep(peer[p], peer[q]) /\ AcceptCurrent(p, k)
         \/ OneAhead(peer[q], peer[p]) /\ Follow(p, k)
      /\ WouldReturn(p, k)
  BY <1>3
<1>7. net'[p] = {} /\ net'[q] = {}
  BY <1>1, <1>2, <1>3 DEF SimInv, IInv, TypeOK
<1>8. TypeOK'
  <2>1. peer' \in [Peers -> PeerStates] /\ fec' \in [Peers -> FecRxStates]
    BY <1>1, <1>6, AcceptCurrentType, FollowType DEF SimInv, IInv
  <2> QED
    BY <1>3, <1>5, <2>1 DEF SimInv, IInv, TypeOK
<1>9. IInv'
  <2>1. \A x \in Peers : net'[x] \subseteq net[x]
    BY <1>1, <1>7
  <2> QED
    BY <1>1, <1>6, <1>8, <2>1, AcceptCurrentIInv, FollowIInv DEF SimInv
<1>10. peer'[q] = peer[q]
  BY <1>3
<1>11. /\ peer'[p].ephemeral_current.serial = peer'[q].ephemeral_current.serial
       /\ peer'[p].recv_counter_curr <= peer'[q].send_counter
       /\ peer'[q].recv_counter_curr <= peer'[p].send_counter
  <2>1. /\ peer[p].recv_counter_curr \in Nat /\ peer[q].send_counter \in Nat
        /\ k.ad.counter \in Nat /\ k.ad.counter <= peer[q].send_counter
        /\ peer[p].ephemeral_current.serial \in Nat
    <3>1. /\ peer[p].recv_counter_curr \in Nat /\ peer[q].send_counter \in Nat
          /\ peer[p].ephemeral_current.serial \in Nat
      <4>1. Counters \subseteq Nat
        BY MeshAssumption DEF Counters
      <4>2. peer[p].recv_counter_curr \in Counters
        BY <1>1 DEF PeerStates
      <4>3. peer[q].send_counter \in Counters
        BY <1>1 DEF PeerStates
      <4>4. peer[p].ephemeral_current \in Keys
        BY <1>1 DEF PeerStates
      <4>5. peer[p].ephemeral_current.serial \in Nat
        BY <4>4 DEF Keys
      <4> QED
        BY <4>1, <4>2, <4>3, <4>5
    <3>2. k.ad.counter \in Nat
      BY <1>1, MeshAssumption DEF Packets, Headers, Counters
    <3> QED
      BY <1>4, <3>1, <3>2 DEF UnderWay
  <2>2. CASE SameStep(peer[p], peer[q]) /\ AcceptCurrent(p, k)
    <3>1. /\ Receives(peer'[p], peer[p])
          /\ peer'[p].recv_counter_curr \in {peer[p].recv_counter_curr, k.ad.counter}
      BY <1>1, <2>2, AcceptCurrentMoves DEF SimInv
    <3>2. /\ peer[p].recv_counter_curr <= k.ad.counter
          /\ peer[q].recv_counter_curr <= peer[p].send_counter
      BY <1>4, <2>1, <2>2 DEF UnderWay, SameStep, OneAhead
    <3> QED
      BY <1>10, <2>1, <2>2, <3>1, <3>2 DEF Receives, Stays, SameStep
  <2>3. CASE OneAhead(peer[q], peer[p]) /\ Follow(p, k)
    <3>1. /\ StepsOn(peer'[p], peer[p])
          /\ peer'[p].recv_counter_curr \in {0, k.ad.counter}
          /\ peer'[p].send_counter = 0
      BY <1>1, <2>3, FollowMoves DEF SimInv
    <3>2. peer[q].recv_counter_curr = 0
      BY <1>4, <2>1, <2>3 DEF UnderWay, SameStep, OneAhead
    <3> QED
      BY <1>10, <2>1, <2>3, <3>1, <3>2 DEF StepsOn, OneAhead
  <2>4. \/ SameStep(peer[p], peer[q]) /\ AcceptCurrent(p, k)
        \/ OneAhead(peer[q], peer[p]) /\ Follow(p, k)
    BY <1>6
  <2> QED
    BY <2>2, <2>3, <2>4
<1>12. Settled'
  <2>1. Linked(peer'[p], peer'[q])
    BY <1>1, <1>9, LinkedLater
  <2>2. peer'[p].ephemeral_current.serial \in Nat
    BY <1>1, <1>8 DEF TypeOK, PeerStates, Keys
  <2>3. SameStep(peer'[p], peer'[q]) /\ SameStep(peer'[q], peer'[p])
    BY <1>11, <2>1, <2>2, EqualSerials
  <2>4. ASSUME NEW x \in Peers
        PROVE  /\ net'[x] = {}
               /\ SameStep(peer'[x], peer'[Other(x)])
               /\ peer'[x].recv_counter_curr <= peer'[Other(x)].send_counter
    <3>1. CASE x = p
      BY <1>1, <1>7, <1>11, <2>3, <3>1
    <3>2. CASE x = q
      BY <1>7, <1>11, <2>3, <3>2
    <3> QED
      BY <1>1, <3>1, <3>2
  <2> QED
    BY <2>4 DEF Settled
<1>13. rx_failed' = rx_failed
  <2>1. rx_failed = [x \in Peers |-> FALSE]
    BY DEF SimInv
  <2>2. rx_failed' = [rx_failed EXCEPT ![p] = FALSE]
    BY <1>1, <1>3, <1>6, <2>1
  <2> QED
    BY <1>1, <2>1, <2>2
<1> QED
  BY <1>5, <1>9, <1>12, <1>13 DEF SimInv

-----------------------------------------------------------------------------
LEMMA InitSimInv == SimInit => SimInv
<1> SUFFICES ASSUME SimInit PROVE SimInv
  OBVIOUS
<1>1. IInv
  BY InitIInv DEF SimInit
<1>2. PICK hA, hB \in Hints \ {0} :
         peer = [p \in Peers |-> BootstrapState(p, IF p = 0 THEN hA ELSE hB)]
  BY DEF SimInit, Init
<1>3. ASSUME NEW p \in Peers
      PROVE  /\ peer[p].ephemeral_current.serial = 0
             /\ peer[p].recv_counter_curr = 0 /\ peer[p].send_counter = 0
  BY <1>2 DEF BootstrapState, StaticKey, PublicKey
<1>4. ASSUME NEW p \in Peers PROVE SameStep(peer[p], peer[Other(p)])
  <2>1. Other(p) \in Peers
    BY DEF Peers, Other
  <2>2. Linked(peer[p], peer[Other(p)])
    BY <1>1, Generations
  <2>3. peer[p].ephemeral_current.serial = 0
    BY <1>3
  <2>4. peer[Other(p)].ephemeral_current.serial = 0
    BY <1>3, <2>1
  <2> QED
    BY <2>2, <2>3, <2>4, EqualSerials
<1>5. Settled
  <2>1. \A p \in Peers : net[p] = {}
    BY DEF SimInit, Init
  <2>2. ASSUME NEW p \in Peers
        PROVE  peer[p].recv_counter_curr <= peer[Other(p)].send_counter
    <3>1. Other(p) \in Peers
      BY DEF Peers, Other
    <3>2. peer[p].recv_counter_curr = 0 /\ peer[Other(p)].send_counter = 0
      BY <1>3, <3>1
    <3> QED
      BY <3>2
  <2> QED
    BY <1>4, <2>1, <2>2 DEF Settled
<1> QED
  BY <1>1, <1>5 DEF SimInit, SimInv

LEMMA NextSimInv ==
    ASSUME MaxCounter < CounterMod
    PROVE  SimInv /\ [SimNext]_simVars => SimInv'
<1> SUFFICES ASSUME SimInv, [SimNext]_simVars PROVE SimInv'
  OBVIOUS
<1>1. ASSUME UNCHANGED <<vars, stage, rx_failed>>, stage = "loop" \/ a_sends' = a_sends
      PROVE  SimInv'
  <2>1. /\ peer' = peer /\ fec' = fec /\ net' = net /\ damaged' = damaged
        /\ stage' = stage /\ rx_failed' = rx_failed
    BY <1>1 DEF vars
  <2>2. IInv'
    BY NextIInv, <1>1 DEF SimInv
  <2>3. Settled' <=> Settled
    BY <2>1 DEF Settled
  <2>4. a_sends' = a_sends => (InRound(SenderOf(a_sends))' <=> InRound(SenderOf(a_sends)))
    BY <2>1 DEF InRound
  <2> QED
    BY <1>1, <2>1, <2>2, <2>3, <2>4 DEF SimInv
<1>2. CASE UNCHANGED simVars
  BY <1>1, <1>2 DEF simVars
<1>3. CASE DropMessage
  BY <1>1, <1>3 DEF DropMessage
<1> QED
  BY <1>2, <1>3, EncryptSimInv, DecryptSimInv DEF SimNext

\* In every state of a simulation the air is clear between rounds, and within a
\* round it carries the last packet encrypt_packet has sealed and nothing else.
THEOREM SimInvariance ==
    ASSUME MaxCounter < CounterMod
    PROVE  SimSpec => []SimInv
BY InitSimInv, NextSimInv, PTL DEF SimSpec

\* Whatever is swapped and dropped, every packet a simulation decrypts is
\* returned: the RX failures it prints are zero.
THEOREM NothingFails ==
    ASSUME MaxCounter < CounterMod
    PROVE  SimSpec => []NoRxFailure
<1>1. SimInv => NoRxFailure
  BY DEF SimInv, NoRxFailure
<1> QED
  BY <1>1, SimInvariance, PTL

\* A first mover is followed in the round in which it moves.
THEOREM RoundsEndInStep ==
    ASSUME MaxCounter < CounterMod
    PROVE  SimSpec => []InStepBetweenRounds
<1>1. SimInv => InStepBetweenRounds
  BY DEF SimInv, Settled, InStepBetweenRounds, InStep, Generation, SameStep, Peers, Other
<1> QED
  BY <1>1, SimInvariance, PTL

-----------------------------------------------------------------------------
(* The pace of the ratchet *)

\* What module MCSimulatorRows evaluates for every hint and epoch: sixteen
\* packets in a row are never enough, seventeen or eighteen are.
RowsOfRound ==
    /\ FEC_SOURCE_SYMBOLS = 16
    /\ FEC_MAX_EQUATIONS = 64
    /\ \A hint \in Hints, epoch \in Epochs :
          /\ \A m \in 1 .. 16 : 0 .. m - 1 \notin Decodable(hint, epoch)
          /\ \E m \in 17 .. 18 : 0 .. m - 1 \in Decodable(hint, epoch)

\* f has collected the counters below n.
Counted(f, n) ==
    /\ {e.counter : e \in f.equations} = 0 .. n - 1
    /\ IsFiniteSet(f.equations)
    /\ Cardinality(f.equations) = n

\* s, with the sidecar f, has received the packets 0 .. n - 1 of r's epoch.
Holds(s, f, r, n) ==
    /\ READY \in s.ratchet_flags <=> Told(r, n)
    /\ ~Told(r, n) => Counted(f, n)

LEMMA ToldBounds ==
    ASSUME RowsOfRound, NEW r \in PeerStates, NEW n \in Int
    PROVE  /\ Told(r, n) => n >= 17
           /\ n >= 18 => Told(r, n)
           /\ Told(r, n) => Told(r, n + 1)
           /\ n >= 1 /\ ~Told(r, n - 1) =>
                 (Told(r, n) <=> 0 .. n - 1 \in Decodable(compute_hint(r.ephemeral_candidate), r.epoch))
<1> DEFINE D == Decodable(compute_hint(r.ephemeral_candidate), r.epoch)
<1>1. compute_hint(r.ephemeral_candidate) \in Hints /\ r.epoch \in Epochs
  BY DEF PeerStates, Keys, compute_hint
<1>2. /\ \A m \in 1 .. 16 : 0 .. m - 1 \notin D
      /\ \E m \in 17 .. 18 : 0 .. m - 1 \in D
  BY <1>1 DEF RowsOfRound
<1>3. \A i \in Int : Told(r, i) <=> \E m \in 1 .. i : 0 .. m - 1 \in D
  BY DEF Told
<1> HIDE DEF D
<1>4. ASSUME Told(r, n) PROVE n >= 17
  <2>1. PICK m \in 1 .. n : 0 .. m - 1 \in D
    BY <1>3, <1>4
  <2>2. ~(m \in 1 .. 16)
    BY <1>2, <2>1
  <2> QED
    BY <2>2
<1>5. ASSUME n >= 18 PROVE Told(r, n)
  <2>1. PICK m \in 17 .. 18 : 0 .. m - 1 \in D
    BY <1>2
  <2>2. m \in 1 .. n
    BY <1>5
  <2> QED
    BY <1>3, <2>1, <2>2
<1>6. ASSUME Told(r, n) PROVE Told(r, n + 1)
  <2>1. PICK m \in 1 .. n : 0 .. m - 1 \in D
    BY <1>3, <1>6
  <2>2. m \in 1 .. n + 1 /\ n + 1 \in Int
    OBVIOUS
  <2> QED
    BY <1>3, <2>1, <2>2
<1>7. ASSUME n >= 1, ~Told(r, n - 1) PROVE Told(r, n) <=> 0 .. n - 1 \in D
  <2>1. \A m \in 1 .. n : m = n \/ m \in 1 .. n - 1
    OBVIOUS
  <2>2. n \in 1 .. n /\ n - 1 \in Int
    BY <1>7
  <2> QED
    BY <1>3, <1>7, <2>1, <2>2
<1> QED
  BY <1>4, <1>5, <1>6, <1>7 DEF D

LEMMA ToldLater ==
    ASSUME RowsOfRound, NEW r \in PeerStates, NEW n \in Int, NEW m \in {n, n + 1},
           Told(r, n)
    PROVE  Told(r, m)
BY ToldBounds

\* Another state with the same candidate and epoch tells the same.
LEMMA ToldSame ==
    ASSUME NEW r, NEW t, NEW n,
           t.ephemeral_candidate = r.ephemeral_candidate, t.epoch = r.epoch
    PROVE  Told(t, n) <=> Told(r, n)
BY DEF Told

LEMMA ClearIsCounted == Counted(fec_rx_clear, 0)
<1>1. fec_rx_clear.equations = {}
  BY DEF fec_rx_clear
<1>2. 0 .. 0 - 1 = {}
  OBVIOUS
<1> QED
  BY <1>1, <1>2, FS_EmptySet DEF Counted

\* Nothing has been received.
LEMMA HoldsNothing ==
    ASSUME RowsOfRound, NEW s, NEW f, NEW r \in PeerStates
    PROVE  Holds(s, f, r, 0) <=> READY \notin s.ratchet_flags /\ Counted(f, 0)
<1>1. ~Told(r, 0)
  BY ToldBounds
<1> QED
  BY <1>1 DEF Holds

LEMMA SymbolCounted ==
    ASSUME RowsOfRound, NEW f \in FecRxStates, NEW ad \in Headers, NEW n \in 0 .. 17,
           Counted(f, n), ad.counter = n,
           f.equations # {} => f.active /\ f.hint = ad.hint /\ f.epoch = ad.epoch
    PROVE  Counted(SymbolAdded(f, ad), n + 1)
<1> DEFINE q == fec_rx_ensure_round(f, ad.hint, ad.epoch)
           e == [counter |-> n, symbol |-> ad.symbol]
           h == SymbolAdded(f, ad)
<1>1. q \in FecRxStates /\ q.active /\ q.equations = f.equations
  BY DEF fec_rx_ensure_round, FecRxStates, Headers
<1>2. \A x \in q.equations : x.counter # n
  <2>1. n \notin 0 .. n - 1
    OBVIOUS
  <2> QED
    BY <1>1, <2>1 DEF Counted
<1>3. ~(Cardinality(q.equations) >= FEC_MAX_EQUATIONS)
  BY <1>1 DEF Counted, RowsOfRound
<1> HIDE DEF q
<1>4. h = [q EXCEPT !.equations = @ \cup {e}]
  BY <1>1, <1>2, <1>3 DEF SymbolAdded, fec_rx_add_symbol, q
<1> HIDE DEF h
<1>5. h.equations = q.equations \cup {e}
  BY <1>1, <1>4 DEF FecRxStates
<1>6. e.counter = n
  OBVIOUS
<1> HIDE DEF e
<1>7. {x.counter : x \in h.equations} = 0 .. n
  <2>1. {x.counter : x \in h.equations} = {x.counter : x \in f.equations} \cup {n}
    BY <1>1, <1>5, <1>6
  <2>2. (0 .. n - 1) \cup {n} = 0 .. n
    OBVIOUS
  <2> QED
    BY <2>1, <2>2 DEF Counted
<1>8. IsFiniteSet(h.equations) /\ Cardinality(h.equations) = n + 1
  <2>1. e \notin f.equations
    BY <1>1, <1>2, <1>6
  <2>2. IsFiniteSet(f.equations) /\ Cardinality(f.equations) = n
    BY DEF Counted
  <2>3. /\ IsFiniteSet(f.equations \cup {e})
        /\ Cardinality(f.equations \cup {e}) = Cardinality(f.equations) + 1
    BY <2>1, <2>2, FS_AddElement
  <2> QED
    BY <1>1, <1>5, <2>2, <2>3
<1>9. (n + 1) - 1 = n
  OBVIOUS
<1> QED
  BY <1>7, <1>8, <1>9 DEF Counted, h

\* The packet that comes next is collected; the one that completes the rank
\* makes the candidate known.
LEMMA CollectsNext ==
    ASSUME RowsOfRound, IInv, NEW p \in Peers, NEW k \in net[p],
           NEW s \in PeerStates, NEW f \in FecRxStates,
           PairOK(s, peer[Other(p)], f, fec[Other(p)], net[p], net[Other(p)]),
           Opens(k, chain_key(s.RK)), k.ad.epoch = s.epoch,
           Collect(p, s, f, k.ad),
           NEW n \in Nat, Holds(s, f, peer[Other(p)], n), k.ad.counter = n
    PROVE  /\ Holds(peer'[p], fec'[p], peer[Other(p)], n + 1)
           /\ SAW \in peer'[p].ratchet_flags <=> SAW \in s.ratchet_flags
           /\ peer'[p].ephemeral_candidate = s.ephemeral_candidate
           /\ peer'[p].epoch = s.epoch
           /\ fec'[Other(p)] = fec[Other(p)]
<1> DEFINE q == Other(p)
           r == peer[q]
           h == SymbolAdded(f, k.ad)
           t == CandidateLearned(s, h)
<1>1. q \in Peers /\ q # p /\ r \in PeerStates /\ net[p] \in SUBSET Packets
  BY PairOfIInv
<1>2. k.ad \in Headers
  BY <1>1 DEF Packets
<1>3. fec'[q] = fec[q]
  BY <1>1 DEF Collect, IInv, TypeOK
<1>4. CASE Told(r, n)
  <2>1. READY \in s.ratchet_flags
    BY <1>4 DEF Holds
  <2>2. peer'[p] = s /\ fec'[p] = f
    BY <2>1 DEF Collect, IInv, TypeOK
  <2>3. Told(r, n + 1)
    <3> HIDE DEF r
    <3> QED
      BY <1>1, <1>4, ToldBounds
  <2> QED
    BY <1>3, <2>1, <2>2, <2>3 DEF Holds
<1>5. CASE ~Told(r, n)
  <2>1. READY \notin s.ratchet_flags /\ Counted(f, n)
    BY <1>5 DEF Holds
  <2>2. peer'[p] = t /\ fec'[p] = RoundClosed(h)
    BY <2>1 DEF Collect, IInv, TypeOK
  <2>3. n \in 0 .. 17
    <3> HIDE DEF r
    <3>1. ~(n >= 18)
      BY <1>1, <1>5, ToldBounds
    <3> QED
      BY <3>1
  <2>4. /\ SameStep(s, r)
        /\ f.equations # {} => f.active /\ f.hint = k.ad.hint /\ f.epoch = k.ad.epoch
        /\ RoundOf(h, r.ephemeral_candidate, s.epoch)
        /\ fec_rx_can_decode(h) => Learned(t, s, r.ephemeral_candidate)
    <3>1. PairOK(s, r, f, fec[q], net[p], net[q])
      OBVIOUS
    <3> HIDE DEF q, r
    <3> QED
      BY <1>1, <2>1, <3>1, SymbolJoins
  <2>5. Counted(h, n + 1)
    BY <1>2, <2>1, <2>3, <2>4, SymbolCounted
  <2> HIDE DEF h, r
  <2>6. fec_rx_can_decode(h) <=> Told(r, n + 1)
    <3>1. {e.counter : e \in h.equations} = 0 .. n /\ fec_rx_eq_count(h) = n + 1
      BY <2>4, <2>5 DEF Counted, RoundOf, fec_rx_eq_count
    <3>2. h.hint = compute_hint(r.ephemeral_candidate) /\ h.epoch = r.epoch
      BY <2>4 DEF RoundOf, SameStep
    <3>3. n + 1 \in Int /\ n + 1 >= 1 /\ (n + 1) - 1 = n
      OBVIOUS
    <3>4. Told(r, n + 1) <=> 0 .. n \in Decodable(h.hint, h.epoch)
      BY <1>1, <1>5, <3>2, <3>3, ToldBounds
    <3>5. Told(r, n + 1) => n + 1 >= FEC_SOURCE_SYMBOLS
      BY <1>1, <3>3, ToldBounds DEF RowsOfRound
    <3> QED
      BY <3>1, <3>4, <3>5 DEF fec_rx_can_decode
  <2>7. CASE Told(r, n + 1)
    <3>1. /\ t.ratchet_flags = s.ratchet_flags \cup {READY, ACK}
          /\ t.ephemeral_candidate = s.ephemeral_candidate /\ t.epoch = s.epoch
      BY <2>4, <2>6, <2>7 DEF Learned, PeerStates
    <3>2. SAW # READY /\ SAW # ACK
      BY DEF SAW, READY, ACK
    <3> HIDE DEF t
    <3>3. READY \in t.ratchet_flags /\ (SAW \in t.ratchet_flags <=> SAW \in s.ratchet_flags)
      BY <3>1, <3>2
    <3> QED
      BY <1>3, <2>2, <2>7, <3>1, <3>3 DEF Holds, r
  <2>8. CASE ~Told(r, n + 1)
    <3>1. t = s /\ RoundClosed(h) = h
      BY <2>6, <2>8 DEF CandidateLearned, RoundClosed
    <3> QED
      BY <1>3, <2>1, <2>2, <2>5, <2>8, <3>1 DEF Holds, r
  <2> QED
    BY <2>7, <2>8
<1> QED
  BY <1>4, <1>5

LEMMA AcceptsNext ==
    ASSUME RowsOfRound, IInv, NEW p \in Peers, NEW k \in net[p], AcceptCurrent(p, k),
           NEW n \in Nat, Holds(peer[p], fec[p], peer[Other(p)], n), k.ad.counter = n
    PROVE  /\ Holds(peer'[p], fec'[p], peer[Other(p)], n + 1)
           /\ SAW \in peer'[p].ratchet_flags <=> SAW \in peer[p].ratchet_flags \/ k.ad.ack
           /\ peer'[p].ephemeral_candidate = peer[p].ephemeral_candidate
           /\ peer'[p].epoch = peer[p].epoch
           /\ fec'[Other(p)] = fec[Other(p)]
<1>1. PICK u \in PeerStates :
         /\ u = AckNoted(CounterNoted(peer[p], k.ad), k.ad)
         /\ Opens(k, chain_key(u.RK)) /\ k.ad.epoch = u.epoch
         /\ PairOK(u, peer[Other(p)], fec[p], fec[Other(p)], net[p], net[Other(p)])
         /\ Collect(p, u, fec[p], k.ad)
  BY AcceptCurrentState
<1>2. peer[p] \in PeerStates /\ fec[p] \in FecRxStates /\ k.ad \in Headers
  BY PairOfIInv DEF Packets
<1>3. /\ CounterNoted(peer[p], k.ad).ratchet_flags = peer[p].ratchet_flags
      /\ CounterNoted(peer[p], k.ad).ephemeral_candidate = peer[p].ephemeral_candidate
      /\ CounterNoted(peer[p], k.ad).epoch = peer[p].epoch
      /\ CounterNoted(peer[p], k.ad) \in PeerStates
  BY <1>2, CounterNotedAside, CounterNotedType DEF CountersAside
<1>4. /\ u.ratchet_flags = IF k.ad.ack THEN peer[p].ratchet_flags \cup {SAW} ELSE peer[p].ratchet_flags
      /\ u.ephemeral_candidate = peer[p].ephemeral_candidate
      /\ u.epoch = peer[p].epoch
  BY <1>1, <1>3 DEF AckNoted, PeerStates
<1>5. SAW # READY
  BY DEF SAW, READY
<1>6. /\ READY \in u.ratchet_flags <=> READY \in peer[p].ratchet_flags
      /\ SAW \in u.ratchet_flags <=> SAW \in peer[p].ratchet_flags \/ k.ad.ack
  BY <1>4, <1>5
<1>7. Holds(u, fec[p], peer[Other(p)], n)
  BY <1>6 DEF Holds
<1> QED
  BY <1>1, <1>2, <1>4, <1>6, <1>7, CollectsNext

LEMMA FollowsFirst ==
    ASSUME RowsOfRound, IInv, NEW p \in Peers, NEW k \in net[p], Follow(p, k),
           k.ad.counter = 0
    PROVE  /\ Holds(peer'[p], fec'[p], peer[Other(p)], 1)
           /\ SAW \notin peer'[p].ratchet_flags
           /\ fec'[Other(p)] = fec[Other(p)]
<1>1. PICK u \in PeerStates :
         /\ u.ratchet_flags = {}
         /\ Opens(k, chain_key(u.RK)) /\ k.ad.epoch = u.epoch
         /\ PairOK(u, peer[Other(p)], fec_rx_clear, fec[Other(p)], net[p], net[Other(p)])
         /\ Collect(p, u, fec_rx_clear, k.ad)
  BY FollowState
<1>2. Holds(u, fec_rx_clear, peer[Other(p)], 0)
  <2>1. peer[Other(p)] \in PeerStates
    BY PairOfIInv
  <2> QED
    BY <1>1, <2>1, ClearIsCounted, HoldsNothing
<1>3. /\ Holds(peer'[p], fec'[p], peer[Other(p)], 0 + 1)
      /\ SAW \in peer'[p].ratchet_flags <=> SAW \in u.ratchet_flags
      /\ fec'[Other(p)] = fec[Other(p)]
  <2>1. 0 \in Nat
    OBVIOUS
  <2> QED
    BY <1>1, <1>2, <2>1, ClearType, CollectsNext
<1> QED
  BY <1>1, <1>3

-----------------------------------------------------------------------------
(* The length of an epoch *)

Sent(p) == peer[p].send_counter
Confirmed(p) == SAW \in peer[p].ratchet_flags

\* The first n packets of p's epoch tell its candidate.
Tells(p, n) == Told(peer[p], n)

\* p has received the first n packets of the other end.
Heard(p, n) == Holds(peer[p], fec[p], peer[Other(p)], n)

\* x is about to send, and each end has received all that the other has sent.
\* The other end has sent as often as x, or once more, and its last packet
\* confirmed the packets of x; no packet has confirmed its own last one yet.
BeforeRound(x) ==
    LET y == Other(x)
    IN  /\ Sent(x) \in Nat /\ Sent(y) \in {Sent(x), Sent(x) + 1}
        /\ Heard(x, Sent(y)) /\ Heard(y, Sent(x))
        /\ Confirmed(x) <=> Tells(x, Sent(x))
        /\ Confirmed(y) <=> Tells(y, Sent(y) - 1)
        /\ ~(Tells(x, Sent(x)) /\ Tells(y, Sent(y) - 1))

\* The last packet of z is on its way, in the epoch both are in.
PacketOnItsWay(z) ==
    LET w == Other(z)
    IN  /\ SameStep(peer[w], peer[z])
        /\ Sent(z) \in Nat \ {0} /\ Sent(w) \in {Sent(z) - 1, Sent(z)}
        /\ Heard(w, Sent(z) - 1) /\ Heard(z, Sent(w))
        /\ Confirmed(z) <=> Tells(z, Sent(z) - 1)
        /\ Confirmed(w) <=> Tells(w, Sent(w) - 1)
        /\ ~(Tells(z, Sent(z) - 1) /\ Tells(w, Sent(w)))
        /\ \A k \in net[w] : /\ k.ad.counter = Sent(z) - 1
                             /\ k.ad.ack <=> Tells(w, Sent(w))

\* z has led, and its first packet of the new epoch is on its way to the end
\* that has just told its candidate.
LeadOnItsWay(z) ==
    LET w == Other(z)
    IN  /\ OneAhead(peer[z], peer[w])
        /\ Sent(z) = 1 /\ Counted(fec[z], 0)
        /\ READY \notin peer[z].ratchet_flags /\ ~Confirmed(z)
        /\ Tells(w, Sent(w)) /\ ~Tells(w, Sent(w) - 1)
        /\ \A k \in net[w] : k.ad.counter = 0

PaceInv ==
    /\ a_sends \in BOOLEAN
    /\ stage = "loop" => BeforeRound(SenderOf(a_sends))
    /\ stage = "decrypt" =>
          PacketOnItsWay(SenderOf(a_sends)) \/ LeadOnItsWay(SenderOf(a_sends))

\* A step that takes p to its next epoch takes it there in time.
Paces ==
    \A p \in Peers :
       Generation(p)' # Generation(p) =>
          LET n == peer[p].send_counter
              slower == peer[IF InStep THEN Other(p) ELSE p]
          IN  /\ n \in 17 .. 18
              /\ Told(peer[p], n)
              /\ Told(slower, n + 1) /\ ~Told(slower, n - 1)

LEMMA HoldsSame ==
    ASSUME NEW s, NEW t, NEW f, NEW q, NEW r, NEW n,
           t.ratchet_flags = s.ratchet_flags,
           r.ephemeral_candidate = q.ephemeral_candidate, r.epoch = q.epoch
    PROVE  Holds(t, f, r, n) <=> Holds(s, f, q, n)
BY ToldSame DEF Holds

\* r has sent n packets when t has told its candidate in m, and not before.
LEMMA StepsInTime ==
    ASSUME RowsOfRound, NEW r \in PeerStates, NEW t \in PeerStates,
           NEW n \in Nat, NEW m \in {n, n + 1},
           Told(r, n), Told(t, m), ~Told(t, m - 1)
    PROVE  n \in 17 .. 18 /\ Told(t, n + 1) /\ ~Told(t, n - 1)
<1>1. n \in Int /\ m \in Int /\ m - 1 \in Int /\ n - 1 \in Int /\ (n - 1) + 1 = n
  OBVIOUS
<1>2. n >= 17 /\ ~(m - 1 >= 18)
  BY <1>1, ToldBounds
<1>3. Told(t, n) => Told(t, n + 1)
  BY <1>1, ToldBounds
<1>4. Told(t, n - 1) => Told(t, (n - 1) + 1)
  BY <1>1, ToldBounds
<1>5. m = n \/ (m = n + 1 /\ m - 1 = n)
  OBVIOUS
<1>6. n \in 17 .. 18
  BY <1>2, <1>5
<1> QED
  BY <1>1, <1>3, <1>4, <1>5, <1>6

\* A packet sealed in step leaves what both ends have received as it was.
LEMMA SealsInStep ==
    ASSUME SimInv, NEW q \in Peers, SendInEpoch(q), SameStep(peer[Other(q)], peer[q]),
           NEW s \in PeerStates, WellFormed(s), s = peer[q],
           CountsOne(peer'[q], s), peer'[Other(q)] = peer[Other(q)],
           net'[Other(q)] = {Packet(s)}
    PROVE  /\ peer'[q].ratchet_flags = peer[q].ratchet_flags /\ fec' = fec
           /\ peer'[q].ephemeral_candidate = peer[q].ephemeral_candidate
           /\ peer'[q].epoch = peer[q].epoch
           /\ peer'[q].send_counter = peer[q].send_counter + 1
           /\ SameStep(peer'[Other(q)], peer'[q])
           /\ Generation(q)' = Generation(q)
           /\ \A k \in net'[Other(q)] :
                 /\ k.ad.counter = peer[q].send_counter
                 /\ k.ad.ack <=> READY \in peer[q].ratchet_flags
           /\ ~({READY, SAW} \subseteq peer[q].ratchet_flags)
<1>1. /\ Packet(s).ad.counter = s.send_counter
      /\ Packet(s).ad.ack <=> ACK \in s.ratchet_flags
  BY DEF Packet, Header
<1>2. ACK \in s.ratchet_flags <=> READY \in s.ratchet_flags
  BY DEF WellFormed
<1>3. fec' = fec /\ ~({READY, SAW} \subseteq peer[q].ratchet_flags)
  BY DEF SendInEpoch, MayLead
<1> QED
  BY <1>1, <1>2, <1>3 DEF CountsOne, CountersAside, SameStep, Generation

LEMMA Sends ==
    ASSUME RowsOfRound, MaxCounter < CounterMod, SimInv,
           NEW direction, Encrypt(direction),
           NEW x \in Peers, x = SenderOf(direction), BeforeRound(x)
    PROVE  (PacketOnItsWay(x)' \/ LeadOnItsWay(x)') /\ Paces
<1> DEFINE y == Other(x)
<1>1. /\ y \in Peers /\ y # x /\ Other(y) = x
      /\ peer[x] \in PeerStates /\ peer[y] \in PeerStates
      /\ \A p \in Peers : p = x \/ p = y
  BY PairOfIInv DEF SimInv, Other, Peers
<1>2. SameStep(peer[y], peer[x])
  BY <1>1 DEF SimInv, Encrypt, Settled
<1>3. InStep
  BY <1>1, <1>2 DEF SameStep, InStep, Generation, Peers
<1>4. PICK s \in PeerStates :
         /\ WellFormed(s)
         /\ \/ s = peer[x] /\ SendInEpoch(x)
            \/ /\ StepsOn(s, peer[x]) /\ SendAsFirstMover(x)
               /\ s.send_counter = 0 /\ s.ratchet_flags = {}
         /\ CountsOne(peer'[x], s) /\ peer'[y] = peer[y]
         /\ net'[y] = {Packet(s)}
  <2>1. Seals(x)
    BY EncryptMoves
  <2> QED
    BY <2>1 DEF Seals
<1>5. /\ Sent(x) \in Nat /\ Sent(y) \in {Sent(x), Sent(x) + 1}
      /\ Holds(peer[x], fec[x], peer[y], Sent(y)) /\ Holds(peer[y], fec[y], peer[x], Sent(x))
      /\ Confirmed(x) <=> Told(peer[x], Sent(x))
      /\ Confirmed(y) <=> Told(peer[y], Sent(y) - 1)
      /\ ~(Told(peer[x], Sent(x)) /\ Told(peer[y], Sent(y) - 1))
  BY <1>1 DEF BeforeRound, Heard, Tells
<1>6. /\ Sent(y)' = Sent(y) /\ Confirmed(y)' = Confirmed(y)
      /\ Generation(y)' = Generation(y)
  BY <1>4 DEF Sent, Confirmed, Generation
<1>7. READY \in peer[x].ratchet_flags <=> Told(peer[y], Sent(y))
  BY <1>5 DEF Holds
<1> HIDE DEF y
<1>8. CASE s = peer[x] /\ SendInEpoch(x)
  <2>1. /\ peer'[x].ratchet_flags = peer[x].ratchet_flags /\ fec' = fec
        /\ peer'[x].ephemeral_candidate = peer[x].ephemeral_candidate
        /\ peer'[x].epoch = peer[x].epoch
        /\ Sent(x)' = Sent(x) + 1
        /\ SameStep(peer'[y], peer'[x])
        /\ Generation(x)' = Generation(x)
        /\ \A k \in net'[y] : /\ k.ad.counter = Sent(x)
                              /\ k.ad.ack <=> READY \in peer[x].ratchet_flags
        /\ ~({READY, SAW} \subseteq peer[x].ratchet_flags)
    BY <1>2, <1>4, <1>8, SealsInStep DEF y, Sent
  <2>2. /\ Confirmed(x)' <=> Confirmed(x)
        /\ \A i : Told(peer'[x], i) <=> Told(peer[x], i)
    BY <2>1, ToldSame DEF Confirmed
  <2>3. /\ Holds(peer'[x], fec'[x], peer'[y], Sent(y))
        /\ Holds(peer'[y], fec'[y], peer'[x], Sent(x))
    BY <1>4, <1>5, <2>1, HoldsSame
  <2>4. ~(Told(peer[x], Sent(x)) /\ Told(peer[y], Sent(y)))
    BY <1>5, <1>7, <2>1 DEF Confirmed
  <2>5. Sent(x)' - 1 = Sent(x) /\ Sent(x)' \in Nat \ {0}
        /\ Sent(y) \in {Sent(x)' - 1, Sent(x)'}
    BY <1>5, <2>1
  <2>6. PacketOnItsWay(x)'
    BY <1>1, <1>4, <1>5, <1>6, <1>7, <2>1, <2>2, <2>3, <2>4, <2>5
       DEF PacketOnItsWay, Heard, Tells, y
  <2> QED
    BY <1>1, <1>6, <2>1, <2>6 DEF Paces
<1>9. CASE StepsOn(s, peer[x]) /\ SendAsFirstMover(x) /\ s.send_counter = 0 /\ s.ratchet_flags = {}
  <2>1. /\ Told(peer[x], Sent(x)) /\ Told(peer[y], Sent(y)) /\ ~Told(peer[y], Sent(y) - 1)
        /\ Sent(x) = peer[x].send_counter
    BY <1>5, <1>7, <1>9 DEF SendAsFirstMover, MayLead, Confirmed, Sent
  <2>2. IInv'
    BY <1>9, NextIInv DEF SimInv, Next
  <2>3. OneAhead(peer'[x], peer'[y])
    BY <1>1, <1>2, <1>4, <1>9, <2>2, FirstMoverLeads DEF y
  <2>4. fec'[x] = fec_rx_clear /\ peer'[x].ratchet_flags = {} /\ Sent(x)' = 0 + 1
    BY <1>4, <1>9 DEF SendAsFirstMover, SimInv, IInv, TypeOK, CountsOne, CountersAside, Sent
  <2>5. Counted(fec'[x], 0) /\ READY \notin peer'[x].ratchet_flags /\ ~Confirmed(x)'
    BY <2>4, ClearIsCounted DEF Confirmed
  <2>6. \A k \in net'[y] : k.ad.counter = 0
    BY <1>4, <1>9 DEF Packet, Header
  <2>7. LeadOnItsWay(x)'
    BY <1>4, <1>6, <2>1, <2>3, <2>4, <2>5, <2>6 DEF LeadOnItsWay, Tells, y
  <2>8. Sent(x) \in 17 .. 18 /\ Told(peer[y], Sent(x) + 1) /\ ~Told(peer[y], Sent(x) - 1)
    BY <1>1, <1>5, <2>1, StepsInTime
  <2> QED
    BY <1>1, <1>3, <1>6, <2>1, <2>7, <2>8 DEF Paces, y
<1> QED
  BY <1>4, <1>8, <1>9

LEMMA Arrives ==
    ASSUME RowsOfRound, SimInv, Decrypt,
           NEW z \in Peers, z = SenderOf(a_sends), PacketOnItsWay(z) \/ LeadOnItsWay(z)
    PROVE  BeforeRound(Other(z))' /\ Paces
<1> DEFINE w == Other(z)
<1>1. /\ w \in Peers /\ w # z /\ Other(w) = z
      /\ peer[z] \in PeerStates /\ peer[w] \in PeerStates
      /\ \A p \in Peers : p = w \/ p = z
  BY PairOfIInv DEF SimInv, Other, Peers
<1>2. PICK k \in net[w] :
         /\ \/ SameStep(peer[w], peer[z]) /\ AcceptCurrent(w, k)
            \/ OneAhead(peer[z], peer[w]) /\ Follow(w, k)
         /\ peer'[z] = peer[z]
  BY DecryptMoves
<1>3. ~(SameStep(peer[w], peer[z]) /\ OneAhead(peer[z], peer[w]))
  BY <1>1 DEF SameStep, OneAhead, PeerStates, Keys
<1>4. Sent(z)' = Sent(z) /\ Confirmed(z)' = Confirmed(z) /\ Generation(z)' = Generation(z)
  BY <1>2 DEF Sent, Confirmed, Generation
<1> HIDE DEF w
<1>5. CASE SameStep(peer[w], peer[z]) /\ AcceptCurrent(w, k)
  <2>1. /\ Sent(z) \in Nat \ {0} /\ Sent(w) \in {Sent(z) - 1, Sent(z)}
        /\ Holds(peer[w], fec[w], peer[z], Sent(z) - 1)
        /\ Holds(peer[z], fec[z], peer[w], Sent(w))
        /\ Confirmed(z) <=> Told(peer[z], Sent(z) - 1)
        /\ Confirmed(w) <=> Told(peer[w], Sent(w) - 1)
        /\ ~(Told(peer[z], Sent(z) - 1) /\ Told(peer[w], Sent(w)))
        /\ k.ad.counter = Sent(z) - 1 /\ (k.ad.ack <=> Told(peer[w], Sent(w)))
    BY <1>1, <1>3, <1>5 DEF PacketOnItsWay, LeadOnItsWay, Heard, Tells, w
  <2>2. Sent(z) - 1 \in Nat /\ (Sent(z) - 1) + 1 = Sent(z)
    BY <2>1
  <2>3. /\ Holds(peer'[w], fec'[w], peer[z], Sent(z))
        /\ Confirmed(w)' <=> Confirmed(w) \/ Told(peer[w], Sent(w))
        /\ peer'[w].ephemeral_candidate = peer[w].ephemeral_candidate
        /\ peer'[w].epoch = peer[w].epoch
        /\ fec'[z] = fec[z]
    BY <1>1, <1>5, <2>1, <2>2, AcceptsNext DEF SimInv, Confirmed
  <2>4. Receives(peer'[w], peer[w])
    BY <1>1, <1>5, AcceptCurrentMoves DEF SimInv
  <2>5. Sent(w)' = Sent(w) /\ Generation(w)' = Generation(w)
    BY <2>4 DEF Receives, Stays, Sent, Generation
  <2>6. \A i : Told(peer'[w], i) <=> Told(peer[w], i)
    BY <2>3, ToldSame
  <2>7. Holds(peer'[w], fec'[w], peer'[z], Sent(z)) /\ Holds(peer'[z], fec'[z], peer'[w], Sent(w))
    BY <1>2, <2>1, <2>3, HoldsSame
  <2>8. Sent(w) \in Nat /\ Sent(z) \in {Sent(w), Sent(w) + 1}
    BY <2>1
  <2>9. Told(peer[w], Sent(w) - 1) => Told(peer[w], Sent(w))
    <3>1. Sent(w) - 1 \in Int /\ (Sent(w) - 1) + 1 = Sent(w)
      BY <2>8
    <3>2. Told(peer[w], Sent(w) - 1) => Told(peer[w], (Sent(w) - 1) + 1)
      BY <1>1, <3>1, ToldBounds
    <3> QED
      BY <3>1, <3>2
  <2>10. Confirmed(w)' <=> Told(peer[w], Sent(w))
    BY <2>1, <2>3, <2>9
  <2>11. /\ Sent(w)' \in Nat /\ Sent(z)' \in {Sent(w)', Sent(w)' + 1}
         /\ Holds(peer'[w], fec'[w], peer'[z], Sent(z)')
         /\ Holds(peer'[z], fec'[z], peer'[w], Sent(w)')
         /\ Confirmed(w)' <=> Told(peer'[w], Sent(w)')
         /\ Confirmed(z)' <=> Told(peer'[z], Sent(z)' - 1)
         /\ ~(Told(peer'[w], Sent(w)') /\ Told(peer'[z], Sent(z)' - 1))
    BY <1>2, <1>4, <2>1, <2>5, <2>6, <2>7, <2>8, <2>10
  <2>12. BeforeRound(w)'
    BY <1>1, <2>11 DEF BeforeRound, Heard, Tells, Sent, Confirmed, w
  <2> QED
    BY <1>1, <1>4, <2>5, <2>12 DEF Paces, w
<1>6. CASE OneAhead(peer[z], peer[w]) /\ Follow(w, k)
  <2>1. /\ Sent(z) = 1 /\ Counted(fec[z], 0)
        /\ READY \notin peer[z].ratchet_flags /\ ~Confirmed(z)
        /\ Told(peer[w], Sent(w)) /\ ~Told(peer[w], Sent(w) - 1)
        /\ k.ad.counter = 0
    BY <1>3, <1>6 DEF PacketOnItsWay, LeadOnItsWay, Tells, w
  <2>2. Holds(peer'[w], fec'[w], peer[z], 1) /\ ~Confirmed(w)' /\ fec'[z] = fec[z]
    BY <1>1, <1>6, <2>1, FollowsFirst DEF SimInv, Confirmed
  <2>3. Sent(w)' = 0
    BY <1>1, <1>6, FollowMoves DEF SimInv, Sent
  <2>4. IInv'
    BY DecryptSimInv DEF SimInv
  <2>5. peer'[w] \in PeerStates /\ peer'[z] \in PeerStates
    BY <1>1, <2>4, PairOfIInv DEF IInv, TypeOK
  <2>6. ~Told(peer'[z], 0) /\ ~Told(peer'[w], 0)
    BY <2>5, ToldBounds
  <2>7. Holds(peer'[z], fec'[z], peer'[w], 0)
    BY <1>2, <2>1, <2>2, <2>5, HoldsNothing
  <2>8. BeforeRound(w)'
    <3>1. Sent(w)' = 0 /\ Sent(z)' = 1 /\ Sent(z)' - 1 = 0 /\ peer'[z] = peer[z]
      BY <1>2, <1>4, <2>1, <2>3
    <3>2. Sent(w)' \in Nat /\ Sent(z)' \in {Sent(w)', Sent(w)' + 1}
      BY <3>1
    <3>3. /\ Holds(peer'[w], fec'[w], peer'[z], Sent(z)')
          /\ Holds(peer'[z], fec'[z], peer'[w], Sent(w)')
      BY <2>2, <2>7, <3>1
    <3>4. /\ ~Confirmed(w)' /\ ~Told(peer'[w], Sent(w)')
          /\ ~Confirmed(z)' /\ ~Told(peer'[z], Sent(z)' - 1)
      BY <1>4, <2>1, <2>2, <2>6, <3>1
    <3> QED
      BY <1>1, <3>2, <3>3, <3>4 DEF BeforeRound, Heard, Tells, Sent, Confirmed, w
  <2>9. ~InStep
    BY <1>1, <1>6 DEF OneAhead, InStep, Generation, Peers, PeerStates, Keys
  <2>10. Sent(w) \in 17 .. 18 /\ Told(peer[w], Sent(w) + 1) /\ ~Told(peer[w], Sent(w) - 1)
    <3>1. Sent(w) \in Nat
      BY <1>1 DEF Sent, PeerStates, Counters
    <3> QED
      BY <1>1, <2>1, <3>1, StepsInTime
  <2> QED
    BY <1>1, <1>4, <2>1, <2>8, <2>9, <2>10 DEF Paces, Sent, w
<1> QED
  BY <1>2, <1>5, <1>6

LEMMA InitPaceInv == RowsOfRound /\ SimInit => PaceInv
<1> SUFFICES ASSUME RowsOfRound, SimInit PROVE PaceInv
  OBVIOUS
<1>1. PICK hA, hB \in Hints \ {0} :
         peer = [p \in Peers |-> BootstrapState(p, IF p = 0 THEN hA ELSE hB)]
  BY DEF SimInit, Init
<1>2. 0 \in Peers /\ 1 \in Peers /\ Other(0) = 1 /\ Other(1) = 0
  BY DEF Peers, Other
<1>3. ASSUME NEW p \in Peers
      PROVE  /\ Sent(p) = 0 /\ ~Confirmed(p) /\ READY \notin peer[p].ratchet_flags
             /\ fec[p] = fec_rx_clear /\ peer[p] \in PeerStates
  <2>1. peer[p] \in PeerStates
    BY InitType DEF SimInit, TypeOK
  <2>2. fec[p] = fec_rx_clear
    BY DEF SimInit, Init
  <2> QED
    BY <1>1, <2>1, <2>2 DEF BootstrapState, Sent, Confirmed
<1>4. ASSUME NEW p \in Peers
      PROVE  ~Told(peer[p], 0) /\ ~Told(peer[p], 0 - 1)
  <2>1. peer[p] \in PeerStates
    BY <1>3
  <2>2. ASSUME NEW i \in {0, 0 - 1} PROVE ~Told(peer[p], i)
    BY <2>1, <2>2, ToldBounds
  <2> QED
    BY <2>2
<1>5. Heard(0, 0) /\ Heard(1, 0)
  BY <1>2, <1>3, ClearIsCounted, HoldsNothing DEF Heard
<1>6. BeforeRound(0)
  BY <1>2, <1>3, <1>4, <1>5 DEF BeforeRound, Tells
<1>7. a_sends = TRUE /\ stage = "loop"
  BY DEF SimInit
<1> QED
  BY <1>6, <1>7 DEF PaceInv, SenderOf

LEMMA NextPaceInv ==
    ASSUME MaxCounter < CounterMod, TRUE \notin Swaps, RowsOfRound
    PROVE  SimInv /\ PaceInv /\ [SimNext]_simVars => PaceInv' /\ (SimNext => Paces)
<1> SUFFICES ASSUME SimInv, PaceInv, [SimNext]_simVars
             PROVE  PaceInv' /\ (SimNext => Paces)
  OBVIOUS
<1>1. \A swap \in Swaps : Direction(swap) = a_sends
  BY SimulatorAssumption DEF Direction
<1>2. ASSUME UNCHANGED <<vars, stage, a_sends>> PROVE PaceInv' /\ Paces
  <2>1. peer' = peer /\ fec' = fec /\ net' = net /\ stage' = stage /\ a_sends' = a_sends
    BY <1>2 DEF vars
  <2>2. PaceInv'
    BY <2>1 DEF PaceInv, BeforeRound, PacketOnItsWay, LeadOnItsWay, Sent, Heard, Confirmed, Tells
  <2> QED
    BY <2>1, <2>2 DEF Paces, Generation
<1>3. CASE UNCHANGED simVars
  BY <1>2, <1>3 DEF simVars
<1>4. CASE DropMessage
  BY <1>1, <1>2, <1>4 DEF DropMessage
<1>5. ASSUME NEW direction \in BOOLEAN, Encrypt(direction) PROVE PaceInv' /\ Paces
  <2>1. direction = a_sends /\ a_sends' = a_sends /\ stage' = "decrypt" /\ a_sends \in BOOLEAN
    BY <1>1, <1>5 DEF Encrypt, PaceInv
  <2>2. BeforeRound(SenderOf(a_sends)) /\ SenderOf(a_sends) \in Peers
    BY <1>5, SenderOfType DEF PaceInv, Encrypt
  <2>3. (PacketOnItsWay(SenderOf(a_sends))' \/ LeadOnItsWay(SenderOf(a_sends))') /\ Paces
    <3> DEFINE x == SenderOf(direction)
    <3>1. x \in Peers /\ BeforeRound(x)
      BY <2>1, <2>2
    <3> HIDE DEF x
    <3>2. x = SenderOf(direction)
      BY DEF x
    <3>3. (PacketOnItsWay(x)' \/ LeadOnItsWay(x)') /\ Paces
      BY <1>5, <3>1, <3>2, Sends
    <3> QED
      BY <2>1, <3>2, <3>3
  <2> QED
    BY <2>1, <2>3 DEF PaceInv
<1>6. ASSUME Decrypt PROVE PaceInv' /\ Paces
  <2>1. a_sends' = ~a_sends /\ stage' = "loop" /\ a_sends \in BOOLEAN
    BY <1>6 DEF Decrypt, PaceInv
  <2>2. PICK z \in Peers :
           z = SenderOf(a_sends) /\ (PacketOnItsWay(z) \/ LeadOnItsWay(z))
    BY <1>6, SenderOfType DEF PaceInv, Decrypt
  <2>3. BeforeRound(Other(z))' /\ Paces
    BY <1>6, <2>2, Arrives
  <2>4. Other(z) = SenderOf(a_sends')
    <3>1. a_sends = TRUE \/ a_sends = FALSE
      BY <2>1
    <3>2. CASE a_sends = TRUE
      <4>1. a_sends' = FALSE
        BY <2>1, <3>2
      <4> QED
        BY <2>2, <3>2, <4>1 DEF SenderOf, Other
    <3>3. CASE a_sends = FALSE
      <4>1. a_sends' = TRUE
        BY <2>1, <3>3
      <4> QED
        BY <2>2, <3>3, <4>1 DEF SenderOf, Other
    <3> QED
      BY <3>1, <3>2, <3>3
  <2> QED
    BY <2>1, <2>3, <2>4 DEF PaceInv
<1> QED
  BY <1>3, <1>4, <1>5, <1>6 DEF SimNext

\* While the draws swap no direction, and whatever they drop, an epoch lasts
\* until the slower of the two candidates is told: seventeen or eighteen packets
\* of each node.  That no candidate takes fewer or more packets in a row is what
\* module MCSimulatorRows evaluates for every first byte and epoch.
THEOREM EpochsLast ==
    ASSUME MaxCounter < CounterMod, TRUE \notin Swaps, RowsOfRound
    PROVE  SimSpec => EpochLength
<1>1. SimInv /\ PaceInv /\ [SimNext]_simVars =>
         [\A p \in Peers :
             Generation(p)' # Generation(p) =>
                LET n == peer[p].send_counter
                    slower == peer[IF InStep THEN Other(p) ELSE p]
                IN  /\ n \in 17 .. 18
                    /\ Told(peer[p], n)
                    /\ Told(slower, n + 1) /\ ~Told(slower, n - 1)]_simVars
  BY NextPaceInv DEF Paces
<1>2. SimInv /\ PaceInv /\ [SimNext]_simVars => PaceInv'
  BY NextPaceInv
<1> QED
  BY <1>1, <1>2, InitPaceInv, SimInvariance, PTL DEF SimSpec, EpochLength
=============================================================================
