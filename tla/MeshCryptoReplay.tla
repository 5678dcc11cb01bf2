-------------------------- MODULE MeshCryptoReplay --------------------------
(***************************************************************************)
(* MeshCrypto with a history variable: accepted[p] is the set of packets   *)
(* decrypt_packet has returned to p.  It is what the anti-replay counters  *)
(* stand for.                                                              *)
(***************************************************************************)
EXTENDS MeshCryptoSafety

VARIABLE accepted

replayVars == <<peer, fec, net, damaged, accepted>>

ReplayInit == Init /\ accepted = [p \in Peers |-> {}]

Returns(p, k) ==
    /\ AcceptCurrent(p, k) \/ AcceptPrevious(p, k) \/ Follow(p, k)
    /\ accepted' = [accepted EXCEPT ![p] = @ \cup {k}]
    /\ UNCHANGED <<net, damaged>>

Refuses(p, k) ==
    /\ RejectEpoch(p, k) \/ RejectOld(p, k) \/ FailOpen(p, k) \/ FailTrial(p, k)
    /\ UNCHANGED <<net, damaged, accepted>>

Transmits(p) ==
    /\ SendInEpoch(p) \/ SendAsFirstMover(p)
    /\ UNCHANGED accepted

ReplayNext ==
    \E p \in Peers :
        \/ Transmits(p)
        \/ \E k \in net[p] :
              \/ Returns(p, k)
              \/ Refuses(p, k)
              \/ Damage(p, k) /\ UNCHANGED accepted

ReplaySpec == ReplayInit /\ [][ReplayNext]_replayVars

\* The window bounds replay: once a packet of the same generation with a
\* counter more than REPLAY_TOLERANCE ahead has been returned, a packet that
\* was returned before is refused, also after the ratchet moved its generation
\* into the past.
ReplayIsBounded ==
    \A p \in Peers : \A k, newer \in accepted[p] :
        /\ GenerationOf(newer) = GenerationOf(k)
        /\ newer.ad.counter > k.ad.counter + REPLAY_TOLERANCE
        => ~WouldReturn(p, k)

\* "to make sure that replayed packets will fail authentication"
\* (encrypt_packet, mesh-crypto.cpp:374).
ReplayFails == \A p \in Peers : \A k \in accepted[p] : ~WouldReturn(p, k)
=============================================================================
