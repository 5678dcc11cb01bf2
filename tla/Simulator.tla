----------------------------- MODULE Simulator -----------------------------
(***************************************************************************)
(* The main loop of simulator.cpp over the two peers of MeshCrypto.  Each  *)
(* round may swap the direction, may drop the message (before it is        *)
(* encrypted), and otherwise encrypts at one peer and decrypts at the      *)
(* other; net holds the packet between the two calls.  The loop count and  *)
(* the totals it prints are left out: num_messages is any number.          *)
(***************************************************************************)
EXTENDS MeshCryptoSafety

CONSTANTS
    Swaps,      \* possible outcomes of the draw against order_swap_prob
    Drops       \* possible outcomes of the draw against loss_percent

ASSUME SimulatorAssumption == Swaps \subseteq BOOLEAN /\ Drops \subseteq BOOLEAN

VARIABLES
    a_sends,    \* TRUE: A->B
    stage,      \* "loop", or "decrypt" while a packet is in pkt
    rx_failed   \* rx_failed[p]: p's RX failure count is not zero

simVars == <<vars, a_sends, stage, rx_failed>>

SenderOf(direction) == IF direction THEN 0 ELSE 1

SimInit ==
    /\ Init
    /\ a_sends = TRUE
    /\ stage = "loop"
    /\ rx_failed = [p \in Peers |-> FALSE]

\* the direction of the round after the draw
Direction(swap) == IF swap THEN ~a_sends ELSE a_sends

\* A message lost on the way never reaches encrypt_packet, and leaves the turn
\* with its sender.
DropMessage ==
    /\ stage = "loop"
    /\ TRUE \in Drops
    /\ \E swap \in Swaps : a_sends' = Direction(swap)
    /\ UNCHANGED <<vars, stage, rx_failed>>

Encrypt(direction) ==
    /\ stage = "loop"
    /\ FALSE \in Drops
    /\ \E swap \in Swaps : direction = Direction(swap)
    /\ SendInEpoch(SenderOf(direction)) \/ SendAsFirstMover(SenderOf(direction))
    /\ a_sends' = direction
    /\ stage' = "decrypt"
    /\ UNCHANGED rx_failed

Decrypt ==
    /\ stage = "decrypt"
    /\ LET p == Other(SenderOf(a_sends))
       IN  \E k \in net[p] :
              /\ Receive(p, k)
              /\ net' = [net EXCEPT ![p] = {}]
              /\ rx_failed' = [rx_failed EXCEPT ![p] = @ \/ ~WouldReturn(p, k)]
    /\ a_sends' = ~a_sends
    /\ stage' = "loop"
    /\ UNCHANGED damaged

SimNext ==
    \/ DropMessage
    \/ \E direction \in BOOLEAN : Encrypt(direction)
    \/ Decrypt

SimSpec == SimInit /\ [][SimNext]_simVars

\* The program runs on, and the draws of prng_next favour neither direction for
\* ever nor drop every message from some point on.
SimFairness ==
    /\ WF_simVars(Decrypt)
    /\ \A direction \in BOOLEAN : SF_simVars(Encrypt(direction))

FairSimSpec == SimSpec /\ SimFairness

-----------------------------------------------------------------------------
\* No packet of a simulation fails at the receiver, whatever -l and -p are: the
\* RX failures of the summary are zero.
NoRxFailure == \A p \in Peers : ~rx_failed[p]

\* Between two rounds the peers are in step: a first mover is followed within
\* its round, so a simulation never uses CKr_prev.
InStepBetweenRounds == stage = "loop" => InStep

\* The first n packets of its epoch tell the candidate of s to whoever has
\* received them all.
Told(s, n) ==
    \E m \in 1 .. n :
        0 .. m - 1 \in Decodable(compute_hint(s.ephemeral_candidate), s.epoch)

\* An epoch lasts for as many packets as the slower of the two candidates needs
\* to be told, seventeen or eighteen ("once every ~18 messages in the same
\* direction", RATIONALE.md:51); the node that leads may have sent one less.  The
\* one that follows is always the slower.
EpochLength ==
    [][\A p \in Peers :
          Generation(p)' # Generation(p) =>
              LET n == peer[p].send_counter
                  slower == peer[IF InStep THEN Other(p) ELSE p]
              IN  /\ n \in 17 .. 18
                  /\ Told(peer[p], n)
                  /\ Told(slower, n + 1) /\ ~Told(slower, n - 1)]_simVars

\* The peers keep ratcheting, both of them, for as long as both are heard.
KeepsRatcheting == \A p \in Peers : <>(Generation(p) = MaxRatchets)
=============================================================================
