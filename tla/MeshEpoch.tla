----------------------------- MODULE MeshEpoch -----------------------------
(***************************************************************************)
(* The four-bit epoch carried by every packet (mesh-crypto.h, epoch_next   *)
(* and epoch_prev of mesh-crypto.cpp).  Epoch 0 is the bootstrap epoch and *)
(* is never entered again; the active epochs 1 .. EPOCH_MAX_ACTIVE form a  *)
(* ring; the value above the ring is reserved on the wire.                 *)
(***************************************************************************)
EXTENDS Integers

CONSTANT
    EPOCH_MAX_ACTIVE    \* last active epoch; 14 in mesh-crypto.h

\* With fewer than three active epochs the successor of an epoch would also
\* be its predecessor, which the fourteen of the code exclude.
ASSUME EpochAssumption == EPOCH_MAX_ACTIVE \in Nat /\ EPOCH_MAX_ACTIVE >= 3

EPOCH_BOOTSTRAP == 0
EPOCH_MIN_ACTIVE == 1
EPOCH_RESERVED_MAX == EPOCH_MAX_ACTIVE + 1

Epochs == EPOCH_BOOTSTRAP .. EPOCH_MAX_ACTIVE
WireEpochs == EPOCH_BOOTSTRAP .. EPOCH_RESERVED_MAX

\* a ring that forgets to skip the reserved value
epoch_next_reserved(e) == IF e > EPOCH_MAX_ACTIVE THEN EPOCH_MIN_ACTIVE ELSE e + 1

epoch_next(e) ==
    IF e = EPOCH_BOOTSTRAP \/ e >= EPOCH_MAX_ACTIVE THEN EPOCH_MIN_ACTIVE ELSE e + 1

epoch_prev(e) ==
    CASE e \in {EPOCH_BOOTSTRAP, EPOCH_MIN_ACTIVE} -> EPOCH_BOOTSTRAP
      [] e > EPOCH_MAX_ACTIVE -> EPOCH_MAX_ACTIVE
      [] OTHER -> e - 1
=============================================================================
