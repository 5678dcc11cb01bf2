------------------------- MODULE MCMeshCryptoReplay -------------------------
(* A small instance of MeshCryptoReplay for TLC. *)
EXTENDS MeshCryptoReplay

AllIndependent(hint, epoch) ==
    {S \in SUBSET (0 .. MaxCounter) : Cardinality(S) >= FEC_SOURCE_SYMBOLS}
=============================================================================
