---------------------------- MODULE MCMeshCrypto ----------------------------
(***************************************************************************)
(* Small instances of the two peers for TLC: one or two symbols per key,   *)
(* three active epochs, a handful of counters.                             *)
(***************************************************************************)
EXTENDS MeshCryptoInvariant

SentCounters == 0 .. MaxCounter

\* Any FEC_SOURCE_SYMBOLS rows are independent.
AllIndependent(hint, epoch) ==
    {S \in SUBSET SentCounters : Cardinality(S) >= FEC_SOURCE_SYMBOLS}

\* ... except the rows of counters 1 and 2 for one of the hints, as some recovery
\* rows of the code are not (module FecCode).
OneDependentPair(hint, epoch) ==
    AllIndependent(hint, epoch) \ IF hint = 1 THEN {{1, 2}} ELSE {}
=============================================================================
