---------------------------- MODULE MCSimulator ----------------------------
(* Instances of the simulator for TLC. *)
EXTENDS Simulator

Never == {FALSE}
Sometimes == {FALSE, TRUE}

AllIndependent(hint, epoch) ==
    {S \in SUBSET (0 .. CounterMod - 1) : Cardinality(S) >= FEC_SOURCE_SYMBOLS}
=============================================================================
