---------------------------- MODULE HealingPrng -----------------------------
(***************************************************************************)
(* The generators of two nodes, step by step in the same way, but for the  *)
(* secrets their ratchets mix in.                                          *)
(***************************************************************************)
EXTENDS AsconModes

CONSTANTS
  SeedPairs,    \* arguments of prng_seed on node A and on node B
  Lengths,      \* arguments of random_bytes
  RootKeys,     \* root keys after a ratchet, the same on both nodes
  Secrets,      \* the nodes' ephemeral private keys
  MaxUses       \* calls made on each generator

VARIABLES
  gen,     \* the generator of each node
  drawn,   \* what each node has drawn, in order
  same     \* both nodes have been given the same so far

vars == <<gen, drawn, same>>

Nodes == {"A", "B"}

Init ==
  \E seed \in SeedPairs :
    /\ gen = [A |-> prng_seed(seed[1]), B |-> prng_seed(seed[2])]
    /\ drawn = [n \in Nodes |-> <<>>]
    /\ same = (seed[1] = seed[2])

\* A counter of calls is not kept: the draws and the mixes are counted.
Uses == Len(drawn["A"]) + gen["A"].mix_counter

\* Both nodes draw, by Op.
Drawn(Op(_)) ==
  LET d == [n \in Nodes |-> Op(gen[n])]
  IN  /\ Uses < MaxUses
      /\ gen' = [n \in Nodes |-> d[n].gen]
      /\ drawn' = [n \in Nodes |-> Append(drawn[n], d[n].out)]
      /\ UNCHANGED same

RandomBytes == \E n \in Lengths : Drawn(LAMBDA g : random_bytes(g, n))

NextByte == Drawn(prng_next_byte)

NextWord == Drawn(prng_next)

\* What the nodes can mix in when they ratchet to rk.
MixKeys(rk) == {[priv |-> s, key |-> MixKey(rk, s)] : s \in Secrets}

\* What node n can become by mixing in one of keys.
Mixed(n, keys) ==
  {[priv |-> k.priv, gen |-> prng_mix_from_ratchet(gen[n], k.key)] : k \in keys}

\* Both ratchet to the same root key, each with its own private key.
Ratchet ==
  /\ Uses < MaxUses
  /\ \E keys \in {MixKeys(rk) : rk \in RootKeys} :
       \E a \in Mixed("A", keys), b \in Mixed("B", keys) :
         /\ gen' = [gen EXCEPT !["A"] = a.gen, !["B"] = b.gen]
         /\ same' = (same /\ a.priv = b.priv)
  /\ UNCHANGED drawn

Next == RandomBytes \/ NextByte \/ NextWord \/ Ratchet

-----------------------------------------------------------------------------
\* Two nodes that started from one seed part for good as soon as a ratchet
\* has mixed two different private keys in, although the root key is the
\* same: "even if our local PRNG is bust we eventually heal", prng.h:17.
\* Until then the generator is a function of the seed and of what was mixed.
HealsByRatcheting == same <=> gen["A"] = gen["B"]

\* A node never draws the same eight bytes twice, at the start of a draw or
\* after a block of it, whatever was drawn or mixed in between.
Octets(s) ==
  {[at |-> i, bits |-> Slice(s, 8 * i, 8)] : i \in 0 .. s.len \div 8 - 1}

DrawsAreFresh ==
  \A n \in Nodes : \A i, j \in 1 .. Len(drawn[n]) :
    \A e \in Octets(drawn[n][i]), f \in Octets(drawn[n][j]) :
      e.bits = f.bits => i = j /\ e.at = f.at
=============================================================================
