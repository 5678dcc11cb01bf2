----------------------------- MODULE AsconModes -----------------------------
(***************************************************************************)
(* What the program builds from the sponge: the sealing of packets and the *)
(* key derivation of mesh-crypto.cpp, and the generator of prng.cpp.       *)
(*                                                                         *)
(* A label is a byte string of the length it has in the code; of its text  *)
(* only what tells labels apart is kept, a number in its first bytes.      *)
(***************************************************************************)
EXTENDS Ascon, SequencesExt

TAG_SIZE == 8

Label(n, length) == [len |-> length, bits |-> BitsOf(n)]

\* "MC-ASCON-SIV" begins "MC-ASCON-SIV-ENC", "MC-KDF-v1" the labels of the
\* parts.
SivLabel  == Label(1, 12)
EncLabel  == Label(1, 16)
KdfLabel  == Label(2, 9)
PartOne   == [len |-> 12, bits |-> BitsOf(2) \cup {88}]
PartTwo   == [len |-> 12, bits |-> BitsOf(2) \cup {89}]
RatchetDomain == Label(3, 15)
SeedLabel == Label(4, 10)
MixLabel  == Label(5, 14)
RatchetLabel == Label(6, 7)
PacketDomain == Label(7, 12)

\* Absorbing one string after another into a fresh sponge, or a used one.
Absorbed(x, strings) == FoldLeft(ascon_absorb, x, strings)

Sponge(strings) == Absorbed(ascon_inithash, strings)

Xored(s, t) == [len |-> s.len, bits |-> SymDiff(s.bits, t.bits)]

-----------------------------------------------------------------------------
(* mesh-crypto.cpp *)

consttime_compare(s, t) == s = t

\* The tag of a message, and the keystream that goes with a tag.  The last bytes
\* of ad and the first of m meet in the same block of the sponge, so that a tag
\* alone does not tell ad and m from both with the same bits changed.
Siv(key, ad, m) ==
  ascon_squeeze(Sponge(<<SivLabel, key, ad, m>>), TAG_SIZE).out

Keystream(key, siv, length) ==
  IF length = 0 THEN Empty
  ELSE ascon_squeeze(Sponge(<<EncLabel, key, siv>>), length).out

\* A sealed packet: its tag and its ciphertext.
ascon_encrypt(key, src, ad) ==
  LET siv == Siv(key, ad, src)
  IN  [siv |-> siv, ct |-> Xored(src, Keystream(key, siv, src.len))]

\* The number of bytes returned, and what is left in dest: the plaintext is
\* written before its tag is compared.
ascon_decrypt(key, packet, ad) ==
  IF packet.siv.len < TAG_SIZE THEN [returned |-> 0, dest |-> Empty]
  ELSE LET m == Xored(packet.ct, Keystream(key, packet.siv, packet.ct.len))
       IN  [returned |-> IF consttime_compare(packet.siv, Siv(key, ad, m))
                         THEN packet.ct.len ELSE 0,
            dest |-> m]

\* 32 bytes from two inputs and a domain; no second input when it is empty.
kdf(in1, in2, domain) ==
  LET first  == <<KdfLabel, domain, PartOne, in1, PartTwo>>
      second == IF in2.len > 0 THEN <<in2>> ELSE <<>>
  IN  ascon_squeeze(Sponge(first \o second), 32).out

\* Mutant: the header is left to the tag.
PacketKeyWithoutHeader(ck, ad) == kdf(ck, Empty, PacketDomain)

\* A packet is sealed and opened under a key of its own, derived from the chain
\* key and the header.
PacketKey(ck, ad) == kdf(ck, ad, PacketDomain)

-----------------------------------------------------------------------------
(* prng.cpp: a generator is its sponge and the number of inputs mixed in. *)

\* n, below 2^16, in length bytes, most significant first.
BigEndian(n, length) ==
  [len |-> length,
   bits |-> {8 * (length - 1 - (b \div 8)) + (b % 8) : b \in BitsOf(n)}]

prng_seed(seed) ==
  [sponge |-> Sponge(<<SeedLabel, BigEndian(seed, 4)>>), mix_counter |-> 0]

\* Each gives the generator that is left and the bytes drawn.
random_bytes(g, n) ==
  IF n = 0 THEN [gen |-> g, out |-> Empty]
  ELSE LET s == ascon_squeeze(g.sponge, n)
       IN  [gen |-> [g EXCEPT !.sponge = s.x], out |-> s.out]

prng_next_byte(g) ==
  LET s == ascon_squeeze(g.sponge, 1)
  IN  [gen |-> [g EXCEPT !.sponge = s.x], out |-> s.out]

\* Four single bytes, the first one the most significant.
prng_next(g) ==
  LET draw[i \in 0 .. 4] ==
        IF i = 0 THEN [gen |-> g, out |-> Empty]
        ELSE LET was == draw[i - 1]
                 byte == prng_next_byte(was.gen)
             IN  [gen |-> byte.gen,
                  out |-> [len |-> i,
                           bits |-> was.out.bits
                                      \cup {b + 8 * (i - 1) : b \in byte.out.bits}]]
  IN  draw[4]

prng_absorb(g, data, label) ==
  [sponge |-> Absorbed(g.sponge, <<MixLabel, label,
                                   BigEndian(g.mix_counter, 8), data>>),
   mix_counter |-> g.mix_counter + 1]

\* Mutant: only the root key is mixed in.
MixKeyOfRoot(rk, ephemeral_priv) == kdf(rk, Empty, RatchetDomain)

\* What a ratchet mixes in.
MixKey(rk, ephemeral_priv) == kdf(rk, ephemeral_priv, RatchetDomain)

prng_mix_from_ratchet(g, mix_key) == prng_absorb(g, mix_key, RatchetLabel)
=============================================================================
