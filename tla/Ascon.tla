-------------------------------- MODULE Ascon --------------------------------
(***************************************************************************)
(* The Ascon permutation and the sponge of lib/ascon, bit by bit.  A word  *)
(* is the set of its one bits; a byte string is its length and the set of  *)
(* its one bits, bit b of byte i being 8 * i + b, as a little-endian       *)
(* machine loads it.  The state is five words, x0 to x4.                   *)
(***************************************************************************)
EXTENDS Integers, Sequences, FiniteSetsExt

WordBits == 0 .. 63

Words == SUBSET WordBits

ascon_state_t == [x0 : Words, x1 : Words, x2 : Words, x3 : Words, x4 : Words]

\* The bits of a number below 2^16, and the word of four such numbers, most
\* significant first.
BitsOf(n) == {b \in 0 .. 15 : (n \div 2^b) % 2 = 1}

Word(n3, n2, n1, n0) ==
  {b + 48 : b \in BitsOf(n3)} \cup {b + 32 : b \in BitsOf(n2)}
    \cup {b + 16 : b \in BitsOf(n1)} \cup BitsOf(n0)

Not(a) == WordBits \ a

\* Mutant: the rotation goes the other way.
Rol(a, n) == {(b + n) % 64 : b \in a}

\* x >> n ^ x << (64 - n)
Ror(a, n) == {(b + 64 - n) % 64 : b \in a}

Diffused(a, m, n) == SymDiff(a, SymDiff(Ror(a, m), Ror(a, n)))

-----------------------------------------------------------------------------
(* The permutation. *)

RC == <<\hf0, \he1, \hd2, \hc3, \hb4, \ha5, \h96, \h87, \h78, \h69, \h5a, \h4b>>

\* One round with constant c: the s-box of the 64 columns in the order of
\* the code's assignments, a0 being x0 after the first one, and so on; then
\* the linear layer.  A function, so that TLC computes its argument before
\* its value.
ROUND[x \in ascon_state_t, c \in 0 .. 255] ==
  LET a0 == SymDiff(x.x0, x.x4)
      a4 == SymDiff(x.x4, x.x3)
      a2 == SymDiff(SymDiff(x.x2, BitsOf(c)), x.x1)
      temp == a0 \ a4
      b0 == SymDiff(a0, a2 \ x.x1)
      b2 == SymDiff(a2, a4 \ x.x3)
      b4 == SymDiff(a4, x.x1 \ b0)
      b1 == SymDiff(x.x1, x.x3 \ b2)
      b3 == SymDiff(x.x3, temp)
  IN  [x0 |-> Diffused(SymDiff(b0, b4), 19, 28),
       x1 |-> Diffused(SymDiff(b1, b0), 61, 39),
       x2 |-> Diffused(Not(b2), 1, 6),
       x3 |-> Diffused(SymDiff(b3, b2), 10, 17),
       x4 |-> Diffused(b4, 7, 41)]

P12ROUNDS[x \in ascon_state_t] ==
  LET after[i \in 0 .. 12] == IF i = 0 THEN x ELSE ROUND[after[i - 1], RC[i]]
  IN  after[12]

-----------------------------------------------------------------------------
(* Byte strings. *)

Empty == [len |-> 0, bits |-> {}]

\* The bits of byte string s from byte i on, at most n bytes of them.
Slice(s, i, n) ==
  {b - 8 * i : b \in {c \in s.bits : c >= 8 * i /\ c < 8 * (i + n)}}

PAD(i) == {8 * i}

-----------------------------------------------------------------------------
(* The sponge of hash.c, with ASCON_HASH_RATE = 8 and 12 rounds. *)

ASCON_HASH_RATE == 8

ASCON_XOF_IV ==
  [x0 |-> Word(\hda82, \hce76, \h8d94, \h47eb),
   x1 |-> Word(\hcc7c, \he6c7, \h5f1e, \hf969),
   x2 |-> Word(\he750, \h8fd7, \h8008, \h5631),
   x3 |-> Word(\h0ee0, \hea53, \h416b, \h58cc),
   x4 |-> Word(\he054, \h7524, \hdb6f, \h0bde)]

ascon_inithash == ASCON_XOF_IV

\* Full blocks are followed by a permutation; the last, partial or empty
\* block is padded and left in x0.
ascon_absorb(x, in) ==
  LET full == in.len \div ASCON_HASH_RATE
      Mixed(y, word) == [y EXCEPT !.x0 = SymDiff(@, word)]
      after[i \in 0 .. full] ==
        IF i = 0 THEN x
        ELSE P12ROUNDS[Mixed(after[i - 1], Slice(in, 8 * (i - 1), 8))]
      rest == in.len % ASCON_HASH_RATE
  IN  Mixed(Mixed(after[full], Slice(in, 8 * full, rest)), PAD(rest))

\* Mutant: no permutation before the first output block.
ascon_squeeze_early(x, outlen) ==
  LET blocks == IF outlen = 0 THEN 1 ELSE (outlen + 7) \div ASCON_HASH_RATE
      after[i \in 0 .. blocks] ==
        IF i = 0 THEN [x |-> x, bits |-> {}]
        ELSE LET was == after[i - 1]
                 y == IF i = 1 THEN was.x ELSE P12ROUNDS[was.x]
             IN  [x |-> y,
                  bits |-> was.bits \cup {b + 64 * (i - 1) : b \in y.x0}]
      last == after[blocks]
  IN  [x |-> last.x,
       out |-> [len |-> outlen,
                bits |-> {b \in last.bits : b < 8 * outlen}]]

\* A permutation before each output block; the last block may be partial.
\* The state that is left, and the bytes.
ascon_squeeze(x, outlen) ==
  LET blocks == IF outlen = 0 THEN 1 ELSE (outlen + 7) \div ASCON_HASH_RATE
      after[i \in 0 .. blocks] ==
        IF i = 0 THEN [x |-> x, bits |-> {}]
        ELSE LET was == after[i - 1]
                 y == P12ROUNDS[was.x]
             IN  [x |-> y,
                  bits |-> was.bits \cup {b + 64 * (i - 1) : b \in y.x0}]
      last == after[blocks]
  IN  [x |-> last.x,
       out |-> [len |-> outlen,
                bits |-> {b \in last.bits : b < 8 * outlen}]]
=============================================================================
