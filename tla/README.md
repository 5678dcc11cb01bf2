# MeshCore-cryptosim in TLA+

A model of the ratcheting packet cryptography in `src/`: two radio nodes that
share a root key, exchange one-byte-hinted candidate keys through a fountain
code spread over the headers of their ordinary packets, and step their root key
whenever both candidates have got across; and of the primitives under `src/lib`
this rests on. The models are checked with TLC; the ratchet, the simulator that
drives it, the fountain code, the stored key pairs and the blocks of SHA-512 are
proved with TLAPS.

    tlc -workers 2 -config LossyLink.cfg MCMeshCrypto     # one run
    tlapm MeshCryptoSafetyProofs.tla                      # safety and refinement
    tlapm MeshCryptoCounterProofs.tla                     # counters, packet keys, replay
    tlapm SimulatorProofs.tla                             # the main loop
    tlapm FecCodeProofs.tla                               # the fountain code
    tlapm KeyStoreProofs.tla                              # the key cells of PeerState
    tlapm Sha512Proofs.tla                                # the blocks of SHA-512

## 1. The system

| Part | Source | State it keeps | Operations |
|---|---|---|---|
| Epoch ring | `mesh-crypto.cpp` 18-32, `mesh-crypto.h` | none | `epoch_next`, `epoch_prev` |
| Peer state machine | `mesh-crypto.cpp` 228-479 | `PeerState`: root key `RK`, `CKr_prev`, own current and candidate key pair, the other's pending candidate and the first byte of its current key, epoch, three counters, three flags | `encrypt_packet`, `decrypt_packet`, `ratchet_on_fec_decode`, `ratchet_on_epoch_advance` |
| FEC sidecar | `fec.cpp` 174-221 | `FecRxState`: the round's hint and epoch and up to 64 equations | `fec_rx_clear`, `fec_rx_ensure_round`, `fec_rx_add_symbol`, `fec_rx_try_decode_candidate` |
| Fountain code | `fec.cpp` 1-172 | two option globals | `fec_equation_coeffs`, `fec_encode_symbol`, `fec_try_decode` |
| Packet AEAD and KDF | `mesh-crypto.cpp` 34-160 | none | `ascon_encrypt`, `ascon_decrypt`, `kdf` |
| Ascon sponge | `lib/ascon` | five words | `ascon_inithash`, `ascon_absorb`, `ascon_squeeze` |
| Pseudo-random generator | `prng.cpp` | a sponge and a mix counter | `random_bytes`, `prng_next`, `prng_absorb` |
| Field, scalars, curve | `lib/ed25519/fe.c`, `sc.c`, `ge.c`, `precomp_data.h` | none | `fe_*`, `sc_reduce`, `sc_muladd`, `ge_*` |
| SHA-512 | `lib/ed25519/sha512.c` | `sha512_context`: a block, its fill, the length, eight words | `sha512_init`, `sha512_update`, `sha512_final` |
| Key exchange | `lib/ed25519/keypair.c`, `key_exchange.c` | none | `ed25519_create_keypair`, `ed25519_key_exchange` |
| Signatures | `lib/ed25519/sign.c`, `verify.c`, `add_scalar.c`, `seed.c` | none | linked, not called by the program |
| Simulator | `simulator.cpp` | the two peers, whose turn it is, counts | `bootstrap`, the main loop |

How they interact. There are no threads: everything is a call.
`encrypt_packet` may first ratchet (`ratchet_on_fec_decode`, and
`fec_rx_clear` of its own sidecar), then puts ack, epoch, counter, hint and one
symbol of its candidate into the header, derives the packet key from the chain
key and the whole header, and counts the packet. `decrypt_packet` chooses
between current epoch, previous epoch and next epoch from the header; for the
next epoch it runs `ratchet_on_epoch_advance` on a copy and commits the copy
only when the tag verifies. An authentic packet of the (possibly new) current
epoch hands its symbol to the sidecar; sixteen independent equations give the
other's candidate, `REMOTE_CANDIDATE_READY` and `ACK_REMOTE_CANDIDATE`. The ack
travels in the next header and becomes `SAW_PEER_ACK` at the other end, which
may then lead. The simulator runs encrypt and decrypt back to back and draws
who sends and what is dropped. A new candidate is drawn from the generator and
made by `ed25519_create_keypair`, which hashes it; `ratchet_on_epoch_advance`
exchanges keys twice, sorts the two secrets, derives the new root key and mixes
it, with its own private key, back into the generator.

What is hard. The concurrency is between the two *nodes*: a link loses,
repeats, delays and reorders packets, both nodes may lead at once, one may be
a step behind, a packet may be older than one or several ratchets while its
four-bit epoch has come round again. Half-decoded rounds and confirmations can
outlive the candidate they were about. The receiver acts on unauthenticated
header fields (epoch, counter) before the tag verifies. Nothing is persisted,
so there is no crash recovery to speak of, and no timers. In the primitives it
is arithmetic on unreduced numbers: limbs that may be negative or too large,
carries that have to be made in one order and often enough, digits that borrow
from digits already written, all wrong only for rare inputs; and sequences of
calls on one context or key pair, where a byte or a half left over from before
is taken for a new one.

What makes each part correct:

- ring: never the reserved epoch 15, never back to 0; successor and predecessor
  undo one another (except across the wrap, by design of `epoch_prev`);
- peers: equal or adjacent root keys, and the one behind can always follow; a
  confirmation means what the sender takes it to mean; present packets can be
  read, late ones open under the saved key, older ones never; no node seals two
  packets under one key; replay is bounded by the window;
- sidecar: a round holds equations of one candidate, and what it yields is the
  candidate the other end will ratchet with;
- code: whatever it decodes is the sender's key, and it decodes before its
  cache is full;
- simulator: no packet fails, both nodes keep ratcheting, and an epoch lasts as
  long as the slower candidate takes to get across;
- arithmetic: limbs stand for the right number, its encoding is the one below
  the modulus, and no sum outgrows what a multiplication takes;
- keys: the public key stored is that of the private key stored beside it, both
  ends compute the same secret and feed it to the KDF in the same order;
- signatures: what a holder signs verifies, whatever was added to the key, and
  a verifier answers by the equation;
- SHA-512: the blocks compressed are the padded message;
- sponge: it starts where its definition says; a sealed packet opens with its
  chain key and header and with no other; no draw repeats, and two generators in one
  state part when different secrets are mixed in.

## 2. The modules

    MeshEpoch     FecSidecar          RatchetPair ------- RatchetPairProofs
         \          /                    |  (INSTANCE ... WITH)
          MeshCrypto ------------ MeshCryptoSafety
                                   /      |        \
                MeshCryptoInvariant  MeshCryptoReplay  Simulator
                   /         \               |             |
        MCMeshCrypto    \          MCMeshCryptoReplay  MCSimulator
                         \                                 |
                          \                         MCSimulatorRows
                           \                              /
                  MeshCryptoSafetyProofs        GF256 - FecCode - MCFecCode
                   /                   \                     \
     MeshCryptoCounterProofs      SimulatorProofs         FecCodeProofs
      (on MeshCryptoReplay)        (on Simulator)

    FieldElement - FieldCalls --- FieldProofs
    FieldPower    Scalar - ScalarCalls    Residues
    GroupElement - Ed25519 --- KeyStore, Wallet, GroupSizes    EdwardsCurve
    KeyStore ----- KeyStoreProofs
    Sha512 ------- Sha512Proofs
    Ascon -------- AsconRounds
        \-------- AsconModes -- SealedLetters, HealingPrng
    MCEd25519 and MCSponge instantiate these machines, those over the curve on
    SmallCurve; MCPrimitives runs them.

- **MeshEpoch** the ring, with its length as the constant `EPOCH_MAX_ACTIVE`.
- **FecSidecar** `FecRxState` and the `fec_rx_*` functions as operators on a
  record. A symbol is *which block seen through which row*; which block is
  history, and not on the air (`symbol_bytes`). The sets of counters whose rows
  have full rank under a hint and an epoch are the constant `Decodable`, so that
  the protocol is checked for independent and for dependent rows.
- **MeshCrypto** the core. `peer[p]` is the `PeerState` with the fields of the
  struct (chain keys other than `CKr_prev` are computed on demand in the code,
  and here), `fec[p]` the sidecar, `net[p]` every packet ever sent to `p`,
  `damaged` counts packets the link has changed. `SendInEpoch` and
  `SendAsFirstMover` are the two paths of `encrypt_packet`; `RejectEpoch`,
  `RejectOld`, `FailOpen`, `FailTrial`, `AcceptCurrent`, `AcceptPrevious` and
  `Follow` are the ways through `decrypt_packet`, each with all it does: the
  counter noted *before* the tag, the ack, the round opened, the symbol added,
  the decode, the candidate and its flags, the sidecar cleared. A packet is
  never consumed: it may be delivered again, later, or not at all, which gives
  loss, repetition, delay and reordering; `Damage` rewrites the epoch, counter
  or ack of a header on the way.
- **MeshCryptoSafety** the type invariant and the properties.
- **RatchetPair** the abstract specification: two nodes and their root keys, no
  packets. `MeshCryptoSafety!Pair` is the refinement mapping.
- **MeshCryptoInvariant** the inductive invariant `IInv`.
- **MeshCryptoReplay** MeshCrypto with the history of returned packets.
- **GF256** the bytes as a field: `gf256_mul`, `gf256_pow`, `gf256_inv` bit by
  bit as in `fec.cpp`, tabulated. **FecCode** the fountain code with its real
  numbers: the xorshift rows, `fec_encode_symbol`, the elimination with its row
  exchanges, and one round of sending the block `Source` over a link that loses
  some packets and delivers others again.
- **Simulator** the main loop over MeshCrypto: at most one packet is in
  flight, the direction alternates unless a draw swaps it, a dropped message is
  dropped before it is encrypted and keeps the turn. **MCSimulatorRows** gives it
  the rows of FecCode for `Decodable`.
- **FieldElement** `fe.c` on ten signed limbs of alternating size, with the
  sizes `Wide` and `Narrow` (2^26 and 2^25 in the code), the constant `C` of the
  modulus (19) and the positions of the loads as constants; every product,
  rounded carry and carry order is the code's. `Shaped` says which sizes have the
  form of the code's.
  **FieldCalls** keeps two registers of limbs beside the numbers they should be,
  under any sequence of calls. **FieldPower** runs the two fixed powers one
  squaring or multiplication at a time, over any multiplication.
- **Scalar** `sc_reduce` and `sc_muladd` on limbs of `Width` bits and an order
  given by its six digits; **ScalarCalls** is their machine.
- **GroupElement** the points, tables and digits of `ge.c` over field operations
  that are constants. **Ed25519** key pairs, ladder, signatures and `add_scalar`
  on top of it, over a hash that is a constant. **EdwardsCurve** is the
  reference, affine and by repeated doubling, and the table `precomp_data.h`
  holds; **Residues** products and powers modulo a number within 31 bits.
- **KeyStore** the key pairs of both `PeerState`s as rows of 32-byte cells, with
  the writes of `ed25519_create_keypair` past its field, `bootstrap` and the
  ratchet; **Wallet** a holder, a watcher who has only the public key, and a
  verifier; **GroupSizes** the same formulas read on limb sizes.
- **Sha512** the context and its buffer, byte by byte; a byte is known by its
  place in its message, and compressing records the block.
- **Ascon** the permutation and the sponge on sets of bits; **AsconRounds** its
  rounds one by one; **AsconModes** `kdf`, `ascon_encrypt`, `ascon_decrypt` and
  `prng.cpp`; **SealedLetters** derives the packet key, seals, damages, derives it
  again and opens; **HealingPrng** draws
  from and mixes into the generators of two nodes.
- **MC...** constants for TLC; **...Proofs** theorems.

### Abstractions

Cryptography is symbolic. A key pair is named by owner, serial number and the
first byte of its public half (the hint: the one byte the protocol looks at).
`ed25519_key_exchange` of two pairs is the set of the two, the same from both
ends; `kdf_rk` appends the key material to the root key's history; a packet
key is the pair of chain key and header. A packet opens exactly when the
receiver derives the key it was sealed under. Two derivations are equal exactly
when their inputs are, so a collision (a forged eight-byte tag, equal secrets)
is not in the model. What two bytes of a symbol may agree on by chance is: on
the air a symbol shows its row and not its block, so that two headers with one
epoch, counter, hint and ack are equal whoever sent them. Both directions have
one chain key, so packets of opposite directions may share a packet key here,
as they may in the code (at counter 0 when two candidates begin with the same
two bytes, about once in 2^16 epochs); `KeyPerPacketIsFresh` is therefore about
the packets of one node. Static keys carry
the hint 0: nothing reads their first byte, because `remote_hint` is zero until
the first ratchet and is then the byte of a candidate. `mlen < 1` and `len < 14`, which change no state, are left
out, and so are the trailing arguments used for printing. The randomness a
failing trial consumes is not modelled there, fresh keys being free choices
anyway. That is the view of the ratchet; what it takes for granted is checked
below it: KeyStore that both ends get the same secret and sort it alike,
SealedLetters that a packet opens only under its chain key and header, HealingPrng
that draws are fresh.
Equations of two blocks would make the elimination produce a block nobody
holds: `fec_rx_decoded` yields `GarbledKey` there, and the proofs show that it
never happens.

The arithmetic of `lib/ed25519` is on numbers of 255 bits, which TLC does not
hold, so it is parameterised by what the code fixes and run on small numbers of
the same form. A field string, a scalar or a key is a number instead of 32
bytes; `sha512` in Ed25519 is any function of the whole message; in Sha512 the
message is its positions and the eight words are the list of blocks. In Ascon
nothing is small: words have 64 bits and the constants are the code's; labels
keep their length and what tells them apart. Big-endian macros of the imported
headers are left out: the model loads and stores as a little-endian machine.

## 3. The runs

| Run | Module | What it asks | Size |
|---|---|---|---|
| LossyLink | MCMeshCrypto | agreement of keys, earned confirmations, coherent rounds, genuine candidates, no false duplicate, no packet key twice in one direction, over a lossy link | 177,434 states |
| EpochWrap | MCMeshCrypto | types, readability of present, late and ancient packets, and refinement of RatchetPair, while a ring of three epochs wraps | 130,910 |
| Replay | MCMeshCryptoReplay | replay is bounded by the window, across a ratchet; a header changed on the way earns no confirmation and is never returned, and a trial ratchet that fails leaves the peers agreed | 48,505 |
| Primitives | MCPrimitives | seventeen properties of the ten machines over `lib/`, the key store and the generator, one machine stepping in each behaviour | 58,305 |
| FecBursts | MCFecCode | the real code recovers the key from bursts of up to eight lost packets, also when others come seventeen times, and needs no recovery row when every systematic packet comes | 6,556 |
| SimDefaults | MCSimulatorRows | the simulator with default options, the real sizes and the rank of the real rows, four ratchets of each node over a ring of three epochs: how long an epoch lasts, and that they keep ratcheting | 92,204 |
| SimDraws | MCSimulator | the simulator under every sequence of draws; liveness | 27,670 |
| LatePacketsAtWrap, FailedOpen, ReplayAccepted, CounterWrap, FecLongBurst | | one statement of the docs or comments each, which the code does not meet (section 6) | |

**Bounds and why they suffice.** `MaxRatchets` stops a node from leading (it may
still follow); `MaxCounter` stops it from sending; `MaxDamaged` bounds noise.
LossyLink needs two symbols per key so that a round can be half open, three
counters more than that so that a round has spare packets, a pair of dependent
rows so that two equations may be one too few, and three hints so that "differs
from the last" is not "equals the one before". One ratchet of each node already
contains a first mover, a follower, both leading at once and the opening of the
next round; more ratchets are the business of EpochWrap (four over a ring of
three, with one-symbol keys) and of the theorems, which bound nothing.
`REPLAY_TOLERANCE = 1` with counters to 2 or 3 puts packets inside, at and
beyond the window; Replay, whose noise may change any header, uses a tolerance
of 0 so that two packets are already one inside and one beyond. `CounterMod` is
above `MaxCounter` where the wrap is not the question and at it where it is
(CounterWrap). FecBursts uses the real
constants and a `Source` of thirty-two different bytes; it tries bursts from the
first packet of the round, in the head, at the recovery rows and in the tail,
for two of the (hint, epoch) pairs. Whether a round ends depends on rows only,
not on `Source` (theorem `WaitsOnlyForRank`), and no loss pattern can make it
end wrongly (`SourceDecoded`): the run is about when it ends. Packets 3, 9,
12 and 16 (two of the head, a recovery row and the first that can end a round)
may each be delivered `Copies` = 16 times more: one of them cached each time
would fill the cache, so a round could not end after a burst.

SimDefaults gives `Decodable` the rank of the real rows, which depends on hint
and epoch. `RowsAssumption` of MCSimulatorRows has TLC decide it for all 256 x 15
headings: sixteen packets in a row are never enough (rows 10 to 13 cancel in the
columns left), seventeen are for 3826 of the 3840 headings, and for the other
fourteen eighteen are. The assumption reads this off a determinant of the last
three columns; `HintsAssumption` has the elimination of `fec_try_decode` confirm
it for the hints of the run. These, 0, 37 and 109, were chosen so that fast and
slow candidates meet, in the bootstrap epoch and later; with the ring of three
each epoch and hint is met, and four ratchets go past its wrap. The real ring
would only add headings, which `RowsAssumption` covers, and the theorem
`EpochsLast` leaves nothing bounded.

**The parts of Primitives.** Each part is a machine of its own, checked in one
run because they share nothing but the clock.

- *field*: limbs of sizes 8 and 4, modulo 2^25 - 2, four calls on two registers
  loaded from strings around 0, the modulus and the last string. Limbs this
  narrow carry out of every position and go negative at once. `fe_tobytes`
  estimates a quotient under a condition its comment derives from 25-bit limbs;
  with narrow limbs that condition can fail, so it is asked only where
  `Packable` holds; section 4 says when that is so at the code's sizes. MCEd25519
  assumes `Shaped`, so TLC confirms that the theorems of FieldProofs speak of
  this instance too.
- *power*: exponents in place of elements, so the real chains of 254 and 252
  squarings are followed exactly; the temporaries start with rubbish.
- *scalar*: limbs of 2 bits, modulo 16,778,027, words at 0, the order and the
  top; two calls in a row.
- *sizes*: the bounds `fe.c` documents, 1.65 * 2^26 for a factor, 1.1 * 2^26 for
  a packed element, 1.01 * 2^25 for a product; that an operation within its bound
  overflows nowhere and leaves a result within its own is proved (section 4). All orders of group operations
  and ladder steps: five calls reach every size there is. `fe_add` and `fe_sub` also
  document 1.1 * 2^25 for their own arguments; `ge_p2_dbl` and `ge_add` exceed
  that (a difference of sums reaches 1.515 * 2^26), and it does not matter, since
  what they feed is still below the bound of `fe_mul`.
- *keys*, *wallet*: -x^2 + y^2 = 1 + 688 x^2 y^2 modulo 2^15 - 19 with 8 * 4099
  points: a prime of the same residue modulo 8, the cofactor, the base point's
  4/5 and the form of the order (2^12 + 3) are kept. Three seeds, two ratchets;
  strings that decode, that do not, that are not reduced, and of the sign bit.
  MCEd25519 assumes `MultipliesBase`, a hypothesis of KeyStoreProofs, which TLC
  evaluates on this curve; the other, `ExchangeCommutes`, is what
  `SecretIsTheProduct` says of the keys in use: those of three seeds and what the
  ratchets make of them, not every scalar.
- *hash*: real blocks of 128 bytes, pieces of 0, 15, 32, 111, 112 and 128 bytes
  up to 256, two messages through one context, so that every fill of the buffer
  around 112 is met with a stale buffer. The theorems bound nothing.
- *rounds*, *letters*, *prng*: the real permutation. Texts of 0, 1, 7, 8, 9, 16
  and 17 bytes lie on both sides of the sponge's block; draws of 0, 1, 4 times 1
  and 24 bytes, three calls on each generator, so that a draw, a mix and a draw
  meet in every order. A letter is damaged in one place, or in its
  header and ciphertext at the same bit. The last block of the sponge that holds
  header bytes also takes the first bytes of the message, unpermuted between, so
  a tag alone cannot tell such a pair from the one sealed: the packet is refused
  because the key comes from the header, and the mutant without that opens it.

**Fairness.** Only the simulator has a scheduler. `FairSimSpec` assumes that
`Decrypt` is not postponed for ever (it is the next statement of a sequential
loop) and, by strong fairness of `Encrypt(TRUE)` and `Encrypt(FALSE)`, that the
draws of `prng_next` neither drop everything from some point on nor always
choose one side. That excludes `-l 100` and `-p 1`, for which nothing should
be promised. Under it `KeepsRatcheting`: both nodes reach the last ratchet the
bound allows.

**Deadlock** is not checked: the bounds, and the simulator's message count,
stop every run.

**Mutants.** Each module keeps, beside the definition it breaks, the mutants
that show the properties bite: unsorted 3XDH secrets, flags kept across a
ratchet, any hint, a short counter, a round kept after its decode, leading
without confirmation, a chain key saved late or once, a key without the header,
a trial made on the state itself, a window lost at the ratchet, a row scaled
without its symbol, a shifted systematic row, an equation cached twice; in the
primitives an undoubled product, a quotient or a carry taken one step short, a
squaring too few, sums where squares belong, a struct in another order, a swap
forgotten, an old key half kept, one of two roots, a buffer not emptied, a
rotation the other way, a packet key without the header, a squeeze before its permutation.

## 4. What is proved

All with `tlapm`, for every value of the constants that satisfies the named
assumptions (`EpochAssumption`: at least three active epochs;
`FecAssumption`: a positive number of symbols and room for a block;
`MeshAssumption`: a tolerance in Nat, a positive counter modulus, hints that are
bytes with 0 among them; `FecCodeAssumption`: a positive number of symbols, sizes
in Nat, a block of bytes; `PiecesAssumption` and `BoundsAssumption` of Sha512:
lengths in Nat and messages whose bit count fits in four bytes):

- `TypeInvariant` (MeshCryptoSafetyProofs): `Spec => []TypeOK`. Needs the ring facts
  (lemma `EpochRing`) and the range of the decoder's answers.
- `Invariance` (the same): `Spec => []IInv`.
- from it `KeysAgree`, `PendingGenuine`, `AckEarned`, `DuplicateNeverTaken`,
  `RoundsCoherent`, `LateOpens`, `PresentReadable`, `OnlyRecentReturned`: every
  state property that LossyLink and EpochWrap check.

- `Refinement` (the same): `Spec => ImplementsRatchetPair`, the
  property EpochWrap checks: packets, counters, hints and fountain code implement
  the ratchet of RatchetPair.
- `KeysAreFresh` (MeshCryptoCounterProofs): `Spec => KeyPerPacketIsFresh`, an
  action property, if `MaxCounter < CounterMod`: no node seals two of its packets
  under one key, over any number of ratchets. The hypothesis says
  that no node sends enough in one generation to wrap its counter, and is
  needed: CounterWrap is the counterexample without it.
- `ReplayBounded` (the same): `ReplaySpec => []ReplayIsBounded`, with no
  hypothesis, over a link that also damages headers. `HistoryOnly`, that
  `ReplaySpec => Spec`, carries what is proved of the peers over to it.
- `SimInvariance`, `NothingFails`, `RoundsEndInStep` (SimulatorProofs): if no
  counter wraps, a simulation has at most one packet on the air,
  `[]NoRxFailure` and `[]InStepBetweenRounds`: whatever is swapped and dropped,
  nothing fails to open, and a first mover is followed before the round ends.
- `EpochsLast` (the same): `SimSpec => EpochLength`, an action property: an epoch
  lasts until the slower of the two candidates is told, seventeen or eighteen
  packets of each node, whatever is dropped. Its hypotheses: no counter wraps;
  `TRUE \notin Swaps`, no draw swaps the direction, which the default options
  guarantee; and `RowsOfRound`, the sizes of `fec.h` and that under every hint and
  epoch no sixteen packets in a row are enough and eighteen, if not seventeen,
  are. The latter is arithmetic of FecCode, and `RowsAssumption` decides it for
  every heading of the program.
- `Agreement` (RatchetPairProofs): `PairSpec => []PairAgreement`, what that
  abstract ratchet promises. `PairAgreement` is inductive with the types of the
  variables.

- `DecodesOnlyTheBlock`, `WaitsOnlyForRank`, `DecodabilityIsOfRows`
  (FecCodeProofs): what `fec_try_decode` promises, for any number of symbols and
  any list of equations. If the symbols are those of some block, it returns that
  block or nothing. It returns nothing exactly when the rows leave more than one
  block: it misses no solution, and the exchange of rows loses none. And only
  the set of rows counts: order, repetition and further packets never turn an
  answer into none, which is what lets FecSidecar say *which block through which
  set of rows* and take `Decodable` as a constant. The induction is over the
  columns (`EliminatedReduces`): after each of them the same blocks satisfy the
  equations as before, and the columns behind are unit columns as long as every
  one of them had a pivot; the first that has none gives a block that all rows
  take to zero (`NoPivotNoBlock`).
- `SourceDecoded` and `SystematicIsEnough` (the same): `CodeSpec =>
  []DecodesTheSource` and `CodeSpec => []SystematicSuffices`, for every source,
  hint, epoch, loss pattern, size and both options; and `WaitsWhileAmbiguous`:
  while a round has not ended, some other block than the sender's explains all
  that is cached. Their invariant `CodeInv` says that the cache is honest, that it
  holds whatever has not been lost as long as it has room, and that `block` is
  what decoding the cache gives.

- `UpdateKeepsOrder` and `DigestIsOfThePaddedMessage` (Sha512Proofs): however a
  message is cut into pieces, and whatever an earlier one left in the buffer,
  the blocks compressed are its bytes in order, and after `sha512_final` they
  are the message, the mark bit, the fewest zeros that fit and the length. The
  invariant `HashInv` adds to these what relates the counters: `length` is eight
  times 128 for every block, the bytes before `curlen` are the next ones of the
  message, and what has been consumed is the sum of both. `FinalPads` splits by
  whether the length still fits in the block, and shows each byte of the last
  one or two blocks to be what `PaddedByte` asks for.

- `StoredKeys` and `SameIkm` (KeyStoreProofs): `Spec => []StoredKeysMatch` and
  `Spec => []BothBuildTheSameIkm`, the properties of part *keys*, for any seeds and
  any number of ratchets. What is arithmetic is a hypothesis:
  `MultipliesBase` (`ed25519_derive_pub` is the encoded multiple of B) and
  `ExchangeCommutes` (an exchange gives both ends the same string); the small
  curve of the run satisfies both. What is proved is what the code adds: the
  order of the struct (`StructOrder`) makes every 64-byte write end in the public
  key that overwrites it, a promoted candidate keeps its private key, and the
  sort makes both peers' lists one. The invariant `StoreInv` says that each of
  the three pairs of a peer is a drawn private key and what is derived from it,
  and that no other cell has been written.

- `FieldCarriesTheValue` and `FieldPacksCanonically` (FieldProofs): `Spec =>
  []LimbsCarryTheValue` and `Spec => []EncodingIsCanonical`, for limbs of all
  sizes of the code's form (`Shaped`) and any `Times` that multiplies residues
  (`Reference`). The invariant `FieldInv` says of both registers that they hold
  limbs, and a value below P that is the limbs' number modulo P. Everything is
  congruence modulo P: handing k units of a limb on leaves the number alone or
  changes it by k * P at the last limb (`HandKeeps`); a column's products, with
  the factor 2 where two narrow limbs meet and C where a product wraps, sum up
  to the product of the numbers; the loads tile the string because each begins
  at a multiple of its limb. `fe_tobytes` follows its comment in `fe.c`, in
  integers: the estimate and the carries give the quotient exactly.
- `CodeIsShaped`, `SumsFit`, `ProductsFit`, `SquaresFit`, `SmallProductsFit`,
  `LoadsFit`, `PackingFits`, `CodePacksCanonically` (the same): at the sizes of the
  code (`AsInTheCode`: 2^26, 2^25, 19 and the byte offsets of `fe_frombytes`)
  what the comments of `fe.c` claim. The two theorems above apply, with P = 2^255 - 19;
  factors within 1.65 * 2^26 overflow neither the 32-bit products by 2, 19 and 38
  nor the 64-bit columns nor any of the carries, step by step, and come out
  within 1.01 * 2^25; limbs within 1.1 * 2^26 are `Packable`, and `fe_tobytes` is
  exact on them. These are the numbers of part *sizes*, which shows that no
  formula of `ge.c` and `key_exchange.c` leaves them. Together: with machine words
  in place of integers the field arithmetic is still that of FieldElement.

*Why a stronger invariant.* None of these is inductive alone. KeyAgreement at a
lead needs the other node to hold the right candidate, which needs AckIsEarned
and PendingIsGenuine; PendingIsGenuine needs RoundIsCoherent at the decode,
which needs what the packets on the air contain; a packet of the past must not
count as present, although its epoch may read the same, which needs the history
of keys. `IInv` says it in one sentence: the two `PeerState`s are equal in what
they share (`SameStep`), or one is exactly what `ratchet_on_epoch_advance` makes
of the other (`OneAhead`); each knows only what that allows (`Knows`), its
sidecar holds equations of the other's present candidate only (`Collects`), and
every packet belongs to the sender's past or present and is sealed under the
keys the receiver has or had for that step (`Sealed`). That the packets of an
earlier lap of the ring are refused follows from lengths: a root key is as long
as its generation, and a packet opens only under the key it was sealed with.

Three more invariants stand on it. `SealInv`: a packet on the air that was
sealed in its sender's present generation has a counter below its
`send_counter`; together with the length of a root key, that makes the next
packet's key new among those of its sender. It needs no
word about earlier generations: their keys have other chain keys. `ReplayInv`:
a returned packet of the present generation is at or below
`recv_counter_curr`, one of the generation before at or below
`recv_counter_prev`; a ratchet step makes the one the other, and a packet two
generations old is refused by `IInv`. Damaged headers do not break it, because a
packet whose header was changed is never returned, and a damaged counter noted
before the tag can only raise the count. `SimInv`: between rounds the air is
clear and the peers are in step (`Settled`); within one, the only packet is of
the sender's present, and the receiver is in step or one behind (`InRound`).
`PaceInv` then says how far an epoch has come: node 0 sends first, both
`send_counter`s, the equations collected on either side and the flags READY and
SAW move together, and a candidate is decoded exactly when so many of its
packets in a row are enough (`Told`). Either node may be the slower, so either
may be confirmed and lead. `EpochLength` is about steps; a step out of a state
of `PaceInv` that changes a generation is taken as soon as both candidates are
told.

*The field of 256 elements.* The proofs about the fountain code need the laws of
GF(256) for what `gf256_mul` and `gf256_inv` compute. GF256 states them as three
assumptions that contain no constant, so TLC decides them once and for all when
it starts a run over that module: each law is small enough to be evaluated for
all bytes, with some variables ranging over the eight powers of x only, of which
every byte is a sum. FecCodeProofs extends them to all bytes (`ByteInduction`:
clearing the highest bit makes a byte smaller) and has associativity and
distributivity from there.

*Induction.* The theorems of the library that take a predicate as a parameter
cannot be used here, but the one about least elements of a set can
(`WFMin`, with `NatLessThanWellFounded`). `LeastNumber` and `Induction` of
FecCodeProofs say with sets what they say with predicates, and the recursive
functions (`Dot`, the elimination) are treated by proving that a function with
the recursion's equations exists.

*How it is laid out.* The first part of MeshCryptoSafetyProofs has the types, and
constant-level lemmas about two states `s` and `r`: what a ratchet step does to the link, how a packet's seal
fares when either end moves, what a collected symbol adds. The second
has one lemma per action on top of them, then `NextIInv` by cases.
Its last part, the refinement, reads the abstract step off `IInv`: a handler that
keeps its generation is a `Hear` (`HearStep`; that a learned key or a new
confirmation is allowed there is what `Knows` says after the step), the first
mover is a `Lead`, the second a `CatchUp` because the packet it opened was
sealed one step ahead. How a handler moves the counters of one `PeerState` is
stated once (`Stays`, `Receives`, `StepsOn`; lemmas `AcceptCurrentMoves`,
`FollowMoves` and the like), and
MeshCryptoCounterProofs uses nothing else of the handlers; SimulatorProofs adds
what a step does to the flags and the collected equations (`AcceptsNext`,
`FollowsFirst`, `CollectsNext`).

Only model-checked: liveness (`KeepsRatcheting`); `FullCacheDecodes`, which no proof
can give, since it is about the particular rows and false for some losses
(FecLongBurst); and of the primitives the power chains (`PowersAreExact`, two
fixed sequences that the run follows in full), scalars, points, signatures, the
sponge and the generator. `SecretIsTheProduct` and the properties of Wallet
would need the laws of the curve, and so induction over scalars;
`StartsWhereDefined`, `OpensWhatWasSealed`, `HealsByRatcheting` and `DrawsAreFresh`
are about the values of a permutation, which only computing them shows.
Liveness and ENABLED are beyond the prover.

## 5. What is not modelled

- `sha512_compress`: its eighty rounds on eight words are a fixed computation
  with no state of its own; the models record which blocks it is given.
- The arithmetic at 255 bits. What depends on the real width is in two machines
  that keep it: *power* (the exponents) and *sizes* (the bounds). That the tables
  of `precomp_data.h` hold the multiples of the base point they are said to hold
  is taken over: `base` and `Bi` are those multiples on the small curve.
- `seed.c` reads `/dev/urandom`: pure input, and the program does not call it.
- Ascon's other variants (AEAD, hash, MAC) and its big-endian macros, which the
  imported headers declare and this program never compiles in.
- Chance: that a forged tag of eight bytes fits, or that two secrets collide.
- A link that hands a node its own packets back: what is delivered comes from the
  other end, intact or damaged. The refinement is over such links.
- Timing: that `fe_cswap`, `select` and `consttime_compare` do not branch.
- Option parsing, printing and the totals of `simulator.cpp`.
- The build.

## 6. Where the code and its documents differ

- *Late packets at the wrap* (`LateIsTried`). `epoch_prev(1)` is 0 (`mesh-crypto.cpp:26`), so after
  14 -> 1 late packets of epoch 14 are refused although `CKr_prev` opens them.
  `REVIEW.md:313` asks whether the wrap has such edge cases: it has this one.
- *Failed open* (`FailureLeavesNoTrace`). The receive counter moves before the
  tag is verified and stays moved; `REVIEW.md:261` says "do not update state".
- *Replay* (`ReplayFails`). Within the tolerance a repeated packet is returned
  again, though `mesh-crypto.cpp:374` expects it to fail authentication. What
  does hold is `ReplayIsBounded`.
- *Counter wrap* (`KeyPerPacketIsFresh`). One-way traffic wraps the sixteen-bit
  counter and seals again under used keys.
- *Long bursts* (`FullCacheDecodes`). The generator of the recovery rows is
  linear over bits and the counter enters by exclusive or, so the recovery rows
  of a round's first 128 counters have rank at most eight. Up to eight lost
  packets are recovered (at eight, after 57 equations); when the first nine are
  lost the 64-equation cache fills without determining the key, and the round
  can never end. For the same reason a loss-free round takes seventeen packets or
  more: the rows 10 to 13 sum to zero.

## 7. Plan

Order of work, most important first.

1. (done) MeshEpoch, FecSidecar, MeshCrypto, the safety properties, LossyLink,
   EpochWrap; RatchetPair and the refinement run.
2. (done) MeshCryptoReplay; FecCode; Simulator with liveness.
3. (done) Proofs: types, `IInv`, the eight state properties.
4. (done) Proof of the refinement, `Spec => Pair!PairSpec` from `IInv`, and
   `PairSpec => []PairAgreement`.
5. (done) The sponge with its permutation, and on it `kdf`, sealing and opening,
   and the pseudo-random generator.
6. (done) `lib/ed25519`: field, scalars, group, key exchange, the key store,
   signatures; SHA-512 with its proof.
7. (done) Proofs of `KeyPerPacketIsFresh` while no counter wraps, of
   `ReplayIsBounded` over any link, of the simulator's safety and pace, and of the
   key cells.
8. (done) Proofs about the fountain code, and of the field arithmetic of `fe.c` for
   limbs of any size and without overflow at the code's.
9. Proof that `SumsStayMultipliable` holds, whose invariant is the finite table
   of sizes the run finds.
10. Proof of `ScalarIsReduced`: congruence modulo L through the folds of `sc.c`,
   and that the second fold leaves a number below L.
11. Liveness over a fair lossy link, without the simulator's alternation: if each
   direction is heard infinitely often with full-rank sets of counters, both
   nodes keep ratcheting.
