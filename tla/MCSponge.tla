------------------------------ MODULE MCSponge ------------------------------
(***************************************************************************)
(* Instances of the machines over lib/ascon, each a part of the run of     *)
(* MCPrimitives: part says which of them takes steps.  All compute with    *)
(* the real permutation.                                                   *)
(***************************************************************************)
EXTENDS Integers, Sequences

CONSTANTS MaxUses

VARIABLES
  part,
  s, round,                      \* rounds
  letter, text, state, opened,   \* letters
  gen, drawn, same               \* prng

roundsVars  == <<s, round>>
lettersVars == <<letter, text, state, opened>>
prngVars    == <<gen, drawn, same>>

Rounds == INSTANCE AsconRounds

\* Byte strings with a few bits, of lengths around the blocks of eight bytes.
Bytes(length, ones) == [len |-> length, bits |-> {b \in ones : b < 8 * length}]

Letters == INSTANCE SealedLetters WITH
  ChainKeys <- {Bytes(32, {3, 255}), Bytes(32, {})},
  Headers <- {Bytes(6, {1}), Bytes(6, {47})},
  Texts <- {Bytes(n, {0, 6, 63, 64, 71}) : n \in {0, 1, 7, 8, 9, 16, 17}}

Prng == INSTANCE HealingPrng WITH
  SeedPairs <- {<<1, 1>>, <<1, 258>>}, Lengths <- {0, 24},
  RootKeys <- {Bytes(32, {9})}, Secrets <- {Bytes(32, {200}), Bytes(32, {201})}

-----------------------------------------------------------------------------
NoRounds  == s = 0 /\ round = 0
NoLetters == letter = 0 /\ text = 0 /\ state = "none" /\ opened = 0
NoPrng    == gen = 0 /\ drawn = 0 /\ same = 0

Init ==
  \/ part = "rounds" /\ Rounds!RoundsInit /\ NoLetters /\ NoPrng
  \/ part = "letters" /\ Letters!Init /\ NoRounds /\ NoPrng
  \/ part = "prng" /\ Prng!Init /\ NoRounds /\ NoLetters

Next ==
  /\ part' = part
  /\ \/ /\ part = "rounds" /\ Rounds!NextRound
        /\ UNCHANGED <<lettersVars, prngVars>>
     \/ /\ part = "letters" /\ Letters!Next
        /\ UNCHANGED <<roundsVars, prngVars>>
     \/ /\ part = "prng" /\ Prng!Next
        /\ UNCHANGED <<roundsVars, lettersVars>>

-----------------------------------------------------------------------------
\* AsconRounds: the permutation leads to the words the sponge starts from.
StartsWhereDefined == part = "rounds" => Rounds!StartsWhereDefined

\* SealedLetters: an intact packet opens, a damaged one does not.
OpensWhatWasSealed == part = "letters" => Letters!OpensWhatWasSealed

\* HealingPrng: ratchets with different secrets part two equal generators.
HealsByRatcheting == part = "prng" => Prng!HealsByRatcheting

\* HealingPrng: no eight bytes are drawn twice.
DrawsAreFresh == part = "prng" => Prng!DrawsAreFresh
=============================================================================
