---------------------------- MODULE MCPrimitives ----------------------------
(***************************************************************************)
(* Small instances of everything under lib/ in one run: the parts of       *)
(* MCEd25519 and those of MCSponge, of which one takes all the steps.      *)
(***************************************************************************)
EXTENDS MCEd25519

CONSTANTS MaxUses

VARIABLES
  s, round,                      \* rounds
  packet, text, state, opened,   \* letters
  gen, drawn, same               \* prng

curveVars  == <<fieldVars, powerVars, scalarVars, sizesVars, keysVars,
                walletVars, hashVars>>
spongeVars == <<s, round, packet, text, state, opened, gen, drawn, same>>

Ascon == INSTANCE MCSponge WITH letter <- packet

NoSponge == Ascon!NoRounds /\ Ascon!NoLetters /\ Ascon!NoPrng

NoCurve ==
  NoField /\ NoPower /\ NoScalar /\ NoSizes /\ NoKeys /\ NoWallet /\ HashInit

AllInit == (PartsInit /\ NoSponge) \/ (Ascon!Init /\ NoCurve)

AllNext ==
  \/ PartsNext /\ UNCHANGED spongeVars
  \/ Ascon!Next /\ UNCHANGED curveVars

-----------------------------------------------------------------------------
\* AsconRounds: the permutation leads to the words the sponge starts from.
StartsWhereDefined == Ascon!StartsWhereDefined

\* SealedLetters: an intact packet opens, a damaged one does not.
OpensWhatWasSealed == Ascon!OpensWhatWasSealed

\* HealingPrng: ratchets with different secrets part two equal generators.
HealsByRatcheting == Ascon!HealsByRatcheting

\* HealingPrng: no eight bytes are drawn twice.
DrawsAreFresh == Ascon!DrawsAreFresh
=============================================================================
