------------------------------ MODULE MCEd25519 ------------------------------
(***************************************************************************)
(* Small instances of the machines over lib/ed25519, each a part of the    *)
(* run of MCPrimitives: part says which of them takes steps.               *)
(*                                                                         *)
(*   field    FieldCalls with limbs of sizes 8 and 4, modulo 2^25 - 2      *)
(*   power    FieldPower on exponents instead of field elements             *)
(*   scalar   ScalarCalls with limbs of 2 bits, modulo 16778027            *)
(*   sizes    GroupSizes on the bounds fe.c documents                      *)
(*   keys     KeyStore on the curve of SmallCurve                          *)
(*   wallet   Wallet on the same curve                                     *)
(*   hash     Sha512 with blocks of the real size                          *)
(***************************************************************************)
EXTENDS FieldCalls, SmallCurve, Sha512

CONSTANTS MaxScalarCalls, MaxRatchets, MaxEdits

VARIABLES
  part,
  program, reg, pc, done,            \* power
  scalar, expected, rounds,          \* scalar
  p2, p3, p1p1, cached, ladder,      \* sizes
  cells, statics, ratchets,          \* keys
  key, watch, letter, genuine, edits \* wallet

fieldVars  == <<x, y, calls>>
powerVars  == <<program, reg, pc, done>>
scalarVars == <<scalar, expected, rounds>>
sizesVars  == <<p2, p3, p1p1, cached, ladder>>
keysVars   == <<cells, statics, ratchets>>
walletVars == <<key, watch, letter, genuine, edits>>

-----------------------------------------------------------------------------
(* Field elements, exponents and scalars. *)

Modulo == INSTANCE Residues

ProductOfResidues(a, b) == Modulo!TimesMod(a, b, 2^25 - 2)

\* Loads of 2 to 4 bits that begin, like those of fe_frombytes, at a limb's
\* first bit or a little behind it.
Loads ==
  [i \in 0 .. 10 |-> 2^(<<0, 4, 6, 9, 11, 13, 16, 19, 21, 24, 25>>[i + 1])]

\* 0, 1, both ends of the residues, P and P + 1, and two with mixed bits.
ByteStrings ==
  {0, 1, 2^25 - 3, 2^25 - 2, 2^25 - 1, 19088743, 25769803, 2^26 - 1}

\* The parameters have what the theorems about the limbs ask for.
ASSUME FieldAssumption == Shaped

\* z^n by the set of the bits of n: squaring moves them up, a multiplication
\* joins two sets without a common bit.
Raised(f) == {bit + 1 : bit \in f}
Joined(f, g) == IF f \cap g = {} THEN f \cup g ELSE {-1000}

Power == INSTANCE FieldPower WITH fe_mul <- Joined, fe_sq <- Raised

Digits == [j \in 0 .. 5 |-> <<1, 1, 1, -1, 1, -1>>[j + 1]]

Reduction == INSTANCE ScalarCalls WITH
  Width <- 2, D <- Digits, MaxScalars <- MaxScalarCalls,
  Words <- {0, 1, 2^24 - 1, 2^24, 16778026, 16778027, 2^26 - 1}

-----------------------------------------------------------------------------
(* The small curve. *)

Keys == INSTANCE KeyStore WITH
  fe <- FieldValues, fe_0 <- Zero, fe_1 <- One, fe_add <- Sum,
  fe_sub <- Difference, fe_neg <- Negative, fe_mul <- Product, fe_sq <- Square,
  fe_sq2 <- TwiceSquare, fe_mul121666 <- SmallMultiple, fe_invert <- Inverted,
  fe_pow22523 <- RootPower, fe_frombytes <- OfString, fe_tobytes <- ToString,
  fe_isnegative <- LowBit, fe_isnonzero <- NonZero,
  d <- Slope, d2 <- TwiceSlope, sqrtm1 <- RootOfMinusOne,
  base <- BaseTable, Bi <- OddTable, p <- Prime, B <- BasePoint,
  StringBits <- 16, sha512 <- Digest,
  sc_reduce <- ReducedDigest, sc_muladd <- MultipliedScalar,
  Seeds <- {1, 2, 3}

\* What StoredKeys of KeyStoreProofs asks of the curve, on this one.
ASSUME KeyAssumption == Keys!MultipliesBase

Signer == INSTANCE Wallet WITH
  fe <- FieldValues, fe_0 <- Zero, fe_1 <- One, fe_add <- Sum,
  fe_sub <- Difference, fe_neg <- Negative, fe_mul <- Product, fe_sq <- Square,
  fe_sq2 <- TwiceSquare, fe_mul121666 <- SmallMultiple, fe_invert <- Inverted,
  fe_pow22523 <- RootPower, fe_frombytes <- OfString, fe_tobytes <- ToString,
  fe_isnegative <- LowBit, fe_isnonzero <- NonZero,
  d <- Slope, d2 <- TwiceSlope, sqrtm1 <- RootOfMinusOne,
  base <- BaseTable, Bi <- OddTable, p <- Prime, B <- BasePoint,
  StringBits <- 16, sha512 <- Digest,
  sc_reduce <- ReducedDigest, sc_muladd <- MultipliedScalar,
  Seeds <- {1, 2},
  Scalars <- {0, 1, 8191, 65535, 36867},
  Messages <- {7, 300},
  Strings <- {0, 1, 2, 4, 26200, 32748, 32749, 32750, 32768 + 1, 32768 + 26200}

-----------------------------------------------------------------------------
(* Sizes, in hundredths of 2^25 and 2^24: fe_mul and fe_sq take 1.65 * 2^26, *)
(* fe_tobytes 1.1 * 2^26.                                                    *)

TooLarge == 10000
Bound(n) == IF n < TooLarge THEN n ELSE TooLarge
SizeOfSum(f, g) == Bound(f + g)
SizeOfSame(f) == f
SizeOfProduct(f, g) == IF f <= 330 /\ g <= 330 THEN 101 ELSE TooLarge
SizeOfSquare(f) == SizeOfProduct(f, f)
SizeOfSmall(f) == IF f <= 220 THEN 110 ELSE TooLarge
SizeOfLoad(s) == 101
SizeOfPacked(f) == IF f <= 220 THEN 0 ELSE TooLarge
SizeOfAnswer(f) == IF f <= 220 THEN 0 ELSE 1

Sizes == INSTANCE GroupSizes WITH
  fe <- 0 .. TooLarge, fe_0 <- 0, fe_1 <- 1, fe_add <- SizeOfSum, fe_sub <- SizeOfSum,
  fe_neg <- SizeOfSame, fe_mul <- SizeOfProduct, fe_sq <- SizeOfSquare,
  fe_sq2 <- SizeOfSquare, fe_mul121666 <- SizeOfSmall,
  fe_invert <- SizeOfSquare, fe_pow22523 <- SizeOfSquare,
  fe_frombytes <- SizeOfLoad, fe_tobytes <- SizeOfPacked,
  fe_isnegative <- SizeOfPacked, fe_isnonzero <- SizeOfAnswer,
  d <- 100, d2 <- 100, sqrtm1 <- 100,
  base <- [i \in 0 .. 1 |-> [j \in 0 .. 7 |->
             [yplusx |-> 100, yminusx |-> 100, xy2d |-> 100]]],
  Bi <- [i \in 0 .. 7 |-> [yplusx |-> 100, yminusx |-> 100, xy2d |-> 100]],
  StringBits <- 16, sha512 <- Digest,
  sc_reduce <- ReducedDigest, sc_muladd <- MultipliedScalar

-----------------------------------------------------------------------------
(* The run. *)

\* The field's properties are asked in every part: there its registers hold 0.
NoField  == x = Unpacked(0) /\ y = Unpacked(0) /\ calls = 0
NoPower  == program = <<>> /\ reg = 0 /\ pc = 0 /\ done = 0
NoScalar == scalar = 0 /\ expected = 0 /\ rounds = 0
NoSizes  == p2 = 0 /\ p3 = 0 /\ p1p1 = 0 /\ cached = 0 /\ ladder = 0
NoKeys   == cells = 0 /\ statics = 0 /\ ratchets = 0
NoWallet == key = 0 /\ watch = 0 /\ letter = 0 /\ genuine = 0 /\ edits = 0

PartsInit ==
  /\ HashInit
  /\ \/ /\ part = "field" /\ Init
        /\ NoPower /\ NoScalar /\ NoSizes /\ NoKeys /\ NoWallet
     \/ /\ part = "power" /\ Power!Start({0}, {-1000})
        /\ NoField /\ NoScalar /\ NoSizes /\ NoKeys /\ NoWallet
     \/ /\ part = "scalar" /\ Reduction!Init
        /\ NoField /\ NoPower /\ NoSizes /\ NoKeys /\ NoWallet
     \/ /\ part = "sizes" /\ Sizes!Init
        /\ NoField /\ NoPower /\ NoScalar /\ NoKeys /\ NoWallet
     \/ /\ part = "keys" /\ Keys!Init
        /\ NoField /\ NoPower /\ NoScalar /\ NoSizes /\ NoWallet
     \/ /\ part = "wallet" /\ Signer!Init
        /\ NoField /\ NoPower /\ NoScalar /\ NoSizes /\ NoKeys
     \/ /\ part = "hash"
        /\ NoField /\ NoPower /\ NoScalar /\ NoSizes /\ NoKeys /\ NoWallet

PartsNext ==
  /\ part' = part
  /\ \/ /\ part = "field" /\ Next
        /\ UNCHANGED <<powerVars, scalarVars, sizesVars, keysVars, walletVars, hashVars>>
     \/ /\ part = "power" /\ Power!Next
        /\ UNCHANGED <<fieldVars, scalarVars, sizesVars, keysVars, walletVars, hashVars>>
     \/ /\ part = "scalar" /\ Reduction!Next
        /\ UNCHANGED <<fieldVars, powerVars, sizesVars, keysVars, walletVars, hashVars>>
     \/ /\ part = "sizes" /\ Sizes!Next
        /\ UNCHANGED <<fieldVars, powerVars, scalarVars, keysVars, walletVars, hashVars>>
     \/ /\ part = "keys" /\ Keys!Next
        /\ UNCHANGED <<fieldVars, powerVars, scalarVars, sizesVars, walletVars, hashVars>>
     \/ /\ part = "wallet" /\ Signer!Next
        /\ UNCHANGED <<fieldVars, powerVars, scalarVars, sizesVars, keysVars, hashVars>>
     \/ /\ part = "hash" /\ HashNext
        /\ UNCHANGED <<fieldVars, powerVars, scalarVars, sizesVars, keysVars, walletVars>>

\* FieldPower: the chains compute z^(p-2) and z^((p-5)/8) for p = 2^255 - 19,
\* whose exponents are 2^255 - 21 and 2^252 - 3.
PowersAreExact ==
  part = "power" =>
    Power!Computes({0}, IF program = Power!fe_invert THEN {0, 1, 3} \cup 5 .. 254
                        ELSE {0} \cup 2 .. 251)

\* ScalarCalls: scalars are reduced to the residue below L.
ScalarIsReduced == part = "scalar" => Reduction!ScalarIsReduced

\* GroupSizes: no multiplication or packing meets limbs too large for it.
SumsStayMultipliable == part = "sizes" => Sizes!SumsStayMultipliable

\* KeyStore: public keys belong to the private keys stored beside them.
StoredKeysMatch == part = "keys" => Keys!StoredKeysMatch

\* KeyStore: both peers build the same key material.
BothBuildTheSameIkm == part = "keys" => Keys!BothBuildTheSameIkm

\* KeyStore: the ladder computes the product of both scalars with B.
SecretIsTheProduct == part = "keys" => Keys!SecretIsTheProduct

\* Wallet: the holder's signatures verify under the key the watcher followed.
SignaturesVerify == part = "wallet" => Signer!SignaturesVerify

\* Wallet: a string is refused exactly when no point has it.
DecodeIsTheInverse == part = "wallet" => Signer!DecodeIsTheInverse

\* Wallet: verification answers by the equation on points.
VerifyIsTheEquation == part = "wallet" => Signer!VerifyIsTheEquation
=============================================================================
