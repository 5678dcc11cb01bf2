CONSTANTS
  Wide = 8
  Narrow = 4
  C = 2
  Cut <- Loads
  Times <- ProductOfResidues
  Strings <- ByteStrings
  Small = 5
  MaxCalls = 4
  MaxScalarCalls = 2
  MaxRatchets = 2
  MaxEdits = 3
  Pieces = {0, 15, 32, 111, 112, 128}
  MaxLength = 256
  MaxHashes = 2
  MaxUses = 3
INIT AllInit
NEXT AllNext
INVARIANTS
  LimbsCarryTheValue
  EncodingIsCanonical
  PowersAreExact
  ScalarIsReduced
  SumsStayMultipliable
  StoredKeysMatch
  BothBuildTheSameIkm
  SecretIsTheProduct
  SignaturesVerify
  DecodeIsTheInverse
  VerifyIsTheEquation
  BlocksArePaddedMessage
  BlocksAreInOrder
  StartsWhereDefined
  OpensWhatWasSealed
  HealsByRatcheting
  DrawsAreFresh
CHECK_DEADLOCK FALSE
