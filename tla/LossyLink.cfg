SPECIFICATION Spec
CONSTANTS
    EPOCH_MAX_ACTIVE = 3
    FEC_SOURCE_SYMBOLS = 2
    FEC_MAX_EQUATIONS = 3
    Decodable <- OneDependentPair
    REPLAY_TOLERANCE = 1
    CounterMod = 8
    Hints = {0, 1, 2}
    Use3XDH = TRUE
    MaxRatchets = 1
    MaxCounter = 3
    MaxDamaged = 0
INVARIANTS
    KeyAgreement
    AckIsEarned
    NoFalseDuplicate
    PendingIsGenuine
    RoundIsCoherent
PROPERTIES
    KeyPerPacketIsFresh
CHECK_DEADLOCK FALSE
