SPECIFICATION ReplaySpec
CONSTANTS
    EPOCH_MAX_ACTIVE = 3
    FEC_SOURCE_SYMBOLS = 2
    FEC_MAX_EQUATIONS = 3
    Decodable <- AllIndependent
    REPLAY_TOLERANCE = 0
    CounterMod = 3
    Hints = {0, 1}
    Use3XDH = TRUE
    MaxRatchets = 1
    MaxCounter = 2
    MaxDamaged = 1
INVARIANTS
    ReplayIsBounded
    AckIsEarned
    KeyAgreement
    OnlyRecentIsReturned
CHECK_DEADLOCK FALSE
