SPECIFICATION Spec
CONSTANTS
    EPOCH_MAX_ACTIVE = 3
    FEC_SOURCE_SYMBOLS = 1
    FEC_MAX_EQUATIONS = 3
    Decodable <- AllIndependent
    REPLAY_TOLERANCE = 1
    CounterMod = 8
    Hints = {0, 1}
    Use3XDH = FALSE
    MaxRatchets = 4
    MaxCounter = 2
    MaxDamaged = 0
INVARIANTS
    TypeOK
    PresentIsReadable
    OnlyRecentIsReturned
    LateOpensUnderSavedKey
PROPERTIES
    ImplementsRatchetPair
CHECK_DEADLOCK FALSE
