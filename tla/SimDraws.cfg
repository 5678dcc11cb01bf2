SPECIFICATION FairSimSpec
CONSTANTS
    EPOCH_MAX_ACTIVE = 3
    FEC_SOURCE_SYMBOLS = 2
    FEC_MAX_EQUATIONS = 3
    Decodable <- AllIndependent
    REPLAY_TOLERANCE = 1
    CounterMod = 8
    Hints = {0, 1}
    Use3XDH = TRUE
    MaxRatchets = 4
    MaxCounter = 6
    MaxDamaged = 0
    Swaps <- Sometimes
    Drops <- Sometimes
INVARIANTS
    NoRxFailure
    InStepBetweenRounds
PROPERTIES
    KeepsRatcheting
CHECK_DEADLOCK FALSE
