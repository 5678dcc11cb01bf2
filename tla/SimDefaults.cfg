SPECIFICATION FairSimSpec
CONSTANTS
    EPOCH_MAX_ACTIVE = 3
    FEC_SOURCE_SYMBOLS = 16
    FEC_MAX_EQUATIONS = 64
    Decodable <- FirstRows
    REPLAY_TOLERANCE = 16
    CounterMod = 65536
    Hints = {0, 37, 109}
    Use3XDH = TRUE
    MaxRatchets = 4
    MaxCounter = 20
    MaxDamaged = 0
    Swaps <- Never
    Drops <- Never
PROPERTIES
    EpochLength
    KeepsRatcheting
CHECK_DEADLOCK FALSE
