SPECIFICATION Spec
CONSTANTS
    EPOCH_MAX_ACTIVE = 3
    FEC_SOURCE_SYMBOLS = 1
    FEC_MAX_EQUATIONS = 3
    Decodable <- AllIndependent
    REPLAY_TOLERANCE = 1
    CounterMod = 3
    Hints = {0, 1}
    Use3XDH = TRUE
    MaxRatchets = 1
    MaxCounter = 2
    MaxDamaged = 1
PROPERTIES
    FailureLeavesNoTrace
CHECK_DEADLOCK FALSE
