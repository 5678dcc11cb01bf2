SPECIFICATION CodeSpec
CONSTANTS
    FEC_SOURCE_SYMBOLS = 16
    FEC_MAX_EQUATIONS = 64
    g_fec_systematic_head = 10
    g_fec_interleave_recovery = 4
    Source <- DifferentBytes
    Headings <- OneHeading
    Losses <- LongBurst
    Repeats <- NoCopies
    Copies = 0
    LastCounter = 80
INVARIANTS
    FullCacheDecodes
CHECK_DEADLOCK FALSE
