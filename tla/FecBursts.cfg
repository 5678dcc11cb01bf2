SPECIFICATION CodeSpec
CONSTANTS
    FEC_SOURCE_SYMBOLS = 16
    FEC_MAX_EQUATIONS = 64
    g_fec_systematic_head = 10
    g_fec_interleave_recovery = 4
    Source <- DifferentBytes
    Headings <- TwoHeadings
    Losses <- ShortBursts
    Repeats <- FewCopies
    Copies = 16
    LastCounter = 80
INVARIANTS
    DecodesTheSource
    SystematicSuffices
    FullCacheDecodes
CHECK_DEADLOCK FALSE
