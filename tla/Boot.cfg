SPECIFICATION MCSpec
CONSTANTS
    Blocks = 9
    BlockSize = 2
    U16 = 16
    Sizes <- MCSizes
    SizeChoices <- MCChoices
INVARIANTS CleanRetry WholeWhenUp ReportBelowPools Disjoint MapExact
PROPERTY BoardUp
CHECK_DEADLOCK FALSE
