CONSTANTS
    s1 = s1
    s2 = s2
    w1 = w1
    w2 = w2
    c1 = c1
    c2 = c2
    NoSale = NoSale
    Sale <- OneSale
    Worker <- TwoWorkers
    Checker <- TwoCheckers
    MaxMessages = 2
    MaxFaults = 1
    Adapter <- AnyAdapter
SPECIFICATION Spec
INVARIANTS
    SuccessAfterReversalIsFlagged
SYMMETRY Symmetry
CHECK_DEADLOCK FALSE
