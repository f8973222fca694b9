CONSTANTS
    s1 = s1
    s2 = s2
    w1 = w1
    w2 = w2
    c1 = c1
    c2 = c2
    NoSale = NoSale
    Sale <- OneSale
    Worker <- TwoWorkers
    Checker <- OneChecker
    MaxMessages = 1
    MaxFaults = 0
    Adapter <- LayanAdapter
SPECIFICATION Spec
CHECK_DEADLOCK FALSE
INVARIANT NoReversalOfPossibleCharge
