CONSTANTS
    s1 = s1
    s2 = s2
    w1 = w1
    w2 = w2
    c1 = c1
    c2 = c2
    NoSale = NoSale
    Sale <- OneSale
    Worker <- TwoWorkers
    Checker <- TwoCheckers
    MaxMessages = 2
    MaxFaults = 2
    Adapter <- ContractAdapter
SPECIFICATION FairSpec
INVARIANTS
    AtMostOneCharge
    NoReversalOfPossibleCharge
    LedgerMatchesSale
    ChargingSaleIsProtected
PROPERTIES
    SettledIsFinal
    KeepsPromise
    ChargeIsSettled
CHECK_DEADLOCK FALSE
