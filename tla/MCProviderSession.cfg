SPECIFICATION FairSessionSpec
CONSTANTS
    Caller = {w1, w2}
    Nobody = Nobody
    Durable = TRUE
    Renews = TRUE
    MaxLogins = 2
    MaxMishaps = 1
INVARIANTS
    OneLoginAtATime
PROPERTIES
    NoUntriedSessionReplaced
    CallEnds
CHECK_DEADLOCK FALSE
