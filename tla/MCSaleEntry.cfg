SPECIFICATION FairSpec
CONSTANTS
    r1 = r1
    r2 = r2
    f1 = f1
    f2 = f2
    u1 = u1
    u2 = u2
    p1 = p1
    p2 = p2
    Request = {r1, r2}
    NoRequest = NoRequest
    Form = {f1, f2}
    User = {u1, u2}
    Phone = {p1, p2}
    Asks <- FirstIsFirst
    LastDay = 1
    MaxFaults = 1
INVARIANTS
    OneChargePerForm
    AnswerIsTrue
PROPERTIES
    RepeatWasConfirmed
    RequestIsAnswered
CHECK_DEADLOCK FALSE
