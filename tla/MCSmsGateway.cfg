CONSTANTS
    Sms = {m1}
    Copies = {1, 2}
    Device = {d1, d2}
    MaxAttempts = 2
    PollLimit = 1
    DailyLimit = 1
    PauseAfter = 2
    MaxFaults = 1
    MaxResends = 2
SPECIFICATION MCSpec
INVARIANTS
    AtMostOneReply
    ResultIsTheJobs
    DeadLetterWasTried
PROPERTIES
    RefreshingIsFinished
    ReplyGoesOut
CHECK_DEADLOCK FALSE
