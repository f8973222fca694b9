SPECIFICATION MCSpec
CONSTANTS
    Web = {w}
    Staff = {e1, e2}
    Api = {}
    Sms = {m}
    Admin = {}
    Nobody = Nobody
    MaxJobs = 2
    MaxFaults = 1
    Absent = {{e2, m}, {e1, e2}}
INVARIANTS
    OneJobPerNumber
    AnswerIsTheJobs
    StaffSeesItsJob
PROPERTIES
    JobIsFinished
    CallerIsAnswered
CHECK_DEADLOCK FALSE
