SPECIFICATION Spec
CONSTANTS
    Web = {w}
    Staff = {e1}
    Api = {}
    Sms = {}
    Admin = {}
    Nobody = Nobody
    MaxJobs = 2
    MaxFaults = 0
    Absent = {}
INVARIANT WebSeesItsJob
CHECK_DEADLOCK FALSE
