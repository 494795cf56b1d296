SPECIFICATION FairSpec
CONSTANTS
    j1 = j1
    w1 = w1
    c1 = c1
    u1 = u1
    u2 = u2
    None = None
    Jobs = {j1}
    WorkerRunners = {w1}
    ConnectedRunners = {c1}
    Users = {u1}
    ApiWorkers = 1
    UserStatuses = {"reset", "deferred"}
    MaxUserRequests = 2
    Faults = {"worker_crash", "api_crash", "lost_response", "timeout", "sys_exit", "login"}
INVARIANTS
    RunnersReportStart
PROPERTIES
    RunnersEnd
    ImplementsJobStatus
CHECK_DEADLOCK FALSE
