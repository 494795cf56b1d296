SPECIFICATION FairSpec
CONSTANTS
    j1 = j1
    w1 = w1
    c1 = c1
    u1 = u1
    u2 = u2
    None = None
    Jobs = {j1}
    WorkerRunners = {w1}
    ConnectedRunners = {c1}
    Users = {u1}
    ApiWorkers = 2
    UserStatuses = {"reset"}
    MaxUserRequests = 2
    Faults = {}
INVARIANTS
    StatusChangesAreLegal
    FinishedJobsHaveTheirRun
    RunningRunnersAreRecorded
PROPERTIES
    SubmittedJobsSettle
CHECK_DEADLOCK FALSE
