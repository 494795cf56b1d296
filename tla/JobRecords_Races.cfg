SPECIFICATION FairSpec
CONSTANTS
    Jobs = {j1, j2}
    Forwarded = {j1}
    Capacity = 2
    MaxRecords = 2
    Values <- SomeValues
    Special <- NotFinite
    Metrics = {m1}
    MaxRuns = 2
    Files = {f1}
    Models = {v1}
    MaxVersions = 3
    Workers = {w1, w2}
    MaxRequests = 3
    None = None
CHECK_DEADLOCK FALSE
INVARIANT
    LogsStoredOnce
    LogsCompleteInOrder
    NumbersUnique
    ArtifactsHaveTheirUri
PROPERTY
    MetricsReadAsReported
    HandlersClose
