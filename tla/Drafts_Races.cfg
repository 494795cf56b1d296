SPECIFICATION Spec
CONSTANTS
    Resources = {r1, r2}
    DraftIds = {d1, d2}
    Users = {u1, u2}
    Workers = {w1, w2}
    MaxRequests = 6
    None = None
SYMMETRY Symmetry
CHECK_DEADLOCK FALSE
INVARIANT
    OneDraftPerUserAndResource
    SnapshotsFollowTheirBase
    DraftsAreWrittenOrDroppedOnce
    DraftsCanCatchUp
