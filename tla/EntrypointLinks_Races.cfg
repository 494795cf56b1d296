SPECIFICATION Spec
CONSTANTS
    x1 = x1
    e1 = e1
    e2 = e2
    q1 = q1
    q2 = q2
    p1 = p1
    w1 = w1
    w2 = w2
    None = None
    Experiments = {x1}
    Entrypoints = {e1, e2}
    Queues = {q1}
    Plugins = {p1}
    Workers = {w1, w2}
    MaxRequests = 4
SYMMETRY Symmetry
INVARIANT
    OnePinPerRole
    PinnedPluginsAreLinked
PROPERTY
    LinksFollowRequests
    JobsRunLinkedEntrypoints
CHECK_DEADLOCK FALSE
