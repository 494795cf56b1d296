SPECIFICATION Spec
CONSTANTS
    p1 = p1
    f1 = f1
    f2 = f2
    f3 = f3
    a = a
    b = b
    w1 = w1
    w2 = w2
    None = None
    Plugins = {p1}
    Files = {f1, f2, f3}
    Filenames = {a, b}
    Workers = {w1, w2}
    MaxRequests = 5
SYMMETRY Symmetry
INVARIANT
    FilesListedOnce
    LiveFilesListed
    FilenamesUnique
PROPERTY
    OnlyStaleCommitsDrop
CHECK_DEADLOCK FALSE
