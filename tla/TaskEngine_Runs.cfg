SPECIFICATION EngineSpec
CONSTANTS
    a = a
    b = b
    c = c
    x = x
    y = y
    Bare = Bare
    Names = {a, b, c}
    Outputs = {x, y}
    Descriptions <- MCDescriptions
INVARIANTS
    ReferencesMeanWhatWasChecked
    FinishedRunsAreComplete
PROPERTY
    StepsRunAfterWhatTheyUse
