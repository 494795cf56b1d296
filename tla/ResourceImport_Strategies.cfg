SPECIFICATION Spec
CONSTANTS
    MaxId = 8
    Keys <- AllKeys
    Configs <- AllConfigs
    Workers = {w1}
    MaxImports = 2
    MaxOthers = 2
    None = None
CHECK_DEADLOCK FALSE
INVARIANT
    PluginsAreCommittedWhole
PROPERTY
    FailImportsAllOrNothing
    ImportsDeliver
    FailuresLoseAtMostOne
