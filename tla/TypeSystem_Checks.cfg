SPECIFICATION Spec
CONSTANTS
    Definitions <- AllDefinitions
    Specs <- AllSpecs
    Values <- AllValues
CHECK_DEADLOCK FALSE
INVARIANT
    AcceptedArgumentsFit
    FittingLiteralsAreAccepted
