SPECIFICATION Spec
CONSTANTS
    r1 = r1
    r2 = r2
    r3 = r3
    g1 = g1
    g2 = g2
    w1 = w1
    a = a
    b = b
    integer = integer
    Integer = Integer
    None = None
    Workers = {w1}
    Resources = {r1, r2, r3}
    Groups = {g1, g2}
    DefaultGroup = g1
    Names = {a, b, integer, Integer}
    BuiltinNames = {integer}
    Normal <- NormalNames
    Kinds = {"plugin_task_parameter_type", "plugin"}
    MaxRequests = 5
SYMMETRY Symmetry
INVARIANT
    BuiltinsComplete
PROPERTIES
    ReadonlyKept
    ImplementsDirectory
CHECK_DEADLOCK FALSE
