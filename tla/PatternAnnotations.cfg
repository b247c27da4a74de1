CONSTANTS
    o1 = o1
    o2 = o2
    h1 = h1
    h2 = h2
    a1 = a1
    a2 = a2
    None = None
    Operators = {o1, o2}
    Handles = {h1, h2}
    Artifacts = {a1, a2}
    Active <- MCActive
    MaxHistory = 1
    MaxFaults = 1
SYMMETRY OperatorSymmetry
SPECIFICATION Spec
INVARIANTS
    NothingDangles
    AcksAreKept
    BuiltOnWhatWasSeen
PROPERTIES
    LimitFreezes
    RegisterSpec
