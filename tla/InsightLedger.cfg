CONSTANTS
    a = a
    b = b
    x = x
    y = y
    k = k
    None = None
    Writers = {a, b}
    Insights = {x, y}
    Keys = {k}
    Commands = {"accept", "dispute", "supersede"}
    MaxContext = 1
    Available <- MCAvailable
    MaxDrafts = 2
    MaxCalls = 3
    MaxDeaths = 1
SYMMETRY WriterSymmetry
CONSTRAINT InOrder
SPECIFICATION Spec
INVARIANTS
    AckKept
    OncePerKey
    LedgersValid
    PublicationAgrees
PROPERTY LinearHistory
CHECK_DEADLOCK FALSE
