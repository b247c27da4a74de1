CONSTANTS
    a = a
    b = b
    x = x
    y = y
    k = k
    None = None
    Writers = {a, b}
    Insights = {x, y}
    Keys = {k}
    Commands = {"accept", "dispute"}
    MaxContext = 0
    Available <- MCAvailable
    MaxDrafts = 2
    MaxCalls = 3
    MaxDeaths = 1
SYMMETRY WriterSymmetry
SPECIFICATION Spec
INVARIANT WritesSerialized
CHECK_DEADLOCK FALSE
