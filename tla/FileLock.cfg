CONSTANTS
    a = a
    b = b
    c = c
    p = p
    q = q
    i1 = i1
    i2 = i2
    i3 = i3
    i4 = i4
    None = None
    Clients = {a, b, c}
    Pids = {p, q}
    PidOf <- MCPidOf
    Inodes = {i1, i2}
    Returning = {p, q}
    MaxRestarts = 1
SYMMETRY InodeSymmetry
CONSTRAINT InTime
SPECIFICATION Spec
INVARIANT MutualExclusion
PROPERTY LiveLockKept
CHECK_DEADLOCK FALSE
