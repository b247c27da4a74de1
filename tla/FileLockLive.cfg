CONSTANTS
    a = a
    b = b
    c = c
    p = p
    q = q
    i1 = i1
    i2 = i2
    i3 = i3
    i4 = i4
    None = None
    Clients = {a, b}
    Pids = {p, q}
    PidOf <- MCPidOf
    Inodes = {i1, i2}
    Returning = {}
    MaxRestarts = 1
SPECIFICATION FairSpec
PROPERTY AbandonedReclaimed
CHECK_DEADLOCK FALSE
