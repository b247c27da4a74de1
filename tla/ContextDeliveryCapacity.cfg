CONSTANTS
    p1 = p1
    p2 = p2
    t1 = t1
    t2 = t2
    r1 = r1
    r2 = r2
    g1 = g1
    g2 = g2
    s1 = s1
    s2 = s2
    i1 = i1
    q1 = q1
    q2 = q2
    None = None
    Procs = {p1, p2}
    Sessions = {s1, s2}
    Capacity = 1
    Total = 1
    Tasks = {t1}
    Cost <- MCCost
    Gates = {g1}
    Ids = {i1}
    Queries = {q1}
    RecallBudget = 1
    Results = {r1, r2}
    Spend <- MCSpend
    Lifecycle = 2
    MaxBundles = 1
    MaxRecalls = 1
    MaxPending = 3
    MaxFeedback = 1
    MaxFaults = 1
SPECIFICATION FairSpec
INVARIANT FeedbackResolves
PROPERTIES
    ChargedShows
    BudgetSpec
CHECK_DEADLOCK FALSE
