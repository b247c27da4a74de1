CONSTANTS
    None = None
    q1 = q1
    q2 = q2
    q3 = q3
    q4 = q4
    Adapters = 2
    Queries <- MCQueries
    Items <- MCItems
    Conflicts <- MCConflicts
    Questions <- MCQuestions
    Open <- MCOpen
    FirstQueries <- MCFirstQueries
    Ancestry <- MCAncestry
    Visited <- MCVisited
    PreviousUnresolved <- MCPreviousUnresolved
    Prior <- MCPrior
    Minimum = 2
    MaxRounds = 3
    Budgets <- MCBudgets
    Replies <- MCReplies
    Slack = 1
SPECIFICATION FairSpec
INVARIANTS
    WithinBudget
    PaidFor
    LateIgnored
    TracesTrue
    SufficientIsNovel
PROPERTIES
    StopsAfterTimeout
    Terminates
CHECK_DEADLOCK FALSE
