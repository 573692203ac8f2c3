SPECIFICATION FairSpec
CONSTANTS
    c1 = c1
    c2 = c2
    Calls = {c1, c2}
    Plans <- MCPlans
    MaxActions = 3
    Hops = 3
    Budgets <- MCBudgets
    NoCall = NoCall
CHECK_DEADLOCK FALSE
INVARIANTS
    TypeOK
    InvokedInOrder
    DeadUseOnlyLate
    CleanedActionsAreGone
PROPERTIES
    EveryCallEnds
    ReleasedAfterSounds
