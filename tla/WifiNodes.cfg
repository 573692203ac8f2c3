SPECIFICATION FairSpec
CONSTANTS
    n1 = n1
    n2 = n2
    a = a
    b = b
    Nodes = {n1, n2}
    Valves = {a, b}
    Programs <- MCPrograms
    RingSize = 2
    QueueSize = 1
    MaxSeconds = 1
    MaxCalls = 2
    Closed = Closed
    NoOne = NoOne
    MaxNodes = 2
    Silence = 3
    Budgets <- MCBudgets
INVARIANTS
    TypeOK
    DriversOutliveCallbacks
    StatusIsKnown
    StopIsFinal
    NoStaleItem
PROPERTIES
    EventsAlternate
    BeatingNodeStays
    LostNodeIsRemoved
    SequenceEnds
    ItemsArePlayed
