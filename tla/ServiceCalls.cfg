SPECIFICATION FairSpec
CONSTANTS
    w1 = w1
    w2 = w2
    Web <- TwoClients
    Main = main
    Thread = thread
    None = none
    MaxCalls = 2
INVARIANTS
    TypeOK
    OneServiceCall
    FirstClearIsSafe
PROPERTIES
    DeadlockIsForGood
    CallsReturn
    TermStopsTheModule
CHECK_DEADLOCK FALSE
