SPECIFICATION Spec
CONSTANTS
    w1 = w1
    w2 = w2
    Web <- OneClient
    Main = main
    Thread = thread
    None = none
    MaxCalls = 2
INVARIANTS
    ClearIsSafe
CHECK_DEADLOCK FALSE
