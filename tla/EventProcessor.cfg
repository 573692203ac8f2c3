SPECIFICATION Spec
CONSTANTS
    m1 = m1
    e1 = e1
    e2 = e2
    logger = logger
    script = script
    Module <- OneModule
    Main = main
    Listener <- TwoListeners
    Script = script
    Event <- TwoEvents
    NoEvent = NoEvent
    Free = Free
    Signals <- HupAndTerm
    QueueBound = 1
    MaxAlarmPosts = 1
INVARIANTS
    TypeOK
    DispatchIsComplete
PROPERTIES
    StuckForGood
    EveryListenerHasAFifo
CHECK_DEADLOCK FALSE
