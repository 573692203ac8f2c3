SPECIFICATION FairSpec
CONSTANTS
    m1 = m1
    e1 = e1
    e2 = e2
    logger = logger
    script = script
    Module <- OneModule
    Main = main
    Listener <- OneListener
    Script = script
    Event <- TwoEvents
    NoEvent = NoEvent
    Free = Free
    Signals <- HupOnly
    QueueBound = 1
    MaxAlarmPosts = 1
PROPERTIES
    SighupReloadsScript
CHECK_DEADLOCK FALSE
