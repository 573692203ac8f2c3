SPECIFICATION MCSpec
CONSTANTS
    web = web
    main = main
    Caller <- Callers
    Main = main
    Other = module
    None = none
    DayLength = 2
    FreshIds = FALSE
    MaxAdds = 2
    MaxRemoves = 1
    MaxCrashes = 1
    MaxTime = 2
INVARIANTS
    TypeOK
    DatabaseIsMemory
    NeverEarly
    AtMostOncePerLife
    AcceptedIsKept
PROPERTIES
    OperationsAreAtomic
    StoredIsDispatched
CHECK_DEADLOCK FALSE
