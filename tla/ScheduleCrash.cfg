SPECIFICATION Spec
CONSTANTS
    web = web
    main = main
    Caller <- Callers
    Main = main
    Other = module
    None = none
    DayLength = 2
    FreshIds = TRUE
    MaxAdds = 2
    MaxRemoves = 1
    MaxCrashes = 1
    MaxTime = 3
INVARIANTS
    KeptUntilDispatched
CHECK_DEADLOCK FALSE
