SPECIFICATION FairSpec
CONSTANTS
    Switch = {s}
    IOLinc = {}
    EZFlora = {}
    Modem = modem
    Faults <- EveryFault
    MaxRequests = 2
    MaxManual = 0
    MaxFaults = 1
    MaxRecords = 1
PROPERTY
    AckBeforeNextCommand
CHECK_DEADLOCK FALSE
