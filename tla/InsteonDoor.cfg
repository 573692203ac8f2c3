SPECIFICATION FairSpec
CONSTANTS
    Switch = {}
    IOLinc = {o}
    EZFlora = {}
    Modem = modem
    Faults <- EveryFault
    MaxRequests = 2
    MaxManual = 1
    MaxFaults = 1
    MaxRecords = 1
PROPERTY
    CommandsDrain
CHECK_DEADLOCK FALSE
