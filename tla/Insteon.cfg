SPECIFICATION Spec
CONSTANTS
    Switch = {s}
    IOLinc = {}
    EZFlora = {z}
    Modem = modem
    Faults <- EveryFault
    MaxRequests = 1
    MaxManual = 1
    MaxFaults = 1
    MaxRecords = 1
INVARIANTS
    TypeOK
    OneOutstanding
    LevelTracksDevice
    ScriptIsTold
CHECK_DEADLOCK FALSE
