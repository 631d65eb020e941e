SPECIFICATION Spec
CONSTANTS
    c1 = c1
    c2 = c2
    Cpu = {c1, c2}
    Request <- MCRequest
    MaxSectors = 2
    MaxRemap = 2
    SyncFailMax = 2
    Wide = TRUE
    Base = 10
    Spare = 4
CONSTRAINT MCQuiet
INVARIANTS
    RemappedToReserve
CHECK_DEADLOCK FALSE
