SPECIFICATION Spec
CONSTANTS
    u1 = u1
    r1 = r1
    o1 = o1
    o2 = o2
    NoObj = NoObj
    Uuid = {u1}
    Route = {r1}
    Obj = {o1, o2}
    RouteOf <- MCOneRoute
    MaxRows = 2
    MaxBatch = 1
    MaxLogs = 1
    MaxCrash = 1
SYMMETRY MCSymmetry
INVARIANTS
    TypeOK
    NoLostWakeup
    StopMatchesStatus
    EveryTaskPersisted
    StatusPersisted
