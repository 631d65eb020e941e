SPECIFICATION FairSpec
CONSTANTS
    u1 = u1
    r1 = r1
    o1 = o1
    o2 = o2
    NoObj = NoObj
    Uuid = {u1}
    Route = {r1}
    Obj = {o1, o2}
    RouteOf <- MCOneRoute
    MaxRows = 1
    MaxBatch = 1
    MaxLogs = 2
    MaxCrash = 1
INVARIANTS
    AtMostOneLateImage
    LogsNumbered
PROPERTIES
    DeletedWorkerEnds
    WorkerKeepsPolling
    ServiceReturns
