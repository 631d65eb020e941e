SPECIFICATION Spec
CONSTANTS
    Program = {"joke", "net", "runner", "stamps", "devices", "commands", "health"}
    Request = {r1, r2}
    Limit = 1
    Client = {c1, c2}
    Uuid = {u1, u2}
    Network = {n1}
    Host = {h1}
    ThreadNumber = 2
    Last = 2
    Deletable = {2}
    MaxStamp = 4
    TimeLoop = 2
    MaxStarts = 3
    LastHost = 2
    Target = {1}
    OtherHost = {2}
    LastSlot = 2
    Command = {k1}
    CurrFailMax = 2
    DevFailMax = 4
    Depth = 2
    MaxTimeouts = 6
INVARIANTS
    ServicesSafe
    TestsSafe
    DisksSafe
    HooksSafe
PROPERTIES
    EndsForGood
    EveryoneReturns
CHECK_DEADLOCK FALSE
