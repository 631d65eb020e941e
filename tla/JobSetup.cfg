SPECIFICATION FairSpec
CONSTANTS
    Service = {v1, v2}
    Content = {c1, c2}
    NoSpace = NoSpace
    MaxFault = 1
    MaxEdit = 1
INVARIANTS
    PassesReady
PROPERTIES
    CopiesOnly
    RetriesStart
