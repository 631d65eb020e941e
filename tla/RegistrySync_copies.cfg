SPECIFICATION FairSpec
CONSTANTS
    w1 = w1
    w2 = w2
    t1 = t1
    t2 = t2
    Job = {w1, w2}
    Target = {t1, t2}
    TargetOf <- MCTwoTargets
    Image = {i1}
    Removable = {i1}
    MaxVersion = 2
    MaxListFault = 1
    MaxPushFault = 1
    MaxCallFault = 1
    MaxCrash = 1
INVARIANTS
    SomeWorkerSurvives
    DaemonClean
PROPERTIES
    ReplicaSpec
    ImagesConverge
    ContentsConverge
CHECK_DEADLOCK FALSE
