SPECIFICATION FairSpec
CONSTANTS
    w1 = w1
    w2 = w2
    t1 = t1
    t2 = t2
    Job = {w1, w2}
    Target = {t1, t2}
    TargetOf <- MCTwoTargets
    Image = {i1}
    Removable = {}
    MaxVersion = 1
    MaxListFault = 0
    MaxPushFault = 0
    MaxCallFault = 0
    MaxCrash = 0
PROPERTIES
    AlwaysReplicates
