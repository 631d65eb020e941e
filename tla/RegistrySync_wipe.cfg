SPECIFICATION Spec
CONSTANTS
    w1 = w1
    w2 = w2
    t1 = t1
    t2 = t2
    Job = {w1}
    Target = {t1}
    TargetOf <- MCOneTarget
    Image = {i1}
    Removable = {}
    MaxVersion = 1
    MaxListFault = 1
    MaxPushFault = 0
    MaxCallFault = 0
    MaxCrash = 0
PROPERTIES
    KeepsReplicas
