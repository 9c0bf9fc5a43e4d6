\* Whether every listed disk is counted.
CONSTANTS
    MaxWord = 127
    Nodes = {n1, n2}
    Conditions <- AllConditions
    Failed = Failed
    Denied = Denied
    a = a
    b = b
    c = c
    d = d
SPECIFICATION Spec
SYMMETRY Symmetry
INVARIANTS DisksAllCounted
