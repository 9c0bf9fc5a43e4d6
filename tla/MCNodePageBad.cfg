\* Whether a virtual disk is bad only for its own replicas.
CONSTANTS
    n1 = n1
    n2 = n2
    d1 = d1
    d2 = d2
    Nodes = {n1, n2}
    Nobody = Nobody
    Addressing <- Home
    Disks = {d1, d2}
    Owned <- OwnNames
    Layout <- OwnLayout
    MaxChanges = 1
SPECIFICATION Spec
INVARIANTS BadIsItsOwn
CHECK_DEADLOCK FALSE
