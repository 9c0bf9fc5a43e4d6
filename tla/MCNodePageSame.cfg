\* Whether a good replica has an active disk where nodes share a disk name.
CONSTANTS
    n1 = n1
    n2 = n2
    d1 = d1
    d2 = d2
    Nodes = {n1, n2}
    Nobody = Nobody
    Addressing <- Home
    Disks = {d1, d2}
    Owned <- SameName
    Layout <- SameLayout
    MaxChanges = 1
SPECIFICATION Spec
INVARIANTS GoodReplicaHasItsDisk
CHECK_DEADLOCK FALSE
