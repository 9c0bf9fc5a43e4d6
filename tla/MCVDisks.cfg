\* Two nodes with a disk each, three virtual disks, two changes meanwhile.
\* One request: the system stops after it.
CONSTANTS
    n1 = n1
    n2 = n2
    d = d
    Nodes = {n1, n2}
    Disks = {d}
    Owned <- EachOne
    Nobody = Nobody
    Addressing <- MCAddressing
    Layout <- MCLayout
    MaxChanges = 2
SPECIFICATION FairSpec
INVARIANTS TypeOK GoodIsSeen OfflineIsSeen StatusIsSeen
PROPERTIES HandlerAnswers KeepsPromise
CHECK_DEADLOCK FALSE
