\* Two nodes, one virtual disk with a replica on the first of them, one change
\* meanwhile.
\* One request: the system stops after it.
CONSTANTS
    n1 = n1
    n2 = n2
    d = d
    Nodes = {n1, n2}
    Nobody = Nobody
    Addressing <- MCAddressing
    Disks = {d}
    Owned <- MCOwned
    Layout <- MCLayout
    MaxChanges = 1
SPECIFICATION FairSpec
INVARIANTS TypeOK ReportIsItsOwn OfflineIsSeen ContradictionIsChange
PROPERTIES HandlerAnswers
CHECK_DEADLOCK FALSE
