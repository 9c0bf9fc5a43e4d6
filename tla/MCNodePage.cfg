\* Two nodes with a disk each, under different names, two virtual disks and
\* two changes meanwhile.  One request: the system stops after it.
CONSTANTS
    n1 = n1
    n2 = n2
    d1 = d1
    d2 = d2
    Nodes = {n1, n2}
    Nobody = Nobody
    Addressing <- HomeOrMoved
    Disks = {d1, d2}
    Owned <- OwnNames
    Layout <- OwnLayout
    MaxChanges = 2
SPECIFICATION FairSpec
INVARIANTS TypeOK GoodIsSeen OfflineIsSeen StatusCoversReplicas
PROPERTIES HandlerAnswers
CHECK_DEADLOCK FALSE
