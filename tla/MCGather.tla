------------------------------ MODULE MCGather ------------------------------
(* Nodes for Gather: the cases that the handlers tell apart. *)
EXTENDS Gather, TLC

CONSTANTS a, b, c, d

Disk(name, active) == [name |-> name, is_active |-> active]

\* Good metrics, just below the thresholds; a disk with just enough room and
\* listed twice, one nearly full, one without a space report, an inactive one.
Healthy ==
    [metrics |-> [k \in {"getRate", "cpuLoad", "totalSpace", "freeSpace"} |->
                    CASE k = "getRate" -> 70 [] k = "cpuLoad" -> 89
                      [] k = "totalSpace" -> 100 [] k = "freeSpace" -> 11],
     disks |-> <<Disk(a, TRUE), Disk(a, TRUE), Disk(b, TRUE), Disk(c, TRUE),
                 Disk(d, FALSE)>>,
     space |-> [total |-> 100, free |-> 11, occupied |-> 50,
                byDisk |-> (a :> 90) @@ (b :> 91)]]

\* A tenth of the space left, most keys missing, disks denied, more free than
\* total space.
Odd ==
    [metrics |-> [k \in {"deleteRate", "totalSpace", "freeSpace"} |->
                    CASE k = "deleteRate" -> 60
                      [] k = "totalSpace" -> 100 [] k = "freeSpace" -> 10],
     disks |-> Denied,
     space |-> [total |-> 20, free |-> 30, occupied |-> 0,
                byDisk |-> (a :> 0)]]

Down == [metrics |-> Failed, disks |-> Failed, space |-> Failed]

AllConditions == {Healthy, Odd, Down}

Symmetry == Permutations(Nodes)
=============================================================================
