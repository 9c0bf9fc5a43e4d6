------------------------------- MODULE Health -------------------------------
(***************************************************************************)
(* How the backend judges a Bob node and its disks from the numbers they   *)
(* report.  Numbers are u64: a release build wraps, which matters where a  *)
(* report has more free than total space.                                  *)
(*                                                                         *)
(* The two ratios are computed in doubles.  x / y is correctly rounded, so *)
(* a ratio of exactly 9/10 or 1/10 is the double 0.9 or 0.1; 1 - 0.9 is    *)
(* then less than MIN_FREE_SPACE and 0.1 is not.  Ratios closer to these   *)
(* boundaries than a rounding error are taken as exact.                    *)
(***************************************************************************)
EXTENDS Integers, FiniteSets, Sequences

CONSTANT MaxWord    \* the largest u64

ASSUME WordAssumption == MaxWord \in Nat /\ MaxWord >= 100

Word == 0 .. MaxWord

\* u64 addition and subtraction as a release build does them.
Plus(a, b) == IF a + b > MaxWord THEN a + b - MaxWord - 1 ELSE a + b
Minus(a, b) == IF a >= b THEN a - b ELSE a - b + MaxWord + 1

MAX_CPU == 90

-----------------------------------------------------------------------------
(* Metrics *)

\* The keys of TypedMetrics the judgement and the sums use.
Rates == {"getRate", "putRate", "existRate", "deleteRate"}
Gauges == {"alienCount", "corruptedBlobCount", "cpuLoad", "totalSpace",
           "freeSpace", "virtualRam", "totalRam"}
MetricKeys == Rates \cup Gauges

\* MetricsSnapshotModel: whatever keys a node reports.
IsSnapshot(snapshot) ==
    /\ DOMAIN snapshot \subseteq MetricKeys
    /\ \A k \in DOMAIN snapshot : snapshot[k] \in Word

\* From<MetricsSnapshotModel>: a key the node does not report counts as zero.
Typed(snapshot) ==
    [k \in MetricKeys |-> IF k \in DOMAIN snapshot THEN snapshot[k] ELSE 0]

\* Mutant of FreeSpaceLow: a strict comparison.
FreeSpaceLowStrict(m) ==
    LET used == Minus(m["totalSpace"], m["freeSpace"]) IN
    IF m["totalSpace"] = 0 THEN used # 0 ELSE 10 * used > 9 * m["totalSpace"]

\* Mutant of FreeSpaceLow: the free space in place of the used one.
FreeSpaceLowSwapped(m) ==
    IF m["totalSpace"] = 0 THEN m["freeSpace"] # 0
    ELSE 10 * m["freeSpace"] >= 9 * m["totalSpace"]

\* 1 - (total - free) / total < MIN_FREE_SPACE.  Without any space the ratio
\* is 0/0, not a number, or infinite.
FreeSpaceLow(m) ==
    LET used == Minus(m["totalSpace"], m["freeSpace"]) IN
    IF m["totalSpace"] = 0 THEN used # 0 ELSE 10 * used >= 9 * m["totalSpace"]

NodeProblems == {"AliensExists", "CorruptedExists", "HighCPULoad",
                 "FreeSpaceRunningOut", "VirtualMemLargerThanRAM"}

\* NodeProblem::from_metrics.
Has(problem, m) ==
    CASE problem = "AliensExists" -> m["alienCount"] # 0
      [] problem = "CorruptedExists" -> m["corruptedBlobCount"] # 0
      [] problem = "HighCPULoad" -> m["cpuLoad"] >= MAX_CPU
      [] problem = "FreeSpaceRunningOut" -> FreeSpaceLow(m)
      [] problem = "VirtualMemLargerThanRAM" -> m["virtualRam"] > m["totalRam"]

FromMetrics(m) == {problem \in NodeProblems : Has(problem, m)}

\* NodeStatus::from_problems.
FromProblems(problems) ==
    IF problems = {} THEN [status |-> "good"]
    ELSE [status |-> "bad", problems |-> problems]

\* Mutant of IsBadNode: its copy of the rule of free space drifts.
IsBadNodeStrict(m) ==
    LET total == m["totalSpace"]
        used == Minus(total, m["freeSpace"]) IN
    \/ m["alienCount"] # 0
    \/ m["corruptedBlobCount"] # 0
    \/ m["cpuLoad"] >= MAX_CPU
    \/ IF total = 0 THEN used # 0 ELSE 10 * used > 9 * total
    \/ m["virtualRam"] > m["totalRam"]

\* is_bad_node, written separately from from_metrics in the source.
IsBadNode(m) ==
    LET total == m["totalSpace"]
        used == Minus(total, m["freeSpace"]) IN
    \/ m["alienCount"] # 0
    \/ m["corruptedBlobCount"] # 0
    \/ m["cpuLoad"] >= MAX_CPU
    \/ IF total = 0 THEN used # 0 ELSE 10 * used >= 9 * total
    \/ m["virtualRam"] > m["totalRam"]

-----------------------------------------------------------------------------
(* Disks *)

\* Mutant of DiskStatusFromSpace: the occupied space for the free one.
DiskStatusByOccupied(total, occupied) ==
    IF total # 0 /\ 10 * occupied < total THEN "bad" ELSE "good"

\* disk_status_from_space: (total - occupied) / total < MIN_FREE_SPACE, where
\* total is the space of the whole node.
DiskStatusFromSpace(total, occupied) ==
    IF total # 0 /\ 10 * Minus(total, occupied) < total THEN "bad" ELSE "good"

\* A list of disks may name one twice; the first entry counts.
FirstOfName(disks) ==
    {i \in DOMAIN disks : \A j \in 1 .. i - 1 : disks[j].name # disks[i].name}

\* The status of a listed disk, given the node's space report.
DiskStatusOf(disk, space) ==
    IF disk.name \in DOMAIN space.byDisk
      THEN DiskStatusFromSpace(space.total, space.byDisk[disk.name])
      ELSE "offline"

\* proccess_disks: the rows of a node's disk table, by their place in the list.
ProccessDisks(disks, space) ==
    [i \in FirstOfName(disks) |->
        [name |-> disks[i].name, path |-> disks[i].path,
         status |-> DiskStatusOf(disks[i], space),
         used_space |-> IF disks[i].name \in DOMAIN space.byDisk
                        THEN space.byDisk[disks[i].name] ELSE 0]]

=============================================================================
