---------------------------- MODULE NodeReports ----------------------------
(***************************************************************************)
(* One Bob node as the backend judges it, over the metrics snapshots it    *)
(* reports one after the other.  Nothing is remembered between snapshots,  *)
(* so any snapshot may follow any other.                                   *)
(***************************************************************************)
EXTENDS Health

CONSTANT Reports    \* the metrics snapshots the node may report

ASSUME ReportsAssumption == \A r \in Reports : IsSnapshot(r)

VARIABLE report     \* the last MetricsSnapshotModel

Init == report \in Reports

Report == report' \in Reports

Next == Report

Spec == Init /\ [][Next]_report

Metrics == Typed(report)

\* /nodes/count judges a node with is_bad_node, /nodes and /nodes/:name with
\* from_metrics: the three pages agree on every report.
CountAgreesWithList ==
    IsBadNode(Metrics) <=> FromProblems(FromMetrics(Metrics)).status = "bad"

\* A sane report has some space, and no more of it free than there is.
HasSpace == Metrics["totalSpace"] > 0 /\ Metrics["freeSpace"] <= Metrics["totalSpace"]

\* What the subtraction, division and comparison of the source come to on sane
\* reports: the problem is there as soon as no more than a tenth is free.  The
\* bound itself belongs to it, since 1.0 - 0.9 is less than 0.1 in doubles.
FreeSpaceIsATenth ==
    HasSpace =>
        ("FreeSpaceRunningOut" \in FromMetrics(Metrics)
            <=> 10 * Metrics["freeSpace"] <= Metrics["totalSpace"])

\* The project's README.md:23 lists the problem otherwise: less than 10 % of the
\* space is free.
FreeSpaceIsBelowATenth ==
    HasSpace /\ "FreeSpaceRunningOut" \in FromMetrics(Metrics) =>
        10 * Metrics["freeSpace"] < Metrics["totalSpace"]

\* Problems do not go away while every number gets worse or stays: with the
\* wrapping subtraction this needs a free space that is not above the total.
WorseIsWorse == [][
    LET m == Typed(report)
        w == Typed(report') IN
    /\ m["alienCount"] > 0 => w["alienCount"] > 0
    /\ m["corruptedBlobCount"] > 0 => w["corruptedBlobCount"] > 0
    /\ w["cpuLoad"] >= m["cpuLoad"]
    /\ w["totalSpace"] = m["totalSpace"]
    /\ w["freeSpace"] <= m["freeSpace"] /\ m["freeSpace"] <= m["totalSpace"]
    /\ w["virtualRam"] >= m["virtualRam"] /\ w["totalRam"] <= m["totalRam"]
    => FromMetrics(m) \subseteq FromMetrics(w)]_report

=============================================================================
