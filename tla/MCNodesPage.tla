----------------------------- MODULE MCNodesPage -----------------------------
(* A small cluster for NodesPage. *)
EXTENDS NodesPage, MCSites, TLC

CONSTANT d

MCAddressing == {AtHome, OneHost}

\* The first node has the disk, and the replica of the one virtual disk.
MCOwned == {<<n1, d>>}
MCLayout == <<<<[node |-> n1, disk |-> d]>>>>
=============================================================================
