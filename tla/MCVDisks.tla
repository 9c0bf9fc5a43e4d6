------------------------------ MODULE MCVDisks ------------------------------
(* A small cluster for VDisks. *)
EXTENDS VDisks, MCSites, TLC

CONSTANT d

MCAddressing == {AtHome, OneHost, Moved}

\* Every node lists every disk.
EachOne == Nodes \X Disks

On(n) == [node |-> n, disk |-> d]

\* One virtual disk on both nodes, then one on a single node, then one whose
\* replicas Bob leaves out.
MCLayout == <<<<On(n1), On(n2)>>, <<On(n2)>>, <<>>>>
=============================================================================
