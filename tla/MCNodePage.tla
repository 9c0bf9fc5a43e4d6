----------------------------- MODULE MCNodePage -----------------------------
(* Small clusters for NodePage. *)
EXTENDS NodePage, MCSites

CONSTANTS d1, d2

On(n, d) == [node |-> n, disk |-> d]

Home == {AtHome}
HomeOrMoved == {AtHome, Moved}

\* A disk of its own for each node.
OwnNames == {<<n1, d1>>, <<n2, d2>>}
OwnLayout == <<<<On(n1, d1), On(n2, d2)>>, <<On(n2, d2)>>>>

\* The same name for the disk of each node.
SameName == {<<n1, d1>>, <<n2, d1>>}
SameLayout == <<<<On(n1, d1), On(n2, d1)>>>>
=============================================================================
