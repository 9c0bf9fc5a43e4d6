------------------------------ MODULE Cluster ------------------------------
(***************************************************************************)
(* The Bob cluster behind the pages: its nodes, their disks and the layout *)
(* of replicas, what can change while a page is being made, and            *)
(* process_replica, which the pages share.  The clients of a BobClient are *)
(* kept by node name and were made at login: by now some other node, or    *)
(* none, may answer at the address of a client (see NodeClients).          *)
(***************************************************************************)
EXTENDS Naturals, FiniteSets, Sequences

CONSTANTS
    Nodes,      \* node names
    Nobody,     \* at an address where no node answers
    Addressing, \* who may answer at the addresses of the clients: functions
                \* from names of clients to nodes or Nobody
    Disks,      \* disk names
    Owned,      \* <<node, disk>>: the disks a node lists
    Layout,     \* the virtual disks: a sequence of sequences of replicas,
                \* [node, disk]; none where Bob leaves the field out
    MaxChanges  \* bound: changes of nodes and disks during one request

Replicas == [node : Nodes, disk : Disks]

ASSUME LayoutAssumption ==
    /\ Nobody \notin Nodes
    /\ Addressing \subseteq [Nodes -> Nodes \cup {Nobody}]
    /\ Owned \subseteq Nodes \X Disks
    /\ Layout \in Seq(Seq(Replicas))
    /\ MaxChanges \in Nat

VARIABLES
    up,         \* nodes that answer the handler's calls with their content
    active,     \* disks that are listed as active
    changes,    \* changes since the request began
    known,      \* nodes with a client in BobClient::cluster, since the login
    members,    \* nodes that Bob lists
    reaches,    \* the node that answers at the address of each client
    sawUp, sawDown,         \* history: nodes seen up, down during the request
    sawActive, sawInactive  \* history: disks seen active, inactive

world == <<up, active, changes, known, members, reaches>>
history == <<sawUp, sawDown, sawActive, sawInactive>>

AllDisks == Nodes \X Disks
Places == Nodes \cup {Nobody}

ClusterInit ==
    /\ up \in SUBSET Nodes
    /\ active \in SUBSET Owned
    /\ known \in SUBSET Nodes
    /\ members \in SUBSET Nodes
    /\ reaches \in Addressing
    /\ changes = 0
    /\ sawUp = {} /\ sawDown = {} /\ sawActive = {} /\ sawInactive = {}

\* A request begins: what it could see from now on.
Watch ==
    /\ sawUp' = up
    /\ sawDown' = Places \ up
    /\ sawActive' = active
    /\ sawInactive' = AllDisks \ active

Flip(set, x) == IF x \in set THEN set \ {x} ELSE set \cup {x}

\* A node or a disk comes or goes.
Change ==
    /\ changes < MaxChanges
    /\ changes' = changes + 1
    /\ \/ \E n \in Nodes : up' = Flip(up, n) /\ UNCHANGED active
       \/ \E d \in Owned : active' = Flip(active, d) /\ UNCHANGED up
    /\ sawUp' = sawUp \cup up'
    /\ sawDown' = sawDown \cup (Places \ up')
    /\ sawActive' = sawActive \cup active'
    /\ sawInactive' = sawInactive \cup (AllDisks \ active')
    /\ UNCHANGED <<known, members, reaches>>

\* Calls of client n are answered.
Answers(n) == reaches[n] \in up

Problems == {"NodeUnavailable", "DiskUnavailable"}

\* process_replica, given whether the handler's listing shows the disk as
\* missing or inactive.  The node is looked up in Bob's list, then probed.  A
\* node that is gone adds NodeUnavailable only to a disk that was bad already.
Process(replica, diskGone) ==
    LET nodeGone == ~(replica.node \in members \cap known /\ Answers(replica.node)) IN
    (IF diskGone \/ nodeGone THEN {"DiskUnavailable"} ELSE {})
    \cup (IF diskGone /\ nodeGone THEN {"NodeUnavailable"} ELSE {})

\* What must have been so, at some moment of the request, of a replica that is
\* called good: its node was up, within reach and with the disk active, and
\* something answered at the address that the node had at login.
SeenGood(replica) ==
    /\ <<replica.node, replica.disk>> \in sawActive
    /\ replica.node \in known \cap members
    /\ {replica.node, reaches[replica.node]} \subseteq sawUp
    /\ \E n \in known : reaches[n] = replica.node

\* ... and of one that is called offline.
SeenOffline(replica) ==
    \/ <<replica.node, replica.disk>> \in sawInactive
    \/ {replica.node, reaches[replica.node]} \cap sawDown # {}
    \/ replica.node \notin known \cap members
    \/ \A n \in known : reaches[n] # replica.node

ClusterTypeOK ==
    /\ up \subseteq Nodes /\ known \subseteq Nodes /\ members \subseteq Nodes
    /\ active \subseteq Owned
    /\ changes \in 0 .. MaxChanges
    /\ reaches \in [Nodes -> Places]
    /\ sawUp \subseteq Nodes /\ sawDown \subseteq Places
    /\ sawActive \subseteq Owned /\ sawInactive \subseteq AllDisks

=============================================================================
