------------------------------ MODULE NodePage ------------------------------
(***************************************************************************)
(* What is asked of one node.  For its page (get_detailed_node_info) the   *)
(* handler spawns a get_disks task for every client, makes seven calls of  *)
(* its own, and merges all listings into one map from disk names to states *)
(* before it judges the replicas of every virtual disk that has one on the *)
(* node.  The raw metrics and the raw configuration (raw_metrics_by_node,  *)
(* raw_configuration_by_node) are one call, once the client is found.      *)
(***************************************************************************)
EXTENDS Cluster

VARIABLES
    route,      \* "node", "metrics", "configuration"
    target,     \* the node of the page
    phase,      \* "idle", "asking", "disks", "partitions", "replicas", "done"
    asked,      \* calls of the handler that were answered
    task,       \* the disks task of each node: "none", "running", "end"
    listing,    \* what a task got: every disk "unlisted", "active" or "inactive"
    procDisks,  \* proc_disks: the same of all listings, by the name of the disk
    counted,    \* virtual disks in res_partitions
    replicas,   \* res_replicas: problems of the replicas so far, by virtual disk
    result,     \* res_vdisks: [status, problems, counted], by virtual disk
    code        \* the answer's status code, 0 before there is one

handler == <<route, target, phase, asked, task, listing, procDisks, counted,
             replicas, result, code>>
vars == <<world, history, handler>>

Routes == {"node", "metrics", "configuration"}

\* The calls in their order: the first one asks the main node, the others go to
\* the address of the node.
Calls ==
    IF route = "node"
    THEN <<"nodes", "vdisks", "metrics", "space", "status", "disks", "nodes">>
    ELSE <<"nodes", route>>

\* The calls that Bob may refuse.
MayRefuse == {"nodes", "vdisks", "disks", "configuration"}

Unlisted == [d \in Disks |-> "unlisted"]

Init ==
    /\ ClusterInit
    /\ route \in Routes
    /\ target \in Nodes
    /\ phase = "idle"
    /\ asked = 0
    /\ task = [n \in Nodes |-> "none"]
    /\ listing = [n \in Nodes |-> Unlisted]
    /\ procDisks = Unlisted
    /\ counted = {}
    /\ replicas = [v \in DOMAIN Layout |-> <<>>]
    /\ result = [v \in {} |-> {}]
    /\ code = 0

ClusterChanges ==
    /\ phase \notin {"idle", "done"}
    /\ Change
    /\ UNCHANGED handler

-----------------------------------------------------------------------------
(* The tasks *)

\* What get_disks tells of the node at the address of client n.
DisksOf(n) ==
    [d \in Disks |->
        IF <<reaches[n], d>> \notin Owned THEN "unlisted"
        ELSE IF <<reaches[n], d>> \in active THEN "active" ELSE "inactive"]

\* Mutant of TaskDisks: a task of a node that is gone does not end.
TaskDisksStuck(n) ==
    /\ task[n] = "running"
    /\ Answers(n)
    /\ task' = [task EXCEPT ![n] = "end"]
    /\ listing' = [listing EXCEPT ![n] = DisksOf(n)]
    /\ UNCHANGED <<world, history, route, target, phase, asked, procDisks, counted,
                   replicas, result, code>>

\* A call that fails lists nothing.
TaskDisks(n) ==
    /\ task[n] = "running"
    /\ task' = [task EXCEPT ![n] = "end"]
    /\ listing' = [listing EXCEPT ![n] = IF Answers(n) THEN DisksOf(n) ELSE Unlisted]
    /\ UNCHANGED <<world, history, route, target, phase, asked, procDisks, counted,
                   replicas, result, code>>

-----------------------------------------------------------------------------
(* The handler *)

Start ==
    /\ phase = "idle"
    /\ phase' = "asking"
    /\ task' = [n \in Nodes |->
                  IF route = "node" /\ n \in known THEN "running" ELSE "none"]
    /\ Watch
    /\ UNCHANGED <<world, route, target, asked, listing, procDisks, counted,
                   replicas, result, code>>

\* get_client_by_node: the node must be in Bob's list and among the clients made
\* at login.  A raw route answers with what its one call got.
Ask ==
    /\ phase = "asking"
    /\ IF asked = 0 THEN target \in members \cap known ELSE Answers(target)
    /\ asked' = asked + 1
    /\ IF asked' < Len(Calls) THEN UNCHANGED <<phase, code>>
       ELSE IF route = "node" THEN phase' = "disks" /\ UNCHANGED code
       ELSE phase' = "done" /\ code' = 200
    /\ UNCHANGED <<world, history, route, target, task, listing, procDisks, counted,
                   replicas, result>>

\* Any call may fail, and ends the handler; the tasks run on, detached.
AskFails ==
    /\ phase = "asking"
    /\ phase' = "done"
    /\ code' \in {404} \cup (IF Calls[asked + 1] \in MayRefuse THEN {403} ELSE {})
    /\ UNCHANGED <<world, history, route, target, asked, task, listing, procDisks,
                   counted, replicas, result>>

\* Mutant of Collect: a listed disk is taken for an active one.
CollectNames(n) ==
    /\ phase = "disks"
    /\ task[n] = "end"
    /\ task' = [task EXCEPT ![n] = "none"]
    /\ procDisks' = [d \in Disks |->
                       IF listing[n][d] = "unlisted" THEN procDisks[d] ELSE "active"]
    /\ UNCHANGED <<world, history, route, target, phase, asked, listing, counted,
                   replicas, result, code>>

\* A finished task is taken in, in any order: later ones overwrite.
Collect(n) ==
    /\ phase = "disks"
    /\ task[n] = "end"
    /\ task' = [task EXCEPT ![n] = "none"]
    /\ procDisks' = [d \in Disks |->
                       IF listing[n][d] = "unlisted" THEN procDisks[d]
                       ELSE listing[n][d]]
    /\ UNCHANGED <<world, history, route, target, phase, asked, listing, counted,
                   replicas, result, code>>

\* Mutant of Collected: the loop ends when no task is ready.
CollectedReady ==
    /\ phase = "disks"
    /\ \A n \in Nodes : task[n] # "end"
    /\ phase' = "partitions"
    /\ UNCHANGED <<world, history, route, target, asked, task, listing, procDisks,
                   counted, replicas, result, code>>

Collected ==
    /\ phase = "disks"
    /\ \A n \in Nodes : task[n] = "none"
    /\ phase' = "partitions"
    /\ UNCHANGED <<world, history, route, target, asked, task, listing, procDisks,
                   counted, replicas, result, code>>

\* The partitions of every virtual disk, from tasks of their own that fail or
\* not; nothing else depends on them.
CountPartitions ==
    /\ phase = "partitions"
    /\ counted' \in SUBSET DOMAIN Layout
    /\ phase' = "replicas"
    /\ UNCHANGED <<world, history, route, target, asked, task, listing, procDisks,
                   replicas, result, code>>

\* The virtual disks with a replica on the node; they are gone through in order.
Shown == {v \in DOMAIN Layout : \E i \in DOMAIN Layout[v] : Layout[v][i].node = target}

Left == Shown \ DOMAIN result
Current == CHOOSE v \in Left : \A w \in Left : v <= w

Working == phase = "replicas" /\ Left # {}

NextReplica == Layout[Current][Len(replicas[Current]) + 1]

ProcessReplica ==
    /\ Working
    /\ Len(replicas[Current]) < Len(Layout[Current])
    /\ replicas' = [replicas EXCEPT ![Current] =
         Append(@, Process(NextReplica, procDisks[NextReplica.disk] # "active"))]
    /\ UNCHANGED <<world, history, route, target, phase, asked, task, listing,
                   procDisks, counted, result, code>>

\* Mutant of AnyOffline: more than one.
SomeOffline ==
    \E v, w \in DOMAIN replicas : \E i \in DOMAIN replicas[v], j \in DOMAIN replicas[w] :
        <<v, i>> # <<w, j>> /\ replicas[v][i] # {} /\ replicas[w][j] # {}

\* Some replica so far is offline, of this virtual disk or of one before it.
AnyOffline ==
    \E v \in DOMAIN replicas : \E i \in DOMAIN replicas[v] : replicas[v][i] # {}

\* There is no "offline" on this page.
Row ==
    [status |-> IF AnyOffline THEN "bad" ELSE "good",
     problems |-> replicas[Current],
     counted |-> Current \in counted]

\* Mutant of FinishVDisk: a virtual disk with a bad replica is not looked at
\* any further.
FinishVDiskEarly ==
    /\ Working
    /\ \/ Len(replicas[Current]) = Len(Layout[Current])
       \/ \E i \in DOMAIN replicas[Current] : replicas[Current][i] # {}
    /\ result' = [v \in DOMAIN result \cup {Current} |->
                    IF v = Current THEN Row ELSE result[v]]
    /\ UNCHANGED <<world, history, route, target, phase, asked, task, listing,
                   procDisks, counted, replicas, code>>

\* The status is computed from res_replicas as a whole, the list of replicas
\* is filtered by the virtual disk.
FinishVDisk ==
    /\ Working
    /\ Len(replicas[Current]) = Len(Layout[Current])
    /\ result' = [v \in DOMAIN result \cup {Current} |->
                    IF v = Current THEN Row ELSE result[v]]
    /\ UNCHANGED <<world, history, route, target, phase, asked, task, listing,
                   procDisks, counted, replicas, code>>

Reply ==
    /\ phase = "replicas"
    /\ Left = {}
    /\ phase' = "done"
    /\ code' = 200
    /\ UNCHANGED <<world, history, route, target, asked, task, listing, procDisks,
                   counted, replicas, result>>

\* tokio runs some task or the handler while any of them can run, and their
\* calls end.
Progress ==
    \/ \E n \in Nodes : TaskDisks(n) \/ Collect(n)
    \/ Ask \/ AskFails \/ Collected \/ CountPartitions
    \/ ProcessReplica \/ FinishVDisk \/ Reply

Next == ClusterChanges \/ Start \/ Progress

Spec == Init /\ [][Next]_vars

FairSpec == Spec /\ WF_vars(Progress)

-----------------------------------------------------------------------------
(* Properties *)

\* A virtual disk is on the page only with a replica on the node, and then with
\* all of its replicas, those on other nodes too.
TypeOK ==
    /\ ClusterTypeOK
    /\ route \in Routes /\ target \in Nodes
    /\ phase \in {"idle", "asking", "disks", "partitions", "replicas", "done"}
    /\ asked \in 0 .. Len(Calls)
    /\ task \in [Nodes -> {"none", "running", "end"}]
    /\ listing \in [Nodes -> [Disks -> {"unlisted", "active", "inactive"}]]
    /\ procDisks \in [Disks -> {"unlisted", "active", "inactive"}]
    /\ counted \subseteq DOMAIN Layout
    /\ replicas \in [DOMAIN Layout -> Seq(SUBSET Problems)]
    /\ DOMAIN result \subseteq Shown
    /\ \A v \in DOMAIN result :
         /\ result[v].status \in {"good", "bad"}
         /\ result[v].problems \in [DOMAIN Layout[v] -> SUBSET Problems]
    /\ code \in {0, 200, 403, 404}

\* Where no two nodes share a disk name, the merged map is as good as one per
\* node: a replica is called good only if its disk was seen active and its
\* node up during this request ...
GoodIsSeen ==
    \A v \in DOMAIN result : \A i \in DOMAIN result[v].problems :
        result[v].problems[i] = {} => SeenGood(Layout[v][i])

\* ... and offline only if its disk was seen inactive or its node down.
OfflineIsSeen ==
    \A v \in DOMAIN result : \A i \in DOMAIN result[v].problems :
        result[v].problems[i] # {} => SeenOffline(Layout[v][i])

HasProblems(v) ==
    \E i \in DOMAIN result[v].problems : result[v].problems[i] # {}

\* The status of a virtual disk covers its own replicas and those of all disks
\* before it on the page.
StatusCoversReplicas ==
    \A v \in DOMAIN result :
        (result[v].status = "bad") <=>
            \E w \in DOMAIN result : w <= v /\ HasProblems(w)

\* The page is answered, if every call is.
HandlerAnswers == phase = "asking" ~> phase = "done"

\* dto.rs, VDiskStatus: "status == 'bad' when at least one of its replicas has
\* problems".  A virtual disk is also bad for the replicas of another one.
BadIsItsOwn ==
    \A v \in DOMAIN result :
        result[v].status = "bad" => HasProblems(v)

\* dto.rs, ReplicaStatus: "It's either good or offline with the reasons why it
\* is offline".  Two nodes may use the same disk name, and then a replica whose
\* own disk was inactive all the time is good if the other node answers last.
GoodReplicaHasItsDisk ==
    \A v \in DOMAIN result : \A i \in DOMAIN result[v].problems :
        LET replica == Layout[v][i] IN
        result[v].problems[i] = {} => <<replica.node, replica.disk>> \in sawActive

=============================================================================
