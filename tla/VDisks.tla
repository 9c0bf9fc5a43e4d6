------------------------------- MODULE VDisks -------------------------------
(***************************************************************************)
(* The /vdisks page (get_vdisks).  The handler combines what it learns at  *)
(* three different times: the disks every node lists, asked by tasks that  *)
(* run at once; the nodes and virtual disks the main node lists; and, for  *)
(* each replica in turn, whether its node still answers.  Nodes and disks  *)
(* come and go meanwhile.                                                  *)
(***************************************************************************)
EXTENDS Cluster

VARIABLES
    phase,      \* the handler's position
    task,       \* the disks task of each client: "none", "status", "disks", "end"
    listing,    \* the active disks a task got
    lost,       \* clients whose task had a call fail
    resDisks,   \* res_disks: the listings taken in, by the name a node gives
    result,     \* the virtual disks done: [status, problems, counted]
    problems,   \* problems of the replicas of the current virtual disk
    code        \* the answer's status code, 0 before there is one

handler == <<phase, task, listing, lost, resDisks, result, problems, code>>
vars == <<world, history, handler>>

Init ==
    /\ ClusterInit
    /\ phase = "idle"
    /\ task = [n \in Nodes |-> "none"]
    /\ listing = [n \in Nodes |-> {}]
    /\ lost = {}
    /\ resDisks = [n \in {} |-> {}]
    /\ result = <<>>
    /\ problems = <<>>
    /\ code = 0

ClusterChanges ==
    /\ phase \notin {"idle", "done"}
    /\ Change
    /\ UNCHANGED handler

-----------------------------------------------------------------------------
(* The tasks: get_status, then get_disks, with every client *)

\* Mutant of TaskStatus: a task of a node that is gone does not end.
TaskStatusStuck(n) ==
    /\ task[n] = "status"
    /\ Answers(n)
    /\ task' = [task EXCEPT ![n] = "disks"]
    /\ UNCHANGED <<world, history, phase, listing, lost, resDisks, result, problems, code>>

\* The second call is made even where the first has failed.
TaskStatus(n) ==
    /\ task[n] = "status"
    /\ task' = [task EXCEPT ![n] = "disks"]
    /\ lost' = IF Answers(n) THEN lost ELSE lost \cup {n}
    /\ UNCHANGED <<world, history, phase, listing, resDisks, result, problems, code>>

TaskDisks(n) ==
    /\ task[n] = "disks"
    /\ task' = [task EXCEPT ![n] = "end"]
    /\ lost' = IF Answers(n) THEN lost ELSE lost \cup {n}
    /\ listing' = [listing EXCEPT ![n] =
         IF Answers(n) THEN {d \in Disks : <<reaches[n], d>> \in active} ELSE {}]
    /\ UNCHANGED <<world, history, phase, resDisks, result, problems, code>>

-----------------------------------------------------------------------------
(* The handler *)

Start ==
    /\ phase = "idle"
    /\ phase' = "nodes"
    /\ task' = [n \in Nodes |-> IF n \in known THEN "status" ELSE "none"]
    /\ Watch
    /\ UNCHANGED <<world, listing, lost, resDisks, result, problems, code>>

\* request_nodes and request_vdisks: a refusal and a failure end the handler;
\* the tasks run on, detached.
Request(at, next) ==
    /\ phase = at
    /\ \/ phase' = next /\ UNCHANGED code
       \/ phase' = "done" /\ code' \in {403, 404}
    /\ UNCHANGED <<world, history, task, listing, lost, resDisks, result, problems>>

RequestNodes == Request("nodes", "vdisks")
RequestVDisks == Request("vdisks", "collect")

\* Mutant of Collect: listings are kept by the name of the client.
CollectByClient(n) ==
    /\ phase = "collect"
    /\ task[n] = "end"
    /\ task' = [task EXCEPT ![n] = "none"]
    /\ resDisks' = IF n \in lost THEN resDisks
                   ELSE [m \in DOMAIN resDisks \cup {n} |->
                           IF m = n THEN listing[n] ELSE resDisks[m]]
    /\ UNCHANGED <<world, history, phase, listing, lost, result, problems, code>>

\* A finished task is taken in, in any order, and its listing kept under the
\* name that the node at the other end gives itself.
Collect(n) ==
    /\ phase = "collect"
    /\ task[n] = "end"
    /\ task' = [task EXCEPT ![n] = "none"]
    /\ resDisks' = IF n \in lost THEN resDisks
                   ELSE [m \in DOMAIN resDisks \cup {reaches[n]} |->
                           IF m = reaches[n] THEN listing[n] ELSE resDisks[m]]
    /\ UNCHANGED <<world, history, phase, listing, lost, result, problems, code>>

\* Mutant of Collected: the loop ends when no task is ready.
CollectedReady ==
    /\ phase = "collect"
    /\ \A n \in Nodes : task[n] # "end"
    /\ phase' = "replicas"
    /\ UNCHANGED <<world, history, task, listing, lost, resDisks, result, problems, code>>

Collected ==
    /\ phase = "collect"
    /\ \A n \in Nodes : task[n] = "none"
    /\ phase' = "replicas"
    /\ UNCHANGED <<world, history, task, listing, lost, resDisks, result, problems, code>>

Current == Layout[Len(result) + 1]

\* process_replica, or the shortcut for a node without a listing.
ReplicaProblems(replica) ==
    IF replica.node \notin DOMAIN resDisks THEN {"NodeUnavailable"}
    ELSE Process(replica, replica.disk \notin resDisks[replica.node])

ProcessReplica ==
    /\ phase = "replicas"
    /\ Len(result) < Len(Layout)
    /\ Len(problems) < Len(Current)
    /\ problems' = Append(problems,
                          ReplicaProblems(Current[Len(problems) + 1]))
    /\ UNCHANGED <<world, history, phase, task, listing, lost, resDisks, result, code>>

Statuses == {"good", "bad", "offline"}

\* Mutant of StatusOf: the tests in the other order.
StatusOfSwapped(probs) ==
    LET offline == Cardinality({i \in DOMAIN probs : probs[i] # {}}) IN
    IF offline = Len(probs) THEN "offline"
    ELSE IF offline = 0 THEN "good" ELSE "bad"

StatusOf(probs) ==
    LET offline == Cardinality({i \in DOMAIN probs : probs[i] # {}}) IN
    IF offline = 0 THEN "good"
    ELSE IF offline = Len(probs) THEN "offline" ELSE "bad"

\* Mutant of FinishVDisk: the first replica with problems settles the status.
FinishVDiskEarly ==
    /\ phase = "replicas"
    /\ Len(result) < Len(Layout)
    /\ \/ Len(problems) = Len(Current)
       \/ \E i \in DOMAIN problems : problems[i] # {}
    /\ \E counted \in BOOLEAN :
         result' = Append(result, [status |-> StatusOf(problems),
                                   problems |-> problems,
                                   counted |-> counted])
    /\ problems' = <<>>
    /\ UNCHANGED <<world, history, phase, task, listing, lost, resDisks, code>>

\* All replicas are done: the virtual disk's status, and get_partitions, whose
\* failure only makes the partition count zero.
FinishVDisk ==
    /\ phase = "replicas"
    /\ Len(result) < Len(Layout)
    /\ Len(problems) = Len(Current)
    /\ \E counted \in BOOLEAN :
         result' = Append(result, [status |-> StatusOf(problems),
                                   problems |-> problems,
                                   counted |-> counted])
    /\ problems' = <<>>
    /\ UNCHANGED <<world, history, phase, task, listing, lost, resDisks, code>>

\* Mutant of Reply: the answer is sent when the first virtual disk is done.
ReplyFirst ==
    /\ phase = "replicas"
    /\ result # <<>>
    /\ phase' = "done"
    /\ code' = 200
    /\ UNCHANGED <<world, history, task, listing, lost, resDisks, result, problems>>

Reply ==
    /\ phase = "replicas"
    /\ Len(result) = Len(Layout)
    /\ phase' = "done"
    /\ code' = 200
    /\ UNCHANGED <<world, history, task, listing, lost, resDisks, result, problems>>

\* tokio runs some task or the handler while any of them can run, and their
\* calls end.
Progress ==
    \/ \E n \in Nodes : TaskStatus(n) \/ TaskDisks(n) \/ Collect(n)
    \/ RequestNodes \/ RequestVDisks \/ Collected
    \/ ProcessReplica \/ FinishVDisk \/ Reply

Next == ClusterChanges \/ Start \/ Progress

Spec == Init /\ [][Next]_vars

FairSpec == Spec /\ WF_vars(Progress)

-----------------------------------------------------------------------------
(* Properties *)

VDisk == [status : Statuses, problems : Seq(SUBSET Problems), counted : BOOLEAN]

\* Every virtual disk that is done has all its replicas.
TypeOK ==
    /\ ClusterTypeOK
    /\ phase \in {"idle", "nodes", "vdisks", "collect", "replicas", "done"}
    /\ task \in [Nodes -> {"none", "status", "disks", "end"}]
    /\ \A n \in Nodes \ known : task[n] = "none"
    /\ listing \in [Nodes -> SUBSET Disks]
    /\ lost \subseteq known
    /\ DOMAIN resDisks \subseteq Places
    /\ resDisks \in [DOMAIN resDisks -> SUBSET Disks]
    /\ result \in Seq(VDisk)
    /\ Len(result) <= Len(Layout)
    /\ \A v \in DOMAIN result : Len(result[v].problems) = Len(Layout[v])
    /\ problems \in Seq(SUBSET Problems)
    /\ code \in {0, 200, 403, 404}

\* A replica is called good only if, during this request, its disk was active
\* and its node up, and the node is both known and a member: not necessarily
\* all at one moment, but never on the word of an earlier request, nor on the
\* listing of another node that has taken over the address of a client.
GoodIsSeen ==
    \A v \in DOMAIN result : \A i \in DOMAIN result[v].problems :
        result[v].problems[i] = {} => SeenGood(Layout[v][i])

\* No false alarm: a replica is called offline only if its disk was inactive
\* or its node down during the request, or the node is unknown, no member, or
\* no longer where its client looks for it.
OfflineIsSeen ==
    \A v \in DOMAIN result : \A i \in DOMAIN result[v].problems :
        result[v].problems[i] # {} => SeenOffline(Layout[v][i])

\* The status that users look at is backed as well.  A virtual disk is good
\* only if all its replicas were seen good, offline only if it has replicas and
\* all were seen offline, and bad only if some were seen good and some offline.
StatusIsSeen ==
    \A v \in DOMAIN result :
        LET replicas == {Layout[v][i] : i \in DOMAIN Layout[v]} IN
        CASE result[v].status = "good" -> \A r \in replicas : SeenGood(r)
          [] result[v].status = "offline" ->
                replicas # {} /\ \A r \in replicas : SeenOffline(r)
          [] result[v].status = "bad" ->
                /\ \E r \in replicas : SeenGood(r)
                /\ \E r \in replicas : SeenOffline(r)

\* What a handler that calls get_vdisks sees of it.
Asking == CASE phase = "idle" -> "idle"
            [] phase = "done" -> "answered"
            [] OTHER -> "asking"

Good(v) == [i \in DOMAIN result[v].problems |-> result[v].problems[i] = {}]

Answer ==
    IF code # 200 THEN <<>>
    ELSE [v \in DOMAIN result |-> [status |-> result[v].status, good |-> Good(v)]]

Promise == INSTANCE VDisksAnswer WITH asking <- Asking, answer <- Answer

\* The page keeps the promise that other handlers rely on: one answer, about
\* the whole layout, from what was so during the call.
KeepsPromise == Promise!Spec

\* The handler answers, if every call does.
HandlerAnswers == phase = "nodes" ~> phase = "done"

=============================================================================
