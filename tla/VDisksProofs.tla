---------------------------- MODULE VDisksProofs ----------------------------
(***************************************************************************)
(* Proofs about VDisks: for every cluster, layout of replicas and number   *)
(* of changes during the request.                                          *)
(***************************************************************************)
EXTENDS VDisks, FiniteSetTheorems, TLAPS

-----------------------------------------------------------------------------
(* The inductive invariant *)

\* While a request is handled, the history has the world as it is.
Watching ==
    phase # "idle" =>
        /\ up \subseteq sawUp
        /\ Places \ up \subseteq sawDown
        /\ active \subseteq sawActive
        /\ AllDisks \ active \subseteq sawInactive

\* Before the request there is nothing to answer from.
Fresh ==
    phase = "idle" =>
        /\ task = [n \in Nodes |-> "none"]
        /\ lost = {} /\ DOMAIN resDisks = {}
        /\ result = <<>> /\ problems = <<>>

\* A listing is what was seen of a node's disks during the request, and of the
\* node itself.
ListingSeen(node, list) ==
    /\ node \in sawUp
    /\ \A d \in Disks :
         IF d \in list THEN <<node, d>> \in sawActive
         ELSE <<node, d>> \in sawInactive

\* What became of the task of a client: it runs, a call of it failed, or the
\* listing of the node at its address is taken in.
TakenIn(n) == n \in lost \/ reaches[n] \in DOMAIN resDisks

TasksOK ==
    /\ \A n \in lost : reaches[n] \in sawDown
    /\ \A n \in known \ lost : task[n] = "end" => ListingSeen(reaches[n], listing[n])
    /\ \A m \in DOMAIN resDisks : ListingSeen(m, resDisks[m])
    /\ DOMAIN resDisks \subseteq {reaches[n] : n \in known}
    /\ phase # "idle" => \A n \in known : task[n] # "none" \/ TakenIn(n)
    /\ phase = "replicas" => \A n \in known : TakenIn(n)

\* A verdict on a replica is backed by what was seen.
Backed(probs, replica) ==
    IF probs = {} THEN SeenGood(replica) ELSE SeenOffline(replica)

VerdictsOK ==
    /\ \A v \in DOMAIN result : \A i \in DOMAIN result[v].problems :
         Backed(result[v].problems[i], Layout[v][i])
    /\ \A i \in DOMAIN problems : Backed(problems[i], Current[i])
    /\ Len(result) < Len(Layout) => Len(problems) <= Len(Current)
    /\ Len(result) = Len(Layout) => problems = <<>>

IInv == TypeOK /\ Watching /\ Fresh /\ TasksOK /\ VerdictsOK

-----------------------------------------------------------------------------
(* Types *)

LEMMA TypeInit == Init => TypeOK
  BY LayoutAssumption
  DEF Init, ClusterInit, TypeOK, ClusterTypeOK, VDisk, AllDisks, Places

\* What happens to the world leaves its types alone.
LEMMA WorldTypes ==
    ASSUME ClusterTypeOK,
           Change \/ (UNCHANGED world /\ (Watch \/ UNCHANGED history))
    PROVE  ClusterTypeOK'
  BY LayoutAssumption
  DEF ClusterTypeOK, Change, Watch, Flip, world, history, AllDisks, Places

\* The problems of a replica are problems.
LEMMA ReplicaProblemsType ==
    ASSUME NEW replica PROVE ReplicaProblems(replica) \in SUBSET Problems
  BY DEF ReplicaProblems, Process, Problems

\* While virtual disks are left, the current one is a sequence of replicas.
LEMMA CurrentType ==
    ASSUME result \in Seq(VDisk), Len(result) < Len(Layout)
    PROVE  /\ Len(result) + 1 \in DOMAIN Layout
           /\ Current \in Seq(Replicas)
  <1>1. Len(result) \in Nat /\ Layout \in Seq(Seq(Replicas))
    BY LayoutAssumption
  <1>2. Len(result) + 1 \in DOMAIN Layout
    BY <1>1
  <1> QED
    BY <1>1, <1>2 DEF Current

LEMMA TypeNext == TypeOK /\ [Next]_vars => TypeOK'
  <1> SUFFICES ASSUME TypeOK, [Next]_vars PROVE TypeOK'
    OBVIOUS
  <1>1. ClusterTypeOK'
    <2>1. Change \/ (UNCHANGED world /\ (Watch \/ UNCHANGED history))
      BY DEF Next, vars, ClusterChanges, Start, Progress, TaskStatus, TaskDisks,
             Collect, Request, RequestNodes, RequestVDisks, Collected,
             ProcessReplica, FinishVDisk, Reply
    <2> QED
      BY <2>1, WorldTypes DEF TypeOK
  <1>2. known' = known
    BY DEF Next, vars, world, ClusterChanges, Change, Start, Progress,
           TaskStatus, TaskDisks, Collect, Request, RequestNodes,
           RequestVDisks, Collected, ProcessReplica, FinishVDisk, Reply
  <1> USE <1>1, <1>2
  <1>3. CASE ClusterChanges \/ UNCHANGED vars
    BY <1>3 DEF TypeOK, ClusterChanges, vars, handler
  <1>4. CASE Start
    <2>1. task' \in [Nodes -> {"none", "status", "disks", "end"}]
      BY <1>4 DEF TypeOK, Start
    <2>2. \A n \in Nodes \ known : task'[n] = "none"
      BY <1>4 DEF TypeOK, Start
    <2> QED
      BY <1>4, <2>1, <2>2 DEF TypeOK, Start
  <1>5. ASSUME NEW n \in Nodes, TaskStatus(n) \/ TaskDisks(n) PROVE TypeOK'
    <2>1. n \in known
      BY <1>5 DEF TypeOK, TaskStatus, TaskDisks
    <2>2. /\ task' \in [Nodes -> {"none", "status", "disks", "end"}]
          /\ \A m \in Nodes \ known : task'[m] = "none"
      BY <1>5, <2>1 DEF TypeOK, TaskStatus, TaskDisks
    <2>3. lost' \subseteq known
      BY <1>5, <2>1 DEF TypeOK, TaskStatus, TaskDisks
    <2>4. listing' \in [Nodes -> SUBSET Disks]
      <3> DEFINE got == IF Answers(n) THEN {d \in Disks : <<reaches[n], d>> \in active}
                        ELSE {}
      <3>1. got \in SUBSET Disks
        OBVIOUS
      <3>2. listing' = listing \/ listing' = [listing EXCEPT ![n] = got]
        BY <1>5 DEF TaskStatus, TaskDisks
      <3> HIDE DEF got
      <3> QED
        BY <3>1, <3>2 DEF TypeOK
    <2>5. UNCHANGED <<phase, resDisks, result, problems, code>>
      BY <1>5 DEF TaskStatus, TaskDisks
    <2> QED
      BY <2>2, <2>3, <2>4, <2>5 DEF TypeOK
  <1>6. ASSUME NEW n \in Nodes, Collect(n) PROVE TypeOK'
    <2>1. /\ task' = [task EXCEPT ![n] = "none"]
          /\ resDisks' = IF n \in lost THEN resDisks
                         ELSE [m \in DOMAIN resDisks \cup {reaches[n]} |->
                                 IF m = reaches[n] THEN listing[n] ELSE resDisks[m]]
          /\ UNCHANGED <<phase, listing, lost, result, problems, code>>
      BY <1>6 DEF Collect
    <2>2. /\ DOMAIN resDisks' \subseteq Places
          /\ resDisks' \in [DOMAIN resDisks' -> SUBSET Disks]
      <3>1. reaches[n] \in Places /\ listing[n] \in SUBSET Disks
        BY DEF TypeOK, ClusterTypeOK
      <3> QED
        BY <2>1, <3>1 DEF TypeOK
    <2> QED
      BY <2>1, <2>2 DEF TypeOK
  <1>7. CASE RequestNodes \/ RequestVDisks
    BY <1>7 DEF TypeOK, RequestNodes, RequestVDisks, Request
  <1>8. CASE Collected \/ Reply
    BY <1>8 DEF TypeOK, Collected, Reply
  <1>9. CASE ProcessReplica
    <2>1. ReplicaProblems(Current[Len(problems) + 1]) \in SUBSET Problems
      BY ReplicaProblemsType
    <2>2. problems' \in Seq(SUBSET Problems)
      BY <1>9, <2>1 DEF ProcessReplica, TypeOK
    <2> QED
      BY <1>9, <2>2 DEF TypeOK, ProcessReplica
  <1>10. CASE FinishVDisk
    <2>1. PICK counted \in BOOLEAN :
            result' = Append(result, [status |-> StatusOf(problems),
                                      problems |-> problems,
                                      counted |-> counted])
      BY <1>10 DEF FinishVDisk
    <2>2. [status |-> StatusOf(problems), problems |-> problems,
           counted |-> counted] \in VDisk
      BY DEF TypeOK, VDisk, StatusOf, Statuses
    <2>3. result \in Seq(VDisk) /\ Len(result) \in Nat
      BY DEF TypeOK
    <2>4. result' \in Seq(VDisk) /\ Len(result') = Len(result) + 1
      BY <2>1, <2>2, <2>3
    <2>5. Len(result') <= Len(Layout)
      BY <1>10, <2>3, <2>4, LayoutAssumption DEF FinishVDisk
    <2>6. ASSUME NEW v \in DOMAIN result'
          PROVE  Len(result'[v].problems) = Len(Layout[v])
      <3>1. CASE v \in DOMAIN result
        BY <2>1, <2>3, <3>1 DEF TypeOK
      <3>2. CASE v \notin DOMAIN result
        <4>1. v = Len(result) + 1
          BY <2>3, <2>4, <3>2
        <4> QED
          BY <1>10, <2>1, <2>3, <4>1 DEF FinishVDisk, Current
      <3> QED
        BY <3>1, <3>2
    <2> QED
      BY <1>10, <2>4, <2>5, <2>6 DEF TypeOK, FinishVDisk
  <1> QED
    BY <1>3, <1>4, <1>5, <1>6, <1>7, <1>8, <1>9, <1>10 DEF Next, Progress

\* Every virtual disk that is done has all its replicas, in every cluster.
THEOREM PageTyped == Spec => []TypeOK
  BY TypeInit, TypeNext, PTL DEF Spec

-----------------------------------------------------------------------------
(* What was seen stays seen *)

\* During a request the history only grows, and the client's map of the
\* cluster stays as it is.
LEMMA HistoryGrows ==
    ASSUME phase # "idle", [Next]_vars
    PROVE  /\ phase' # "idle"
           /\ sawUp \subseteq sawUp' /\ sawDown \subseteq sawDown'
           /\ sawActive \subseteq sawActive' /\ sawInactive \subseteq sawInactive'
           /\ UNCHANGED <<known, members, reaches>>
  <1>1. CASE ClusterChanges
    BY <1>1 DEF ClusterChanges, Change, handler
  <1>2. CASE UNCHANGED <<world, history>> /\ phase' # "idle"
    BY <1>2 DEF world, history
  <1>3. ~Start
    BY DEF Start
  <1>4. CASE Progress
    BY <1>2, <1>4 DEF Progress, TaskStatus, TaskDisks, Collect, Request,
       RequestNodes, RequestVDisks, Collected, ProcessReplica, FinishVDisk, Reply
  <1>5. CASE UNCHANGED vars
    BY <1>2, <1>5 DEF vars, handler
  <1> QED
    BY <1>1, <1>3, <1>4, <1>5 DEF Next

LEMMA WatchNext == TypeOK /\ Watching /\ [Next]_vars => Watching'
  <1> SUFFICES ASSUME TypeOK, Watching, [Next]_vars PROVE Watching'
    OBVIOUS
  <1>1. CASE ClusterChanges
    BY <1>1 DEF ClusterChanges, Change, handler, Watching, AllDisks
  <1>2. CASE Start
    BY <1>2 DEF Start, Watch, world, Watching, AllDisks
  <1>3. CASE UNCHANGED <<world, history>> /\ phase # "idle"
    BY <1>3 DEF world, history, Watching
  <1>4. CASE Progress
    <2>1. UNCHANGED <<world, history>>
      BY <1>4 DEF Progress, TaskStatus, TaskDisks, Collect, Request,
         RequestNodes, RequestVDisks, Collected, ProcessReplica, FinishVDisk, Reply
    <2>2. phase # "idle" \/ phase' = "idle"
      BY <1>4 DEF Progress, TaskStatus, TaskDisks, Collect, Request,
         RequestNodes, RequestVDisks, Collected, ProcessReplica, FinishVDisk, Reply
    <2> QED
      BY <2>1, <2>2, <1>3 DEF Watching, world, history
  <1>5. CASE UNCHANGED vars
    BY <1>5 DEF vars, world, history, handler, Watching
  <1> QED
    BY <1>1, <1>2, <1>4, <1>5 DEF Next

LEMMA FreshNext == TypeOK /\ Fresh /\ [Next]_vars => Fresh'
  <1> SUFFICES ASSUME TypeOK, Fresh, [Next]_vars, phase' = "idle" PROVE Fresh'
    BY DEF Fresh
  <1>1. phase = "idle"
    BY HistoryGrows
  <1>2. ASSUME NEW n \in Nodes PROVE task[n] = "none"
    BY <1>1, <1>2 DEF Fresh
  <1>3. UNCHANGED vars
    BY <1>1, <1>2 DEF Next, ClusterChanges, Start, Progress, TaskStatus,
       TaskDisks, Collect, Request, RequestNodes, RequestVDisks, Collected,
       ProcessReplica, FinishVDisk, Reply
  <1> QED
    BY <1>3 DEF Fresh, vars, handler

-----------------------------------------------------------------------------
(* Listings *)

\* A listing that was seen of a node's disks stays so.
LEMMA ListingStays ==
    ASSUME NEW node, NEW list, ListingSeen(node, list),
           phase # "idle", [Next]_vars
    PROVE  /\ node \in sawUp'
           /\ \A d \in Disks : IF d \in list THEN <<node, d>> \in sawActive'
                               ELSE <<node, d>> \in sawInactive'
  BY HistoryGrows DEF ListingSeen

\* What is taken in stays so, as clients are only lost and listings only added.
LEMMA TakenInStays ==
    ASSUME NEW n, TakenIn(n), phase # "idle", [Next]_vars,
           lost \subseteq lost', DOMAIN resDisks \subseteq DOMAIN resDisks'
    PROVE  TakenIn(n)'
  BY HistoryGrows DEF TakenIn

\* Where a step leaves the tasks and their listings alone, TasksOK stays.
LEMMA TasksStay ==
    ASSUME TypeOK, TasksOK, phase # "idle", [Next]_vars,
           UNCHANGED <<task, listing, lost, resDisks>>,
           phase' = "replicas" => phase = "replicas" \/ \A n \in Nodes : task[n] = "none"
    PROVE  TasksOK'
  <1>1. UNCHANGED <<known, reaches>> /\ known \subseteq Nodes
    BY HistoryGrows DEF TypeOK, ClusterTypeOK
  <1>2. \A n \in lost' : reaches'[n] \in sawDown'
    BY <1>1, HistoryGrows DEF TasksOK
  <1>3. \A n \in known' \ lost' :
          task'[n] = "end" => ListingSeen(reaches[n], listing[n])'
    BY <1>1, ListingStays DEF TasksOK, ListingSeen
  <1>4. \A m \in DOMAIN resDisks' : ListingSeen(m, resDisks[m])'
    BY ListingStays DEF TasksOK, ListingSeen
  <1>5. \A n \in known' : task'[n] # "none" \/ TakenIn(n)'
    BY <1>1, TakenInStays DEF TasksOK
  <1>6. phase' = "replicas" => \A n \in known' : TakenIn(n)'
    BY <1>1, <1>5, TakenInStays DEF TasksOK
  <1>7. DOMAIN resDisks' \subseteq {reaches'[n] : n \in known'}
    BY <1>1 DEF TasksOK
  <1> QED
    BY <1>2, <1>3, <1>4, <1>5, <1>6, <1>7 DEF TasksOK

LEMMA TasksNext ==
    TypeOK /\ Watching /\ Fresh /\ TasksOK /\ [Next]_vars => TasksOK'
  <1> SUFFICES ASSUME TypeOK, Watching, Fresh, TasksOK, [Next]_vars
               PROVE  TasksOK'
    OBVIOUS
  <1>1. CASE Start
    <2>1. /\ phase' = "nodes" /\ lost' = {} /\ DOMAIN resDisks' = {} /\ known' = known
          /\ task' = [n \in Nodes |-> IF n \in known THEN "status" ELSE "none"]
      BY <1>1 DEF Start, Fresh, world
    <2>2. known \subseteq Nodes
      BY DEF TypeOK, ClusterTypeOK
    <2> QED
      BY <2>1, <2>2 DEF TasksOK
  <1>2. CASE ClusterChanges
    BY <1>2, TasksStay DEF ClusterChanges, handler
  <1>3. CASE RequestNodes \/ RequestVDisks
    BY <1>3, TasksStay DEF RequestNodes, RequestVDisks, Request
  <1>4. CASE Collected
    BY <1>4, TasksStay DEF Collected
  <1>5. CASE ProcessReplica \/ FinishVDisk \/ Reply
    BY <1>5, TasksStay DEF ProcessReplica, FinishVDisk, Reply
  <1>6. ASSUME NEW n \in Nodes, task[n] # "none"
        PROVE  /\ phase # "idle" /\ n \in known /\ reaches[n] \in Places
               /\ UNCHANGED <<known, reaches>> /\ sawDown \subseteq sawDown'
    <2>1. phase # "idle"
      BY <1>6 DEF Fresh
    <2> QED
      BY <1>6, <2>1, HistoryGrows DEF TypeOK, ClusterTypeOK
  <1>7. ASSUME NEW n \in Nodes, TaskStatus(n) PROVE TasksOK'
    <2>1. /\ task[n] = "status" /\ task' = [task EXCEPT ![n] = "disks"]
          /\ lost' = IF Answers(n) THEN lost ELSE lost \cup {n}
          /\ UNCHANGED <<phase, listing, resDisks, world, history>>
      BY <1>7 DEF TaskStatus
    <2>2. /\ phase # "idle" /\ n \in known /\ reaches[n] \in Places
          /\ UNCHANGED <<known, reaches>>
      BY <1>6, <2>1
    <2>3. \A m \in lost' : reaches'[m] \in sawDown'
      BY <2>1, <2>2 DEF TasksOK, Watching, Answers, history
    <2>4. ASSUME NEW m \in known' \ lost', task'[m] = "end"
          PROVE  ListingSeen(reaches[m], listing[m])'
      <3>1. m \in known \ lost /\ task[m] = "end"
        BY <2>1, <2>2, <2>4 DEF TypeOK, ClusterTypeOK
      <3> QED
        BY <2>1, <2>2, <3>1 DEF TasksOK, ListingSeen, history
    <2>5. \A m \in DOMAIN resDisks' : ListingSeen(m, resDisks[m])'
      BY <2>1 DEF TasksOK, ListingSeen, history
    <2>6. ASSUME NEW m \in known' PROVE task'[m] # "none" \/ TakenIn(m)'
      BY <2>1, <2>2 DEF TasksOK, TypeOK, ClusterTypeOK, TakenIn
    <2>7. phase' = "replicas" => \A m \in known' : TakenIn(m)'
      BY <2>1, <2>2 DEF TasksOK, TakenIn
    <2>8. DOMAIN resDisks' \subseteq {reaches'[m] : m \in known'}
      BY <2>1, <2>2 DEF TasksOK
    <2> QED
      BY <2>3, <2>4, <2>5, <2>6, <2>7, <2>8 DEF TasksOK
  <1>8. ASSUME NEW n \in Nodes, TaskDisks(n) PROVE TasksOK'
    <2> DEFINE place == reaches[n]
               got == {d \in Disks : <<place, d>> \in active}
    <2>1. /\ task[n] = "disks" /\ task' = [task EXCEPT ![n] = "end"]
          /\ lost' = IF Answers(n) THEN lost ELSE lost \cup {n}
          /\ listing' = [listing EXCEPT ![n] = IF Answers(n) THEN got ELSE {}]
          /\ UNCHANGED <<phase, resDisks, world, history>>
      BY <1>8 DEF TaskDisks
    <2>2. /\ phase # "idle" /\ n \in known /\ place \in Places
          /\ UNCHANGED <<known, reaches>>
      BY <1>6, <2>1
    <2>3. \A m \in lost' : reaches'[m] \in sawDown'
      BY <2>1, <2>2 DEF TasksOK, Watching, Answers, history
    <2>4. Answers(n) => ListingSeen(place, got)
      <3> SUFFICES ASSUME Answers(n) PROVE ListingSeen(place, got)
        OBVIOUS
      <3>1. place \in up /\ place \in sawUp
        BY <2>2 DEF Watching, Answers
      <3>2. place \in Nodes
        BY <3>1 DEF TypeOK, ClusterTypeOK
      <3>3. ASSUME NEW d \in Disks
            PROVE  IF d \in got THEN <<place, d>> \in sawActive
                   ELSE <<place, d>> \in sawInactive
        BY <2>2, <3>2 DEF Watching, AllDisks
      <3> QED
        BY <3>1, <3>3 DEF ListingSeen
    <2>5. ASSUME NEW m \in known' \ lost', task'[m] = "end"
          PROVE  ListingSeen(reaches[m], listing[m])'
      <3>1. CASE m = n /\ Answers(n)
        <4>1. listing'[n] = got /\ reaches'[n] = place
          BY <2>1, <2>2, <3>1 DEF TypeOK
        <4> QED
          BY <2>1, <2>4, <3>1, <4>1 DEF ListingSeen, history
      <3>2. CASE m # n
        <4>1. m \in known \ lost /\ task[m] = "end" /\ listing'[m] = listing[m]
          BY <2>1, <2>2, <2>5, <3>2 DEF TypeOK, ClusterTypeOK
        <4> QED
          BY <2>1, <2>2, <4>1 DEF TasksOK, ListingSeen, history
      <3> QED
        BY <2>1, <2>5, <3>1, <3>2
    <2>6. \A m \in DOMAIN resDisks' : ListingSeen(m, resDisks[m])'
      BY <2>1 DEF TasksOK, ListingSeen, history
    <2>7. ASSUME NEW m \in known' PROVE task'[m] # "none" \/ TakenIn(m)'
      BY <2>1, <2>2 DEF TasksOK, TypeOK, ClusterTypeOK, TakenIn
    <2>8. phase' = "replicas" => \A m \in known' : TakenIn(m)'
      BY <2>1, <2>2 DEF TasksOK, TakenIn
    <2>9. DOMAIN resDisks' \subseteq {reaches'[m] : m \in known'}
      BY <2>1, <2>2 DEF TasksOK
    <2> QED
      BY <2>3, <2>5, <2>6, <2>7, <2>8, <2>9 DEF TasksOK
  <1>9. ASSUME NEW n \in Nodes, Collect(n) PROVE TasksOK'
    <2>1. /\ phase = "collect" /\ task[n] = "end"
          /\ task' = [task EXCEPT ![n] = "none"]
          /\ resDisks' = IF n \in lost THEN resDisks
                         ELSE [m \in DOMAIN resDisks \cup {reaches[n]} |->
                                 IF m = reaches[n] THEN listing[n] ELSE resDisks[m]]
          /\ UNCHANGED <<phase, listing, lost, world, history>>
      BY <1>9 DEF Collect
    <2>2. n \in known /\ UNCHANGED <<known, reaches>>
      BY <1>6, <2>1
    <2>3. \A m \in lost' : reaches'[m] \in sawDown'
      BY <2>1, <2>2 DEF TasksOK, history
    <2>4. ASSUME NEW m \in known' \ lost', task'[m] = "end"
          PROVE  ListingSeen(reaches[m], listing[m])'
      <3>1. m \in known \ lost /\ task[m] = "end"
        BY <2>1, <2>2, <2>4 DEF TypeOK, ClusterTypeOK
      <3> QED
        BY <2>1, <2>2, <3>1 DEF TasksOK, ListingSeen, history
    <2>5. ASSUME NEW m \in DOMAIN resDisks' PROVE ListingSeen(m, resDisks[m])'
      <3>1. CASE n \notin lost /\ m = reaches[n]
        <4>1. resDisks'[m] = listing[n] /\ ListingSeen(m, listing[n])
          BY <2>1, <2>2, <3>1 DEF TasksOK
        <4> QED
          BY <2>1, <4>1 DEF ListingSeen, history
      <3>2. CASE n \in lost \/ m # reaches[n]
        <4>1. m \in DOMAIN resDisks /\ resDisks'[m] = resDisks[m]
          BY <2>1, <2>5, <3>2
        <4> QED
          BY <2>1, <4>1 DEF TasksOK, ListingSeen, history
      <3> QED
        BY <3>1, <3>2
    <2>6. ASSUME NEW m \in known' PROVE task'[m] # "none" \/ TakenIn(m)'
      <3>1. CASE m = n
        BY <2>1, <2>2, <3>1 DEF TakenIn
      <3>2. CASE m # n
        <4>1. task'[m] = task[m] /\ DOMAIN resDisks \subseteq DOMAIN resDisks'
          BY <2>1, <2>2, <3>2 DEF TypeOK, ClusterTypeOK
        <4> QED
          BY <2>1, <2>2, <4>1 DEF TasksOK, TakenIn
      <3> QED
        BY <3>1, <3>2
    <2>7. DOMAIN resDisks' \subseteq {reaches'[m] : m \in known'}
      BY <2>1, <2>2 DEF TasksOK
    <2> QED
      BY <2>1, <2>3, <2>4, <2>5, <2>6, <2>7 DEF TasksOK
  <1>10. CASE UNCHANGED vars
    <2>1. CASE phase = "idle"
      <3>1. /\ phase' = "idle" /\ lost' = {} /\ DOMAIN resDisks' = {}
            /\ task' = [n \in Nodes |-> "none"] /\ known' \subseteq Nodes
        BY <1>10, <2>1 DEF Fresh, vars, handler, world, TypeOK, ClusterTypeOK
      <3> QED
        BY <3>1 DEF TasksOK
    <2>2. CASE phase # "idle"
      BY <1>10, <2>2, TasksStay DEF vars, handler
    <2> QED
      BY <2>1, <2>2
  <1> QED
    BY <1>1, <1>2, <1>3, <1>4, <1>5, <1>7, <1>8, <1>9, <1>10 DEF Next, Progress

-----------------------------------------------------------------------------
(* Verdicts *)

\* What backs a verdict now backs it for the rest of the request.
LEMMA BackedStays ==
    ASSUME NEW probs, NEW replica, Backed(probs, replica),
           phase # "idle", [Next]_vars
    PROVE  Backed(probs, replica)'
  BY HistoryGrows DEF Backed, SeenGood, SeenOffline

\* process_replica, and the shortcut for a node without a listing, report only
\* what was seen.
LEMMA ReplicaIsBacked ==
    ASSUME TypeOK, Watching, TasksOK, phase = "replicas",
           NEW replica \in Replicas
    PROVE  Backed(ReplicaProblems(replica), replica)
  <1> DEFINE n == replica.node
             d == replica.disk
  <1>1. n \in Nodes /\ d \in Disks
    BY DEF Replicas
  <1>2. reaches \in [Nodes -> Places]
    BY DEF TypeOK, ClusterTypeOK
  <1>3. CASE n \notin DOMAIN resDisks
    <2>1. \A m \in known : reaches[m] = n => n \in sawDown
      BY <1>3 DEF TasksOK, TakenIn
    <2> QED
      BY <1>3, <2>1 DEF Backed, ReplicaProblems, SeenOffline
  <1>4. CASE n \in DOMAIN resDisks
    <2>1. /\ n \in sawUp
          /\ IF d \in resDisks[n] THEN <<n, d>> \in sawActive
             ELSE <<n, d>> \in sawInactive
      BY <1>1, <1>4 DEF TasksOK, ListingSeen
    <2>2. IF Answers(n) THEN reaches[n] \in sawUp ELSE reaches[n] \in sawDown
      BY <1>1, <1>2 DEF Watching, Answers
    <2>3. \E m \in known : reaches[m] = n
      BY <1>4 DEF TasksOK
    <2>4. ReplicaProblems(replica) = {} <=>
            d \in resDisks[n] /\ n \in members \cap known /\ Answers(n)
      BY <1>4 DEF ReplicaProblems, Process
    <2> QED
      BY <2>1, <2>2, <2>3, <2>4 DEF Backed, SeenGood, SeenOffline
  <1> QED
    BY <1>3, <1>4

LEMMA VerdictsStay ==
    ASSUME VerdictsOK, phase # "idle", [Next]_vars,
           UNCHANGED <<result, problems>>
    PROVE  VerdictsOK'
  <1>1. Current' = Current
    BY DEF Current
  <1> QED
    BY <1>1, BackedStays DEF VerdictsOK

LEMMA VerdictsNext ==
    TypeOK /\ Watching /\ Fresh /\ TasksOK /\ VerdictsOK /\ [Next]_vars
      => VerdictsOK'
  <1> SUFFICES ASSUME TypeOK, Watching, Fresh, TasksOK, VerdictsOK, [Next]_vars
               PROVE  VerdictsOK'
    OBVIOUS
  <1>1. CASE phase = "idle"
    <2>1. UNCHANGED <<result, problems>>
      BY <1>1 DEF Next, vars, handler, ClusterChanges, Start, Progress,
         TaskStatus, TaskDisks, Collect, Request, RequestNodes, RequestVDisks,
         Collected, ProcessReplica, FinishVDisk, Reply
    <2>2. result' = <<>> /\ problems' = <<>>
      BY <1>1, <2>1 DEF Fresh
    <2> QED
      BY <2>2 DEF VerdictsOK, Current
  <1>2. CASE phase # "idle" /\ UNCHANGED <<result, problems>>
    BY <1>2, VerdictsStay
  <1>3. CASE ProcessReplica
    <2> DEFINE replica == Current[Len(problems) + 1]
               probs == ReplicaProblems(replica)
    <2>1. /\ phase = "replicas" /\ Len(result) < Len(Layout)
          /\ Len(problems) < Len(Current)
          /\ problems' = Append(problems, probs) /\ result' = result
      BY <1>3 DEF ProcessReplica
    <2>2. Current \in Seq(Replicas) /\ problems \in Seq(SUBSET Problems)
      BY <2>1, CurrentType DEF TypeOK
    <2>3. replica \in Replicas
      BY <2>1, <2>2
    <2>4. Backed(probs, replica)
      BY <2>1, <2>3, ReplicaIsBacked
    <2>5. Current' = Current
      BY <2>1 DEF Current
    <2>6. probs \in SUBSET Problems
      BY ReplicaProblemsType
    <2> HIDE DEF probs
    <2>7. /\ Len(problems') = Len(problems) + 1
          /\ problems'[Len(problems) + 1] = probs
          /\ \A i \in DOMAIN problems : problems'[i] = problems[i]
          /\ DOMAIN problems' = DOMAIN problems \cup {Len(problems) + 1}
      BY <2>1, <2>2, <2>6
    <2>8. ASSUME NEW i \in DOMAIN problems'
          PROVE  Backed(problems'[i], Current[i])
      BY <2>4, <2>7, <2>8 DEF VerdictsOK
    <2>9. (\A i \in DOMAIN problems : Backed(problems[i], Current[i]))'
      BY <2>1, <2>5, <2>8, BackedStays
    <2>10. (\A v \in DOMAIN result : \A i \in DOMAIN result[v].problems :
              Backed(result[v].problems[i], Layout[v][i]))'
      BY <2>1, BackedStays DEF VerdictsOK
    <2>11. Len(problems') <= Len(Current')
      BY <2>1, <2>2, <2>5, <2>7
    <2> QED
      BY <2>1, <2>9, <2>10, <2>11 DEF VerdictsOK
  <1>4. CASE FinishVDisk
    <2>1. PICK counted \in BOOLEAN :
            result' = Append(result, [status |-> StatusOf(problems),
                                      problems |-> problems,
                                      counted |-> counted])
      BY <1>4 DEF FinishVDisk
    <2>2. /\ phase = "replicas" /\ Len(result) < Len(Layout)
          /\ Len(problems) = Len(Current) /\ problems' = <<>>
      BY <1>4 DEF FinishVDisk
    <2>3. result \in Seq(VDisk) /\ Len(result) \in Nat
      BY DEF TypeOK
    <2> DEFINE last == Len(result) + 1
    <2>4. /\ Len(result') = last /\ result'[last].problems = problems
          /\ \A v \in DOMAIN result : result'[v] = result[v]
          /\ DOMAIN result' = DOMAIN result \cup {last}
      BY <2>1, <2>3
    <2>5. \A i \in DOMAIN problems : Backed(problems[i], Layout[last][i])
      BY DEF VerdictsOK, Current
    <2>6. ASSUME NEW v \in DOMAIN result',
                 NEW i \in DOMAIN result'[v].problems
          PROVE  Backed(result'[v].problems[i], Layout[v][i])
      BY <2>4, <2>5, <2>6 DEF VerdictsOK
    <2>7. (\A v \in DOMAIN result : \A i \in DOMAIN result[v].problems :
             Backed(result[v].problems[i], Layout[v][i]))'
      BY <2>2, <2>6, BackedStays
    <2>8. Len(result') < Len(Layout) => Len(Current') \in Nat
      <3> SUFFICES ASSUME Len(result') < Len(Layout)
                   PROVE  Len(Current') \in Nat
        OBVIOUS
      <3>1. Layout \in Seq(Seq(Replicas)) /\ Len(result') + 1 \in DOMAIN Layout
        BY <2>3, <2>4, LayoutAssumption
      <3> QED
        BY <3>1 DEF Current
    <2> QED
      BY <2>2, <2>7, <2>8 DEF VerdictsOK
  <1> QED
    <2>1. CASE UNCHANGED <<result, problems>>
      BY <2>1, <1>1, <1>2
    <2>2. CASE ~(UNCHANGED <<result, problems>>)
      <3>1. ProcessReplica \/ FinishVDisk
        BY <2>2 DEF Next, vars, handler, ClusterChanges, Start, Progress,
           TaskStatus, TaskDisks, Collect, Request, RequestNodes,
           RequestVDisks, Collected, Reply
      <3> QED
        BY <3>1, <1>3, <1>4
    <2> QED
      BY <2>1, <2>2

-----------------------------------------------------------------------------
(* The theorems *)

LEMMA InvariantInit == Init => IInv
  <1> SUFFICES ASSUME Init PROVE IInv
    OBVIOUS
  <1>1. phase = "idle" /\ result = <<>> /\ problems = <<>> /\ lost = {}
        /\ DOMAIN resDisks = {} /\ task = [n \in Nodes |-> "none"]
        /\ known \subseteq Nodes
    BY DEF Init, ClusterInit
  <1>2. Watching /\ Fresh /\ TasksOK
    BY <1>1 DEF Watching, Fresh, TasksOK
  <1>3. VerdictsOK
    <2>1. Len(result) < Len(Layout) => Len(Current) \in Nat
      <3> SUFFICES ASSUME Len(result) < Len(Layout) PROVE Len(Current) \in Nat
        OBVIOUS
      <3>1. Layout \in Seq(Seq(Replicas)) /\ Len(result) + 1 \in DOMAIN Layout
        BY <1>1, LayoutAssumption
      <3> QED
        BY <3>1 DEF Current
    <2> QED
      BY <1>1, <2>1 DEF VerdictsOK
  <1> QED
    BY <1>2, <1>3, TypeInit DEF IInv

LEMMA InvariantHolds == Spec => []IInv
  <1>1. IInv /\ [Next]_vars => IInv'
    BY TypeNext, WatchNext, FreshNext, TasksNext, VerdictsNext DEF IInv
  <1> QED
    BY <1>1, InvariantInit, PTL DEF Spec

\* A replica that the page calls good had an active disk and a node that was
\* up during the request, whatever changed meanwhile and in whatever order the
\* nodes were heard.
THEOREM GoodWasSeen == Spec => []GoodIsSeen
  <1>1. IInv => GoodIsSeen
    BY DEF IInv, VerdictsOK, Backed, GoodIsSeen
  <1> QED
    BY <1>1, InvariantHolds, PTL

\* The page raises no false alarm: what it calls offline was so during the
\* request, or belongs to a node that is unknown or no member.
THEOREM OfflineWasSeen == Spec => []OfflineIsSeen
  <1>1. IInv => OfflineIsSeen
    BY DEF IInv, VerdictsOK, Backed, OfflineIsSeen
  <1> QED
    BY <1>1, InvariantHolds, PTL

-----------------------------------------------------------------------------
(* The status of a virtual disk *)

\* A status counts the replicas with problems: none, some or all of them.
LEMMA StatusCounts ==
    ASSUME NEW probs \in Seq(SUBSET Problems)
    PROVE  LET bad == {i \in DOMAIN probs : probs[i] # {}} IN
           /\ (StatusOf(probs) = "good") <=> (bad = {})
           /\ (StatusOf(probs) = "offline") <=> (bad # {} /\ bad = DOMAIN probs)
  <1> DEFINE bad == {i \in DOMAIN probs : probs[i] # {}}
  <1>1. /\ IsFiniteSet(DOMAIN probs) /\ Cardinality(DOMAIN probs) = Len(probs)
        /\ Len(probs) \in Nat
    <2>1. DOMAIN probs = 1 .. Len(probs) /\ Len(probs) \in Nat
      OBVIOUS
    <2>2. IsFiniteSet(1 .. Len(probs)) /\ Cardinality(1 .. Len(probs)) = Len(probs)
      <3>1. Cardinality(1 .. Len(probs)) =
              IF 1 > Len(probs) THEN 0 ELSE Len(probs) - 1 + 1
        BY <2>1, FS_Interval
      <3>2. IsFiniteSet(1 .. Len(probs))
        BY <2>1, FS_Interval
      <3> QED
        BY <2>1, <3>1, <3>2
    <2> QED
      BY <2>1, <2>2
  <1>2. /\ IsFiniteSet(bad) /\ Cardinality(bad) \in Nat
        /\ Cardinality(bad) = 0 <=> bad = {}
        /\ Cardinality(bad) = Len(probs) <=> bad = DOMAIN probs
    <2>1. bad \subseteq DOMAIN probs
      OBVIOUS
    <2>2. IsFiniteSet(bad)
      BY <1>1, <2>1, FS_Subset
    <2>3. Cardinality(bad) = Len(probs) <=> bad = DOMAIN probs
      BY <1>1, <2>1, FS_Subset
    <2> HIDE DEF bad
    <2> QED
      BY <2>2, <2>3, FS_CardinalityType, FS_EmptySet
  <1>3. StatusOf(probs) = IF Cardinality(bad) = 0 THEN "good"
                          ELSE IF Cardinality(bad) = Len(probs) THEN "offline"
                          ELSE "bad"
    BY DEF StatusOf
  <1> HIDE DEF bad
  <1>4. /\ (StatusOf(probs) = "good") <=> (bad = {})
        /\ (StatusOf(probs) = "offline") <=> (bad # {} /\ bad = DOMAIN probs)
    BY <1>2, <1>3
  <1> QED
    BY <1>4 DEF bad

\* A status is the one the virtual disk's own replicas make.
StatusMatchesReplicas ==
    \A v \in DOMAIN result :
        LET bad == {i \in DOMAIN Layout[v] : result[v].problems[i] # {}} IN
        /\ (result[v].status = "good") <=> (bad = {})
        /\ (result[v].status = "offline") <=>
               (bad # {} /\ bad = DOMAIN Layout[v])

LEMMA StatusNext ==
    TypeOK /\ StatusMatchesReplicas /\ [Next]_vars => StatusMatchesReplicas'
  <1> SUFFICES ASSUME TypeOK, StatusMatchesReplicas, [Next]_vars
               PROVE  StatusMatchesReplicas'
    OBVIOUS
  <1>1. CASE UNCHANGED result
    BY <1>1 DEF StatusMatchesReplicas
  <1>2. CASE FinishVDisk
    <2>1. PICK counted \in BOOLEAN :
            result' = Append(result, [status |-> StatusOf(problems),
                                      problems |-> problems,
                                      counted |-> counted])
      BY <1>2 DEF FinishVDisk
    <2> DEFINE last == Len(result) + 1
    <2>2. /\ result'[last].problems = problems
          /\ result'[last].status = StatusOf(problems)
          /\ \A v \in DOMAIN result : result'[v] = result[v]
          /\ DOMAIN result' = DOMAIN result \cup {last}
      <3>1. result \in Seq(VDisk) /\ Len(result) \in Nat
        BY DEF TypeOK
      <3> QED
        BY <2>1, <3>1
    <2>3. problems \in Seq(SUBSET Problems) /\ DOMAIN problems = DOMAIN Layout[last]
      <3>1. Len(result) < Len(Layout) /\ Len(problems) = Len(Current)
        BY <1>2 DEF FinishVDisk
      <3>2. Current \in Seq(Replicas) /\ problems \in Seq(SUBSET Problems)
        BY <3>1, CurrentType DEF TypeOK
      <3> QED
        BY <3>1, <3>2 DEF Current
    <2>4. LET bad == {i \in DOMAIN Layout[last] : problems[i] # {}} IN
          /\ (StatusOf(problems) = "good") <=> (bad = {})
          /\ (StatusOf(problems) = "offline") <=>
                 (bad # {} /\ bad = DOMAIN Layout[last])
      BY <2>3, StatusCounts
    <2> HIDE DEF last
    <2>5. ASSUME NEW v \in DOMAIN result'
          PROVE  LET bad == {i \in DOMAIN Layout[v] : result'[v].problems[i] # {}} IN
                 /\ (result'[v].status = "good") <=> (bad = {})
                 /\ (result'[v].status = "offline") <=>
                        (bad # {} /\ bad = DOMAIN Layout[v])
      <3>1. CASE v = last
        BY <2>2, <2>4, <3>1
      <3>2. CASE v \in DOMAIN result
        BY <2>2, <3>2 DEF StatusMatchesReplicas
      <3> QED
        BY <2>2, <3>1, <3>2
    <2> QED
      BY <2>5 DEF StatusMatchesReplicas
  <1> QED
    BY <1>1, <1>2 DEF Next, vars, handler, ClusterChanges, Start, Progress,
       TaskStatus, TaskDisks, Collect, Request, RequestNodes, RequestVDisks,
       Collected, ProcessReplica, Reply

LEMMA StatusMatches == Spec => []StatusMatchesReplicas
  <1>1. Init => StatusMatchesReplicas
    BY DEF Init, StatusMatchesReplicas
  <1> QED
    BY <1>1, TypeInit, TypeNext, StatusNext, PTL DEF Spec

\* The status of a virtual disk is backed by what was seen of its replicas:
\* all good, all offline, or some of each.
THEOREM StatusWasSeen == Spec => []StatusIsSeen
  <1>1. ASSUME IInv, StatusMatchesReplicas PROVE StatusIsSeen
    <2> SUFFICES ASSUME NEW v \in DOMAIN result
        PROVE  LET replicas == {Layout[v][i] : i \in DOMAIN Layout[v]} IN
               CASE result[v].status = "good" -> \A r \in replicas : SeenGood(r)
                 [] result[v].status = "offline" ->
                       replicas # {} /\ \A r \in replicas : SeenOffline(r)
                 [] result[v].status = "bad" ->
                       /\ \E r \in replicas : SeenGood(r)
                       /\ \E r \in replicas : SeenOffline(r)
      BY DEF StatusIsSeen
    <2> DEFINE probs == result[v].problems
               bad == {i \in DOMAIN Layout[v] : probs[i] # {}}
               status == result[v].status
    <2>1. result[v] \in VDisk
      BY <1>1 DEF IInv, TypeOK
    <2>2. DOMAIN probs = DOMAIN Layout[v]
      <3>1. Len(probs) = Len(Layout[v]) /\ probs \in Seq(SUBSET Problems)
        BY <1>1, <2>1 DEF IInv, TypeOK, VDisk
      <3>2. v \in DOMAIN Layout /\ Layout \in Seq(Seq(Replicas))
        BY <1>1, LayoutAssumption DEF IInv, TypeOK
      <3>3. Layout[v] \in Seq(Replicas)
        BY <3>2
      <3> QED
        BY <3>1, <3>3
    <2>3. \A i \in DOMAIN Layout[v] : Backed(probs[i], Layout[v][i])
      BY <1>1, <2>2 DEF IInv, VerdictsOK
    <2>4. \A i \in DOMAIN Layout[v] :
            IF i \in bad THEN SeenOffline(Layout[v][i])
            ELSE SeenGood(Layout[v][i])
      BY <2>3 DEF Backed
    <2>5. /\ (status = "good") <=> (bad = {})
          /\ (status = "offline") <=> (bad # {} /\ bad = DOMAIN Layout[v])
      BY <1>1 DEF StatusMatchesReplicas
    <2>6. status \in {"good", "bad", "offline"}
      BY <2>1 DEF VDisk, Statuses
    <2>7. bad \subseteq DOMAIN Layout[v]
      OBVIOUS
    <2> HIDE DEF bad, status
    <2>8. CASE status = "good"
      BY <2>4, <2>5, <2>8 DEF status
    <2>9. CASE status = "offline"
      BY <2>4, <2>5, <2>7, <2>9 DEF status
    <2>10. CASE status = "bad"
      <3>1. PICK i \in DOMAIN Layout[v] : i \in bad
        BY <2>5, <2>7, <2>10
      <3>2. PICK j \in DOMAIN Layout[v] : j \notin bad
        BY <2>5, <2>7, <2>10
      <3> QED
        BY <2>4, <2>10, <3>1, <3>2 DEF status
    <2> QED
      BY <2>6, <2>8, <2>9, <2>10
  <1> QED
    BY <1>1, InvariantHolds, StatusMatches, PTL

-----------------------------------------------------------------------------
(* The promise *)

\* What is done of a virtual disk is a judgement that may be given on it.
LEMMA DoneIsJudged ==
    ASSUME IInv, StatusMatchesReplicas, NEW v \in DOMAIN result
    PROVE  [status |-> result[v].status, good |-> Good(v)]
             \in Promise!Judgements(Layout[v])
  <1> DEFINE probs == result[v].problems
             bad == {i \in DOMAIN Layout[v] : probs[i] # {}}
  <1>1. result[v] \in VDisk
    BY DEF IInv, TypeOK
  <1>2. DOMAIN probs = DOMAIN Layout[v]
    <2>1. Len(probs) = Len(Layout[v]) /\ probs \in Seq(SUBSET Problems)
      BY <1>1 DEF IInv, TypeOK, VDisk
    <2>2. v \in DOMAIN Layout /\ Layout \in Seq(Seq(Replicas))
      BY LayoutAssumption DEF IInv, TypeOK
    <2>3. Layout[v] \in Seq(Replicas)
      BY <2>2
    <2> QED
      BY <2>1, <2>3
  <1>3. /\ Good(v) \in [DOMAIN Layout[v] -> BOOLEAN]
        /\ \A i \in DOMAIN Layout[v] : Good(v)[i] <=> i \notin bad
    BY <1>2 DEF Good
  <1>4. Good(v) \in Promise!Verdicts(Layout[v])
    <2>1. \A i \in DOMAIN Layout[v] : Backed(probs[i], Layout[v][i])
      BY <1>2 DEF IInv, VerdictsOK
    <2>2. \A i \in DOMAIN Layout[v] :
            IF Good(v)[i] THEN Promise!SeenGood(Layout[v][i])
            ELSE Promise!SeenOffline(Layout[v][i])
      BY <1>3, <2>1 DEF Backed, SeenGood, SeenOffline,
         Promise!SeenGood, Promise!SeenOffline
    <2> QED
      BY <1>3, <2>2 DEF Promise!Verdicts
  <1>5. result[v].status = Promise!StatusBy(Good(v))
    <2>1. /\ (result[v].status = "good") <=> (bad = {})
          /\ (result[v].status = "offline") <=> (bad # {} /\ bad = DOMAIN Layout[v])
      BY DEF StatusMatchesReplicas
    <2>2. result[v].status \in {"good", "bad", "offline"}
      BY <1>1 DEF VDisk, Statuses
    <2>3. DOMAIN Good(v) = DOMAIN Layout[v]
      BY <1>3
    <2>4. (\A i \in DOMAIN Good(v) : Good(v)[i]) <=> bad = {}
      BY <1>3, <2>3
    <2>5. (\A i \in DOMAIN Good(v) : ~Good(v)[i]) <=> bad = DOMAIN Layout[v]
      BY <1>3, <2>3
    <2> HIDE DEF bad
    <2> QED
      BY <2>1, <2>2, <2>4, <2>5 DEF Promise!StatusBy
  <1> QED
    BY <1>4, <1>5 DEF Promise!Judgements

\* A complete answer is one that the promise allows.
LEMMA CompleteAnswer ==
    ASSUME IInv, StatusMatchesReplicas, Len(result) = Len(Layout)
    PROVE  [v \in DOMAIN result |-> [status |-> result[v].status, good |-> Good(v)]]
             \in Promise!Complete
  <1>1. DOMAIN result = DOMAIN Layout
    BY LayoutAssumption DEF IInv, TypeOK
  <1> QED
    BY <1>1, DoneIsJudged DEF Promise!Complete

\* Before the answer has a code there is none.
CodeOK == (phase = "done" <=> code # 0) /\ code \in {0, 200, 403, 404}

LEMMA CodeNext == Fresh /\ CodeOK /\ [Next]_vars => CodeOK'
  <1> SUFFICES ASSUME Fresh, CodeOK, [Next]_vars PROVE CodeOK'
    OBVIOUS
  <1>1. CASE UNCHANGED <<phase, code>>
    BY <1>1 DEF CodeOK
  <1>2. CASE Start \/ RequestNodes \/ RequestVDisks \/ Collected \/ Reply
    BY <1>2 DEF CodeOK, Start, RequestNodes, RequestVDisks, Request, Collected, Reply
  <1>3. ASSUME NEW n \in Nodes, TaskStatus(n) \/ TaskDisks(n) \/ Collect(n)
        PROVE  UNCHANGED <<phase, code>>
    BY <1>3 DEF TaskStatus, TaskDisks, Collect
  <1>4. CASE ClusterChanges \/ ProcessReplica \/ FinishVDisk \/ UNCHANGED vars
    BY <1>1, <1>4 DEF ClusterChanges, ProcessReplica, FinishVDisk, vars, handler
  <1> QED
    BY <1>1, <1>2, <1>3, <1>4 DEF Next, Progress

\* Every step of the page is one that the promise allows, or none to its caller.
LEMMA PromiseNext ==
    ASSUME IInv, StatusMatchesReplicas, CodeOK, CodeOK', [Next]_vars
    PROVE  [Promise!Next]_<<Promise!world, Promise!history, Promise!answerVars>>
  <1> USE DEF Promise!world, Promise!history, Promise!answerVars
  <1>1. CASE Start
    <2>1. /\ Asking = "idle" /\ Asking' = "asking" /\ UNCHANGED world /\ Watch
          /\ Answer' = Answer /\ code' = code
      BY <1>1 DEF Start, Asking, Answer, CodeOK
    <2> QED
      BY <2>1 DEF Promise!Next, Promise!AskVDisks, Promise!Watch, Watch, world,
         Promise!AllDisks, AllDisks, Promise!Places, Places
  <1>2. CASE ClusterChanges
    <2>1. Asking = "asking" /\ Change /\ UNCHANGED handler
      BY <1>2 DEF ClusterChanges, Asking
    <2>2. UNCHANGED <<Asking, Answer, code>>
      BY <2>1 DEF handler, Asking, Answer, Good
    <2> QED
      BY <2>1, <2>2 DEF Promise!Next, Promise!Change, Change, Promise!Flip, Flip,
         Promise!AllDisks, AllDisks, Promise!Places, Places
  <1>3. CASE RequestNodes \/ RequestVDisks
    <2>1. /\ UNCHANGED <<world, history>> /\ Asking = "asking" /\ Answer = <<>>
          /\ \/ Asking' = "asking" /\ code' = code
             \/ Asking' = "answered" /\ code' \in {403, 404}
      BY <1>3 DEF RequestNodes, RequestVDisks, Request, Asking, Answer, CodeOK
    <2>2. Answer' = <<>>
      BY <1>3 DEF RequestNodes, RequestVDisks, Request, Answer, CodeOK
    <2> QED
      BY <2>1, <2>2 DEF Promise!Next, Promise!RefuseVDisks, world, history
  <1>4. CASE Reply
    <2>1. /\ UNCHANGED <<world, history>> /\ Asking = "asking" /\ Asking' = "answered"
          /\ code' = 200 /\ result' = result /\ Len(result) = Len(Layout)
      BY <1>4 DEF Reply, Asking
    <2>2. Answer' = [v \in DOMAIN result |->
                       [status |-> result[v].status, good |-> Good(v)]]
      BY <2>1 DEF Answer, Good
    <2>3. Answer' \in Promise!Complete
      BY <2>1, <2>2, CompleteAnswer
    <2> QED
      BY <2>1, <2>3 DEF Promise!Next, Promise!AnswerVDisks, world, history
  <1>5. ASSUME UNCHANGED <<phase, result, code>> PROVE UNCHANGED <<Asking, Answer>>
    BY <1>5 DEF Asking, Answer, Good
  <1>6. ASSUME NEW n \in Nodes, TaskStatus(n) \/ TaskDisks(n) \/ Collect(n)
        PROVE  UNCHANGED <<world, history, Asking, Answer, code>>
    <2>1. UNCHANGED <<world, history, phase, result, code>>
      BY <1>6 DEF TaskStatus, TaskDisks, Collect
    <2> QED
      BY <2>1, <1>5
  <1>7. CASE Collected \/ ProcessReplica \/ FinishVDisk
    <2>1. UNCHANGED <<world, history, Asking, code>> /\ Answer = <<>> /\ Answer' = <<>>
      BY <1>7 DEF Collected, ProcessReplica, FinishVDisk, Asking, Answer, CodeOK
    <2> QED
      BY <2>1 DEF world, history
  <1>8. CASE UNCHANGED vars
    BY <1>8 DEF vars, world, history, handler, Asking, Answer, Good
  <1> QED
    BY <1>1, <1>2, <1>3, <1>4, <1>6, <1>7, <1>8 DEF Next, Progress, world, history

\* To a handler that calls get_vdisks the whole of it, tasks, requests and
\* probes, is one call that is answered with verdicts on the whole layout that
\* were true at some moment since, or refused.
THEOREM PromiseKept == Spec => KeepsPromise
  <1>1. Init => Promise!Init
    BY DEF Init, ClusterInit, Asking, Answer, Promise!Init, Promise!ClusterInit,
       Promise!VDisksInit
  <1>2. Init => CodeOK /\ StatusMatchesReplicas
    BY DEF Init, CodeOK, StatusMatchesReplicas
  <1>3. IInv /\ CodeOK /\ [Next]_vars => CodeOK'
    BY CodeNext DEF IInv
  <1>4. IInv /\ StatusMatchesReplicas /\ CodeOK /\ CodeOK' /\ [Next]_vars
          => [Promise!Next]_<<Promise!world, Promise!history, Promise!answerVars>>
    BY PromiseNext
  <1> QED
    BY <1>1, <1>2, <1>3, <1>4, InvariantHolds, StatusMatches, PTL
    DEF Spec, KeepsPromise, Promise!Spec

=============================================================================
