--------------------------- MODULE NodePageProofs ---------------------------
(***************************************************************************)
(* Proofs about NodePage: for every cluster, layout, addressing of the     *)
(* clients and number of changes during the request.                       *)
(***************************************************************************)
EXTENDS NodePage, SetLemmas, TLAPS

-----------------------------------------------------------------------------
(* The inductive invariant *)

\* No node but its own lists a disk under the name of a replica's disk.  The
\* merged map is keyed by that name, so without this it says nothing of the
\* replica (see GoodReplicaHasItsDisk).
NamesAreOwn ==
    \A v \in DOMAIN Layout : \A i \in DOMAIN Layout[v] : \A own \in Owned :
        own[2] = Layout[v][i].disk => own[1] = Layout[v][i].node

\* While a request is handled, the history has the world as it is.
Watching ==
    phase # "idle" =>
        /\ up \subseteq sawUp /\ Places \ up \subseteq sawDown
        /\ active \subseteq sawActive /\ AllDisks \ active \subseteq sawInactive

\* Before the calls are made, there are no answers to go by; before the loop
\* over the virtual disks, none of them is looked at.
Fresh ==
    /\ phase = "idle" =>
         /\ task = [n \in Nodes |-> "none"]
         /\ listing = [n \in Nodes |-> Unlisted]
         /\ procDisks = Unlisted
    /\ phase \in {"idle", "asking"} => asked < Len(Calls)
    /\ phase \in {"disks", "partitions", "replicas"} => route = "node"
    /\ phase \in {"idle", "asking", "disks", "partitions"} =>
         /\ DOMAIN result = {}
         /\ replicas = [v \in DOMAIN Layout |-> <<>>]

\* The node at the address of client n was seen with disk d, active or not.
Seen(n, d, isActive) ==
    /\ n \in known /\ reaches[n] \in sawUp
    /\ <<reaches[n], d>> \in Owned
    /\ <<reaches[n], d>> \in IF isActive THEN sawActive ELSE sawInactive

\* It was seen down, or all of its disks are among some.
Covers(n, disks) ==
    reaches[n] \in sawDown \/ \A d \in Disks : <<reaches[n], d>> \in Owned => d \in disks

Listed(map) == {d \in Disks : map[d] # "unlisted"}

\* What a map of disks says of the node at the address of client n was seen.
Says(map, d, n) ==
    /\ map[d] = "active" => Seen(n, d, TRUE)
    /\ map[d] = "inactive" => Seen(n, d, FALSE)

ListingsOK ==
    \A n \in Nodes :
        /\ \A d \in Disks : Says(listing[n], d, n)
        /\ task[n] = "end" => Covers(n, Listed(listing[n]))

\* What the map says of a name was seen of a disk of that name.
MapOK ==
    \A d \in Listed(procDisks) : \E n \in Nodes : Says(procDisks, d, n)

\* Tasks are of known clients, and do not leave without being taken in.
TasksOK ==
    /\ \A n \in Nodes : task[n] # "none" => n \in known
    /\ phase # "idle" /\ route = "node" =>
         \A n \in known : task[n] # "none" \/ Covers(n, Listed(procDisks))
    /\ phase \in {"partitions", "replicas"} => \A n \in Nodes : task[n] = "none"

\* The virtual disks are gone through in order, and the replicas of each.
LoopOK ==
    /\ \A v \in DOMAIN result :
         /\ result[v].problems = replicas[v] /\ Len(replicas[v]) = Len(Layout[v])
         /\ \A w \in Left : v < w
    /\ \A v \in DOMAIN Layout \ DOMAIN result :
         /\ v \notin Left \/ v # Current => replicas[v] = <<>>
         /\ Len(replicas[v]) <= Len(Layout[v])

\* A verdict on a replica is backed by what was seen.
Backed(problems, replica) ==
    IF problems = {} THEN SeenGood(replica) ELSE SeenOffline(replica)

VerdictsOK ==
    \A v \in DOMAIN replicas : \A i \in DOMAIN replicas[v] :
        Backed(replicas[v][i], Layout[v][i])

PageInv == TypeOK /\ Fresh /\ LoopOK
SeenInv == PageInv /\ Watching /\ ListingsOK /\ MapOK /\ TasksOK
IInv == SeenInv /\ StatusCoversReplicas /\ (NamesAreOwn => VerdictsOK)

-----------------------------------------------------------------------------
(* The order of the virtual disks *)

\* The current virtual disk is one that is left, and no other comes before it.
LEMMA CurrentIsLeast ==
    ASSUME Left # {}
    PROVE  Current \in Left /\ \A w \in Left : Current <= w
  <1>1. Left \subseteq Nat
    BY LayoutAssumption DEF Left, Shown
  <1>2. \E v \in Left : \A w \in Left : v <= w
    BY <1>1, LeastOf
  <1> QED
    BY <1>2 DEF Current

-----------------------------------------------------------------------------
(* Steps *)

\* A step of the cluster, of a task or of the handler.
LEMMA Steps ==
    ASSUME [Next]_vars
    PROVE  \/ ClusterChanges
           \/ Start
           \/ \E n \in Nodes : TaskDisks(n) \/ Collect(n)
           \/ Ask \/ AskFails \/ Collected \/ CountPartitions
           \/ ProcessReplica \/ FinishVDisk \/ Reply
           \/ UNCHANGED vars
  BY DEF Next, Progress

\* The world is left alone except by the cluster; the history by all but Start.
LEMMA OutsideStays ==
    ASSUME [Next]_vars, ~ClusterChanges, ~Start
    PROVE  UNCHANGED <<world, history>>
  BY Steps DEF TaskDisks, Collect, Ask, AskFails, Collected, CountPartitions,
     ProcessReplica, FinishVDisk, Reply, vars

\* During a request the history only grows, and the client's map of the
\* cluster stays as it is.
LEMMA HistoryGrows ==
    ASSUME phase # "idle", [Next]_vars
    PROVE  /\ sawUp \subseteq sawUp' /\ sawDown \subseteq sawDown'
           /\ sawActive \subseteq sawActive' /\ sawInactive \subseteq sawInactive'
           /\ UNCHANGED <<known, members, reaches>>
  <1>1. CASE ClusterChanges
    BY <1>1 DEF ClusterChanges, Change
  <1>2. CASE ~ClusterChanges
    <2>1. UNCHANGED <<world, history>>
      BY <1>2, OutsideStays DEF Start
    <2> QED
      BY <2>1 DEF world, history
  <1> QED
    BY <1>1, <1>2

\* What is asked about, and of which node, is fixed.
LEMMA QuestionStays ==
    ASSUME [Next]_vars
    PROVE  UNCHANGED <<route, target, Calls, Shown>>
  <1>1. UNCHANGED <<route, target>>
    BY Steps DEF ClusterChanges, Start, TaskDisks, Collect, Ask, AskFails, Collected,
       CountPartitions, ProcessReplica, FinishVDisk, Reply, vars, handler
  <1> QED
    BY <1>1 DEF Calls, Shown

\* A request does not begin again.
LEMMA NeverIdleAgain ==
    ASSUME phase # "idle", [Next]_vars PROVE phase' # "idle"
  BY Steps DEF ClusterChanges, Start, TaskDisks, Collect, Ask, AskFails, Collected,
     CountPartitions, ProcessReplica, FinishVDisk, Reply, vars, handler

\* Until the request begins, nothing but that happens.
LEMMA IdleStays ==
    ASSUME Fresh, phase = "idle", [Next]_vars, ~Start
    PROVE  UNCHANGED vars
  <1>1. \A n \in Nodes : task[n] = "none"
    BY DEF Fresh
  <1> QED
    BY <1>1, Steps DEF ClusterChanges, TaskDisks, Collect, Ask, AskFails, Collected,
       CountPartitions, ProcessReplica, FinishVDisk, Reply, Working

\* Only the loop over the virtual disks, and the replicas of the current one,
\* writes down what becomes of them.
LEMMA LoopStays ==
    ASSUME [Next]_vars, ~ProcessReplica, ~FinishVDisk
    PROVE  UNCHANGED <<replicas, result>>
  BY Steps DEF ClusterChanges, Start, TaskDisks, Collect, Ask, AskFails, Collected,
     CountPartitions, Reply, vars, handler

-----------------------------------------------------------------------------
(* Types *)

\* A route asks at least one call.
LEMMA SomeCalls == Len(Calls) \in Nat \ {0}
  BY DEF Calls

\* Problems are problems, whatever is judged.
LEMMA ProcessType ==
    ASSUME NEW replica, NEW gone PROVE Process(replica, gone) \in SUBSET Problems
  BY DEF Process, Problems

\* What happens to the world leaves its types alone.
LEMMA WorldTypes ==
    ASSUME ClusterTypeOK, Change \/ UNCHANGED <<world, history>> \/ (UNCHANGED world /\ Watch)
    PROVE  ClusterTypeOK'
  BY LayoutAssumption
  DEF ClusterTypeOK, Change, Watch, Flip, world, history, AllDisks, Places

\* The initial states are well-formed.
LEMMA TypeInit == Init => TypeOK
  <1> SUFFICES ASSUME Init PROVE TypeOK
    OBVIOUS
  <1>1. ClusterTypeOK
    BY LayoutAssumption DEF Init, ClusterInit, ClusterTypeOK, AllDisks, Places
  <1>2. replicas \in [DOMAIN Layout -> Seq(SUBSET Problems)]
    BY DEF Init
  <1>3. asked \in 0 .. Len(Calls)
    BY SomeCalls DEF Init
  <1> QED
    BY <1>1, <1>2, <1>3 DEF Init, TypeOK, Unlisted

\* The next replica of the current virtual disk is one of the layout.
LEMMA LayoutTypes ==
    /\ Len(Layout) \in Nat /\ DOMAIN Layout = 1 .. Len(Layout)
    /\ \A v \in DOMAIN Layout :
         /\ Len(Layout[v]) \in Nat /\ DOMAIN Layout[v] = 1 .. Len(Layout[v])
         /\ \A i \in DOMAIN Layout[v] : Layout[v][i] \in Replicas
  <1>1. Layout \in Seq(Seq(Replicas))
    BY LayoutAssumption
  <1>2. \A v \in DOMAIN Layout : Layout[v] \in Seq(Replicas)
    BY <1>1
  <1> QED
    BY <1>1, <1>2

\* The problems of one more replica are written down.
LEMMA AppendType ==
    ASSUME TypeOK, ProcessReplica
    PROVE  replicas' \in [DOMAIN Layout -> Seq(SUBSET Problems)]
  <1>1. Current \in DOMAIN Layout
    BY CurrentIsLeast DEF ProcessReplica, Working, Left, Shown
  <1>2. PICK problems \in SUBSET Problems :
          replicas' = [replicas EXCEPT ![Current] = Append(@, problems)]
    BY ProcessType DEF ProcessReplica
  <1>3. replicas[Current] \in Seq(SUBSET Problems)
    BY <1>1 DEF TypeOK
  <1>4. Append(replicas[Current], problems) \in Seq(SUBSET Problems)
    BY <1>2, <1>3
  <1> QED
    BY <1>2, <1>4 DEF TypeOK

\* Types are kept by every step.
LEMMA TypeNext ==
    ASSUME TypeOK, Fresh, [Next]_vars PROVE TypeOK'
  <1>0. ClusterTypeOK' /\ UNCHANGED <<route, target, Calls, Shown>>
    <2>1. ClusterTypeOK'
      <3>1. CASE ClusterChanges
        BY <3>1, WorldTypes DEF ClusterChanges, TypeOK
      <3>2. CASE Start
        BY <3>2, WorldTypes DEF Start, TypeOK
      <3>3. CASE ~ClusterChanges /\ ~Start
        BY <3>3, OutsideStays, WorldTypes DEF TypeOK
      <3> QED
        BY <3>1, <3>2, <3>3
    <2> QED
      BY <2>1, QuestionStays
  <1>1. CASE ClusterChanges
    BY <1>0, <1>1 DEF ClusterChanges, handler, TypeOK
  <1>2. CASE Start
    BY <1>0, <1>2 DEF Start, TypeOK
  <1>3. ASSUME NEW n \in Nodes, TaskDisks(n) PROVE TypeOK'
    <2>1. DisksOf(n) \in [Disks -> {"unlisted", "active", "inactive"}]
      BY DEF DisksOf
    <2>2. Unlisted \in [Disks -> {"unlisted", "active", "inactive"}]
      BY DEF Unlisted
    <2> HIDE DEF DisksOf, Unlisted
    <2> QED
      BY <1>0, <1>3, <2>1, <2>2 DEF TaskDisks, TypeOK
  <1>4. ASSUME NEW n \in Nodes, Collect(n) PROVE TypeOK'
    <2>1. procDisks' \in [Disks -> {"unlisted", "active", "inactive"}]
      BY <1>4 DEF Collect, TypeOK
    <2> QED
      BY <1>0, <1>4, <2>1 DEF Collect, TypeOK
  <1>5. CASE Ask
    <2>1. asked' \in 0 .. Len(Calls)
      BY <1>5, SomeCalls DEF Ask, TypeOK, Fresh
    <2> QED
      BY <1>0, <1>5, <2>1 DEF Ask, TypeOK
  <1>6. CASE AskFails
    BY <1>0, <1>6 DEF AskFails, TypeOK
  <1>7. CASE Collected \/ CountPartitions \/ Reply
    BY <1>0, <1>7 DEF Collected, CountPartitions, Reply, TypeOK
  <1>8. CASE ProcessReplica
    <2>1. replicas' \in [DOMAIN Layout -> Seq(SUBSET Problems)]
      BY <1>8, AppendType
    <2> QED
      BY <1>0, <1>8, <2>1 DEF ProcessReplica, TypeOK
  <1>9. CASE FinishVDisk
    <2>1. Current \in Shown \ DOMAIN result /\ Current \in DOMAIN Layout
      BY <1>9, CurrentIsLeast DEF FinishVDisk, Working, Left, Shown
    <2>2. Row.status \in {"good", "bad"}
      BY DEF Row
    <2>3. Row.problems \in [DOMAIN Layout[Current] -> SUBSET Problems]
      <3>1. Row.problems = replicas[Current]
        BY DEF Row
      <3>2. replicas[Current] \in Seq(SUBSET Problems)
        BY <2>1 DEF TypeOK
      <3>3. Len(replicas[Current]) = Len(Layout[Current])
        BY <1>9 DEF FinishVDisk
      <3> QED
        BY <2>1, <3>1, <3>2, <3>3, LayoutTypes
    <2>4. result' = [v \in DOMAIN result \cup {Current} |->
                        IF v = Current THEN Row ELSE result[v]]
      BY <1>9 DEF FinishVDisk
    <2> HIDE DEF Row, Current
    <2>5. /\ DOMAIN result' \subseteq Shown
          /\ \A v \in DOMAIN result' :
               /\ result'[v].status \in {"good", "bad"}
               /\ result'[v].problems \in [DOMAIN Layout[v] -> SUBSET Problems]
      BY <2>1, <2>2, <2>3, <2>4 DEF TypeOK
    <2>6. UNCHANGED <<phase, asked, task, listing, procDisks, counted, replicas, code>>
      BY <1>9 DEF FinishVDisk
    <2> QED
      BY <1>0, <2>5, <2>6 DEF TypeOK
  <1>10. CASE UNCHANGED vars
    BY <1>0, <1>10 DEF vars, handler, TypeOK
  <1> QED
    BY <1>1, <1>2, <1>3, <1>4, <1>5, <1>6, <1>7, <1>8, <1>9, <1>10, Steps

-----------------------------------------------------------------------------
(* The loop over the virtual disks *)

\* Nothing is there before it is asked for.
LEMMA FreshNext ==
    ASSUME TypeOK, Fresh, [Next]_vars PROVE Fresh'
  <1>0. UNCHANGED <<route, target, Calls>>
    BY QuestionStays
  <1>1. CASE Start
    BY <1>0, <1>1 DEF Start, Fresh
  <1>2. CASE phase = "idle" /\ ~Start
    BY <1>2, IdleStays DEF Fresh, vars, handler, Calls, Unlisted
  <1>3. CASE phase # "idle"
    <2>1. phase' # "idle"
      BY <1>3, NeverIdleAgain
    <2>2. phase' = "asking" => asked' < Len(Calls)'
      BY <1>0, <2>1, Steps DEF ClusterChanges, Start, TaskDisks, Collect, Ask, AskFails,
         Collected, CountPartitions, ProcessReplica, FinishVDisk, Reply, vars, handler, Fresh
    <2>3. phase' \in {"disks", "partitions", "replicas"} => route' = "node"
      BY <1>0, <2>1, Steps DEF ClusterChanges, Start, TaskDisks, Collect, Ask, AskFails,
         Collected, CountPartitions, ProcessReplica, FinishVDisk, Reply, vars, handler, Fresh
    <2>4. phase' \in {"asking", "disks", "partitions"} =>
            phase \in {"asking", "disks", "partitions"} /\ UNCHANGED <<replicas, result>>
      BY <1>3, <2>1, Steps DEF ClusterChanges, Start, TaskDisks, Collect, Ask, AskFails,
         Collected, CountPartitions, ProcessReplica, FinishVDisk, Reply, vars, handler, Working
    <2> QED
      BY <2>1, <2>2, <2>3, <2>4 DEF Fresh
  <1> QED
    BY <1>1, <1>2, <1>3

\* The virtual disk that is looked at changes only when it is finished.
LEMMA LeftStays ==
    ASSUME [Next]_vars, UNCHANGED result PROVE Left' = Left /\ Current' = Current
  <1>1. Left' = Left
    BY QuestionStays DEF Left
  <1> QED
    BY <1>1 DEF Current

LEMMA LeftShrinks ==
    ASSUME [Next]_vars, FinishVDisk
    PROVE  /\ Left' = Left \ {Current}
           /\ DOMAIN result' = DOMAIN result \cup {Current}
           /\ result'[Current] = Row
           /\ \A v \in DOMAIN result : v # Current => result'[v] = result[v]
  <1>1. /\ DOMAIN result' = DOMAIN result \cup {Current}
        /\ result'[Current] = Row
        /\ \A v \in DOMAIN result : v # Current => result'[v] = result[v]
    BY DEF FinishVDisk
  <1> QED
    BY <1>1, QuestionStays DEF Left

\* The virtual disks are taken in their order, and the replicas of one are
\* judged before those of the next.
LEMMA LoopNext ==
    ASSUME TypeOK, LoopOK, [Next]_vars PROVE LoopOK'
  <1>1. CASE UNCHANGED <<replicas, result>>
    BY <1>1, LeftStays DEF LoopOK
  <1>2. CASE ProcessReplica
    <2>1. Current \in Left /\ Current \in DOMAIN Layout /\ UNCHANGED result
      BY <1>2, CurrentIsLeast DEF ProcessReplica, Working, Left, Shown
    <2>2. Left' = Left /\ Current' = Current
      BY <2>1, LeftStays
    <2>3. /\ \A v \in DOMAIN Layout : v # Current => replicas'[v] = replicas[v]
          /\ Len(replicas'[Current]) = Len(replicas[Current]) + 1
          /\ Len(replicas[Current]) < Len(Layout[Current])
      BY <1>2, <2>1 DEF ProcessReplica, TypeOK
    <2>4. Len(replicas[Current]) \in Nat /\ Len(Layout[Current]) \in Nat
      BY <2>1, LayoutTypes DEF TypeOK
    <2>5. Len(replicas'[Current]) <= Len(Layout[Current])
      BY <2>3, <2>4
    <2>6. DOMAIN result \subseteq DOMAIN Layout /\ Current \notin DOMAIN result
      BY <2>1 DEF Left, Shown, TypeOK
    <2> HIDE DEF Left, Current
    <2> QED
      BY <2>1, <2>2, <2>3, <2>5, <2>6 DEF LoopOK
  <1>3. CASE FinishVDisk
    <2>1. /\ Current \in Left /\ \A w \in Left : Current <= w
          /\ Left \subseteq Nat /\ Current \notin DOMAIN result
      BY <1>3, CurrentIsLeast, LayoutTypes DEF FinishVDisk, Working, Left, Shown
    <2>2. UNCHANGED replicas /\ Len(replicas[Current]) = Len(Layout[Current])
      BY <1>3 DEF FinishVDisk
    <2>3. Row.problems = replicas[Current]
      BY DEF Row
    <2> HIDE DEF Left, Current, Row
    <2>4. \A w \in Left' : w \in Left /\ Current < w
      <3>1. Left' = Left \ {Current}
        BY <1>3, LeftShrinks
      <3>2. \A w \in Left : Current <= w /\ w \in Nat /\ Current \in Nat
        BY <2>1
      <3> QED
        BY <3>1, <3>2
    <2>5. ASSUME NEW v \in DOMAIN result'
          PROVE  /\ result'[v].problems = replicas[v] /\ Len(replicas[v]) = Len(Layout[v])
                 /\ \A w \in Left' : v < w
      BY <1>3, <2>1, <2>2, <2>3, <2>4, LeftShrinks DEF LoopOK
    <2>6. ASSUME NEW v \in DOMAIN Layout \ DOMAIN result'
          PROVE  replicas[v] = <<>> /\ Len(replicas[v]) <= Len(Layout[v])
      BY <1>3, <2>1, LeftShrinks DEF LoopOK
    <2> QED
      BY <2>2, <2>5, <2>6 DEF LoopOK
  <1> QED
    BY <1>1, <1>2, <1>3, LoopStays

\* The status of the virtual disk at hand is of what was written down for it
\* and for those before it.
LEMMA StatusNext ==
    ASSUME TypeOK, LoopOK, StatusCoversReplicas, [Next]_vars PROVE StatusCoversReplicas'
  <1>1. CASE UNCHANGED result
    BY <1>1 DEF StatusCoversReplicas, HasProblems
  <1>2. CASE FinishVDisk
    <2>1. /\ Current \in Left /\ Current \in Nat /\ Current \notin DOMAIN result
          /\ Current \in DOMAIN Layout
          /\ DOMAIN result \subseteq DOMAIN Layout /\ DOMAIN Layout \subseteq Nat
      BY <1>2, CurrentIsLeast, LayoutTypes
      DEF FinishVDisk, Working, Left, Shown, TypeOK
    <2>2. \A v \in DOMAIN result : v < Current /\ result[v].problems = replicas[v]
      BY <2>1 DEF LoopOK
    <2>3. Row.problems = replicas[Current] /\ (Row.status = "bad" <=> AnyOffline)
      BY DEF Row
    <2>4. \A v \in DOMAIN Layout \ (DOMAIN result \cup {Current}) : replicas[v] = <<>>
      BY DEF LoopOK
    <2>5. DOMAIN replicas = DOMAIN Layout
      BY DEF TypeOK
    <2> HIDE DEF Left, Current, Row
    <2>6. AnyOffline <=> \E w \in DOMAIN result' : HasProblems(w)'
      <3>1. \A w \in DOMAIN result' : result'[w].problems = replicas[w]
        BY <1>2, <2>1, <2>2, <2>3, LeftShrinks
      <3>2. DOMAIN result' = DOMAIN result \cup {Current}
        BY <1>2, LeftShrinks
      <3>3. \A v \in DOMAIN Layout \ DOMAIN result' : ~ \E i \in DOMAIN replicas[v] : TRUE
        BY <2>4, <3>2
      <3> QED
        BY <2>1, <2>5, <3>1, <3>2, <3>3 DEF AnyOffline, HasProblems
    <2>7. \A w \in DOMAIN result' : w <= Current
      BY <1>2, <2>1, <2>2, LeftShrinks
    <2>8. ASSUME NEW v \in DOMAIN result
          PROVE  (result'[v].status = "bad") <=>
                   \E w \in DOMAIN result' : w <= v /\ HasProblems(w)'
      <3>1. result'[v] = result[v] /\ ~(Current <= v)
        BY <1>2, <2>1, <2>2, LeftShrinks
      <3>2. \A w \in DOMAIN result : HasProblems(w)' <=> HasProblems(w)
        BY <1>2, <2>1, LeftShrinks DEF HasProblems
      <3> QED
        BY <1>2, <3>1, <3>2, LeftShrinks DEF StatusCoversReplicas
    <2>9. (result'[Current].status = "bad") <=>
            \E w \in DOMAIN result' : w <= Current /\ HasProblems(w)'
      BY <1>2, <2>3, <2>6, <2>7, LeftShrinks
    <2> QED
      BY <1>2, <2>8, <2>9, LeftShrinks DEF StatusCoversReplicas
  <1> QED
    BY <1>1, <1>2, LoopStays DEF ProcessReplica

-----------------------------------------------------------------------------
(* What was seen *)

\* The history keeps up with the world.
LEMMA WatchingNext ==
    ASSUME TypeOK, Watching, [Next]_vars PROVE Watching'
  <1>1. CASE ClusterChanges
    BY <1>1 DEF ClusterChanges, Change, Flip, Watching, Places
  <1>2. CASE Start
    BY <1>2 DEF Start, Watch, Watching, world, Places, AllDisks
  <1>3. CASE ~ClusterChanges /\ ~Start
    <2>1. UNCHANGED <<world, history>>
      BY <1>3, OutsideStays
    <2>2. phase = "idle" => phase' = "idle"
      BY <1>3, Steps DEF TaskDisks, Collect, Ask, AskFails, Collected, CountPartitions,
         ProcessReplica, FinishVDisk, Reply, Working, vars, handler
    <2> QED
      BY <2>1, <2>2 DEF Watching, world, history, Places
  <1> QED
    BY <1>1, <1>2, <1>3

\* What was seen of a node and a disk stays seen, and a map that was complete
\* for a node stays so.
LEMMA SeenStays ==
    ASSUME phase # "idle", [Next]_vars, NEW n, NEW d
    PROVE  /\ Seen(n, d, TRUE) => Seen(n, d, TRUE)'
           /\ Seen(n, d, FALSE) => Seen(n, d, FALSE)'
  BY HistoryGrows DEF Seen

LEMMA CoversStays ==
    ASSUME phase # "idle", [Next]_vars, NEW n, NEW more, NEW disks, disks \subseteq more,
           Covers(n, disks)
    PROVE  reaches'[n] \in sawDown' \/
           \A d \in Disks : <<reaches'[n], d>> \in Owned => d \in more
  BY HistoryGrows DEF Covers

LEMMA VerdictStays ==
    ASSUME phase # "idle", [Next]_vars, NEW problems, NEW replica,
           Backed(problems, replica)
    PROVE  Backed(problems, replica)'
  BY HistoryGrows DEF Backed, SeenGood, SeenOffline

\* A task lists what the node at the address of its client shows.
LEMMA DisksSeen ==
    ASSUME TypeOK, Watching, phase # "idle", NEW n \in known, Answers(n)
    PROVE  /\ \A d \in Disks : Says(DisksOf(n), d, n)
           /\ Covers(n, Listed(DisksOf(n)))
  <1>1. n \in Nodes /\ reaches[n] \in up /\ up \subseteq Nodes
    BY DEF TypeOK, ClusterTypeOK, Answers
  <1>2. \A d \in Disks : Says(DisksOf(n), d, n)
    <2> SUFFICES ASSUME NEW d \in Disks PROVE Says(DisksOf(n), d, n)
      OBVIOUS
    <2>1. reaches[n] \in sawUp
      BY <1>1 DEF Watching
    <2>2. <<reaches[n], d>> \in AllDisks
      BY <1>1 DEF AllDisks
    <2>3. <<reaches[n], d>> \in active => <<reaches[n], d>> \in sawActive
      BY DEF Watching
    <2>4. <<reaches[n], d>> \notin active => <<reaches[n], d>> \in sawInactive
      BY <2>2 DEF Watching
    <2> QED
      BY <2>1, <2>3, <2>4 DEF Says, DisksOf, Seen
  <1>3. Covers(n, Listed(DisksOf(n)))
    BY DEF Covers, Listed, DisksOf
  <1> QED
    BY <1>2, <1>3

\* Every listing stays true of its node, and leaves no disk of it out.
LEMMA ListingsNext ==
    ASSUME TypeOK, Fresh, Watching, ListingsOK, TasksOK, [Next]_vars PROVE ListingsOK'
  <1>1. CASE Start
    <2>1. \A n \in Nodes : listing'[n] = Unlisted /\ task'[n] # "end"
      BY <1>1 DEF Start, Fresh
    <2> QED
      BY <2>1 DEF ListingsOK, Says, Unlisted
  <1>2. CASE phase = "idle" /\ ~Start
    BY <1>2, IdleStays
    DEF ListingsOK, Says, Seen, Covers, Listed, vars, handler, world, history
  <1>3. ASSUME NEW n \in Nodes, TaskDisks(n) PROVE ListingsOK'
    <2>1. phase # "idle" /\ n \in known
      BY <1>3 DEF TaskDisks, Fresh, TasksOK
    <2>2. /\ UNCHANGED <<reaches, known, sawUp, sawDown, sawActive, sawInactive>>
          /\ listing'[n] = IF Answers(n) THEN DisksOf(n) ELSE Unlisted
          /\ \A m \in Nodes \ {n} : listing'[m] = listing[m] /\ task'[m] = task[m]
      BY <1>3 DEF TaskDisks, world, history, TypeOK
    <2>3. (\A d \in Disks : Says(listing'[n], d, n)) /\ Covers(n, Listed(listing'[n]))
      <3>1. CASE Answers(n)
        BY <2>1, <2>2, <3>1, DisksSeen
      <3>2. CASE ~Answers(n)
        <4>1. reaches[n] \in sawDown
          BY <2>1, <3>2 DEF Watching, Answers, TypeOK, ClusterTypeOK
        <4> QED
          BY <2>2, <3>2, <4>1 DEF Says, Unlisted, Covers
      <3> QED
        BY <3>1, <3>2
    <2> QED
      BY <2>2, <2>3 DEF ListingsOK, Says, Seen, Covers, Listed
  <1>4. ASSUME NEW n \in Nodes, Collect(n) PROVE ListingsOK'
    BY <1>4 DEF Collect, TypeOK, ListingsOK, Says, Seen, Covers, Listed, world, history
  <1>5. CASE phase # "idle" /\ UNCHANGED <<task, listing>>
    <2> SUFFICES ASSUME NEW n \in Nodes
                 PROVE  /\ \A d \in Disks : Says(listing[n], d, n)'
                        /\ task[n] = "end" => Covers(n, Listed(listing[n]))'
      BY <1>5 DEF ListingsOK, Says, Listed
    <2>1. \A d \in Disks : Says(listing[n], d, n)'
      BY <1>5, SeenStays DEF ListingsOK, Says
    <2>2. ASSUME task[n] = "end" PROVE Covers(n, Listed(listing[n]))'
      <3>1. Listed(listing[n])' = Listed(listing[n]) /\ Covers(n, Listed(listing[n]))
        BY <1>5, <2>2 DEF ListingsOK, Listed
      <3> QED
        BY <1>5, <3>1, CoversStays DEF Covers
    <2> QED
      BY <2>1, <2>2
  <1> QED
    BY <1>1, <1>2, <1>3, <1>4, <1>5, Steps
    DEF ClusterChanges, Ask, AskFails, Collected, CountPartitions, ProcessReplica,
        FinishVDisk, Reply, vars, handler, Working

\* What the merged map says was seen of some node.
LEMMA MapNext ==
    ASSUME TypeOK, Fresh, ListingsOK, MapOK, [Next]_vars PROVE MapOK'
  <1>1. CASE phase = "idle"
    <2>1. procDisks' = Unlisted
      <3>1. CASE Start
        BY <1>1, <3>1 DEF Start, Fresh
      <3>2. CASE ~Start
        BY <1>1, <3>2, IdleStays DEF Fresh, vars, handler
      <3> QED
        BY <3>1, <3>2
    <2> QED
      BY <2>1 DEF MapOK, Listed, Unlisted
  <1>2. ASSUME NEW n \in Nodes, Collect(n) PROVE MapOK'
    <2>1. /\ UNCHANGED <<reaches, known, sawUp, sawDown, sawActive, sawInactive>>
          /\ \A d \in Disks : procDisks'[d] = IF listing[n][d] = "unlisted"
                                              THEN procDisks[d] ELSE listing[n][d]
      BY <1>2 DEF Collect, world, history
    <2> SUFFICES ASSUME NEW d \in Disks, procDisks'[d] # "unlisted"
                 PROVE  \E m \in Nodes : Says(procDisks, d, m)'
      BY DEF MapOK, Listed
    <2>2. CASE listing[n][d] = "unlisted"
      <3>1. PICK m \in Nodes : Says(procDisks, d, m)
        BY <2>1, <2>2 DEF MapOK, Listed
      <3> QED
        BY <2>1, <2>2, <3>1 DEF Says, Seen
    <2>3. CASE listing[n][d] # "unlisted"
      <3>1. Says(procDisks, d, n)'
        BY <2>1, <2>3 DEF ListingsOK, Says, Seen
      <3> QED
        BY <3>1
    <2> QED
      BY <2>2, <2>3
  <1>3. CASE phase # "idle" /\ UNCHANGED procDisks
    <2> SUFFICES ASSUME NEW d \in Disks, procDisks'[d] # "unlisted"
                 PROVE  \E m \in Nodes : Says(procDisks, d, m)'
      BY DEF MapOK, Listed
    <2>1. PICK m \in Nodes : Says(procDisks, d, m)
      BY <1>3 DEF MapOK, Listed
    <2>2. Says(procDisks, d, m)'
      BY <1>3, <2>1, SeenStays DEF Says
    <2> QED
      BY <2>2
  <1> QED
    BY <1>1, <1>2, <1>3, Steps
    DEF ClusterChanges, TaskDisks, Ask, AskFails, Collected, CountPartitions,
        ProcessReplica, FinishVDisk, Reply, Start, vars, handler

\* No client's task is lost before its listing is in the map.
LEMMA TasksNext ==
    ASSUME TypeOK, Fresh, ListingsOK, TasksOK, [Next]_vars PROVE TasksOK'
  <1>0. UNCHANGED route
    BY QuestionStays
  <1>1. CASE Start
    BY <1>1, <1>0 DEF Start, TasksOK, TypeOK, world, ClusterTypeOK
  <1>2. CASE phase = "idle" /\ ~Start
    BY <1>2, IdleStays
    DEF TasksOK, Seen, Covers, Listed, vars, handler, world, history
  <1>3. ASSUME NEW n \in Nodes, TaskDisks(n) PROVE TasksOK'
    <2>1. /\ UNCHANGED <<reaches, known, sawDown, phase, procDisks>>
          /\ task[n] = "running" /\ task'[n] = "end"
          /\ \A m \in Nodes \ {n} : task'[m] = task[m]
      BY <1>3 DEF TaskDisks, TypeOK, world, history
    <2> QED
      BY <1>0, <2>1 DEF TasksOK, Covers, Listed, TypeOK, ClusterTypeOK
  <1>4. ASSUME NEW n \in Nodes, Collect(n) PROVE TasksOK'
    <2>1. /\ UNCHANGED <<reaches, known, sawDown, phase>>
          /\ phase = "disks" /\ task[n] = "end" /\ task'[n] = "none"
          /\ \A m \in Nodes \ {n} : task'[m] = task[m]
      BY <1>4 DEF Collect, TypeOK, world, history
    <2>2. Listed(procDisks) \subseteq Listed(procDisks')
          /\ Listed(listing[n]) \subseteq Listed(procDisks')
      BY <1>4 DEF Collect, Listed
    <2>3. Covers(n, Listed(procDisks'))
      BY <2>1, <2>2 DEF ListingsOK, Covers
    <2>4. ASSUME route = "node", NEW m \in known
          PROVE  task'[m] # "none" \/ Covers(m, Listed(procDisks'))
      <3>1. m \in Nodes
        BY DEF TypeOK, ClusterTypeOK
      <3> QED
        BY <2>1, <2>2, <2>3, <2>4, <3>1 DEF TasksOK, Covers
    <2>5. \A m \in known : Covers(m, Listed(procDisks')) => Covers(m, Listed(procDisks))'
      BY <2>1 DEF Covers, Listed
    <2>6. \A m \in Nodes : task'[m] # "none" => m \in known'
      BY <2>1 DEF TasksOK
    <2> QED
      BY <1>0, <2>1, <2>4, <2>5, <2>6 DEF TasksOK
  <1>5. CASE phase # "idle" /\ UNCHANGED <<task, procDisks>>
    <2>1. UNCHANGED <<known, reaches>>
      BY <1>5, HistoryGrows
    <2>2. ASSUME route = "node", NEW m \in known
          PROVE  task[m] # "none" \/ Covers(m, Listed(procDisks))'
      <3>1. Listed(procDisks)' = Listed(procDisks)
        BY <1>5 DEF Listed
      <3>2. CASE Covers(m, Listed(procDisks))
        BY <1>5, <3>1, <3>2, CoversStays DEF Covers
      <3> QED
        BY <1>5, <2>2, <3>2 DEF TasksOK
    <2>3. phase' \in {"partitions", "replicas"} => \A n \in Nodes : task[n] = "none"
      BY <1>5, Steps DEF TasksOK, ClusterChanges, TaskDisks, Collect, Ask, AskFails,
         Collected, CountPartitions, ProcessReplica, FinishVDisk, Reply, Start, vars, handler
    <2> QED
      BY <1>0, <1>5, <2>1, <2>2, <2>3 DEF TasksOK
  <1> QED
    BY <1>1, <1>2, <1>3, <1>4, <1>5, Steps
    DEF ClusterChanges, Ask, AskFails, Collected, CountPartitions,
        ProcessReplica, FinishVDisk, Reply, vars, handler

\* A replica that is judged good is backed by its own disk and node: what the
\* map says of the name was seen of a node with such a disk, and that is its own.
LEMMA GoodBacked ==
    ASSUME TypeOK, Watching, MapOK, NamesAreOwn, phase # "idle",
           NEW v \in DOMAIN Layout, NEW i \in DOMAIN Layout[v],
           procDisks[Layout[v][i].disk] = "active",
           Layout[v][i].node \in members \cap known, Answers(Layout[v][i].node)
    PROVE  SeenGood(Layout[v][i])
  <1> DEFINE node == Layout[v][i].node
             disk == Layout[v][i].disk
  <1>1. node \in Nodes /\ disk \in Disks
    BY LayoutTypes DEF Replicas
  <1>2. PICK n \in Nodes : Seen(n, disk, TRUE)
    BY <1>1 DEF MapOK, Listed, Says
  <1>3. n \in known /\ reaches[n] \in sawUp /\ <<reaches[n], disk>> \in Owned \cap sawActive
    BY <1>2 DEF Seen
  <1>4. reaches[n] = node
    BY <1>3 DEF NamesAreOwn
  <1>5. reaches[node] \in sawUp
    BY DEF Watching, Answers
  <1> QED
    BY <1>3, <1>4, <1>5 DEF SeenGood

\* One that is judged offline has a reason that was seen: a node that is gone
\* was, a disk that the map has as inactive is its own, and one that is not in
\* the map is of no node, of one that no client reaches, or of one that was down.
LEMMA OfflineBacked ==
    ASSUME TypeOK, Watching, MapOK, TasksOK, NamesAreOwn,
           phase = "replicas", route = "node",
           NEW v \in DOMAIN Layout, NEW i \in DOMAIN Layout[v],
           \/ procDisks[Layout[v][i].disk] # "active"
           \/ ~(Layout[v][i].node \in members \cap known /\ Answers(Layout[v][i].node))
    PROVE  SeenOffline(Layout[v][i])
  <1> DEFINE node == Layout[v][i].node
             disk == Layout[v][i].disk
  <1>1. node \in Nodes /\ disk \in Disks
    BY LayoutTypes DEF Replicas
  <1>2. CASE node \notin members \cap known
    BY <1>2 DEF SeenOffline
  <1>3. CASE ~Answers(node)
    <2>1. reaches[node] \in sawDown
      BY <1>1, <1>3 DEF Watching, Answers, TypeOK, ClusterTypeOK
    <2> QED
      BY <2>1 DEF SeenOffline
  <1>4. CASE procDisks[disk] = "inactive"
    <2>1. PICK n \in Nodes : Seen(n, disk, FALSE)
      BY <1>1, <1>4 DEF MapOK, Listed, Says
    <2>2. <<reaches[n], disk>> \in Owned \cap sawInactive
      BY <2>1 DEF Seen
    <2>3. reaches[n] = node
      BY <2>2 DEF NamesAreOwn
    <2> QED
      BY <2>2, <2>3 DEF SeenOffline
  <1>5. CASE procDisks[disk] = "unlisted" /\ <<node, disk>> \notin Owned
    <2>1. <<node, disk>> \in AllDisks \ active
      BY <1>1, <1>5 DEF AllDisks, TypeOK, ClusterTypeOK
    <2> QED
      BY <2>1 DEF Watching, SeenOffline
  <1>6. CASE procDisks[disk] = "unlisted" /\ <<node, disk>> \in Owned
    <2> SUFFICES ASSUME NEW n \in known, reaches[n] = node PROVE node \in sawDown
      BY DEF SeenOffline
    <2>1. n \in Nodes
      BY DEF TypeOK, ClusterTypeOK
    <2>2. Covers(n, Listed(procDisks))
      BY <2>1 DEF TasksOK
    <2> QED
      BY <1>1, <1>6, <2>2 DEF Covers, Listed
  <1>7. procDisks[disk] \in {"unlisted", "active", "inactive"}
    BY <1>1 DEF TypeOK
  <1> QED
    BY <1>2, <1>3, <1>4, <1>5, <1>6, <1>7

\* Every verdict is backed when it is made, and stays so.
LEMMA VerdictsNext ==
    ASSUME SeenInv, NamesAreOwn, VerdictsOK, [Next]_vars PROVE VerdictsOK'
  <1>1. CASE phase = "idle"
    <2>1. replicas' = [v \in DOMAIN Layout |-> <<>>]
      BY <1>1, LoopStays DEF SeenInv, PageInv, Fresh, ProcessReplica, FinishVDisk, Working
    <2> QED
      BY <2>1 DEF VerdictsOK
  <1>2. CASE phase # "idle" /\ UNCHANGED replicas
    BY <1>2, VerdictStays DEF VerdictsOK
  <1>3. CASE ProcessReplica
    <2> DEFINE next == Len(replicas[Current]) + 1
    <2>1. /\ Current \in DOMAIN Layout /\ next \in DOMAIN Layout[Current]
          /\ replicas[Current] \in Seq(SUBSET Problems)
      <3>1. Current \in DOMAIN Layout
        BY <1>3, CurrentIsLeast DEF ProcessReplica, Working, Left, Shown
      <3>2. replicas[Current] \in Seq(SUBSET Problems)
        BY <3>1 DEF SeenInv, PageInv, TypeOK
      <3> QED
        BY <1>3, <3>1, <3>2, LayoutTypes DEF ProcessReplica
    <2>2. phase = "replicas" /\ route = "node"
      BY <1>3 DEF ProcessReplica, Working, SeenInv, PageInv, Fresh
    <2> DEFINE replica == Layout[Current][next]
               problems == Process(replica, procDisks[replica.disk] # "active")
    <2>3. Backed(problems, replica)
      <3>1. CASE /\ procDisks[replica.disk] = "active"
                 /\ replica.node \in members \cap known /\ Answers(replica.node)
        <4>1. problems = {}
          BY <3>1 DEF Process
        <4>2. SeenGood(replica)
          BY <2>1, <2>2, <3>1, GoodBacked DEF SeenInv, PageInv
        <4> QED
          BY <4>1, <4>2 DEF Backed
      <3>2. CASE \/ procDisks[replica.disk] # "active"
                 \/ ~(replica.node \in members \cap known /\ Answers(replica.node))
        <4>1. problems # {}
          BY <3>2 DEF Process
        <4>2. SeenOffline(replica)
          BY <2>1, <2>2, <3>2, OfflineBacked DEF SeenInv, PageInv
        <4> QED
          BY <4>1, <4>2 DEF Backed
      <3> QED
        BY <3>1, <3>2
    <2>4. replicas' = [replicas EXCEPT ![Current] = Append(@, problems)]
      BY <1>3 DEF ProcessReplica, NextReplica
    <2>5. UNCHANGED <<world, history>>
      BY <1>3 DEF ProcessReplica
    <2> HIDE DEF Current, problems
    <2>6. ASSUME NEW v \in DOMAIN replicas', NEW i \in DOMAIN replicas'[v]
          PROVE  Backed(replicas'[v][i], Layout[v][i])
      <3>1. CASE v # Current
        BY <2>4, <2>6, <3>1 DEF VerdictsOK
      <3>2. CASE v = Current
        <4>1. replicas'[Current] = Append(replicas[Current], problems)
          BY <2>1, <2>4 DEF SeenInv, PageInv, TypeOK
        <4>2. problems \in SUBSET Problems
          BY ProcessType DEF problems
        <4>3. CASE i = next
          BY <2>1, <2>3, <3>2, <4>1, <4>2, <4>3
        <4>4. CASE i \in DOMAIN replicas[Current]
          <5>1. replicas'[Current][i] = replicas[Current][i]
            BY <2>1, <4>1, <4>2, <4>4
          <5>2. Current \in DOMAIN replicas
            BY <2>1 DEF SeenInv, PageInv, TypeOK
          <5> QED
            BY <3>2, <4>4, <5>1, <5>2 DEF VerdictsOK
        <4> QED
          BY <2>1, <2>6, <3>2, <4>1, <4>2, <4>3, <4>4
      <3> QED
        BY <3>1, <3>2
    <2> QED
      BY <2>5, <2>6 DEF VerdictsOK, Backed, SeenGood, SeenOffline, world, history
  <1> QED
    BY <1>1, <1>2, <1>3, LoopStays DEF FinishVDisk

-----------------------------------------------------------------------------
(* The theorems *)

\* The strengthened invariant.  What is seen of the replicas needs their names
\* to be their own; the rest holds for any names.
LEMMA InvariantHolds == Spec => []IInv
  <1>1. Init => IInv
    <2> SUFFICES ASSUME Init PROVE IInv
      OBVIOUS
    <2>1. TypeOK
      BY TypeInit
    <2>2. Fresh
      <3>1. 0 < Len(Calls)
        BY SomeCalls
      <3> QED
        BY <3>1 DEF Init, Fresh
    <2>3. LoopOK /\ StatusCoversReplicas /\ VerdictsOK
      BY LayoutTypes DEF Init, LoopOK, StatusCoversReplicas, VerdictsOK
    <2>4. Watching /\ ListingsOK /\ MapOK /\ TasksOK
      BY DEF Init, Watching, ListingsOK, MapOK, TasksOK, Says, Listed, Unlisted
    <2> QED
      BY <2>1, <2>2, <2>3, <2>4 DEF IInv, SeenInv, PageInv
  <1>2. IInv /\ [Next]_vars => IInv'
    <2> SUFFICES ASSUME IInv, [Next]_vars PROVE IInv'
      OBVIOUS
    <2>1. SeenInv'
      BY TypeNext, FreshNext, LoopNext, WatchingNext, ListingsNext, MapNext, TasksNext
      DEF IInv, SeenInv, PageInv
    <2>2. StatusCoversReplicas'
      BY StatusNext DEF IInv, SeenInv, PageInv
    <2>3. NamesAreOwn => VerdictsOK'
      BY VerdictsNext DEF IInv
    <2> QED
      BY <2>1, <2>2, <2>3 DEF IInv, NamesAreOwn
  <1> QED
    BY <1>1, <1>2, PTL DEF Spec

\* The page is of the route and the layout: a virtual disk that is shown has a
\* replica on the node, and is shown with all of its replicas.
THEOREM TypesHold == Spec => []TypeOK
  <1>1. IInv => TypeOK
    BY DEF IInv, SeenInv, PageInv
  <1> QED
    BY <1>1, InvariantHolds, PTL

\* A virtual disk is bad exactly when a replica of it, or of one before it on
\* the page, has problems: get_detailed_node_info computes the status from
\* res_replicas as a whole.
THEOREM StatusIsOfAllBefore == Spec => []StatusCoversReplicas
  <1>1. IInv => StatusCoversReplicas
    BY DEF IInv
  <1> QED
    BY <1>1, InvariantHolds, PTL

\* The verdicts that are on the page are the ones made in process_replica.
LEMMA ShownVerdicts ==
    ASSUME IInv, NamesAreOwn, NEW v \in DOMAIN result, NEW i \in DOMAIN result[v].problems
    PROVE  Backed(result[v].problems[i], Layout[v][i])
  <1>1. result[v].problems = replicas[v] /\ v \in DOMAIN replicas
    BY DEF IInv, SeenInv, PageInv, LoopOK, TypeOK, Shown
  <1> QED
    BY <1>1 DEF IInv, VerdictsOK

\* Where no other node lists a disk of the same name, a replica is shown as good
\* only if its own disk was active, and its node up, while the page was made.
THEOREM GoodWasSeen == NamesAreOwn => (Spec => []GoodIsSeen)
  <1> SUFFICES ASSUME NamesAreOwn PROVE Spec => []GoodIsSeen
    OBVIOUS
  <1>1. IInv => GoodIsSeen
    BY ShownVerdicts DEF GoodIsSeen, Backed
  <1> QED
    BY <1>1, InvariantHolds, PTL

\* ... and as offline only if its disk was seen inactive, its node down, or its
\* node was none that the client has, that Bob lists or that any client reaches.
THEOREM OfflineWasSeen == NamesAreOwn => (Spec => []OfflineIsSeen)
  <1> SUFFICES ASSUME NamesAreOwn PROVE Spec => []OfflineIsSeen
    OBVIOUS
  <1>1. IInv => OfflineIsSeen
    BY ShownVerdicts DEF OfflineIsSeen, Backed
  <1> QED
    BY <1>1, InvariantHolds, PTL

=============================================================================
