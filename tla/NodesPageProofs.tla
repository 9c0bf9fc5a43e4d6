-------------------------- MODULE NodesPageProofs --------------------------
(***************************************************************************)
(* Proofs about NodesPage: for every cluster, layout, addressing of the    *)
(* clients and number of changes during the request.                       *)
(***************************************************************************)
EXTENDS NodesPage, TLAPS

-----------------------------------------------------------------------------
(* The inductive invariant *)

\* While a request is handled, the history has the world as it is.
Watching ==
    stage # "idle" =>
        /\ up \subseteq sawUp /\ Places \ up \subseteq sawDown
        /\ fit \subseteq sawFit /\ Nodes \ fit \subseteq sawUnfit

\* Before the request there is nothing to answer from.
Fresh ==
    stage = "idle" =>
        /\ task = [n \in Nodes |-> "none"]
        /\ report = [n \in Nodes |-> "none"]
        /\ DOMAIN card = {}
        /\ answer = <<>> /\ reply = 0

\* A verdict on a node is one on metrics of this node, as they were seen.
VerdictSeen(verdict, node) ==
    /\ verdict = "good" => node \in sawUp \cap sawFit
    /\ verdict = "bad" => node \in sawUp \cap sawUnfit
    /\ verdict = "lost" => node \in sawDown

ReportsOK ==
    /\ \A n \in Nodes : VerdictSeen(report[n], reaches[n])
    /\ \A n \in Nodes : task[n] \in {"space", "end"} => report[n] # "none"

\* The report of a client is in the answer, lost, or of no node in the list.
TakenIn(n) ==
    \/ report[n] = "lost"
    \/ reaches[n] \in DOMAIN card => card[reaches[n]].status # "offline"

\* No report is taken in before the nodes are listed, none is left out.
TasksOK ==
    /\ stage # "idle" =>
         \A n \in known :
            task[n] # "none" \/ (stage \in {"reports", "done"} /\ TakenIn(n))
    /\ reply = 200 => stage = "done" /\ \A n \in Nodes : task[n] = "none"

\* No node is shown before the list; the virtual disks of one that is are some
\* that get_vdisks has answered with.
Unlisted == {"idle", "vdisks", "nodes"}

DisksAnswered ==
    /\ stage \in Unlisted => DOMAIN card = {}
    /\ \A m \in DOMAIN card : card[m].vdisks \subseteq DOMAIN answer

IInv ==
    /\ TypeOK /\ Watching /\ Fresh
    /\ ReportsOK /\ TasksOK /\ DisksAnswered /\ ReportIsItsOwn

-----------------------------------------------------------------------------
(* Steps *)

\* A step of the cluster, of a task or of the handler.
LEMMA Steps ==
    ASSUME [NodesNext]_vars
    PROVE  \/ ClusterChanges
           \/ Start
           \/ \E n \in Nodes : TaskCall(n) \/ Collect(n)
           \/ VDisksAnswered \/ ListNodes \/ NodesRefused \/ Reply
           \/ UNCHANGED vars
  BY DEF NodesNext, Progress

\* The world is left alone except by the cluster; the history by all but Start.
LEMMA OutsideStays ==
    ASSUME [NodesNext]_vars, ~ClusterChanges, ~Start
    PROVE  UNCHANGED outside
  BY Steps DEF TaskCall, Collect, VDisksAnswered, ListNodes, NodesRefused, Reply,
     vars, outside

\* During a request the history only grows, and the client's map of the
\* cluster stays as it is.
LEMMA HistoryGrows ==
    ASSUME stage # "idle", [NodesNext]_vars
    PROVE  /\ sawUp \subseteq sawUp' /\ sawDown \subseteq sawDown'
           /\ sawFit \subseteq sawFit' /\ sawUnfit \subseteq sawUnfit'
           /\ sawActive \subseteq sawActive' /\ sawInactive \subseteq sawInactive'
           /\ UNCHANGED <<known, members, reaches>>
  <1>1. CASE ClusterChanges
    BY <1>1 DEF ClusterChanges, Change, history
  <1>2. CASE UNCHANGED outside
    BY <1>2 DEF outside, world, history
  <1>3. ~Start
    BY DEF Start
  <1> QED
    BY <1>1, <1>2, <1>3, OutsideStays

\* A request does not begin again.
LEMMA NeverIdleAgain ==
    ASSUME stage # "idle", [NodesNext]_vars PROVE stage' # "idle"
  BY Steps DEF ClusterChanges, Start, TaskCall, Collect, VDisksAnswered, ListNodes,
     NodesRefused, Reply, vars, page

\* Until the request begins, nothing but that happens.
LEMMA IdleStays ==
    ASSUME TypeOK, Fresh, stage = "idle", [NodesNext]_vars, ~Start
    PROVE  UNCHANGED vars
  <1>1. \A n \in Nodes : task[n] = "none"
    BY DEF Fresh
  <1> QED
    BY <1>1, Steps DEF ClusterChanges, TaskCall, NextCall, Collect, VDisksAnswered,
       ListNodes, NodesRefused, Reply

-----------------------------------------------------------------------------
(* Types *)

\* What the history backs, it backs later on.
LEMMA CompleteGrows ==
    ASSUME sawUp \subseteq sawUp', sawDown \subseteq sawDown',
           sawActive \subseteq sawActive', sawInactive \subseteq sawInactive',
           UNCHANGED <<known, members, reaches>>
    PROVE  Complete \subseteq Complete'
  <1>1. ASSUME NEW replica, SeenGood(replica) PROVE SeenGood(replica)'
    BY <1>1 DEF SeenGood
  <1>2. ASSUME NEW replica, SeenOffline(replica) PROVE SeenOffline(replica)'
    BY <1>2 DEF SeenOffline
  <1>3. ASSUME NEW replicas PROVE Verdicts(replicas) \subseteq Verdicts(replicas)'
    BY <1>1, <1>2 DEF Verdicts
  <1>4. ASSUME NEW replicas PROVE Judgements(replicas) \subseteq Judgements(replicas)'
    BY <1>3 DEF Judgements
  <1>5. ASSUME NEW all \in Complete PROVE all \in Complete'
    <2>1. /\ all \in [DOMAIN Layout -> UNION {Judgements(Layout[v]) : v \in DOMAIN Layout}]
          /\ \A v \in DOMAIN Layout : all[v] \in Judgements(Layout[v])
      BY <1>5 DEF Complete
    <2>2. \A v \in DOMAIN Layout : all[v] \in Judgements(Layout[v])'
      BY <2>1, <1>4
    <2>3. all \in [DOMAIN Layout -> UNION {Judgements(Layout[v])' : v \in DOMAIN Layout}]
      BY <2>1, <2>2
    <2> QED
      BY <2>2, <2>3 DEF Complete
  <1> QED
    BY <1>5

\* The initial states are well-formed.
LEMMA TypeInit == NodesInit => TypeOK
  BY LayoutAssumption
  DEF NodesInit, Init, ClusterInit, VDisksInit, TypeOK, ClusterTypeOK, AllDisks, Places,
      NextCall, Card

\* What happens to the world leaves its types alone.
LEMMA WorldTypes ==
    ASSUME ClusterTypeOK,
           Change \/ (UNCHANGED history /\ UNCHANGED <<up, active, known, members, reaches>>
                      /\ changes' \in 0 .. MaxChanges)
                  \/ (UNCHANGED world /\ Watch)
    PROVE  ClusterTypeOK'
  BY LayoutAssumption
  DEF ClusterTypeOK, Change, Watch, Flip, world, history, AllDisks, Places

\* The cluster, and the verdicts that the answer was made of.
LEMMA OutsideTypes ==
    ASSUME TypeOK, Fresh, [NodesNext]_vars
    PROVE  /\ ClusterTypeOK'
           /\ fit' \subseteq Nodes /\ sawFit' \subseteq Nodes /\ sawUnfit' \subseteq Nodes
           /\ answer' = answer => answer' \in Complete' \cup {<<>>}
  <1>1. CASE ClusterChanges
    <2>1. ClusterTypeOK'
      <3>1. CASE Change
        BY <3>1, WorldTypes DEF TypeOK
      <3>2. CASE ~Change
        <4>1. /\ changes < MaxChanges /\ changes' = changes + 1
              /\ UNCHANGED <<up, active, known, members, reaches, history>>
          BY <1>1, <3>2 DEF ClusterChanges
        <4>2. changes' \in 0 .. MaxChanges
          BY <4>1, LayoutAssumption DEF TypeOK, ClusterTypeOK
        <4> QED
          BY <4>1, <4>2, WorldTypes DEF TypeOK
      <3> QED
        BY <3>1, <3>2
    <2>2. fit' \subseteq Nodes /\ sawFit' \subseteq Nodes /\ sawUnfit' \subseteq Nodes
      BY <1>1 DEF ClusterChanges, Flip, TypeOK
    <2>3. stage # "idle"
      BY <1>1 DEF ClusterChanges
    <2> QED
      BY <2>1, <2>2, <2>3, HistoryGrows, CompleteGrows DEF TypeOK
  <1>2. CASE Start
    <2>1. ClusterTypeOK'
      BY <1>2, WorldTypes DEF Start, TypeOK
    <2> QED
      BY <2>1, <1>2 DEF Start, TypeOK, AskVDisks, Fresh, Watch
  <1>3. CASE UNCHANGED outside
    <2>1. ClusterTypeOK'
      BY <1>3 DEF TypeOK, ClusterTypeOK, outside, world, history
    <2> QED
      BY <2>1, <1>3, CompleteGrows DEF TypeOK, outside, world, history
  <1> QED
    BY <1>1, <1>2, <1>3, OutsideStays

\* Virtual disks of the answer are virtual disks of the layout.
LEMMA AnswerDomain ==
    ASSUME answer \in Complete \cup {<<>>} PROVE DOMAIN answer \subseteq DOMAIN Layout
  BY DEF Complete

\* Types are kept by every step.
LEMMA TypeNext ==
    ASSUME TypeOK, Fresh, ReportsOK, [NodesNext]_vars PROVE TypeOK'
  <1>1. /\ ClusterTypeOK'
        /\ fit' \subseteq Nodes /\ sawFit' \subseteq Nodes /\ sawUnfit' \subseteq Nodes
        /\ answer' = answer => answer' \in Complete' \cup {<<>>}
    BY OutsideTypes
  <1>2. CASE ClusterChanges
    BY <1>1, <1>2 DEF ClusterChanges, TypeOK, Change, answerVars, page, Card
  <1>3. CASE Start
    BY <1>1, <1>3 DEF Start, AskVDisks, TypeOK, Card, world, NextCall, Fresh
  <1>4. ASSUME NEW n \in Nodes, TaskCall(n) PROVE TypeOK'
    BY <1>1, <1>4 DEF TaskCall, TypeOK, Card, NextCall, outside, world, answerVars
  <1>5. ASSUME NEW n \in Nodes, Collect(n) PROVE TypeOK'
    <2>1. /\ DOMAIN card' = DOMAIN card
          /\ card' \in [DOMAIN card -> Card]
      <3>1. CASE report[n] = "lost" \/ reaches[n] \notin DOMAIN card
        BY <1>5, <3>1 DEF Collect, Written, TypeOK
      <3>2. CASE report[n] # "lost" /\ reaches[n] \in DOMAIN card
        <4>1. report[n] \in {"good", "bad"}
          BY <1>5, <3>2 DEF Collect, TypeOK, ReportsOK
        <4>2. card[reaches[n]] \in Card
          BY <3>2 DEF TypeOK
        <4>3. [card[reaches[n]] EXCEPT !.status = report[n]] \in Card
          BY <4>1, <4>2 DEF Card
        <4>4. card' = [card EXCEPT ![reaches[n]] = [@ EXCEPT !.status = report[n]]]
          BY <1>5, <3>2 DEF Collect, Written
        <4> QED
          BY <3>2, <4>3, <4>4 DEF TypeOK
      <3> QED
        BY <3>1, <3>2
    <2> QED
      BY <1>1, <1>5, <2>1 DEF Collect, TypeOK, Card, outside, world, answerVars
  <1>6. CASE VDisksAnswered
    <2>1. UNCHANGED outside => Complete' = Complete
      BY DEF outside, world, history, Complete, Judgements, Verdicts, SeenGood, SeenOffline
    <2> QED
      BY <1>1, <1>6, <2>1 DEF VDisksAnswered, AnswerVDisks, RefuseVDisks, TypeOK, Card,
         outside, world
  <1>7. CASE ListNodes
    <2>1. DOMAIN card' \subseteq Nodes /\ card' \in [DOMAIN card' -> Card]
      BY <1>7, AnswerDomain DEF ListNodes, TypeOK, Card
    <2> QED
      BY <1>1, <1>7, <2>1 DEF ListNodes, TypeOK, Card, outside, world, answerVars
  <1>8. CASE NodesRefused \/ Reply
    BY <1>1, <1>8 DEF NodesRefused, Reply, TypeOK, Card, outside, world, answerVars
  <1>9. CASE UNCHANGED vars
    BY <1>1, <1>9 DEF vars, page, TypeOK, Card, outside, world, answerVars
  <1> QED
    BY <1>2, <1>3, <1>4, <1>5, <1>6, <1>7, <1>8, <1>9, Steps

-----------------------------------------------------------------------------
(* The other parts *)

\* The history keeps up with the world.
LEMMA WatchingNext ==
    ASSUME Watching, TypeOK, [NodesNext]_vars PROVE Watching'
  <1>1. CASE ClusterChanges
    BY <1>1 DEF ClusterChanges, Change, Watching, history, Places, Flip
  <1>2. CASE Start
    BY <1>2 DEF Start, Watch, Watching, world, Places
  <1>3. CASE ~ClusterChanges /\ ~Start
    <2>1. UNCHANGED outside
      BY <1>3, OutsideStays
    <2>2. stage = "idle" => stage' = "idle"
      BY <1>3, Steps DEF TaskCall, Collect, VDisksAnswered, ListNodes, NodesRefused,
         Reply, vars, page
    <2> QED
      BY <2>1, <2>2 DEF Watching, outside, world, history, Places
  <1> QED
    BY <1>1, <1>2, <1>3

\* Nothing is there before the request begins.
LEMMA FreshNext ==
    ASSUME Fresh, TypeOK, [NodesNext]_vars PROVE Fresh'
  <1>1. CASE stage # "idle"
    BY <1>1, NeverIdleAgain DEF Fresh
  <1>2. CASE Start
    BY <1>2 DEF Start, Fresh
  <1>3. CASE stage = "idle" /\ ~Start
    BY <1>3, IdleStays DEF Fresh, vars, page, answerVars
  <1> QED
    BY <1>1, <1>2, <1>3

\* What is true of a verdict remains so.
LEMMA VerdictStays ==
    ASSUME stage # "idle", [NodesNext]_vars, NEW verdict, NEW node,
           VerdictSeen(verdict, node)
    PROVE  VerdictSeen(verdict, node)'
  BY HistoryGrows DEF VerdictSeen

\* A task's verdict is taken from a node that answers, and stays true of it.
LEMMA ReportsNext ==
    ASSUME IInv, [NodesNext]_vars PROVE ReportsOK'
  <1>1. CASE Start
    BY <1>1 DEF Start, IInv, Fresh, ReportsOK, VerdictSeen, world
  <1>2. CASE stage = "idle" /\ ~Start
    BY <1>2, IdleStays DEF IInv, ReportsOK, VerdictSeen, vars, page, world, history
  <1>3. ASSUME NEW n \in Nodes, TaskCall(n) PROVE ReportsOK'
    <2>1. stage # "idle" /\ task[n] \in {"status", "metrics", "space"}
      BY <1>3 DEF TaskCall, NextCall, IInv, Fresh
    <2>2. reaches[n] \in Places /\ up \subseteq Nodes
      BY DEF IInv, TypeOK, ClusterTypeOK
    <2>3. VerdictSeen(report'[n], reaches[n])
      <3>1. CASE report[n] = "lost"
        BY <1>3, <3>1 DEF TaskCall, IInv, TypeOK, ReportsOK, VerdictSeen
      <3>2. CASE ~Answers(n)
        BY <1>3, <2>1, <2>2, <3>2
        DEF TaskCall, IInv, TypeOK, Watching, VerdictSeen, Answers
      <3>3. CASE report[n] # "lost" /\ Answers(n)
        BY <1>3, <2>1, <2>2, <3>3
        DEF TaskCall, IInv, TypeOK, Watching, ReportsOK, VerdictSeen, Answers
      <3> QED
        BY <3>1, <3>2, <3>3
    <2>4. task'[n] \in {"space", "end"} => report'[n] # "none"
      BY <1>3, <2>1 DEF TaskCall, NextCall, IInv, TypeOK, ReportsOK
    <2>5. \A m \in Nodes \ {n} : task'[m] = task[m] /\ report'[m] = report[m]
      BY <1>3 DEF TaskCall, IInv, TypeOK
    <2> QED
      BY <1>3, <2>3, <2>4, <2>5
      DEF TaskCall, outside, world, history, IInv, ReportsOK, VerdictSeen
  <1>4. ASSUME NEW n \in Nodes, Collect(n) PROVE ReportsOK'
    BY <1>4 DEF Collect, IInv, TypeOK, ReportsOK, VerdictSeen, outside, world, history
  <1>5. CASE stage # "idle" /\ UNCHANGED <<task, report>>
    BY <1>5, VerdictStays, HistoryGrows DEF IInv, ReportsOK
  <1> QED
    BY <1>1, <1>2, <1>3, <1>4, <1>5, Steps
    DEF ClusterChanges, VDisksAnswered, ListNodes, NodesRefused, Reply, vars, page

\* What Collect does to the list: nothing, or the status of one node.
LEMMA CollectCard ==
    ASSUME IInv, NEW n \in Nodes, Collect(n)
    PROVE  /\ DOMAIN card' = DOMAIN card
           /\ \A m \in DOMAIN card :
                /\ card'[m].vdisks = card[m].vdisks
                /\ IF m = reaches[n] /\ report[n] # "lost"
                   THEN card'[m].status = report[n] ELSE card'[m] = card[m]
           /\ report[n] \in {"good", "bad", "lost"}
  <1>1. report[n] \in {"good", "bad", "lost"}
    BY DEF Collect, IInv, TypeOK, ReportsOK
  <1>2. card \in [DOMAIN card -> Card]
    BY DEF IInv, TypeOK
  <1>3. CASE report[n] = "lost" \/ reaches[n] \notin DOMAIN card
    BY <1>1, <1>3 DEF Collect, Written
  <1>4. CASE report[n] # "lost" /\ reaches[n] \in DOMAIN card
    <2> DEFINE new == [card[reaches[n]] EXCEPT !.status = report[n]]
    <2>1. new.status = report[n] /\ new.vdisks = card[reaches[n]].vdisks
      BY <1>2, <1>4 DEF Card
    <2>2. card' = [card EXCEPT ![reaches[n]] = new]
      BY <1>4 DEF Collect, Written
    <2> HIDE DEF new
    <2> QED
      BY <1>1, <1>2, <1>4, <2>1, <2>2
  <1> QED
    BY <1>3, <1>4

\* A row of the list gets a verdict on its own node only.
LEMMA OwnNext ==
    ASSUME IInv, [NodesNext]_vars PROVE ReportIsItsOwn'
  <1>1. CASE stage = "idle"
    <2>1. DOMAIN card' = {}
      <3>1. DOMAIN card = {}
        BY <1>1 DEF IInv, Fresh
      <3>2. CASE Start
        BY <3>1, <3>2 DEF Start
      <3>3. CASE ~Start
        BY <1>1, <3>1, <3>3, IdleStays DEF IInv, vars, page
      <3> QED
        BY <3>2, <3>3
    <2> QED
      BY <2>1 DEF ReportIsItsOwn
  <1>2. CASE stage # "idle"
    <2>1. /\ sawUp \subseteq sawUp' /\ sawFit \subseteq sawFit'
          /\ sawUnfit \subseteq sawUnfit'
      BY <1>2, HistoryGrows
    <2>2. ASSUME NEW n \in Nodes, Collect(n) PROVE ReportIsItsOwn'
      <3>1. VerdictSeen(report[n], reaches[n])
        BY DEF IInv, ReportsOK
      <3> QED
        BY <2>1, <2>2, <3>1, CollectCard DEF IInv, ReportIsItsOwn, VerdictSeen
    <2>3. CASE ListNodes
      <3>1. \A m \in DOMAIN card' : card'[m].status = "offline"
        BY <2>3 DEF ListNodes
      <3> QED
        BY <3>1 DEF ReportIsItsOwn
    <2>4. CASE UNCHANGED card
      BY <2>1, <2>4 DEF IInv, ReportIsItsOwn
    <2> QED
      BY <1>2, <2>2, <2>3, <2>4, Steps
      DEF ClusterChanges, Start, TaskCall, VDisksAnswered, NodesRefused, Reply, vars, page
  <1> QED
    BY <1>1, <1>2

\* The list is made from the answer, which does not change any more.
LEMMA DisksNext ==
    ASSUME IInv, [NodesNext]_vars PROVE DisksAnswered'
  <1>1. CASE UNCHANGED <<card, answer>> /\ (stage' \in Unlisted => stage \in Unlisted)
    BY <1>1 DEF IInv, DisksAnswered
  <1>2. CASE VDisksAnswered
    <2>1. DOMAIN card' = {}
      BY <1>2 DEF VDisksAnswered, IInv, DisksAnswered, Unlisted
    <2> QED
      BY <2>1 DEF DisksAnswered
  <1>3. CASE ListNodes
    BY <1>3 DEF ListNodes, DisksAnswered, answerVars, Unlisted
  <1>4. ASSUME NEW n \in Nodes, Collect(n) PROVE DisksAnswered'
    <2>1. answer' = answer /\ stage' = "reports"
      BY <1>4 DEF Collect, answerVars
    <2> QED
      BY <1>4, <2>1, CollectCard DEF IInv, DisksAnswered, Unlisted
  <1> QED
    BY <1>1, <1>2, <1>3, <1>4, Steps
    DEF ClusterChanges, Start, AskVDisks, TaskCall, NodesRefused, Reply, vars, page,
        answerVars, Unlisted

\* A task leaves only by having its report taken in.
LEMMA TasksNext ==
    ASSUME IInv, [NodesNext]_vars PROVE TasksOK'
  <1>1. CASE Start
    BY <1>1 DEF Start, IInv, TypeOK, ClusterTypeOK, Fresh, TasksOK, world
  <1>2. CASE stage = "idle" /\ ~Start
    <2>1. UNCHANGED vars
      BY <1>2, IdleStays DEF IInv
    <2> QED
      BY <1>2, <2>1 DEF IInv, TasksOK, vars, page
  <1>3. CASE stage # "idle"
    <2>1. UNCHANGED <<known, reaches>> /\ known \subseteq Nodes
      BY <1>3, HistoryGrows DEF IInv, TypeOK, ClusterTypeOK
    <2>2. CASE UNCHANGED <<task, report, card, stage, reply>>
      BY <2>1, <2>2 DEF IInv, TasksOK, TakenIn
    <2>3. ASSUME NEW n \in Nodes, TaskCall(n) PROVE TasksOK'
      <3>1. task[n] # "none" /\ task'[n] # "none"
        BY <2>3 DEF TaskCall, NextCall, IInv, TypeOK
      <3>2. \A m \in Nodes \ {n} : task'[m] = task[m] /\ report'[m] = report[m]
        BY <2>3 DEF TaskCall, IInv, TypeOK
      <3>3. UNCHANGED <<stage, card, reply>>
        BY <2>3 DEF TaskCall
      <3> QED
        BY <2>1, <3>1, <3>2, <3>3 DEF IInv, TasksOK, TakenIn
    <2>4. ASSUME NEW n \in Nodes, Collect(n) PROVE TasksOK'
      <3>1. UNCHANGED <<stage, report, reply>> /\ stage = "reports" /\ task[n] = "end"
        BY <2>4 DEF Collect
      <3>2. \A m \in Nodes \ {n} : task'[m] = task[m]
        BY <2>4 DEF Collect, IInv, TypeOK
      <3>3. TakenIn(n)'
        BY <2>1, <2>4, <3>1, CollectCard DEF TakenIn
      <3>4. \A m \in Nodes : TakenIn(m) => TakenIn(m)'
        BY <2>1, <2>4, <3>1, CollectCard DEF TakenIn
      <3>5. reply' # 200
        BY <3>1 DEF IInv, TasksOK
      <3> QED
        BY <2>1, <3>1, <3>2, <3>3, <3>4, <3>5 DEF IInv, TasksOK
    <2>5. CASE VDisksAnswered \/ ListNodes \/ NodesRefused
      <3>1. stage \in {"vdisks", "nodes"} /\ task' = task
        BY <2>5 DEF VDisksAnswered, ListNodes, NodesRefused
      <3>2. \A n \in known : task[n] # "none"
        BY <1>3, <3>1 DEF IInv, TasksOK
      <3>3. reply' # 200
        BY <2>5, <3>1 DEF VDisksAnswered, ListNodes, NodesRefused, IInv, TasksOK
      <3> QED
        BY <2>1, <3>1, <3>2, <3>3 DEF TasksOK
    <2>6. CASE Reply
      <3>1. /\ stage = "reports" /\ stage' = "done"
            /\ \A n \in Nodes : task[n] = "none"
            /\ UNCHANGED <<task, report, card>>
        BY <2>6 DEF Reply
      <3> QED
        BY <2>1, <3>1 DEF IInv, TasksOK, TakenIn
    <2> QED
      BY <1>3, <2>2, <2>3, <2>4, <2>5, <2>6, Steps
      DEF ClusterChanges, Start, vars, page
  <1> QED
    BY <1>1, <1>2, <1>3

-----------------------------------------------------------------------------
(* Theorems *)

\* The invariant is inductive.
LEMMA InvariantHolds == NodesSpec => []IInv
  <1>1. NodesInit => IInv
    <2>1. NodesInit => Watching /\ Fresh /\ DisksAnswered /\ ReportIsItsOwn
      BY DEF NodesInit, Init, VDisksInit, Watching, Fresh, DisksAnswered, ReportIsItsOwn
    <2>2. NodesInit => ReportsOK /\ TasksOK
      BY DEF NodesInit, ReportsOK, VerdictSeen, TasksOK
    <2> QED
      BY <2>1, <2>2, TypeInit DEF IInv
  <1>2. IInv /\ [NodesNext]_vars => IInv'
    BY TypeNext, WatchingNext, FreshNext, ReportsNext, TasksNext, DisksNext, OwnNext
    DEF IInv
  <1> QED
    BY <1>1, <1>2, PTL DEF NodesSpec

\* The state of get_nodes is well-formed: the page never has a card for what is
\* no node, nor a virtual disk that the layout does not have.
THEOREM NodesPageTyped == NodesSpec => []TypeOK
  <1>1. IInv => TypeOK
    BY DEF IInv
  <1> QED
    BY <1>1, InvariantHolds, PTL

\* A node is shown as good or as bad by get_nodes on its own metrics of this
\* request only, whichever node answers at which client's address.
THEOREM ReportsAreOwn == NodesSpec => []ReportIsItsOwn
  <1>1. IInv => ReportIsItsOwn
    BY DEF IInv
  <1> QED
    BY <1>1, InvariantHolds, PTL

\* When the page is there, every report is in it.
LEMMA OfflineByInvariant == IInv => OfflineIsSeen
  <1> SUFFICES ASSUME IInv, reply = 200, NEW m \in DOMAIN card,
                      card[m].status = "offline", NEW n \in known, reaches[n] = m
               PROVE  m \in sawDown
    BY DEF OfflineIsSeen
  <1>1. n \in Nodes
    BY DEF IInv, TypeOK, ClusterTypeOK
  <1>2. stage = "done" /\ task[n] = "none"
    BY <1>1 DEF IInv, TasksOK
  <1>3. TakenIn(n)
    BY <1>2 DEF IInv, TasksOK
  <1>4. report[n] = "lost"
    BY <1>3 DEF TakenIn
  <1> QED
    BY <1>1, <1>4 DEF IInv, ReportsOK, VerdictSeen

\* A node is shown as offline by get_nodes only if it was down while the page
\* was made or no known client reaches it, in whichever order tasks end.
THEOREM OfflineWasSeen == NodesSpec => []OfflineIsSeen
  BY OfflineByInvariant, InvariantHolds, PTL

\* A replica that the answer calls good is backed by the history.
LEMMA GoodIsBacked ==
    ASSUME answer \in Complete, NEW v \in DOMAIN answer, NEW i \in DOMAIN Layout[v],
           answer[v].good[i]
    PROVE  SeenGood(Layout[v][i])
  <1>1. v \in DOMAIN Layout /\ answer[v] \in Judgements(Layout[v])
    BY DEF Complete
  <1>2. answer[v].good \in Verdicts(Layout[v])
    BY <1>1 DEF Judgements
  <1> QED
    BY <1>2 DEF Verdicts

\* A node is shown as offline by get_nodes beside a good replica on it only if
\* it has come or gone since the request began.
THEOREM ContradictionWasChange == NodesSpec => []ContradictionIsChange
  <1>1. IInv => ContradictionIsChange
    <2> SUFFICES ASSUME IInv, reply = 200, NEW m \in DOMAIN card,
                        NEW v \in card[m].vdisks, NEW i \in DOMAIN Layout[v],
                        card[m].status = "offline",
                        Layout[v][i].node = m, answer[v].good[i]
                 PROVE  m \in sawUp \cap sawDown
      BY DEF ContradictionIsChange
    <2>1. v \in DOMAIN answer
      BY DEF IInv, DisksAnswered
    <2>2. answer \in Complete
      BY <2>1 DEF IInv, TypeOK
    <2>3. SeenGood(Layout[v][i])
      BY <2>1, <2>2, GoodIsBacked
    <2>4. m \in sawUp /\ \E n \in known : reaches[n] = m
      BY <2>3 DEF SeenGood
    <2> QED
      BY <2>4, OfflineByInvariant DEF OfflineIsSeen
  <1> QED
    BY <1>1, InvariantHolds, PTL

=============================================================================
