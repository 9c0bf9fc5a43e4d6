------------------------------ MODULE NodesPage ------------------------------
(***************************************************************************)
(* The /nodes page (get_nodes).  Its parts are of different moments and of *)
(* different calls: the answer of get_vdisks, as VDisksAnswer promises it; *)
(* a later list of the nodes; and the reports of tasks that have run since *)
(* the request began, one with each client, written into the list under    *)
(* the name that the node at the other end gives itself.                   *)
(***************************************************************************)
EXTENDS VDisksAnswer

VARIABLES
    fit,        \* nodes whose metrics show no problem (see Health)
    sawFit, sawUnfit,   \* history: nodes seen fit, unfit during the request
    stage,      \* the handler's position
    task,       \* the reports task of each client
    report,     \* what a task has got: "none", "good" or "bad" for the verdict
                \* on the metrics, "lost" once a call has failed
    card,       \* res: [status, vdisks], by the name of the node in the list
    reply       \* the status code of the page, 0 before there is one

page == <<stage, task, report, card, reply>>
vars == <<world, history, answerVars, fit, sawFit, sawUnfit, page>>

NodesInit ==
    /\ Init
    /\ fit \in SUBSET Nodes
    /\ sawFit = {} /\ sawUnfit = {}
    /\ stage = "idle"
    /\ task = [n \in Nodes |-> "none"]
    /\ report = [n \in Nodes |-> "none"]
    /\ card = [m \in {} |-> {}]
    /\ reply = 0

\* A node or a disk comes or goes, or the metrics of a node pass a threshold.
ClusterChanges ==
    /\ stage \notin {"idle", "done"}
    /\ \/ Change /\ UNCHANGED fit
       \/ /\ changes < MaxChanges
          /\ changes' = changes + 1
          /\ \E n \in Nodes : fit' = Flip(fit, n)
          /\ UNCHANGED <<up, active, known, members, reaches, history>>
    /\ sawFit' = sawFit \cup fit'
    /\ sawUnfit' = sawUnfit \cup (Nodes \ fit')
    /\ UNCHANGED <<answerVars, page>>

outside == <<world, history, fit, sawFit, sawUnfit>>

-----------------------------------------------------------------------------
(* The tasks: get_status, get_metrics and get_space_info, with every client *)

NextCall == [status |-> "metrics", metrics |-> "space", space |-> "end"]

\* Mutant of TaskCall: a task waits for a node that is gone.
TaskCallStuck(n) ==
    /\ task[n] \in DOMAIN NextCall /\ Answers(n)
    /\ task' = [task EXCEPT ![n] = NextCall[@]]
    /\ report' = [report EXCEPT ![n] =
         IF task[n] # "metrics" THEN @ ELSE IF reaches[n] \in fit THEN "good" ELSE "bad"]
    /\ UNCHANGED <<outside, answerVars, stage, card, reply>>

\* Mutant of TaskCall: metrics that are not answered are taken for defaults.
TaskCallDefault(n) ==
    /\ task[n] \in DOMAIN NextCall
    /\ task' = [task EXCEPT ![n] = NextCall[@]]
    /\ report' = [report EXCEPT ![n] =
         CASE task[n] = "metrics" ->
                IF Answers(n) /\ reaches[n] \in fit THEN "good" ELSE "bad"
           [] OTHER -> @]
    /\ UNCHANGED <<outside, answerVars, stage, card, reply>>

\* Every call is made, whatever became of those before it; a report counts
\* only if all three were answered.
TaskCall(n) ==
    /\ task[n] \in DOMAIN NextCall
    /\ task' = [task EXCEPT ![n] = NextCall[@]]
    /\ report' = [report EXCEPT ![n] =
         IF @ = "lost" \/ ~Answers(n) THEN "lost"
         ELSE IF task[n] # "metrics" THEN @
         ELSE IF reaches[n] \in fit THEN "good" ELSE "bad"]
    /\ UNCHANGED <<outside, answerVars, stage, card, reply>>

-----------------------------------------------------------------------------
(* The handler *)

\* The tasks are spawned, then get_vdisks is called.
Start ==
    /\ stage = "idle"
    /\ stage' = "vdisks"
    /\ task' = [n \in Nodes |-> IF n \in known THEN "status" ELSE "none"]
    /\ Watch
    /\ sawFit' = fit
    /\ sawUnfit' = Nodes \ fit
    /\ AskVDisks
    /\ UNCHANGED <<world, fit, report, card, reply>>

\* Every error of get_vdisks becomes RequestFailed; the tasks run on, detached.
VDisksAnswered ==
    /\ stage = "vdisks"
    /\ \/ AnswerVDisks /\ stage' = "nodes" /\ UNCHANGED reply
       \/ RefuseVDisks /\ stage' = "done" /\ reply' = 404
    /\ UNCHANGED <<outside, task, report, card>>

\* What Bob may say are the virtual disks of a node: of the answer, or newer.
Ids == DOMAIN Layout \cup {0}

\* Mutant of ListNodes: with virtual disks that the earlier answer does not have.
ListNodesUnfiltered ==
    /\ stage = "nodes"
    /\ \E listed \in SUBSET Nodes : \E ids \in [listed -> SUBSET Ids] :
         card' = [m \in listed |-> [status |-> "offline", vdisks |-> ids[m]]]
    /\ stage' = "reports"
    /\ UNCHANGED <<outside, answerVars, task, report, reply>>

\* request_nodes: the nodes that are members now, and their virtual disks as
\* far as the earlier answer has them.  No report is looked at yet.
ListNodes ==
    /\ stage = "nodes"
    /\ \E listed \in SUBSET Nodes : \E ids \in [listed -> SUBSET Ids] :
         card' = [m \in listed |-> [status |-> "offline",
                                    vdisks |-> ids[m] \cap DOMAIN answer]]
    /\ stage' = "reports"
    /\ UNCHANGED <<outside, answerVars, task, report, reply>>

NodesRefused ==
    /\ stage = "nodes"
    /\ stage' = "done"
    /\ reply' \in {403, 404}
    /\ UNCHANGED <<outside, answerVars, task, report, card>>

\* Mutant of Written: under the name of the client.
WrittenByClient(n) ==
    IF report[n] = "lost" \/ n \notin DOMAIN card THEN card
    ELSE [card EXCEPT ![n].status = report[n]]

\* The report of client n goes where the node at the other end belongs.
Written(n) ==
    IF report[n] = "lost" \/ reaches[n] \notin DOMAIN card THEN card
    ELSE [card EXCEPT ![reaches[n]].status = report[n]]

Collect(n) ==
    /\ stage = "reports"
    /\ task[n] = "end"
    /\ task' = [task EXCEPT ![n] = "none"]
    /\ card' = Written(n)
    /\ UNCHANGED <<outside, answerVars, stage, report, reply>>

\* Mutant of Reply: what is ready is enough.
ReplyReady ==
    /\ stage = "reports"
    /\ \A n \in Nodes : task[n] # "end"
    /\ stage' = "done"
    /\ reply' = 200
    /\ UNCHANGED <<outside, answerVars, task, report, card>>

Reply ==
    /\ stage = "reports"
    /\ \A n \in Nodes : task[n] = "none"
    /\ stage' = "done"
    /\ reply' = 200
    /\ UNCHANGED <<outside, answerVars, task, report, card>>

\* tokio runs some task or the handler while any of them can run, and their
\* calls end (see ApiCall); get_vdisks answers (see VDisks).
Progress ==
    \/ \E n \in Nodes : TaskCall(n) \/ Collect(n)
    \/ VDisksAnswered \/ ListNodes \/ NodesRefused \/ Reply

NodesNext == ClusterChanges \/ Start \/ Progress

NodesSpec == NodesInit /\ [][NodesNext]_vars

FairSpec == NodesSpec /\ WF_vars(Progress)

-----------------------------------------------------------------------------
(* Properties *)

Card == [status : {"good", "bad", "offline"}, vdisks : SUBSET DOMAIN Layout]

TypeOK ==
    /\ ClusterTypeOK
    /\ fit \subseteq Nodes /\ sawFit \subseteq Nodes /\ sawUnfit \subseteq Nodes
    /\ asking \in {"idle", "asking", "answered"}
    /\ asking = "asking" <=> stage = "vdisks"
    /\ code \in {0, 200, 403, 404}
    /\ answer \in Complete \cup {<<>>}
    /\ stage \in {"idle", "vdisks", "nodes", "reports", "done"}
    /\ task \in [Nodes -> {"none", "end"} \cup DOMAIN NextCall]
    /\ \A n \in Nodes \ known : task[n] = "none"
    /\ report \in [Nodes -> {"none", "good", "bad", "lost"}]
    /\ DOMAIN card \subseteq Nodes
    /\ card \in [DOMAIN card -> Card]
    /\ reply \in {0, 200, 403, 404}

\* A node is shown as good or as bad only if it answered during this request,
\* with metrics that were so: never on the word of another node that answers
\* at the address its client was given at login.
ReportIsItsOwn ==
    \A m \in DOMAIN card :
        /\ card[m].status = "good" => m \in sawUp \cap sawFit
        /\ card[m].status = "bad" => m \in sawUp \cap sawUnfit

\* No node is shown as offline for the order in which reports come in: it was
\* down during the request, or no known client reaches it.
OfflineIsSeen ==
    reply = 200 =>
        \A m \in DOMAIN card : card[m].status = "offline" =>
            m \in sawDown \/ \A n \in known : reaches[n] # m

\* The page may contradict itself, a node being shown as offline beside a good
\* replica on it, only where the node has come or gone while it was made.
ContradictionIsChange ==
    reply = 200 =>
        \A m \in DOMAIN card : \A v \in card[m].vdisks : \A i \in DOMAIN Layout[v] :
            /\ card[m].status = "offline"
            /\ Layout[v][i].node = m /\ answer[v].good[i]
            => m \in sawUp \cap sawDown

\* The handler answers, if every call does.
HandlerAnswers == stage = "vdisks" ~> stage = "done"

=============================================================================
