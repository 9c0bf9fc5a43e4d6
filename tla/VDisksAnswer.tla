---------------------------- MODULE VDisksAnswer ----------------------------
(***************************************************************************)
(* What get_vdisks promises to a handler that calls it, however it goes    *)
(* about it: an answer about the whole layout in which every replica is    *)
(* judged by what was so at some moment since the call, or a refusal.      *)
(* VDisks implements it and NodesPage builds upon it.                      *)
(***************************************************************************)
EXTENDS Cluster

VARIABLES
    asking,     \* "idle", "asking", "answered"
    answer,     \* of each virtual disk: [status, good: of each replica]
    code        \* the status code, 0 before there is one

answerVars == <<asking, answer, code>>

VDisksInit ==
    /\ asking = "idle"
    /\ answer = <<>>
    /\ code = 0

\* The verdicts that may be given on the replicas of a virtual disk.
Verdicts(replicas) ==
    {good \in [DOMAIN replicas -> BOOLEAN] :
        \A i \in DOMAIN replicas :
            IF good[i] THEN SeenGood(replicas[i]) ELSE SeenOffline(replicas[i])}

\* Good without an offline replica, offline if it has replicas and all are
\* offline, bad otherwise.
StatusBy(good) ==
    IF \A i \in DOMAIN good : good[i] THEN "good"
    ELSE IF \A i \in DOMAIN good : ~good[i] THEN "offline" ELSE "bad"

Judgements(replicas) ==
    {[status |-> StatusBy(good), good |-> good] : good \in Verdicts(replicas)}

\* Complete answers.
Complete ==
    {all \in [DOMAIN Layout -> UNION {Judgements(Layout[v]) : v \in DOMAIN Layout}] :
        \A v \in DOMAIN Layout : all[v] \in Judgements(Layout[v])}

AskVDisks ==
    /\ asking = "idle"
    /\ asking' = "asking"
    /\ UNCHANGED <<answer, code>>

AnswerVDisks ==
    /\ asking = "asking"
    /\ asking' = "answered"
    /\ code' = 200
    /\ answer' \in Complete

RefuseVDisks ==
    /\ asking = "asking"
    /\ asking' = "answered"
    /\ code' \in {403, 404}
    /\ UNCHANGED answer

-----------------------------------------------------------------------------
(* The promise as a specification: asked once, while the cluster changes *)

Init == ClusterInit /\ VDisksInit

Next ==
    \/ AskVDisks /\ Watch /\ UNCHANGED world
    \/ asking = "asking" /\ Change /\ UNCHANGED answerVars
    \/ (AnswerVDisks \/ RefuseVDisks) /\ UNCHANGED <<world, history>>

Spec == Init /\ [][Next]_<<world, history, answerVars>>

=============================================================================
