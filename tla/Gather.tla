------------------------------- MODULE Gather -------------------------------
(***************************************************************************)
(* The cluster-wide summaries: /nodes/count, /disks/count, /nodes/rps and  *)
(* /nodes/space.  Each handler spawns one task per node of the BobClient,  *)
(* the task makes one or two calls in sequence, and the handler adds up    *)
(* the results in the order the tasks happen to finish (FuturesUnordered). *)
(* The nodes live on meanwhile: what they report may change between any    *)
(* two calls.                                                              *)
(***************************************************************************)
EXTENDS Health, Functions

CONSTANTS
    Nodes,      \* the keys of BobClient::cluster
    Conditions, \* what a node may answer: [metrics, disks, space]
    Failed,     \* a call that ends in Err
    Denied      \* get_disks answered 403 (GetDisksResponse::PermissionDenied)

\* A node that is up answers with values; the space and metrics calls turn
\* every status but 200 into Err, so only disks can be Denied.
ASSUME GatherAssumption ==
    /\ IsFiniteSet(Nodes)
    /\ Cardinality(Nodes) <= MaxWord
    /\ \A c \in Conditions :
         /\ c.metrics # Failed => IsSnapshot(c.metrics)
         /\ c.space # Failed =>
              /\ c.space.total \in Word
              /\ c.space.free \in Word
              /\ c.space.occupied \in Word
         /\ c.disks \notin {Failed, Denied} =>
              /\ IsFiniteSet(DOMAIN c.disks)
              /\ Cardinality(DOMAIN c.disks) <= MaxWord

Routes == {"/nodes/count", "/disks/count", "/nodes/rps", "/nodes/space"}

\* The calls of a route's tasks, in their order.
Calls(route) ==
    CASE route = "/nodes/count" -> <<"metrics">>
      [] route = "/disks/count" -> <<"disks", "space">>
      [] route = "/nodes/rps" -> <<"metrics">>
      [] route = "/nodes/space" -> <<"space">>

\* The fields of a route's answer.
Fields(route) ==
    CASE route = "/nodes/count" -> {"good", "bad", "offline"}
      [] route = "/disks/count" -> {"good", "bad", "offline"}
      [] route = "/nodes/rps" -> Rates
      [] route = "/nodes/space" -> {"total", "free", "used", "occupied"}

Zero(route) == [f \in Fields(route) |-> 0]
One(route, field) == [f \in Fields(route) |-> IF f = field THEN 1 ELSE 0]

-----------------------------------------------------------------------------
(* What one node adds to the answer *)

NodeShare(metrics) ==
    IF metrics = Failed THEN One("/nodes/count", "offline")
    ELSE IF IsBadNode(Typed(metrics)) THEN One("/nodes/count", "bad")
    ELSE One("/nodes/count", "good")

\* Only active disks are counted; a node that does not list its disks counts
\* as one offline disk, unless its space is not known either.
DiskShare(disks, space) ==
    IF space = Failed THEN Zero("/disks/count")
    ELSE IF disks \in {Failed, Denied} THEN One("/disks/count", "offline")
    ELSE [f \in Fields("/disks/count") |->
            Cardinality({i \in FirstOfName(disks) :
                /\ disks[i].is_active
                /\ DiskStatusOf(disks[i], space) = f})]

RpsShare(metrics) ==
    IF metrics = Failed THEN Zero("/nodes/rps")
    ELSE [f \in Rates |-> Typed(metrics)[f]]

\* Mutant of SpaceShare: a saturating subtraction.
SpaceShareSaturating(space) ==
    IF space = Failed THEN Zero("/nodes/space")
    ELSE [total |-> space.total, free |-> space.free,
          used |-> IF space.free > space.total THEN 0 ELSE space.total - space.free,
          occupied |-> space.occupied]

SpaceShare(space) ==
    IF space = Failed THEN Zero("/nodes/space")
    ELSE [total |-> space.total, free |-> space.free,
          used |-> Minus(space.total, space.free),
          occupied |-> space.occupied]

\* answers[i] is the result of the route's i-th call.
Share(route, answers) ==
    CASE route = "/nodes/count" -> NodeShare(answers[1])
      [] route = "/disks/count" -> DiskShare(answers[1], answers[2])
      [] route = "/nodes/rps" -> RpsShare(answers[1])
      [] route = "/nodes/space" -> SpaceShare(answers[1])

\* Mutant of Add: a saturating addition.
AddSaturating(total, share) ==
    [f \in DOMAIN total |->
        IF total[f] + share[f] > MaxWord THEN MaxWord ELSE total[f] + share[f]]

Add(total, share) == [f \in DOMAIN total |-> Plus(total[f], share[f])]

-----------------------------------------------------------------------------
VARIABLES
    cond,       \* what each node answers at present
    route,      \* the route being handled, or the last one
    phase,      \* "idle", "gathering" or "done"
    answers,    \* what each node's task has got so far
    consumed,   \* nodes whose task the handler has taken in
    sum,        \* the handler's totals
    during      \* history: conditions each node had since the request began

vars == <<cond, route, phase, answers, consumed, sum, during>>

Init ==
    /\ cond \in [Nodes -> Conditions]
    /\ route \in Routes
    /\ phase = "idle"
    /\ answers = [n \in Nodes |-> <<>>]
    /\ consumed = {}
    /\ sum = Zero(route)
    /\ during = [n \in Nodes |-> {}]

\* A node changes by itself.
Change(n) ==
    /\ phase = "gathering"
    /\ \E c \in Conditions :
         /\ cond' = [cond EXCEPT ![n] = c]
         /\ during' = [during EXCEPT ![n] = @ \cup {c}]
    /\ UNCHANGED <<route, phase, answers, consumed, sum>>

\* Mutant of Start: the totals of the last request are kept.
StartKeepsSum(rt) ==
    /\ phase = "idle"
    /\ cond' \in [Nodes -> Conditions]
    /\ route' = rt
    /\ phase' = "gathering"
    /\ answers' = [n \in Nodes |-> <<>>]
    /\ consumed' = {}
    /\ sum' = sum
    /\ during' = [n \in Nodes |-> {cond'[n]}]

\* A request arrives; the nodes may have changed since the last one.
Start(rt) ==
    /\ phase = "idle"
    /\ cond' \in [Nodes -> Conditions]
    /\ route' = rt
    /\ phase' = "gathering"
    /\ answers' = [n \in Nodes |-> <<>>]
    /\ consumed' = {}
    /\ sum' = Zero(rt)
    /\ during' = [n \in Nodes |-> {cond'[n]}]

Finished(n) == Len(answers[n]) = Len(Calls(route))

\* Mutant of Call: the second call of a task is never made.
CallOnce(n) ==
    /\ phase = "gathering"
    /\ answers[n] = <<>>
    /\ answers' = [answers EXCEPT ![n] = <<cond[n][Calls(route)[1]]>>]
    /\ UNCHANGED <<cond, route, phase, consumed, sum, during>>

\* The task of node n makes its next call.
Call(n) ==
    /\ phase = "gathering"
    /\ ~Finished(n)
    /\ answers' = [answers EXCEPT ![n] =
                     Append(@, cond[n][Calls(route)[Len(@) + 1]])]
    /\ UNCHANGED <<cond, route, phase, consumed, sum, during>>

\* Mutant of Consume: a finished task stays in the set of tasks.
ConsumeAgain(n) ==
    /\ phase = "gathering"
    /\ Finished(n)
    /\ consumed' = consumed \cup {n}
    /\ sum' = Add(sum, Share(route, answers[n]))
    /\ UNCHANGED <<cond, route, phase, answers, during>>

\* The handler's loop takes in a finished task.
Consume(n) ==
    /\ phase = "gathering"
    /\ Finished(n)
    /\ n \notin consumed
    /\ consumed' = consumed \cup {n}
    /\ sum' = Add(sum, Share(route, answers[n]))
    /\ UNCHANGED <<cond, route, phase, answers, during>>

\* Mutant of Reply: the loop ends as soon as no finished task is left.
ReplyEarly ==
    /\ phase = "gathering"
    /\ consumed # {}
    /\ \A n \in Nodes : Finished(n) => n \in consumed
    /\ phase' = "done"
    /\ UNCHANGED <<cond, route, answers, consumed, sum, during>>

\* The loop ends when there is no task left.
Reply ==
    /\ phase = "gathering"
    /\ consumed = Nodes
    /\ phase' = "done"
    /\ UNCHANGED <<cond, route, answers, consumed, sum, during>>

\* The handler's locals are gone; tasks that still run have no reader.
Drop ==
    /\ phase' = "idle"
    /\ answers' = [n \in Nodes |-> <<>>]
    /\ consumed' = {}
    /\ sum' = Zero(route)
    /\ during' = [n \in Nodes |-> {}]
    /\ UNCHANGED <<cond, route>>

Close == phase = "done" /\ Drop

\* The browser disconnects before the answer.
Disconnect == phase = "gathering" /\ Drop

Next ==
    \/ \E n \in Nodes : Change(n) \/ Call(n) \/ Consume(n)
    \/ \E rt \in Routes : Start(rt)
    \/ Reply \/ Close \/ Disconnect

Spec == Init /\ [][Next]_vars

\* tokio runs some task or the handler while any of them can run, and a node's
\* call ends: a connection that is refused, cut or silent ends in Err (see
\* ApiCall for the case it does not).
FairSpec == Spec /\ WF_vars(Reply \/ \E n \in Nodes : Call(n) \/ Consume(n))

-----------------------------------------------------------------------------
(* Properties *)

\* What a call may be answered.
Results(call) == {c[call] : c \in Conditions}

AllResults == UNION {Results(call) : call \in {"metrics", "disks", "space"}}

\* Answers come from nodes, and in the order of the route's calls.
AnswersOK ==
    \A n \in Nodes : \A i \in 1 .. Len(answers[n]) :
        answers[n][i] \in Results(Calls(route)[i])

\* Totals have the fields of the current route and stay within a word; a task
\* is consumed only when it has all its answers.
TypeOK ==
    /\ cond \in [Nodes -> Conditions]
    /\ route \in Routes
    /\ phase \in {"idle", "gathering", "done"}
    /\ consumed \subseteq Nodes
    /\ sum \in [Fields(route) -> Word]
    /\ answers \in [Nodes -> Seq(AllResults)]
    /\ \A n \in Nodes : Len(answers[n]) <= Len(Calls(route))
    /\ AnswersOK
    /\ \A n \in consumed : Finished(n)
    /\ during \in [Nodes -> SUBSET Conditions]

\* Every task taken in by /nodes/count is one node, good, bad or offline:
\* none is lost and none is counted twice, whatever the order of completion.
Tally ==
    route = "/nodes/count" =>
        sum["good"] + sum["bad"] + sum["offline"] = Cardinality(consumed)

\* /nodes/count accounts for the whole cluster when it answers.
AllNodesCounted ==
    phase = "done" /\ route = "/nodes/count" =>
        sum["good"] + sum["bad"] + sum["offline"] = Cardinality(Nodes)

\* /nodes/space stays consistent, also when its totals wrap: used and free
\* space make up the total space.
SpaceBalance ==
    route = "/nodes/space" => sum["total"] = Plus(sum["free"], sum["used"])

\* What a task is answered if node n is in condition seen[i] at its i-th call.
AnswersIn(seen) ==
    [i \in DOMAIN Calls(route) |-> seen[i][Calls(route)[i]]]

\* The choices of a condition for each call, out of those the node had while
\* the request was handled.
Histories == {h \in [Nodes -> [1 .. 2 -> Conditions]] :
                \A n \in Nodes, i \in 1 .. 2 : h[n][i] \in during[n]}

\* An answer is the sum, modulo the word, of one share per node, and each
\* share is made of things that were true of the node during the request.
\* It need not be a picture of the cluster at any one moment.
AnswerIsOfThisRequest ==
    phase = "done" =>
        \E h \in Histories : \A f \in Fields(route) :
            sum[f] = SumFunction([n \in Nodes |-> Share(route, AnswersIn(h[n]))[f]])
                     % (MaxWord + 1)

\* A handler that is not abandoned answers: the loop waits for every task, so
\* this needs every call of every task to end.
HandlerAnswers == phase = "gathering" ~> phase # "gathering"

\* The disks a node lists, each name once.
Listed(c) ==
    IF c.disks \in {Failed, Denied} \/ c.space = Failed THEN 0
    ELSE Cardinality(FirstOfName(c.disks))

\* The doc of get_disks_count: "Returns count of Physical Disks per status".
\* With nodes that stay as they are and answer, every disk they list should be
\* in one of the counts; inactive disks are in none.
DisksAllCounted ==
    phase = "done" /\ route = "/disks/count"
    /\ (\A n \in Nodes : during[n] = {cond[n]}) =>
        sum["good"] + sum["bad"] + sum["offline"]
            >= SumFunction([n \in Nodes |-> Listed(cond[n])])

=============================================================================
