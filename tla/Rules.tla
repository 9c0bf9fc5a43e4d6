------------------------------- MODULE Rules -------------------------------
(***************************************************************************)
(* The parts of the backend that compute without waiting: the judgement of *)
(* the reports of a node (NodeReports), and on one input at a time the     *)
(* disk table of its page (Health), the clients made at login              *)
(* (NodeClients) and the text form of Bob's data (QueryForm).              *)
(***************************************************************************)
EXTENDS NodeReports, NodeClients, QueryForm

CONSTANTS
    Silent,     \* the report in which inputs are looked at: none depends on it
    Tables,     \* inputs of the disk table: [disks, space]
    Deployments,\* inputs of the clients: [listed, port, sites]
    Forms,      \* inputs of to_string: [fields, object]
    Texts       \* inputs of from_str: [fields, text]

\* A node lists its disks and its space in words; two nodes do not serve their
\* API at one and the same place.
ASSUME TablesAssumption ==
    \A table \in Tables :
        /\ table.disks \in Seq(ToSet(table.disks))
        /\ table.space.total \in Word
        /\ \A name \in DOMAIN table.space.byDisk : table.space.byDisk[name] \in Word

ASSUME DeploymentsAssumption ==
    \A deployment \in Deployments :
        /\ deployment.listed \in Seq([name : DOMAIN deployment.sites, address : Address])
        /\ \A m, n \in DOMAIN deployment.sites :
              deployment.sites[m] = deployment.sites[n] => m = n
        /\ Nowhere \notin DOMAIN deployment.sites

\* What is printed is an object of its type; a text has one piece at least.
ASSUME FormsAssumption ==
    \A form \in Forms : form.fields \in Objects /\ IsObject(form.fields, form.object)

ASSUME TextsAssumption ==
    \A form \in Texts :
        form.fields \in Objects /\ form.text \in Seq(Pieces) /\ form.text # <<>>

VARIABLES kind, input   \* "none", "table", "deployment", "form" or "text"

RulesInit == Init /\ kind = "none" /\ input = <<>>

JudgeReport == kind = "none" /\ Report /\ UNCHANGED <<kind, input>>

Given(some, inputs) ==
    /\ kind = "none" /\ report = Silent
    /\ kind' = some
    /\ input' \in inputs
    /\ UNCHANGED report

GivenTable == Given("table", Tables)
GivenDeployment == Given("deployment", Deployments)
GivenForm == Given("form", Forms)
GivenText == Given("text", Texts)

Done ==
    /\ kind # "none"
    /\ kind' = "none" /\ input' = <<>>
    /\ UNCHANGED report

RulesNext ==
    JudgeReport \/ GivenTable \/ GivenDeployment \/ GivenForm \/ GivenText \/ Done

RulesSpec == RulesInit /\ [][RulesNext]_<<report, kind, input>>

-----------------------------------------------------------------------------
\* The disk table has one row for each name, that of its first entry.  A disk
\* without any space reported is offline; another one is bad if and only if
\* less than a tenth of the node's space is left beside it, as long as no more
\* is occupied than there is: so of two disks the fuller one is never better.
DiskRows ==
    kind = "table" =>
        LET rows == ProccessDisks(input.disks, input.space)
            total == input.space.total IN
        /\ \A i \in DOMAIN input.disks :
            Cardinality({j \in DOMAIN rows : rows[j].name = input.disks[i].name}) = 1
        /\ \A i \in DOMAIN rows, j \in DOMAIN input.disks :
            rows[i].name = input.disks[j].name =>
                i <= j /\ rows[i].path = input.disks[i].path
        /\ \A i \in DOMAIN rows :
            /\ rows[i].status = "offline" <=> rows[i].name \notin DOMAIN input.space.byDisk
            /\ total > 0 /\ rows[i].used_space <= total /\ rows[i].status # "offline" =>
                (rows[i].status = "bad" <=> 10 * (total - rows[i].used_space) < total)
        /\ \A i, j \in DOMAIN rows :
            /\ rows[i].status = "bad" /\ rows[j].status # "offline"
            /\ rows[i].used_space <= rows[j].used_space /\ rows[j].used_space <= total
            => rows[j].status = "bad"

\* Clients of nodes reach their own nodes, or not, as NodeClients says: the
\* port of the login stands in for the port that Bob lists.
ClientsReachNodes ==
    kind = "deployment" => ReachesItself(input.listed, input.port, input.sites)

\* to_string followed by from_str gives an object back exactly when nothing of
\* it gets lost in the text, and whatever from_str reads has a normal form.
TextFormsAgree ==
    /\ kind = "form" => ComesBack(input.fields, input.object)
    /\ kind = "text" => IsSettled(input.fields, input.text)
=============================================================================
