------------------------------- MODULE ApiCall -------------------------------
(***************************************************************************)
(* One call of the Bob HTTP client (connector/client.rs): the request, the *)
(* wait for the head of the response under the request timeout, the read   *)
(* of the body, and the typed result; and what the services make of that   *)
(* result (services/methods.rs).                                           *)
(*                                                                         *)
(* Bob answers when and how it likes: late, with any status code, with the *)
(* body of another endpoint, with half a body or none.                     *)
(***************************************************************************)
EXTENDS Integers

CONSTANTS
    Timeout,    \* RequestTimeout, in ticks
    Horizon,    \* ticks after which the model's clock stops
    Codes       \* status codes Bob answers with

ASSUME TimeAssumption ==
    /\ Timeout \in Nat
    /\ Horizon \in Nat
    /\ Horizon > Timeout

-----------------------------------------------------------------------------
(* The endpoints *)

\* Endpoints whose 403 has a body that is parsed, and those whose 403 has none.
DenyWithBody == {"alienDir", "disks", "partition", "partitions", "records",
                 "replicasLocalDirs", "vdisk"}
DenyBare == {"nodes", "vdisks", "configuration"}
OnlyOk == {"metrics", "space", "status", "version"}
Endpoints == DenyWithBody \cup DenyBare \cup OnlyOk

\* Endpoints that know 404.
MayBeMissing == {"partition", "partitions", "records", "replicasLocalDirs",
                 "vdisk"}

\* Mutant of Variant: codes the endpoint does not know are passed on.
VariantUnknown(endpoint, code) ==
    CASE code = 200 -> "data"
      [] code = 403 /\ endpoint \notin OnlyOk -> "denied"
      [] code = 404 /\ endpoint \in MayBeMissing -> "notFound"
      [] code = 406 /\ endpoint = "alienDir" -> "notAcceptable"
      [] OTHER -> "unknown"

\* Mutant of Variant: every refusal is taken for a 403.
VariantRefused(endpoint, code) ==
    CASE code = 200 -> "data"
      [] code # 200 /\ endpoint \notin OnlyOk -> "denied"
      [] OTHER -> "error"

\* The variant of the endpoint's response enum for a status code; "error" is
\* err_from_code.
Variant(endpoint, code) ==
    CASE code = 200 -> "data"
      [] code = 403 /\ endpoint \notin OnlyOk -> "denied"
      [] code = 404 /\ endpoint \in MayBeMissing -> "notFound"
      [] code = 406 /\ endpoint = "alienDir" -> "notAcceptable"
      [] OTHER -> "error"

\* Whether the client must read the body before it has a result.
ReadsBody(endpoint, code) == ~(code = 403 /\ endpoint \in DenyBare)

-----------------------------------------------------------------------------
(* Bodies, and what serde_json makes of them.  The name of a type stands for  *)
(* JSON in its shape; the texts no type can be read from are one body here.   *)

\* Types of which every field is an Option, and those with a required field.
Open == {"Dir", "Partition", "VDiskPartitions", "VersionInfo",
         "NodeConfiguration", "StatusExt"}
Closed == {"MetricsSnapshotModel", "Node", "SpaceInfo", "VDisk", "count",
           "DiskStates", "Nodes", "VDisks"}

Objects == Open \cup {"MetricsSnapshotModel", "Node", "SpaceInfo", "VDisk",
                      "otherObject"}
Lists == {"DiskStates", "Nodes", "VDisks", "Dirs", "otherObjects", "noItems"}
Unreadable == {"otherText", "notUtf8", "cut"}
Bodies == Objects \cup Lists \cup {"count"} \cup Unreadable

\* What each endpoint's handler of 200 asks serde for.
DataType ==
    [alienDir |-> "Dir", disks |-> "DiskStates",
     metrics |-> "MetricsSnapshotModel", nodes |-> "Nodes",
     partition |-> "Partition", partitions |-> "VDiskPartitions",
     records |-> "count", replicasLocalDirs |-> "Dirs", space |-> "SpaceInfo",
     status |-> "Node", vdisk |-> "VDisk", vdisks |-> "VDisks",
     version |-> "VersionInfo", configuration |-> "NodeConfiguration"]

\* The type a body is read as: every refusal is a StatusExt.
ReadAs(variant, e) == IF variant = "data" THEN DataType[e] ELSE "StatusExt"

\* Mutant of DecodesAs: required fields that are missing get a default.
DecodesByDefault(type, b) ==
    \/ b = type
    \/ type \in Objects /\ b \in Objects
    \/ type \in Lists /\ b \in Lists

\* serde skips the fields it does not know and leaves an absent Option None, so
\* an Open type is read from any object (no two of the types here have a field
\* of one name and two types), and an empty list is a list of anything.
DecodesAs(type, b) ==
    \/ b = type
    \/ type \in Open /\ b \in Objects
    \/ type = "Dirs" /\ b \in Lists
    \/ type \in Lists /\ b = "noItems"

\* handle_response_json, and err_from_code, whose result does not depend on
\* whether its body could be read.
Decode(e, c, b) ==
    LET variant == Variant(e, c) IN
    IF variant # "error" /\ DecodesAs(ReadAs(variant, e), b)
      THEN variant
      ELSE "error"

-----------------------------------------------------------------------------
VARIABLES
    step,       \* "idle", "sent", "reading" or "done"
    endpoint,   \* the endpoint of the current call
    wire,       \* what Bob has sent of its response: "nothing", "head", "all"
    code,       \* the status code of the response, once there is a head
    body,       \* the body of the response, cut until it has ended
    elapsed,    \* ticks since the request was sent
    result      \* the variant the caller got, "error", or "none"

NoCode == 0

vars == <<step, endpoint, wire, code, body, elapsed, result>>

Init ==
    /\ step = "idle"
    /\ endpoint \in Endpoints
    /\ wire = "nothing"
    /\ code = NoCode
    /\ body = "cut"
    /\ elapsed = 0
    /\ result = "none"

\* form_get_request fails for a base path or a header that cannot be built;
\* otherwise the request goes out.
Call(e) ==
    /\ step \in {"idle", "done"}
    /\ endpoint' = e
    /\ wire' = "nothing"
    /\ code' = NoCode
    /\ body' = "cut"
    /\ elapsed' = 0
    /\ \/ step' = "sent" /\ result' = "none"
       \/ step' = "done" /\ result' = "error"

Done(outcome) == step' = "done" /\ result' = outcome

\* tokio::time::timeout around the service call: it ends with the head of the
\* response, an error of the connection, or the timeout.
Head ==
    /\ step = "sent"
    /\ wire # "nothing"
    /\ IF ReadsBody(endpoint, code)
         THEN step' = "reading" /\ UNCHANGED result
         ELSE Done(Variant(endpoint, code))
    /\ UNCHANGED <<endpoint, wire, code, body, elapsed>>

ConnectionError ==
    /\ step = "sent"
    /\ wire = "nothing"
    /\ Done("error")
    /\ UNCHANGED <<endpoint, wire, code, body, elapsed>>

\* Mutant of Expire: the request is sent again, with a new limit.
ExpireRetries ==
    /\ step = "sent"
    /\ elapsed >= Timeout
    /\ elapsed' = 0
    /\ UNCHANGED <<step, endpoint, wire, code, body, result>>

Expire ==
    /\ step = "sent"
    /\ elapsed >= Timeout
    /\ Done("error")
    /\ UNCHANGED <<endpoint, wire, code, body, elapsed>>

\* Mutant of Body: after a body that does not decode the call is made again.
BodyRetries ==
    /\ step = "reading"
    /\ wire = "all"
    /\ IF Decode(endpoint, code, body) # "error"
         THEN /\ Done(Decode(endpoint, code, body))
              /\ UNCHANGED <<endpoint, wire, code, body, elapsed>>
         ELSE /\ step' = "sent" /\ wire' = "nothing" /\ elapsed' = 0
              /\ code' = NoCode /\ body' = "cut"
              /\ UNCHANGED <<endpoint, result>>

\* The body is read to its end, with no limit of time.
Body ==
    /\ step = "reading"
    /\ wire = "all"
    /\ Done(Decode(endpoint, code, body))
    /\ UNCHANGED <<endpoint, wire, code, body, elapsed>>

\* Bob, which also answers calls that nobody waits for any more.
BobSendsHead ==
    /\ step # "idle"
    /\ wire = "nothing"
    /\ wire' = "head"
    /\ code' \in Codes
    /\ UNCHANGED <<step, endpoint, body, elapsed, result>>

BobEnds ==
    /\ wire = "head"
    /\ wire' = "all"
    /\ body' \in Bodies
    /\ UNCHANGED <<step, endpoint, code, elapsed, result>>

\* Time passes, but not past a timeout that is due.
Tick ==
    /\ elapsed < Horizon
    /\ step = "sent" => elapsed < Timeout
    /\ elapsed' = elapsed + 1
    /\ UNCHANGED <<step, endpoint, wire, code, body, result>>

Next ==
    \/ \E e \in Endpoints : Call(e)
    \/ Head \/ ConnectionError \/ Expire \/ Body
    \/ BobSendsHead \/ BobEnds \/ Tick

Spec == Init /\ [][Next]_vars

\* The runtime polls the call and its timer; nothing is asked of Bob.
FairClient ==
    /\ Spec
    /\ WF_vars(Head) /\ WF_vars(Expire) /\ WF_vars(Body) /\ WF_vars(Tick)

-----------------------------------------------------------------------------
(* What the services answer *)

\* request_metrics and its like: Err is RequestFailed, a refusal is
\* InvalidStatusCode(FORBIDDEN).
StatusFor(outcome) ==
    CASE outcome = "data" -> 200
      [] outcome = "denied" -> 403
      [] OTHER -> 404

-----------------------------------------------------------------------------
(* Properties *)

TypeOK ==
    /\ step \in {"idle", "sent", "reading", "done"}
    /\ endpoint \in Endpoints
    /\ wire \in {"nothing", "head", "all"}
    /\ code \in Codes \cup {NoCode}
    /\ body \in Bodies
    /\ elapsed \in 0 .. Horizon
    /\ result \in {"none", "data", "denied", "notFound", "notAcceptable", "error"}

\* A typed result is always backed by what Bob sent: a response with the status
\* code of the result and, where there is a body to read, all of it, and JSON.
\* A type with a required field is read from nothing but its own JSON (or a
\* list of it from an empty list), whichever body Bob sends with the code.
\* The other types, StatusExt among them, promise no more than an object.
ResultIsBacked ==
    step = "done" /\ result # "error" =>
        /\ wire # "nothing"
        /\ result = Variant(endpoint, code)
        /\ ReadsBody(endpoint, code) =>
             /\ wire = "all"
             /\ body \notin Unreadable
             /\ ReadAs(result, endpoint) \in Closed =>
                   body \in {ReadAs(result, endpoint), "noItems"}

\* A service answers FORBIDDEN only if Bob refused, and data only if Bob
\* accepted: a silent, slow or broken node looks like neither.
ForbiddenMeansRefused ==
    step = "done" =>
        /\ StatusFor(result) = 403 => code = 403 /\ wire # "nothing"
        /\ StatusFor(result) = 200 => code = 200 /\ wire = "all"

\* A node that never answers costs the caller the timeout and no more: even a
\* Bob without any fairness cannot keep a call in "sent".
SilenceEnds == step = "sent" ~> step # "sent"

\* Every call ends, if Bob ends the responses it begins.
CallEnds ==
    WF_vars(BobEnds) =>
        (step \in {"sent", "reading"} ~> step \notin {"sent", "reading"})

\* cli/src/config.rs and models.rs: the timeout is the "Max Time to Responce"
\* and the "Time limit for waiting a responce".  The body is waited for
\* without a limit.
WaitIsLimited == step \in {"sent", "reading"} => elapsed <= Timeout

=============================================================================
