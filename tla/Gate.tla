-------------------------------- MODULE Gate --------------------------------
(***************************************************************************)
(* What authentication promises, whatever the order in which logins,       *)
(* logouts and API requests interleave: a request is served with a         *)
(* BobClient only if Bob itself accepted that client, and only if the      *)
(* session of the request has presented, in a login Bob accepted, the      *)
(* hostname and the password of that client.  A restart forgets it all.    *)
(***************************************************************************)
EXTENDS BobUser

CONSTANTS
    Sessions,   \* browser sessions
    Requests    \* HTTP requests being handled

VARIABLES
    granted,    \* the clients Bob has accepted
    presented,  \* presented[s]: the bindings session s has logged in with
    serving     \* <<r, s, k>>: request r of session s is served with client k

vars == <<granted, presented, serving>>

Init ==
    /\ granted = {}
    /\ presented = [s \in Sessions |-> {}]
    /\ serving = {}

Grant(k) ==
    /\ granted' = granted \cup {k}
    /\ UNCHANGED <<presented, serving>>

Present(s, k) ==
    /\ k \in granted
    /\ presented' = [presented EXCEPT ![s] = @ \cup {BindingOf(k)}]
    /\ UNCHANGED <<granted, serving>>

Serve(r, s, k) ==
    /\ \A t \in serving : t[1] # r
    /\ k \in granted
    /\ BindingOf(k) \in presented[s]
    /\ serving' = serving \cup {<<r, s, k>>}
    /\ UNCHANGED <<granted, presented>>

Leave(t) ==
    /\ t \in serving
    /\ serving' = serving \ {t}
    /\ UNCHANGED <<granted, presented>>

\* A new browser session starts with an empty past.
Forget(s) ==
    /\ \A t \in serving : t[2] # s
    /\ presented' = [presented EXCEPT ![s] = {}]
    /\ UNCHANGED <<granted, serving>>

Restart ==
    /\ granted' = {}
    /\ presented' = [s \in Sessions |-> {}]
    /\ serving' = {}

Next ==
    \/ \E k \in BobClient : Grant(k)
    \/ \E s \in Sessions, k \in BobClient : Present(s, k)
    \/ \E r \in Requests, s \in Sessions, k \in BobClient : Serve(r, s, k)
    \/ \E t \in serving : Leave(t)
    \/ \E s \in Sessions : Forget(s)
    \/ Restart

Spec == Init /\ [][Next]_vars

=============================================================================
