------------------------------ MODULE MCSites ------------------------------
(* Where the clients of two nodes lead, worked out from what the login makes
   of Bob's list of nodes (NodeClients): at login Bob lists each node at some
   host under a port of its own, and its API is looked for at port 1. *)
EXTENDS Cluster

CONSTANTS n1, n2

Login == INSTANCE NodeClients WITH
    Hosts <- {"h1", "h2"}, BadHosts <- {}, Ports <- 1 .. 3, NoPort <- 0,
    Nowhere <- Nobody

Lists(host1, host2) ==
    <<[name |-> n1, address |-> [scheme |-> "", host |-> host1, port |-> 2]],
      [name |-> n2, address |-> [scheme |-> "http", host |-> host2, port |-> 2]]>>

Leads(listed, site1, site2) ==
    Login!Reached(Login!Clients(listed, 1), [n \in {n1, n2} |-> IF n = n1 THEN site1 ELSE site2])

\* A host for each node: every client leads to its node.
AtHome == Leads(Lists("h1", "h2"), <<"h1", 1>>, <<"h2", 1>>)

\* One host for both, so that the API of the second node has another port:
\* both clients lead to the first node.
OneHost == Leads(Lists("h1", "h1"), <<"h1", 1>>, <<"h1", 3>>)

\* Since login the second node has moved to the place of the first, which is at
\* none that was listed.
Moved == Leads(Lists("h1", "h2"), <<"h1", 3>>, <<"h1", 1>>)
=============================================================================
