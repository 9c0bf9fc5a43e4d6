---------------------------- MODULE NodeClients ----------------------------
(***************************************************************************)
(* The clients of the nodes that a login makes (BobClient::try_new): for   *)
(* each node that Bob lists, the listed address with its port replaced by  *)
(* the one of the login, since Bob lists the ports of the cluster's own    *)
(* protocol: try_new takes for granted that all nodes serve their API on   *)
(* one and the same port.  The case of letters, which the hostname loses,  *)
(* and paths are left out.                                                 *)
(*                                                                         *)
(* An address has a scheme, "" for none, a host and perhaps a port.        *)
(***************************************************************************)
EXTENDS Naturals, Sequences, FiniteSets

CONSTANTS
    Hosts,      \* names of hosts
    BadHosts,   \* hosts of which no URI can be made
    Ports,
    NoPort,     \* in an address without a port
    Nowhere     \* the answer of a place where no node is

ASSUME HostsAssumption == Hosts \cap BadHosts = {}

Schemes == {"", "http", "https"}
Address == [scheme : Schemes, host : Hosts \cup BadHosts, port : Ports \cup {NoPort}]

\* Mutant of ChangePort: the listed port is kept.
ChangePortNot(address, port) ==
    IF address.port = NoPort THEN {} ELSE {address}

\* change_port: what comes after the last colon is replaced.  Of a scheme
\* without a port only the word is left, which then stands for the host; the
\* set is empty where there is no colon.
ChangePort(address, port) ==
    IF address.port # NoPort THEN {[address EXCEPT !.port = port]}
    ELSE IF address.scheme # ""
    THEN {[scheme |-> "", host |-> address.scheme, port |-> port]}
    ELSE {}

\* into_base_path: whatever the scheme, the client will use http.
BasePath(address) ==
    IF address.host \in BadHosts THEN {} ELSE {<<address.host, address.port>>}

PathsOf(address, port) == UNION {BasePath(a) : a \in ChangePort(address, port)}

\* BobClient::cluster: nodes whose client cannot be made are left out, and the
\* last of several nodes with one name stays.
Clients(listed, port) ==
    LET made == {i \in DOMAIN listed : PathsOf(listed[i].address, port) # {}}
        Last(name) == CHOOSE i \in made :
            listed[i].name = name /\ \A j \in made : listed[j].name = name => j <= i IN
    [name \in {listed[i].name : i \in made} |->
        CHOOSE path \in PathsOf(listed[Last(name)].address, port) : TRUE]

\* What answers at the address of a client, given the place of each node's API.
Reached(clients, sites) ==
    [name \in DOMAIN clients |->
        IF \E node \in DOMAIN sites : sites[node] = clients[name]
        THEN CHOOSE node \in DOMAIN sites : sites[node] = clients[name]
        ELSE Nowhere]

-----------------------------------------------------------------------------
\* A node that is listed under one name and with a port has a client, which
\* reaches this node if and only if its API is at the listed host, under the
\* port of the login.  So no client reaches a wrong node as long as the hosts
\* of the nodes differ and their ports do not.
ReachesItself(listed, port, sites) ==
    LET clients == Clients(listed, port)
        reached == Reached(clients, sites) IN
    \A i \in DOMAIN listed :
        LET name == listed[i].name
            address == listed[i].address IN
        /\ \A j \in DOMAIN listed \ {i} : listed[j].name # name
        /\ address.port # NoPort
        /\ address.host \in Hosts
        => /\ name \in DOMAIN clients
           /\ reached[name] = name <=> sites[name] = <<address.host, port>>
=============================================================================
