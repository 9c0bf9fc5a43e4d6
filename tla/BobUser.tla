------------------------------ MODULE BobUser ------------------------------
(***************************************************************************)
(* The identity of a connection to a Bob cluster, as the backend sees it.  *)
(* A login names a cluster (its hostname) and, optionally, credentials;    *)
(* the BobClient built from it is identified by the hostname alone         *)
(* (AuthUser::get_id) and checked by the password alone                    *)
(* (AuthUser::get_password_hash): the login name takes part in neither.    *)
(***************************************************************************)

CONSTANTS
    Hosts,          \* sanitised Hostnames that users may log in to
    Logins,         \* user names
    Passwords,      \* passwords
    EmptyPassword,  \* the empty byte string
    Anonymous       \* BobConnectionData without credentials

ASSUME UserAssumption ==
    /\ EmptyPassword \in Passwords
    /\ Anonymous \notin [login : Logins, password : Passwords]

Credentials == [login : Logins, password : Passwords]

\* A BobClient: where it connects and the Authorization header it carries.
\* Its hyper clients are left out, they follow from these two.
BobClient == [host : Hosts, cred : Credentials \cup {Anonymous}]

\* Mutant of PasswordHash: the login name is taken for the password.
PasswordHashByLogin(client) ==
    IF client.cred = Anonymous THEN EmptyPassword ELSE client.cred.login

\* AuthUser::get_password_hash: the bare password, "" without credentials.
PasswordHash(client) ==
    IF client.cred = Anonymous THEN EmptyPassword ELSE client.cred.password

\* What a session records about the user it is logged in as.
Binding == [user : Hosts, auth : Passwords]

\* AuthContext::login writes AuthUser::get_id and the hash into the session.
BindingOf(client) == [user |-> client.host, auth |-> PasswordHash(client)]

=============================================================================
