-------------------------------- MODULE Auth --------------------------------
(***************************************************************************)
(* Login, logout and the authorisation of API requests.                    *)
(*                                                                         *)
(* The backend keeps two kinds of state for its users: browser sessions    *)
(* (axum-sessions' MemoryStore), which record the hostname and password    *)
(* hash of the last login, and one BobClient per hostname, shared by all   *)
(* sessions.  Handlers are async functions, so requests interleave at      *)
(* every await; between awaits a handler is one action here.               *)
(*                                                                         *)
(* A request goes through the layers of main.rs: the session layer gives   *)
(* it a session handle (Enter), the handler runs, and when it has answered *)
(* the session layer reads whether the session is destroyed (Finish) and   *)
(* then awaits the session store, to save or to remove it (Save, Remove).  *)
(* hyper drops a request when its client disconnects (Cancel).             *)
(***************************************************************************)
EXTENDS BobUser

CONSTANTS
    Attempts,   \* the clients users try to log in with
    Sessions,   \* sessions of browsers, by their cookie
    Requests,   \* HTTP requests being handled
    NoSession,  \* the handle of a request that is not running
    NoClient,   \* no BobClient
    Unbound     \* a session without a logged-in user

ASSUME AuthAssumption ==
    /\ Attempts \subseteq BobClient
    /\ NoSession \notin Sessions
    /\ NoClient \notin BobClient
    /\ Unbound \notin Binding

VARIABLES
    store,      \* SharedBobStore: the client kept for each hostname
    session,    \* the user each session records
    live,       \* sessions in the session store
    destroyed,  \* sessions whose destroy flag is up
    gone,       \* history: sessions whose logout was answered
    late,       \* history: sessions destroyed while a request was saving them
    pc,         \* where each request is
    handle,     \* the session of each request
    client,     \* login's connector, or the client an API request runs with
    seen,       \* the binding AuthLayer read from the session
    outcome,    \* whether the handler has answered, and as logout does
    granted,    \* history: clients Bob has accepted
    presented   \* history: bindings each session has logged in with

sessionVars == <<session, live, destroyed, gone, late>>
requestVars == <<pc, handle, client, seen, outcome>>
history == <<granted, presented>>
vars == <<store, session, live, destroyed, gone, late, pc, handle, client,
          seen, outcome, granted, presented>>

Idle == "idle"
LoginSteps == {"connecting", "probing", "binding", "storing"}
ApiSteps == {"loading", "serving"}
EndSteps == {"answering", "saving", "removing"}
PCs == {Idle, "leaving"} \cup LoginSteps \cup ApiSteps \cup EndSteps
Outcomes == {"none", "answered", "loggedOut"}

Init ==
    /\ store = [h \in Hosts |-> NoClient]
    /\ session = [s \in Sessions |-> Unbound]
    /\ live = {}
    /\ destroyed = {}
    /\ gone = {}
    /\ late = {}
    /\ pc = [r \in Requests |-> Idle]
    /\ handle = [r \in Requests |-> NoSession]
    /\ client = [r \in Requests |-> NoClient]
    /\ seen = [r \in Requests |-> Unbound]
    /\ outcome = [r \in Requests |-> "none"]
    /\ granted = {}
    /\ presented = [s \in Sessions |-> {}]

-----------------------------------------------------------------------------
(* The session layer, before the handler *)

\* The cookie names a stored session.
Resume(s) ==
    /\ s \in live
    /\ UNCHANGED <<sessionVars, presented>>

\* No cookie, or one the store does not know: a session with a new id, which
\* no other request can name before it is stored.
Open(s) ==
    /\ s \notin live
    /\ \A r \in Requests : handle[r] # s
    /\ session' = [session EXCEPT ![s] = Unbound]
    /\ destroyed' = destroyed \ {s}
    /\ gone' = gone \ {s}
    /\ late' = late \ {s}
    /\ presented' = [presented EXCEPT ![s] = {}]
    /\ UNCHANGED live

Enter(r, s) ==
    /\ pc[r] = Idle
    /\ Resume(s) \/ Open(s)
    /\ handle' = [handle EXCEPT ![r] = s]
    /\ UNCHANGED <<store, granted>>

Goto(r, step) == pc' = [pc EXCEPT ![r] = step]

\* The handler has its answer and drops what it held.
AnswerAs(r, result) ==
    /\ Goto(r, "answering")
    /\ client' = [client EXCEPT ![r] = NoClient]
    /\ outcome' = [outcome EXCEPT ![r] = result]

\* Any answer but that of logout: OK, UNAUTHORIZED or the page.
Answer(r) == AnswerAs(r, "answered")

-----------------------------------------------------------------------------
(* login *)

LoginStart(r, s, k) ==
    /\ Enter(r, s)
    /\ client' = [client EXCEPT ![r] = k]
    /\ Goto(r, "connecting")
    /\ UNCHANGED <<seen, outcome>>

\* Mutant of Connect: the probe is left out.
ConnectOnly(r) ==
    /\ pc[r] = "connecting"
    /\ \/ Goto(r, "binding") /\ UNCHANGED <<client, outcome>>
       \/ Answer(r)
    /\ UNCHANGED <<store, sessionVars, handle, seen, history>>

\* BobClient::try_new asks Bob for its nodes.  Every failure is UNAUTHORIZED.
Connect(r) ==
    /\ pc[r] = "connecting"
    /\ \/ Goto(r, "probing") /\ UNCHANGED <<client, outcome>>
       \/ Answer(r)
    /\ UNCHANGED <<store, sessionVars, handle, seen, history>>

\* BobClient::probe asks again; Bob may have changed its mind.
Probe(r) ==
    /\ pc[r] = "probing"
    /\ \/ /\ Goto(r, "binding")
          /\ granted' = granted \cup {client[r]}
          /\ UNCHANGED <<client, outcome>>
       \/ Answer(r) /\ UNCHANGED granted
    /\ UNCHANGED <<store, sessionVars, handle, seen, presented>>

\* AuthContext::login writes the user into the session, which concurrent
\* requests of the same session share.  What it cannot serialise it does not
\* write: login then answers UNAUTHORIZED and inserts nothing.
Bind(r) ==
    /\ pc[r] = "binding"
    /\ \/ /\ session' = [session EXCEPT ![handle[r]] = BindingOf(client[r])]
          /\ presented' = [presented EXCEPT ![handle[r]] = @ \cup {BindingOf(client[r])}]
          /\ Goto(r, "storing")
          /\ UNCHANGED <<client, outcome>>
       \/ Answer(r) /\ UNCHANGED <<session, presented>>
    /\ UNCHANGED <<store, live, destroyed, gone, late, handle, seen, granted>>

\* Mutant of Insert: it does not wait for the lock, and fails without it.
InsertOrFail(r) ==
    /\ pc[r] = "storing"
    /\ \/ /\ store' = [store EXCEPT ![client[r].host] = client[r]]
          /\ Answer(r)
       \/ Answer(r) /\ UNCHANGED store
    /\ UNCHANGED <<sessionVars, handle, seen, history>>

\* The write lock of the store is taken, and released, after one more await.
Insert(r) ==
    /\ pc[r] = "storing"
    /\ store' = [store EXCEPT ![client[r].host] = client[r]]
    /\ Answer(r)
    /\ UNCHANGED <<sessionVars, handle, seen, history>>

-----------------------------------------------------------------------------
(* A secured route *)

\* AuthLayer reads the session, then awaits the user store.  It does so before
\* login and logout too, which only log the user it finds.
ApiStart(r, s) ==
    /\ Enter(r, s)
    /\ seen' = [seen EXCEPT ![r] = session'[s]]
    /\ Goto(r, "loading")
    /\ UNCHANGED <<client, outcome>>

\* Mutant of Recognises: the password is not compared.
RecognisesHost(binding) ==
    /\ binding # Unbound
    /\ store[binding.user] # NoClient

\* The stored client is the user only if its password is the session's.
Recognises(binding) ==
    /\ binding # Unbound
    /\ store[binding.user] # NoClient
    /\ BindingOf(store[binding.user]) = binding

LoadUser(r) ==
    /\ pc[r] = "loading"
    /\ IF Recognises(seen[r])
         THEN /\ client' = [client EXCEPT ![r] = store[seen[r].user]]
              /\ Goto(r, "serving")
              /\ UNCHANGED outcome
         ELSE Answer(r)
    /\ seen' = [seen EXCEPT ![r] = Unbound]
    /\ UNCHANGED <<store, sessionVars, handle, history>>

\* The handler, which keeps the client it was given to the end.
ServeDone(r) ==
    /\ pc[r] = "serving"
    /\ Answer(r)
    /\ UNCHANGED <<store, sessionVars, handle, seen, history>>

-----------------------------------------------------------------------------
(* logout *)

LogoutStart(r, s) ==
    /\ Enter(r, s)
    /\ Goto(r, "leaving")
    /\ UNCHANGED <<client, seen, outcome>>

\* Some request has found session s not destroyed, and is about to store it.
BeingSaved(s) == \E r \in Requests : pc[r] = "saving" /\ handle[r] = s

\* Mutant of Logout: the user's client leaves the store as well.
LogoutDropsClient(r) ==
    /\ pc[r] = "leaving"
    /\ destroyed' = destroyed \cup {handle[r]}
    /\ late' = late \cup {s \in {handle[r]} : BeingSaved(s)}
    /\ store' = [h \in Hosts |->
                   IF session[handle[r]] # Unbound /\ session[handle[r]].user = h
                     THEN NoClient ELSE store[h]]
    /\ AnswerAs(r, "loggedOut")
    /\ UNCHANGED <<session, live, gone, handle, seen, history>>

\* AuthContext::logout destroys the session; the BobClient stays in the store.
Logout(r) ==
    /\ pc[r] = "leaving"
    /\ destroyed' = destroyed \cup {handle[r]}
    /\ late' = late \cup {s \in {handle[r]} : BeingSaved(s)}
    /\ AnswerAs(r, "loggedOut")
    /\ UNCHANGED <<store, session, live, gone, handle, seen, history>>

-----------------------------------------------------------------------------
(* The end of a request *)

Release(r) ==
    /\ Goto(r, Idle)
    /\ handle' = [handle EXCEPT ![r] = NoSession]
    /\ client' = [client EXCEPT ![r] = NoClient]
    /\ seen' = [seen EXCEPT ![r] = Unbound]
    /\ outcome' = [outcome EXCEPT ![r] = "none"]

\* Mutant of Finish: only the logout request itself looks at the flag.
FinishByOutcome(r) ==
    /\ pc[r] = "answering"
    /\ Goto(r, IF outcome[r] = "loggedOut" THEN "removing" ELSE "saving")
    /\ UNCHANGED <<store, sessionVars, handle, client, seen, outcome, history>>

\* The session layer reads the destroy flag of the session.
Finish(r) ==
    /\ pc[r] = "answering"
    /\ Goto(r, IF handle[r] \in destroyed THEN "removing" ELSE "saving")
    /\ UNCHANGED <<store, sessionVars, handle, client, seen, outcome, history>>

\* The write lock of the session store is taken after an await: the session is
\* stored, whether the handler changed it or not, and destroyed or not by now.
Save(r) ==
    /\ pc[r] = "saving"
    /\ live' = live \cup {handle[r]}
    /\ Release(r)
    /\ UNCHANGED <<store, session, destroyed, gone, late, history>>

Remove(r) ==
    /\ pc[r] = "removing"
    /\ live' = live \ {handle[r]}
    /\ gone' = IF outcome[r] = "loggedOut" THEN gone \cup {handle[r]} ELSE gone
    /\ Release(r)
    /\ UNCHANGED <<store, session, destroyed, late, history>>

\* The browser disconnects: the request stops at an await.
Cancel(r) ==
    /\ pc[r] # Idle
    /\ Release(r)
    /\ UNCHANGED <<store, sessionVars, history>>

\* Stores and signing secret live in the process and die with it.
Restart ==
    /\ store' = [h \in Hosts |-> NoClient]
    /\ session' = [s \in Sessions |-> Unbound]
    /\ live' = {} /\ destroyed' = {} /\ gone' = {} /\ late' = {}
    /\ pc' = [r \in Requests |-> Idle]
    /\ handle' = [r \in Requests |-> NoSession]
    /\ client' = [r \in Requests |-> NoClient]
    /\ seen' = [r \in Requests |-> Unbound]
    /\ outcome' = [r \in Requests |-> "none"]
    /\ granted' = {}
    /\ presented' = [s \in Sessions |-> {}]

Step(r) ==
    \/ \E s \in Sessions, k \in Attempts : LoginStart(r, s, k)
    \/ Connect(r) \/ Probe(r) \/ Bind(r) \/ Insert(r)
    \/ \E s \in Sessions : ApiStart(r, s)
    \/ LoadUser(r) \/ ServeDone(r)
    \/ \E s \in Sessions : LogoutStart(r, s)
    \/ Logout(r)
    \/ Finish(r) \/ Save(r) \/ Remove(r) \/ Cancel(r)

Next == (\E r \in Requests : Step(r)) \/ Restart

Spec == Init /\ [][Next]_vars

-----------------------------------------------------------------------------
(* Properties *)

\* Every variable holds what the source declares, and a running request has a
\* session: the handlers never meet a missing handle.
TypeOK ==
    /\ store \in [Hosts -> BobClient \cup {NoClient}]
    /\ session \in [Sessions -> Binding \cup {Unbound}]
    /\ live \subseteq Sessions
    /\ destroyed \subseteq Sessions
    /\ gone \subseteq Sessions
    /\ late \subseteq Sessions
    /\ pc \in [Requests -> PCs]
    /\ handle \in [Requests -> Sessions \cup {NoSession}]
    /\ client \in [Requests -> BobClient \cup {NoClient}]
    /\ seen \in [Requests -> Binding \cup {Unbound}]
    /\ outcome \in [Requests -> Outcomes]
    /\ granted \subseteq BobClient
    /\ presented \in [Sessions -> SUBSET Binding]
    /\ \A r \in Requests : pc[r] # Idle => handle[r] \in Sessions
    /\ \A r \in Requests : pc[r] \in LoginSteps => client[r] \in BobClient

\* The shared store never holds a client that Bob did not accept, nor one
\* under another cluster's hostname.
StoreVouched ==
    \A h \in Hosts : store[h] # NoClient =>
        store[h] \in granted /\ store[h].host = h

\* Past the probe, login works with a client that Bob accepted.
LoginVouched ==
    \A r \in Requests : pc[r] \in {"binding", "storing"} => client[r] \in granted

\* A session records only a user it has logged in as itself, and AuthLayer
\* asks the store only for such a user.
SessionVouched ==
    /\ \A s \in Sessions : session[s] # Unbound => session[s] \in presented[s]
    /\ \A r \in Requests :
         pc[r] = "loading" /\ seen[r] # Unbound => seen[r] \in presented[handle[r]]

\* A secured handler runs with a client Bob accepted, for a hostname and a
\* password that its own session has logged in with: whatever other sessions
\* insert into the shared store between AuthLayer's reads.
ServedVouched ==
    \A r \in Requests : pc[r] = "serving" =>
        /\ client[r] \in granted
        /\ BindingOf(client[r]) \in presented[handle[r]]

Vouched == StoreVouched /\ LoginVouched /\ SessionVouched /\ ServedVouched

\* After a logout was answered, its session is in the session store again only
\* if a request had found it not destroyed, and was about to store it, at the
\* moment of the logout.  Requests of the session that were still in their
\* handlers, or that come later, do not bring the cookie back to life.
LoggedOutStaysOut == gone \cap live \subseteq late

Authorised(s) == s \in live /\ Recognises(session[s])

OwnLogin(s) == \E r \in Requests :
    handle[r] = s /\ pc[r] = "binding" /\ pc'[r] = "storing"

Displaced(s) == \E r \in Requests :
    /\ pc[r] = "storing" /\ pc'[r] = "answering"
    /\ client[r].host = session[s].user
    /\ PasswordHash(client[r]) # session[s].auth

\* An authorised session stays so until it logs in again, one of its requests
\* destroyed it, a login for the same cluster stores a client with another
\* password, or the process restarts.  Logouts, refused logins, disconnects
\* and logins for other clusters by other sessions do not touch it.
Isolation == [][
    \A s \in Sessions : Authorised(s) /\ ~Authorised(s)' =>
        OwnLogin(s) \/ s \in destroyed \/ Displaced(s) \/ Restart]_vars

\* A session bound to a user for whom no client is stored or about to be.
Dangling(s) ==
    /\ session[s] # Unbound
    /\ store[session[s].user] = NoClient
    /\ \A r \in Requests :
         ~(pc[r] = "storing" /\ client[r].host = session[s].user)

\* login changes the session first and the store after an await.  A session is
\* left with a user nobody can load only if a disconnect hits that await.
TornOnlyByDisconnect == [][
    \A s \in Sessions : ~Dangling(s) /\ Dangling(s)' =>
        \E r \in Requests : pc[r] = "storing" /\ Cancel(r)]_vars

\* Authentication implements the promise of module Gate.
Serving == {<<r, handle[r], client[r]>> :
                r \in {q \in Requests : pc[q] = "serving"}}
GateSpec == INSTANCE Gate WITH serving <- Serving
ImplementsGate == GateSpec!Spec

=============================================================================
