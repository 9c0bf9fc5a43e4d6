----------------------------- MODULE AuthProofs -----------------------------
(***************************************************************************)
(* Proofs about Auth, for any number of clusters, users, sessions and      *)
(* concurrent requests.                                                    *)
(***************************************************************************)
EXTENDS Auth, TLAPS

\* A client of Bob always leads to a well-formed session record.
LEMMA BindingType ==
    ASSUME NEW k \in BobClient
    PROVE  /\ BindingOf(k) \in Binding
           /\ BindingOf(k).user = k.host
           /\ BindingOf(k).auth = PasswordHash(k)
           /\ k.host \in Hosts
  <1>1. k.host \in Hosts /\ k.cred \in Credentials \cup {Anonymous}
    BY DEF BobClient
  <1>2. PasswordHash(k) \in Passwords
    BY <1>1, UserAssumption DEF PasswordHash, Credentials
  <1> QED
    BY <1>1, <1>2 DEF BindingOf, Binding

\* Type correctness: every variable keeps its type, and running requests
\* keep their session handle, under every interleaving.
LEMMA TypeInit == Init => TypeOK
  BY DEF Init, TypeOK, PCs, Outcomes, Idle, LoginSteps, ApiSteps, EndSteps

\* Every step keeps the types: requests always have their session and logins
\* their connector.
LEMMA TypeNext ==
    TypeOK /\ [Next]_vars => TypeOK'
  <1> SUFFICES ASSUME TypeOK, [Next]_vars PROVE TypeOK'
    OBVIOUS
  <1> USE DEF TypeOK, PCs, Outcomes, Idle, LoginSteps, ApiSteps, EndSteps, Goto
  <1>1. ASSUME NEW r \in Requests, NEW s \in Sessions, NEW k \in Attempts,
               LoginStart(r, s, k)
        PROVE  TypeOK'
    BY <1>1, AuthAssumption DEF LoginStart, Enter, Resume, Open, sessionVars
  <1>2. ASSUME NEW r \in Requests, Connect(r) PROVE TypeOK'
    BY <1>2 DEF Connect, Answer, AnswerAs, sessionVars, history
  <1>3. ASSUME NEW r \in Requests, Probe(r) PROVE TypeOK'
    BY <1>3 DEF Probe, Answer, AnswerAs, sessionVars
  <1>4. ASSUME NEW r \in Requests, Bind(r) PROVE TypeOK'
    BY <1>4, BindingType DEF Bind, Answer, AnswerAs
  <1>5. ASSUME NEW r \in Requests, Insert(r) PROVE TypeOK'
    BY <1>5, BindingType DEF Insert, Answer, AnswerAs, sessionVars, history
  <1>6. ASSUME NEW r \in Requests, NEW s \in Sessions, ApiStart(r, s)
        PROVE  TypeOK'
    BY <1>6 DEF ApiStart, Enter, Resume, Open, sessionVars
  <1>7. ASSUME NEW r \in Requests, LoadUser(r) PROVE TypeOK'
    BY <1>7 DEF LoadUser, Recognises, Answer, AnswerAs, Binding, sessionVars, history
  <1>8. ASSUME NEW r \in Requests, ServeDone(r) PROVE TypeOK'
    BY <1>8 DEF ServeDone, Answer, AnswerAs, sessionVars, history
  <1>9. ASSUME NEW r \in Requests, NEW s \in Sessions, LogoutStart(r, s)
        PROVE  TypeOK'
    BY <1>9 DEF LogoutStart, Enter, Resume, Open, sessionVars
  <1>10. ASSUME NEW r \in Requests, Logout(r) PROVE TypeOK'
    BY <1>10 DEF Logout, BeingSaved, AnswerAs, history
  <1>11. ASSUME NEW r \in Requests, Finish(r) PROVE TypeOK'
    BY <1>11 DEF Finish, sessionVars, history
  <1>12. ASSUME NEW r \in Requests, Save(r) PROVE TypeOK'
    BY <1>12 DEF Save, Release, history
  <1>13. ASSUME NEW r \in Requests, Remove(r) PROVE TypeOK'
    BY <1>13 DEF Remove, Release, history
  <1>14. ASSUME NEW r \in Requests, Cancel(r) PROVE TypeOK'
    BY <1>14 DEF Cancel, Release, sessionVars, history
  <1>15. CASE Restart
    BY <1>15 DEF Restart
  <1>16. CASE UNCHANGED vars
    BY <1>16 DEF vars
  <1> QED
    BY <1>1, <1>2, <1>3, <1>4, <1>5, <1>6, <1>7, <1>8, <1>9, <1>10, <1>11,
       <1>12, <1>13, <1>14, <1>15, <1>16 DEF Next, Step

\* TypeOK holds of every behaviour: no handler meets a missing session handle,
\* and login always has its connector.
THEOREM TypeCorrect == Spec => []TypeOK
  BY TypeInit, TypeNext, PTL DEF Spec

-----------------------------------------------------------------------------
(* Who may be served as whom *)

\* The four parts of Vouched are inductive together: a client reaches the
\* store only through the probe, and a session its record only through a
\* login of its own, so what LoadUser finds is vouched for on both sides.
LEMMA VouchedInit == Init => Vouched
  BY AuthAssumption
     DEF Init, Vouched, StoreVouched, LoginVouched, SessionVouched,
         ServedVouched, Idle

\* Every step keeps what vouches for a served client: only Probe makes a
\* client insertable, only Bind writes a session.
LEMMA VouchedNext ==
    TypeOK /\ Vouched /\ [Next]_vars => Vouched'
  <1> SUFFICES ASSUME TypeOK, Vouched, [Next]_vars PROVE Vouched'
    OBVIOUS
  <1> USE DEF TypeOK, Vouched, StoreVouched, LoginVouched, SessionVouched,
              ServedVouched, PCs, Idle, LoginSteps, ApiSteps, EndSteps, Goto
  <1>1. ASSUME NEW r \in Requests, NEW s \in Sessions, NEW k \in Attempts,
               LoginStart(r, s, k)
        PROVE  Vouched'
    BY <1>1 DEF LoginStart, Enter, Resume, Open, sessionVars
  <1>2. ASSUME NEW r \in Requests, Connect(r) PROVE Vouched'
    BY <1>2 DEF Connect, Answer, AnswerAs, sessionVars, history
  <1>3. ASSUME NEW r \in Requests, Probe(r) PROVE Vouched'
    BY <1>3 DEF Probe, Answer, AnswerAs, sessionVars
  <1>4. ASSUME NEW r \in Requests, Bind(r) PROVE Vouched'
    <2>1. handle[r] \in Sessions /\ client[r] \in BobClient
      BY <1>4 DEF Bind
    <2>2. BindingOf(client[r]) \in Binding
      BY <2>1, BindingType
    <2> QED
      BY <1>4, <2>1, <2>2 DEF Bind, Answer, AnswerAs
  <1>5. ASSUME NEW r \in Requests, Insert(r) PROVE Vouched'
    BY <1>5, BindingType DEF Insert, Answer, AnswerAs, sessionVars, history
  <1>6. ASSUME NEW r \in Requests, NEW s \in Sessions, ApiStart(r, s)
        PROVE  Vouched'
    BY <1>6 DEF ApiStart, Enter, Resume, Open, sessionVars
  <1>7. ASSUME NEW r \in Requests, LoadUser(r) PROVE Vouched'
    <2>1. CASE Recognises(seen[r])
      BY <1>7, <2>1
         DEF LoadUser, Recognises, Binding, sessionVars, history
    <2>2. CASE ~Recognises(seen[r])
      BY <1>7, <2>2 DEF LoadUser, Answer, AnswerAs, sessionVars, history
    <2> QED
      BY <2>1, <2>2
  <1>8. ASSUME NEW r \in Requests, ServeDone(r) PROVE Vouched'
    BY <1>8 DEF ServeDone, Answer, AnswerAs, sessionVars, history
  <1>9. ASSUME NEW r \in Requests, NEW s \in Sessions, LogoutStart(r, s)
        PROVE  Vouched'
    BY <1>9 DEF LogoutStart, Enter, Resume, Open, sessionVars
  <1>10. ASSUME NEW r \in Requests, Logout(r) PROVE Vouched'
    BY <1>10 DEF Logout, BeingSaved, AnswerAs, history
  <1>11. ASSUME NEW r \in Requests, Finish(r) PROVE Vouched'
    BY <1>11 DEF Finish, sessionVars, history
  <1>12. ASSUME NEW r \in Requests, Save(r) PROVE Vouched'
    BY <1>12 DEF Save, Release, history
  <1>13. ASSUME NEW r \in Requests, Remove(r) PROVE Vouched'
    BY <1>13 DEF Remove, Release, history
  <1>14. ASSUME NEW r \in Requests, Cancel(r) PROVE Vouched'
    BY <1>14 DEF Cancel, Release, sessionVars, history
  <1>15. CASE Restart
    BY <1>15, AuthAssumption DEF Restart
  <1>16. CASE UNCHANGED vars
    BY <1>16 DEF vars
  <1> QED
    BY <1>1, <1>2, <1>3, <1>4, <1>5, <1>6, <1>7, <1>8, <1>9, <1>10, <1>11,
       <1>12, <1>13, <1>14, <1>15, <1>16 DEF Next, Step

\* A secured handler runs only with a client Bob accepted and its own session
\* has logged in with, under every interleaving of any number of requests.
THEOREM AuthVouched == Spec => []Vouched
  BY TypeInit, TypeNext, VouchedInit, VouchedNext, PTL DEF Spec

-----------------------------------------------------------------------------
(* Logout, and the requests it overtakes *)

\* LoggedOutStaysOut is not inductive.  The destroy flag outlives the logout,
\* so that no request reads it as down again; whoever is already past reading
\* it is known to `late`; and who removes a session has seen its flag.
LogoutInv ==
    /\ gone \cap live \subseteq late
    /\ gone \subseteq destroyed
    /\ \A r \in Requests :
         pc[r] = "saving" /\ handle[r] \in destroyed => handle[r] \in late
    /\ \A r \in Requests : pc[r] = "removing" => handle[r] \in destroyed

\* No session has been logged out at the start.
LEMMA LogoutInit == Init => LogoutInv
  BY DEF Init, LogoutInv, Idle

\* A session is stored after its logout only by a request that had read the
\* flag before it: Finish sends every later one to Remove.
LEMMA LogoutNext ==
    TypeOK /\ LogoutInv /\ [Next]_vars => LogoutInv'
  <1> SUFFICES ASSUME TypeOK, LogoutInv, [Next]_vars PROVE LogoutInv'
    OBVIOUS
  <1> USE DEF TypeOK, LogoutInv, PCs, Outcomes, Idle, LoginSteps, ApiSteps,
              EndSteps, Goto
  <1>1. ASSUME NEW r \in Requests, NEW s \in Sessions, NEW k \in Attempts,
               LoginStart(r, s, k)
        PROVE  LogoutInv'
    BY <1>1 DEF LoginStart, Enter, Resume, Open, sessionVars
  <1>2. ASSUME NEW r \in Requests, Connect(r) PROVE LogoutInv'
    BY <1>2 DEF Connect, Answer, AnswerAs, sessionVars, history
  <1>3. ASSUME NEW r \in Requests, Probe(r) PROVE LogoutInv'
    BY <1>3 DEF Probe, Answer, AnswerAs, sessionVars
  <1>4. ASSUME NEW r \in Requests, Bind(r) PROVE LogoutInv'
    BY <1>4 DEF Bind, Answer, AnswerAs
  <1>5. ASSUME NEW r \in Requests, Insert(r) PROVE LogoutInv'
    BY <1>5 DEF Insert, Answer, AnswerAs, sessionVars, history
  <1>6. ASSUME NEW r \in Requests, NEW s \in Sessions, ApiStart(r, s)
        PROVE  LogoutInv'
    BY <1>6 DEF ApiStart, Enter, Resume, Open, sessionVars
  <1>7. ASSUME NEW r \in Requests, LoadUser(r) PROVE LogoutInv'
    BY <1>7 DEF LoadUser, Answer, AnswerAs, sessionVars, history
  <1>8. ASSUME NEW r \in Requests, ServeDone(r) PROVE LogoutInv'
    BY <1>8 DEF ServeDone, Answer, AnswerAs, sessionVars, history
  <1>9. ASSUME NEW r \in Requests, NEW s \in Sessions, LogoutStart(r, s)
        PROVE  LogoutInv'
    BY <1>9 DEF LogoutStart, Enter, Resume, Open, sessionVars
  <1>10. ASSUME NEW r \in Requests, Logout(r) PROVE LogoutInv'
    BY <1>10 DEF Logout, BeingSaved, AnswerAs, history
  <1>11. ASSUME NEW r \in Requests, Finish(r) PROVE LogoutInv'
    BY <1>11 DEF Finish, sessionVars, history
  <1>12. ASSUME NEW r \in Requests, Save(r) PROVE LogoutInv'
    BY <1>12 DEF Save, Release, history
  <1>13. ASSUME NEW r \in Requests, Remove(r) PROVE LogoutInv'
    BY <1>13 DEF Remove, Release, history
  <1>14. ASSUME NEW r \in Requests, Cancel(r) PROVE LogoutInv'
    BY <1>14 DEF Cancel, Release, sessionVars, history
  <1>15. CASE Restart
    BY <1>15 DEF Restart
  <1>16. CASE UNCHANGED vars
    BY <1>16 DEF vars
  <1> QED
    BY <1>1, <1>2, <1>3, <1>4, <1>5, <1>6, <1>7, <1>8, <1>9, <1>10, <1>11,
       <1>12, <1>13, <1>14, <1>15, <1>16 DEF Next, Step

\* However many requests of a session are under way, the cookie of a session
\* that was logged out is in the session store only if one of them was between
\* reading the destroy flag and storing the session when the flag went up.
THEOREM LogoutIsFinal == Spec => []LoggedOutStaysOut
  <1>1. LogoutInv => LoggedOutStaysOut
    BY DEF LogoutInv, LoggedOutStaysOut
  <1> QED
    BY <1>1, TypeInit, TypeNext, LogoutInit, LogoutNext, PTL DEF Spec

-----------------------------------------------------------------------------
(* Auth implements Gate *)

\* Gate and Auth read the same module BobUser.
LEMMA GateNames ==
    /\ GateSpec!BobClient = BobClient
    /\ \A k : GateSpec!BindingOf(k) = BindingOf(k)
  BY DEF GateSpec!BobClient, GateSpec!Credentials, BobClient, Credentials,
         GateSpec!BindingOf, GateSpec!PasswordHash, BindingOf, PasswordHash

\* The initial states of Auth map to initial states of Gate.
LEMMA GateInit == Init => GateSpec!Init
  BY DEF Init, GateSpec!Init, Serving, Idle

\* A step that leaves the served requests and what is known of the sessions
\* alone is invisible to Gate.
LEMMA Quiet ==
    ASSUME TypeOK, NEW r \in Requests,
           pc[r] # "serving", pc'[r] # "serving",
           \A q \in Requests \ {r} : /\ pc'[q] = pc[q]
                                    /\ handle'[q] = handle[q]
                                    /\ client'[q] = client[q]
    PROVE  Serving' = Serving
  BY DEF Serving

\* A request that stops being served.
LEMMA Leaving ==
    ASSUME TypeOK, NEW r \in Requests,
           pc[r] = "serving", pc'[r] # "serving",
           \A q \in Requests \ {r} : /\ pc'[q] = pc[q]
                                    /\ handle'[q] = handle[q]
                                    /\ client'[q] = client[q],
           UNCHANGED history
    PROVE  GateSpec!Leave(<<r, handle[r], client[r]>>)
  <1>1. <<r, handle[r], client[r]>> \in Serving
    BY DEF Serving
  <1>2. Serving' = Serving \ {<<r, handle[r], client[r]>>}
    BY DEF Serving
  <1> QED
    BY <1>1, <1>2 DEF GateSpec!Leave, history

\* A request that enters starts a new session for Gate, or changes nothing.
LEMMA Entering ==
    ASSUME TypeOK, NEW r \in Requests, NEW s \in Sessions, Enter(r, s),
           Serving' = Serving
    PROVE  GateSpec!Forget(s) \/ UNCHANGED GateSpec!vars
  <1>1. CASE Resume(s)
    BY <1>1 DEF Enter, Resume, GateSpec!vars, sessionVars
  <1>2. CASE Open(s)
    <2>1. \A t \in Serving : t[2] # s
      BY <1>2 DEF Open, Serving
    <2> QED
      BY <1>2, <2>1 DEF Enter, Open, GateSpec!Forget
  <1> QED
    BY <1>1, <1>2 DEF Enter

\* Every step of Auth maps to a step of Gate or to a stutter.
LEMMA GateNext ==
    TypeOK /\ Vouched /\ [Next]_vars => [GateSpec!Next]_(GateSpec!vars)
  <1> SUFFICES ASSUME TypeOK, Vouched, [Next]_vars
               PROVE  GateSpec!Next \/ UNCHANGED GateSpec!vars
    OBVIOUS
  <1> USE DEF Goto, Idle
  <1>1. ASSUME NEW r \in Requests, NEW s \in Sessions, NEW k \in Attempts,
               LoginStart(r, s, k)
        PROVE  GateSpec!Next \/ UNCHANGED GateSpec!vars
    <2>1. Serving' = Serving
      BY <1>1, Quiet DEF LoginStart, Enter, TypeOK
    <2> QED
      BY <1>1, <2>1, Entering DEF LoginStart, GateSpec!Next
  <1>2. ASSUME NEW r \in Requests, Connect(r)
        PROVE  UNCHANGED GateSpec!vars
    <2>1. Serving' = Serving
      BY <1>2, Quiet DEF Connect, Answer, AnswerAs, TypeOK
    <2> QED
      BY <1>2, <2>1 DEF Connect, GateSpec!vars, history
  <1>3. ASSUME NEW r \in Requests, Probe(r)
        PROVE  GateSpec!Next \/ UNCHANGED GateSpec!vars
    <2>1. Serving' = Serving
      BY <1>3, Quiet DEF Probe, Answer, AnswerAs, TypeOK
    <2>2. client[r] \in BobClient
      BY <1>3 DEF Probe, TypeOK, LoginSteps
    <2>3. UNCHANGED presented
      BY <1>3 DEF Probe
    <2>4. UNCHANGED granted \/ granted' = granted \cup {client[r]}
      BY <1>3 DEF Probe
    <2>5. UNCHANGED GateSpec!vars \/ GateSpec!Grant(client[r])
      BY <2>1, <2>3, <2>4 DEF GateSpec!vars, GateSpec!Grant
    <2> QED
      BY <2>2, <2>5, GateNames DEF GateSpec!Next
  <1>4. ASSUME NEW r \in Requests, Bind(r)
        PROVE  GateSpec!Next \/ UNCHANGED GateSpec!vars
    <2>1. Serving' = Serving
      BY <1>4, Quiet DEF Bind, Answer, AnswerAs, TypeOK
    <2>2. client[r] \in BobClient /\ handle[r] \in Sessions
      BY <1>4 DEF Bind, TypeOK, LoginSteps
    <2>3. CASE UNCHANGED presented
      BY <1>4, <2>1, <2>3 DEF Bind, GateSpec!vars
    <2>4. CASE presented' =
                 [presented EXCEPT ![handle[r]] = @ \cup {BindingOf(client[r])}]
      <3>1. GateSpec!Present(handle[r], client[r])
        BY <1>4, <2>1, <2>4, GateNames
           DEF Bind, Vouched, LoginVouched, GateSpec!Present
      <3> QED
        BY <2>2, <3>1, GateNames DEF GateSpec!Next
    <2> QED
      BY <1>4, <2>3, <2>4 DEF Bind
  <1>5. ASSUME NEW r \in Requests, Insert(r)
        PROVE  UNCHANGED GateSpec!vars
    <2>1. Serving' = Serving
      BY <1>5, Quiet DEF Insert, Answer, AnswerAs, TypeOK
    <2> QED
      BY <1>5, <2>1 DEF Insert, GateSpec!vars, history
  <1>6. ASSUME NEW r \in Requests, NEW s \in Sessions, ApiStart(r, s)
        PROVE  GateSpec!Next \/ UNCHANGED GateSpec!vars
    <2>1. Serving' = Serving
      BY <1>6, Quiet DEF ApiStart, Enter, TypeOK
    <2> QED
      BY <1>6, <2>1, Entering DEF ApiStart, GateSpec!Next
  <1>7. ASSUME NEW r \in Requests, LoadUser(r)
        PROVE  GateSpec!Next \/ UNCHANGED GateSpec!vars
    <2>1. CASE Recognises(seen[r])
      <3> DEFINE s == handle[r]
                 k == store[seen[r].user]
      <3>1. seen[r] \in Binding /\ s \in Sessions
        BY <1>7, <2>1 DEF LoadUser, Recognises, TypeOK
      <3>2. k \in BobClient /\ k \in granted /\ BindingOf(k) \in presented[s]
        BY <1>7, <2>1, <3>1
           DEF LoadUser, Recognises, TypeOK, Binding, Vouched, StoreVouched,
               SessionVouched
      <3>3. \A t \in Serving : t[1] # r
        BY <1>7 DEF LoadUser, Serving
      <3>4. Serving' = Serving \cup {<<r, s, k>>}
        BY <1>7, <2>1 DEF LoadUser, Serving, TypeOK
      <3>5. GateSpec!Serve(r, s, k)
        BY <1>7, <3>2, <3>3, <3>4, GateNames
           DEF LoadUser, GateSpec!Serve, history
      <3> QED
        BY <3>1, <3>2, <3>5, GateNames DEF GateSpec!Next
    <2>2. CASE ~Recognises(seen[r])
      <3>1. Serving' = Serving
        BY <1>7, <2>2, Quiet DEF LoadUser, Answer, AnswerAs, TypeOK
      <3> QED
        BY <1>7, <3>1 DEF LoadUser, GateSpec!vars, history
    <2> QED
      BY <2>1, <2>2
  <1>8. ASSUME NEW r \in Requests, ServeDone(r)
        PROVE  GateSpec!Next
    <2>1. GateSpec!Leave(<<r, handle[r], client[r]>>)
      BY <1>8, Leaving DEF ServeDone, Answer, AnswerAs, TypeOK
    <2>2. <<r, handle[r], client[r]>> \in Serving
      BY <1>8 DEF ServeDone, Serving
    <2> QED
      BY <2>1, <2>2 DEF GateSpec!Next
  <1>9. ASSUME NEW r \in Requests, NEW s \in Sessions, LogoutStart(r, s)
        PROVE  GateSpec!Next \/ UNCHANGED GateSpec!vars
    <2>1. Serving' = Serving
      BY <1>9, Quiet DEF LogoutStart, Enter, TypeOK
    <2> QED
      BY <1>9, <2>1, Entering DEF LogoutStart, GateSpec!Next
  <1>10. ASSUME NEW r \in Requests, Logout(r)
         PROVE  UNCHANGED GateSpec!vars
    <2>1. Serving' = Serving
      BY <1>10, Quiet DEF Logout, AnswerAs, TypeOK
    <2> QED
      BY <1>10, <2>1 DEF Logout, GateSpec!vars, history
  <1>11. ASSUME NEW r \in Requests, Finish(r)
         PROVE  UNCHANGED GateSpec!vars
    <2>1. Serving' = Serving
      BY <1>11, Quiet DEF Finish, TypeOK
    <2> QED
      BY <1>11, <2>1 DEF Finish, GateSpec!vars, history
  <1>12. ASSUME NEW r \in Requests, Save(r)
         PROVE  UNCHANGED GateSpec!vars
    <2>1. Serving' = Serving
      BY <1>12, Quiet DEF Save, Release, TypeOK
    <2> QED
      BY <1>12, <2>1 DEF Save, GateSpec!vars, history
  <1>13. ASSUME NEW r \in Requests, Remove(r)
         PROVE  UNCHANGED GateSpec!vars
    <2>1. Serving' = Serving
      BY <1>13, Quiet DEF Remove, Release, TypeOK
    <2> QED
      BY <1>13, <2>1 DEF Remove, GateSpec!vars, history
  <1>14. ASSUME NEW r \in Requests, Cancel(r)
         PROVE  GateSpec!Next \/ UNCHANGED GateSpec!vars
    <2>1. CASE pc[r] = "serving"
      <3>1. GateSpec!Leave(<<r, handle[r], client[r]>>)
        BY <1>14, <2>1, Leaving DEF Cancel, Release, TypeOK
      <3>2. <<r, handle[r], client[r]>> \in Serving
        BY <2>1 DEF Serving
      <3> QED
        BY <3>1, <3>2 DEF GateSpec!Next
    <2>2. CASE pc[r] # "serving"
      <3>1. Serving' = Serving
        BY <1>14, <2>2, Quiet DEF Cancel, Release, TypeOK
      <3> QED
        BY <1>14, <3>1 DEF Cancel, GateSpec!vars, history
    <2> QED
      BY <2>1, <2>2
  <1>15. CASE Restart
    <2>1. Serving' = {}
      BY <1>15 DEF Restart, Serving
    <2> QED
      BY <1>15, <2>1 DEF Restart, GateSpec!Restart, GateSpec!Next
  <1>16. CASE UNCHANGED vars
    BY <1>16 DEF vars, GateSpec!vars, Serving
  <1> QED
    BY <1>1, <1>2, <1>3, <1>4, <1>5, <1>6, <1>7, <1>8, <1>9, <1>10, <1>11,
       <1>12, <1>13, <1>14, <1>15, <1>16 DEF Next, Step

\* The refinement, for every number of sessions, requests and clusters: Auth
\* keeps the promise that Gate states.
THEOREM AuthImplementsGate == Spec => ImplementsGate
  BY TypeInit, TypeNext, VouchedInit, VouchedNext, GateInit, GateNext, PTL
     DEF Spec, GateSpec!Spec, ImplementsGate

-----------------------------------------------------------------------------
(* What can end a session's authorisation *)

\* Steps that write neither the store, nor a session, nor the session store.
LEMMA Untouched ==
    ASSUME NEW s \in Sessions, UNCHANGED <<store, session, live>>
    PROVE  Authorised(s)' = Authorised(s)
  BY DEF Authorised, Recognises

\* A request that enters renews only a session that is not stored.
LEMMA EnteringIsolated ==
    ASSUME TypeOK, NEW s \in Sessions, NEW r \in Requests,
           NEW t \in Sessions, Enter(r, t), Authorised(s)
    PROVE  Authorised(s)'
  BY DEF TypeOK, Enter, Resume, Open, sessionVars, Authorised, Recognises

\* Isolation of sessions that share the store of clients: the theorem names
\* every step that may take a session's authorisation away.
THEOREM SessionsIsolated == Spec => Isolation
  <1> DEFINE Ended(s) == OwnLogin(s) \/ s \in destroyed \/ Displaced(s) \/ Restart
  <1>1. ASSUME TypeOK, LogoutInv, Next, NEW s \in Sessions,
               Authorised(s), ~Authorised(s)'
        PROVE  Ended(s)
    <2> USE DEF Goto
    <2>1. ASSUME NEW r \in Requests, NEW t \in Sessions, NEW k \in Attempts,
                 LoginStart(r, t, k)
          PROVE  FALSE
      BY <1>1, <2>1, EnteringIsolated DEF LoginStart
    <2>2. ASSUME NEW r \in Requests,
                 Connect(r) \/ Probe(r) \/ LoadUser(r) \/ ServeDone(r)
                 \/ Logout(r) \/ Finish(r) \/ Cancel(r)
          PROVE  FALSE
      <3>1. UNCHANGED <<store, session, live>>
        BY <2>2 DEF Connect, Probe, LoadUser, ServeDone, Logout, Finish,
                    Cancel, sessionVars
      <3> QED
        BY <1>1, <3>1, Untouched
    <2>3. ASSUME NEW r \in Requests, Bind(r) PROVE OwnLogin(s)
      <3>1. CASE UNCHANGED session
        BY <1>1, <2>3, <3>1, Untouched DEF Bind
      <3>2. CASE ~UNCHANGED session
        <4>1. /\ session' = [session EXCEPT ![handle[r]] = BindingOf(client[r])]
              /\ pc[r] = "binding" /\ pc'[r] = "storing"
          BY <1>1, <2>3, <3>2 DEF Bind, TypeOK
        <4>2. CASE handle[r] = s
          BY <4>1, <4>2 DEF OwnLogin
        <4>3. CASE handle[r] # s
          BY <1>1, <2>3, <4>1, <4>3 DEF Bind, TypeOK, Authorised, Recognises
        <4> QED
          BY <4>2, <4>3
      <3> QED
        BY <3>1, <3>2
    <2>4. ASSUME NEW r \in Requests, Insert(r) PROVE Displaced(s)
      <3>1. /\ pc[r] = "storing" /\ pc'[r] = "answering"
            /\ client[r] \in BobClient /\ session[s] \in Binding
        BY <1>1, <2>4
           DEF Insert, Answer, AnswerAs, TypeOK, LoginSteps, Authorised, Recognises
      <3>2. client[r].host = session[s].user
        BY <1>1, <2>4, <3>1, BindingType
           DEF Insert, TypeOK, Authorised, Recognises, sessionVars
      <3>3. store'[session[s].user] = client[r]
        BY <1>1, <2>4, <3>1, <3>2, BindingType DEF Insert, TypeOK
      <3>4. BindingOf(client[r]) # session[s]
        BY <1>1, <2>4, <3>1, <3>3, AuthAssumption
           DEF Insert, Authorised, Recognises, sessionVars
      <3>5. PasswordHash(client[r]) # session[s].auth
        BY <3>1, <3>2, <3>4 DEF Binding, BindingOf
      <3> QED
        BY <3>1, <3>2, <3>5 DEF Displaced
    <2>5. ASSUME NEW r \in Requests, NEW t \in Sessions,
                 ApiStart(r, t) \/ LogoutStart(r, t)
          PROVE  FALSE
      BY <1>1, <2>5, EnteringIsolated DEF ApiStart, LogoutStart
    <2>6. ASSUME NEW r \in Requests, Save(r) PROVE FALSE
      BY <1>1, <2>6 DEF Save, Authorised, Recognises
    <2>7. ASSUME NEW r \in Requests, Remove(r) PROVE s \in destroyed
      BY <1>1, <2>7 DEF Remove, LogoutInv, Authorised, Recognises
    <2> QED
      BY <1>1, <2>1, <2>2, <2>3, <2>4, <2>5, <2>6, <2>7 DEF Next, Step
  <1>2. TypeOK /\ LogoutInv /\ [Next]_vars =>
          [\A s \in Sessions : Authorised(s) /\ ~Authorised(s)' => Ended(s)]_vars
    BY <1>1
  <1> QED
    BY <1>2, TypeInit, TypeNext, LogoutInit, LogoutNext, PTL DEF Spec, Isolation

\* login leaves a session without a client to load only when a disconnect
\* strikes between its two writes.
THEOREM LoginAtomicButDisconnect == Spec => TornOnlyByDisconnect
  <1> DEFINE Torn == \E r \in Requests : pc[r] = "storing" /\ Cancel(r)
  <1>1. ASSUME TypeOK, Next, NEW s \in Sessions, ~Dangling(s), Dangling(s)'
        PROVE  Torn
    <2> USE DEF Goto
    <2>1. /\ session'[s] # Unbound
          /\ store'[session'[s].user] = NoClient
          /\ \A r \in Requests :
               ~(pc'[r] = "storing" /\ client'[r].host = session'[s].user)
      BY <1>1 DEF Dangling
    <2>2. ASSUME NEW r \in Requests, NEW t \in Sessions, Enter(r, t),
                 pc'[r] # "storing", pc[r] # "storing",
                 \A q \in Requests \ {r} :
                    pc'[q] = pc[q] /\ client'[q] = client[q]
          PROVE  FALSE
      BY <1>1, <2>1, <2>2
         DEF TypeOK, Enter, Resume, Open, sessionVars, Dangling
    <2>3. ASSUME NEW r \in Requests, NEW t \in Sessions, NEW k \in Attempts,
                 LoginStart(r, t, k)
          PROVE  FALSE
      <3>1. /\ pc'[r] # "storing" /\ pc[r] # "storing" /\ Enter(r, t)
            /\ \A q \in Requests \ {r} :
                  pc'[q] = pc[q] /\ client'[q] = client[q]
        BY <1>1, <2>3 DEF LoginStart, Enter, TypeOK, Idle
      <3> QED
        BY <2>2, <3>1
    <2>4. ASSUME NEW r \in Requests, NEW t \in Sessions,
                 ApiStart(r, t) \/ LogoutStart(r, t)
          PROVE  FALSE
      <3>1. /\ pc'[r] # "storing" /\ pc[r] # "storing" /\ Enter(r, t)
            /\ \A q \in Requests \ {r} :
                  pc'[q] = pc[q] /\ client'[q] = client[q]
        BY <1>1, <2>4 DEF ApiStart, LogoutStart, Enter, TypeOK, Idle
      <3> QED
        BY <2>2, <3>1
    <2>5. ASSUME NEW r \in Requests, UNCHANGED <<store, session>>,
                 pc[r] # "storing",
                 \A q \in Requests \ {r} :
                    pc'[q] = pc[q] /\ client'[q] = client[q]
          PROVE  FALSE
      BY <1>1, <2>1, <2>5 DEF Dangling
    <2>6. ASSUME NEW r \in Requests,
                 Connect(r) \/ Probe(r) \/ LoadUser(r) \/ ServeDone(r)
                 \/ Logout(r) \/ Finish(r) \/ Save(r) \/ Remove(r)
          PROVE  FALSE
      <3>1. /\ UNCHANGED <<store, session>> /\ pc[r] # "storing"
            /\ \A q \in Requests \ {r} :
                  pc'[q] = pc[q] /\ client'[q] = client[q]
        BY <1>1, <2>6
           DEF TypeOK, Connect, Probe, LoadUser, ServeDone, Logout, Finish,
               Save, Remove, Answer, AnswerAs, Release, sessionVars
      <3> QED
        BY <2>5, <3>1
    <2>7. ASSUME NEW r \in Requests, Bind(r) PROVE FALSE
      <3>1. CASE Answer(r) /\ UNCHANGED <<session, presented>>
        <4>1. /\ UNCHANGED <<store, session>> /\ pc[r] # "storing"
              /\ \A q \in Requests \ {r} :
                    pc'[q] = pc[q] /\ client'[q] = client[q]
          BY <1>1, <2>7, <3>1 DEF Bind, Answer, AnswerAs, TypeOK
        <4> QED
          BY <2>5, <4>1
      <3>2. CASE ~(Answer(r) /\ UNCHANGED <<session, presented>>)
        <4>1. /\ session' = [session EXCEPT ![handle[r]] = BindingOf(client[r])]
              /\ client'[r] = client[r] /\ client[r] \in BobClient
              /\ pc' = [pc EXCEPT ![r] = "storing"] /\ pc'[r] = "storing"
              /\ UNCHANGED <<store, client>>
          BY <1>1, <2>7, <3>2 DEF Bind, TypeOK, LoginSteps
        <4>2. CASE handle[r] = s
          <5>1. session'[s].user = client[r].host
            BY <1>1, <4>1, <4>2, BindingType DEF TypeOK
          <5> QED
            BY <2>1, <4>1, <5>1
        <4>3. CASE handle[r] # s
          <5>1. session'[s] = session[s]
            BY <4>1, <4>3 DEF TypeOK
          <5>2. \A q \in Requests : pc[q] = "storing" => pc'[q] = "storing"
            BY <1>1, <4>1 DEF TypeOK
          <5>3. \A q \in Requests :
                  ~(pc[q] = "storing" /\ client[q].host = session[s].user)
            BY <2>1, <4>1, <5>1, <5>2
          <5>4. session[s] # Unbound /\ store[session[s].user] = NoClient
            BY <2>1, <4>1, <5>1
          <5> QED
            BY <1>1, <5>3, <5>4 DEF Dangling
        <4> QED
          BY <4>2, <4>3
      <3> QED
        BY <3>1, <3>2
    <2>8. ASSUME NEW r \in Requests, Insert(r) PROVE FALSE
      <3>1. /\ client[r] \in BobClient /\ client[r] # NoClient
            /\ UNCHANGED session
        BY <1>1, <2>8, AuthAssumption
           DEF Insert, TypeOK, LoginSteps, sessionVars
      <3>2. client[r].host \in Hosts
        BY <3>1, BindingType
      <3>3. client[r].host # session[s].user
        BY <1>1, <2>1, <2>8, <3>1, <3>2 DEF Insert, TypeOK
      <3>4. store'[session[s].user] = store[session[s].user]
        BY <1>1, <2>1, <2>8, <3>1, <3>3 DEF Insert, TypeOK, Binding
      <3>5. \A q \in Requests \ {r} :
              pc'[q] = pc[q] /\ client'[q] = client[q]
        BY <1>1, <2>8 DEF Insert, Answer, AnswerAs, TypeOK
      <3> QED
        BY <1>1, <2>1, <3>1, <3>3, <3>4, <3>5 DEF Dangling
    <2>9. ASSUME NEW r \in Requests, Cancel(r) PROVE Torn
      <3>1. /\ UNCHANGED <<store, session>>
            /\ \A q \in Requests \ {r} :
                  pc'[q] = pc[q] /\ client'[q] = client[q]
        BY <1>1, <2>9 DEF Cancel, Release, TypeOK, sessionVars
      <3> QED
        BY <2>5, <2>9, <3>1
    <2>10. CASE Restart
      BY <2>1, <2>10 DEF Restart
    <2> QED
      BY <1>1, <2>3, <2>4, <2>6, <2>7, <2>8, <2>9, <2>10 DEF Next, Step
  <1>2. TypeOK /\ [Next]_vars =>
          [\A s \in Sessions : ~Dangling(s) /\ Dangling(s)' => Torn]_vars
    BY <1>1
  <1> QED
    BY <1>2, TypeInit, TypeNext, PTL DEF Spec, TornOnlyByDisconnect

=============================================================================
