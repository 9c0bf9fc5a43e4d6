\* One cluster with two users, two sessions, two concurrent requests.
CONSTANTS
    h1 = h1
    u1 = u1
    empty = empty
    p1 = p1
    Attempts <- TwoUsers
    Hosts = {h1}
    Logins = {u1}
    Passwords = {empty, p1}
    EmptyPassword = empty
    Anonymous = Anonymous
    Sessions = {s1, s2}
    Requests = {r1, r2}
    NoSession = NoSession
    NoClient = NoClient
    Unbound = Unbound
SPECIFICATION Spec
SYMMETRY Symmetry
INVARIANTS TypeOK Vouched LoggedOutStaysOut
PROPERTIES Isolation TornOnlyByDisconnect ImplementsGate
