------------------------------- MODULE MCAuth -------------------------------
(* A small instance of Auth for TLC. *)
EXTENDS Auth, TLC

CONSTANTS h1, u1, empty, p1

Anon(h) == [host |-> h, cred |-> Anonymous]
As(h, p) == [host |-> h, cred |-> [login |-> u1, password |-> p]]

\* Two users of one cluster, told apart by their passwords.
TwoUsers == {Anon(h1), As(h1, p1)}

Symmetry == Permutations(Sessions) \cup Permutations(Requests)
=============================================================================
