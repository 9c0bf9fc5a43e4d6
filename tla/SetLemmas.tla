----------------------------- MODULE SetLemmas -----------------------------
(***************************************************************************)
(* Induction over finite sets, in the two forms in which several proofs    *)
(* need it: a smallest one among sets, and a least one among numbers.      *)
(***************************************************************************)
EXTENDS Integers, FiniteSetTheorems, TLAPS

\* Of some subsets of a finite set, one contains no other: what is to be shown
\* of every subset need only be shown of one for which it holds of all smaller.
LEMMA SmallestSet ==
    ASSUME NEW S, IsFiniteSet(S), NEW sets, sets \subseteq SUBSET S, sets # {}
    PROVE  \E T \in sets : \A U \in sets : U \subseteq T => U = T
  <1>1. sets \subseteq FiniteSubsetsOf(S)
    BY FS_FiniteSubsetsOfFinite
  <1>2. PICK T \in sets : \A U \in sets : <<U, T>> \notin StrictSubsetOrdering(S)
    BY <1>1, FS_StrictSubsetOrderingWellFounded, WFMin
  <1>3. ASSUME NEW U \in sets, U \subseteq T, U # T PROVE FALSE
    BY <1>2, <1>3 DEF StrictSubsetOrdering
  <1> QED
    BY <1>3

\* A set of naturals has a least one: the shortest of the intervals 0 .. m to
\* its members.
LEMMA LeastOf ==
    ASSUME NEW T, T \subseteq Nat, T # {}
    PROVE  \E m \in T : \A y \in T : m <= y
  <1>1. PICK t \in T : TRUE
    OBVIOUS
  <1> DEFINE upTo(m) == 0 .. m
             shorter == {upTo(m) : m \in T \cap upTo(t)}
  <1>2. IsFiniteSet(upTo(t))
    BY <1>1, FS_Interval
  <1>3. shorter \subseteq SUBSET upTo(t)
    BY <1>1
  <1>4. shorter # {}
    <2>1. t \in T \cap upTo(t)
      BY <1>1
    <2> QED
      BY <2>1
  <1> HIDE DEF shorter
  <1>5. PICK X \in shorter : \A Y \in shorter : Y \subseteq X => Y = X
    <2> HIDE DEF upTo
    <2> QED
      BY <1>2, <1>3, <1>4, SmallestSet
  <1>6. PICK m \in T \cap upTo(t) : X = upTo(m)
    BY <1>5 DEF shorter
  <1>7. ASSUME NEW y \in T, ~(m <= y) PROVE FALSE
    <2>1. y < m /\ y \in upTo(t)
      BY <1>1, <1>6, <1>7
    <2>2. upTo(y) \in shorter
      BY <2>1 DEF shorter
    <2>3. upTo(y) \subseteq upTo(m) /\ upTo(y) # upTo(m)
      <3>1. m \in upTo(m) /\ m \notin upTo(y)
        BY <1>1, <1>6, <2>1
      <3> QED
        BY <3>1, <1>1, <1>6, <2>1
    <2> HIDE DEF upTo
    <2> QED
      BY <2>2, <2>3, <1>5, <1>6
  <1> QED
    BY <1>6, <1>7

=============================================================================
