---------------------------- MODULE ApiCallProofs ----------------------------
(***************************************************************************)
(* Proofs about ApiCall: for every timeout and every set of status codes.  *)
(***************************************************************************)
EXTENDS ApiCall, TLAPS

\* The possible results of a call.
Results == {"none", "data", "denied", "notFound", "notAcceptable", "error"}

\* Whatever Bob answers, its code and body lead to a result.
LEMMA DecodeType ==
    ASSUME NEW e \in Endpoints, NEW c, NEW b
    PROVE  Variant(e, c) \in Results \ {"none"} /\ Decode(e, c, b) \in Results
  BY DEF Variant, Decode, Results

\* A body that has not ended is a body.
LEMMA NoBody == "cut" \in Bodies
  BY DEF Bodies, Unreadable

\* Every variable keeps its type; the clock stops at the model's horizon.
THEOREM CallTyped == Spec => []TypeOK
  <1> USE DEF TypeOK
  <1>1. Init => TypeOK
    BY TimeAssumption, NoBody DEF Init
  <1>2. TypeOK /\ [Next]_vars => TypeOK'
    <2> SUFFICES ASSUME TypeOK, [Next]_vars PROVE TypeOK'
      OBVIOUS
    <2>1. ASSUME NEW e \in Endpoints, Call(e) PROVE TypeOK'
      BY <2>1, TimeAssumption, NoBody DEF Call
    <2>2. CASE Head
      BY <2>2, DecodeType DEF Head, Done, Results
    <2>3. CASE ConnectionError \/ Expire
      BY <2>3 DEF ConnectionError, Expire, Done
    <2>4. CASE Body
      BY <2>4, DecodeType DEF Body, Done, Results
    <2>5. CASE BobSendsHead \/ BobEnds
      BY <2>5 DEF BobSendsHead, BobEnds
    <2>6. CASE Tick
      BY <2>6, TimeAssumption DEF Tick
    <2>7. CASE UNCHANGED vars
      BY <2>7 DEF vars
    <2> QED
      BY <2>1, <2>2, <2>3, <2>4, <2>5, <2>6, <2>7 DEF Next
  <1> QED
    BY <1>1, <1>2, PTL DEF Spec

\* The body is read only once the head is there, and only where the endpoint
\* has a body to read: what makes ResultIsBacked inductive.
BackedInv ==
    /\ ResultIsBacked
    /\ step = "reading" => wire # "nothing" /\ ReadsBody(endpoint, code)

\* What is read from a body with a required field is that body, or an empty list.
LEMMA DecodeBacked ==
    ASSUME NEW e \in Endpoints, NEW c, NEW b, Decode(e, c, b) # "error"
    PROVE  /\ Decode(e, c, b) = Variant(e, c)
           /\ b \notin Unreadable
           /\ ReadAs(Variant(e, c), e) \in Closed =>
                 b \in {ReadAs(Variant(e, c), e), "noItems"}
  <1> DEFINE type == ReadAs(Variant(e, c), e)
  <1>1. Decode(e, c, b) = Variant(e, c) /\ DecodesAs(type, b)
    BY DEF Decode
  <1>2. type \in {"Dir", "DiskStates", "MetricsSnapshotModel", "Nodes",
                 "Partition", "VDiskPartitions", "count", "Dirs", "SpaceInfo",
                 "Node", "VDisk", "VDisks", "VersionInfo",
                 "NodeConfiguration", "StatusExt"}
    BY DEF ReadAs, DataType, Endpoints, DenyWithBody, DenyBare, OnlyOk
  <1> HIDE DEF type
  <1>3. b \notin Unreadable /\ (type \in Closed => b \in {type, "noItems"})
    BY <1>1, <1>2
       DEF DecodesAs, Open, Closed, Objects, Lists, Unreadable
  <1> QED
    BY <1>1, <1>3 DEF type

\* Every step keeps a result backed: Bob's later sends only add to the wire.
LEMMA BackedNext == TypeOK /\ BackedInv /\ [Next]_vars => BackedInv'
  <1> SUFFICES ASSUME TypeOK, BackedInv, [Next]_vars PROVE BackedInv'
    OBVIOUS
  <1> USE DEF TypeOK, BackedInv, ResultIsBacked
  <1>1. ASSUME NEW e \in Endpoints, Call(e) PROVE BackedInv'
    BY <1>1 DEF Call
  <1>2. CASE Head
    BY <1>2 DEF Head, Done
  <1>3. CASE ConnectionError \/ Expire
    BY <1>3 DEF ConnectionError, Expire, Done
  <1>4. CASE Body
    BY <1>4, DecodeBacked DEF Body, Done
  <1>5. CASE BobSendsHead \/ BobEnds
    BY <1>5 DEF BobSendsHead, BobEnds
  <1>6. CASE Tick
    BY <1>6 DEF Tick
  <1>7. CASE UNCHANGED vars
    BY <1>7 DEF vars
  <1> QED
    BY <1>1, <1>2, <1>3, <1>4, <1>5, <1>6, <1>7 DEF Next

\* BackedInv is invariant.
LEMMA BackedAlways == Spec => []BackedInv
  <1>1. Init => BackedInv
    BY DEF Init, BackedInv, ResultIsBacked
  <1> QED
    BY <1>1, BackedNext, CallTyped, PTL DEF Spec

\* A typed result is never made of half a response, of another status code or
\* of a body without the fields its type requires, whenever the head, the end
\* of the body and the timeout happen.
THEOREM ResultsAreBacked == Spec => []ResultIsBacked
  <1>1. BackedInv => ResultIsBacked
    BY DEF BackedInv
  <1> QED
    BY <1>1, BackedAlways, PTL

\* A silent, slow or broken node is never mistaken for one that refuses, nor
\* for one that accepts.
THEOREM ForbiddenIsARefusal == Spec => []ForbiddenMeansRefused
  <1>1. TypeOK /\ BackedInv => ForbiddenMeansRefused
    <2> SUFFICES ASSUME TypeOK, BackedInv, step = "done",
                        StatusFor(result) \in {200, 403}
                 PROVE  /\ StatusFor(result) = 403 => code = 403 /\ wire # "nothing"
                        /\ StatusFor(result) = 200 => code = 200 /\ wire = "all"
      BY DEF ForbiddenMeansRefused
    <2>1. result \in {"data", "denied"}
      BY DEF StatusFor
    <2>2. result = Variant(endpoint, code) /\ wire # "nothing"
          /\ (ReadsBody(endpoint, code) => wire = "all")
      BY <2>1 DEF BackedInv, ResultIsBacked
    <2>3. result = "data" => code = 200
      BY <2>2 DEF Variant
    <2>4. result = "denied" => code = 403
      BY <2>2 DEF Variant
    <2> QED
      BY <2>1, <2>2, <2>3, <2>4 DEF StatusFor, ReadsBody
  <1> QED
    BY <1>1, BackedAlways, CallTyped, PTL

=============================================================================
