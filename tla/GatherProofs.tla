---------------------------- MODULE GatherProofs ----------------------------
(***************************************************************************)
(* Proofs about Gather: for every word size, cluster and set of node       *)
(* conditions.                                                             *)
(***************************************************************************)
EXTENDS Gather, SetLemmas, TLAPS

\* u64 addition stays in the word.
LEMMA PlusType ==
    ASSUME NEW a \in Word, NEW b \in Word
    PROVE  Plus(a, b) \in Word
  BY WordAssumption DEF Plus, Word

\* u64 subtraction stays in the word, also below zero.
LEMMA MinusType ==
    ASSUME NEW a \in Word, NEW b \in Word
    PROVE  Minus(a, b) \in Word
  BY WordAssumption DEF Minus, Word

\* Adding a node with free space y out of x keeps used and free in balance,
\* wherever the additions wrap.
LEMMA PlusBalance ==
    ASSUME NEW free \in Word, NEW used \in Word, NEW x \in Word, NEW y \in Word
    PROVE  Plus(Plus(free, used), x)
             = Plus(Plus(free, y), Plus(used, Minus(x, y)))
  BY WordAssumption DEF Plus, Minus, Word

-----------------------------------------------------------------------------
(* What one node adds *)

\* Every route starts from a well-formed total and makes one or two calls.
LEMMA RouteFields ==
    ASSUME NEW rt \in Routes
    PROVE  /\ Zero(rt) \in [Fields(rt) -> Word]
           /\ \A f : One(rt, f) \in [Fields(rt) -> Word]
           /\ Len(Calls(rt)) \in 1 .. 2
           /\ \A i \in 1 .. Len(Calls(rt)) :
                Calls(rt)[i] \in {"metrics", "disks", "space"}
  BY WordAssumption DEF Routes, Fields, Zero, One, Calls, Word

\* A node counts once, as good, bad or offline.
LEMMA NodeShareIsOne ==
    ASSUME NEW m
    PROVE  \E f \in {"good", "bad", "offline"} :
             NodeShare(m) = One("/nodes/count", f)
  BY DEF NodeShare

\* What a node adds to a route's total has that route's fields.
LEMMA ShareType ==
    ASSUME NEW rt \in Routes, NEW ans,
           \A i \in 1 .. Len(Calls(rt)) : ans[i] \in Results(Calls(rt)[i])
    PROVE  Share(rt, ans) \in [Fields(rt) -> Word]
  <1>1. CASE rt = "/nodes/count"
    <2>1. PICK f : NodeShare(ans[1]) = One("/nodes/count", f)
      BY NodeShareIsOne
    <2> QED
      BY <1>1, <2>1, RouteFields DEF Share
  <1>2. CASE rt = "/disks/count"
    <2> DEFINE disks == ans[1]
               space == ans[2]
               Counted(f) == {i \in FirstOfName(disks) :
                                /\ disks[i].is_active
                                /\ DiskStatusOf(disks[i], space) = f}
    <2>1. disks \in Results("disks")
      BY <1>2 DEF Calls
    <2>2. CASE space # Failed /\ disks \notin {Failed, Denied}
      <3>1. IsFiniteSet(DOMAIN disks) /\ Cardinality(DOMAIN disks) <= MaxWord
        BY <2>1, <2>2, GatherAssumption DEF Results
      <3>2. ASSUME NEW f PROVE Cardinality(Counted(f)) \in Word
        <4>1. Counted(f) \subseteq DOMAIN disks
          BY DEF FirstOfName
        <4>2. /\ IsFiniteSet(Counted(f))
              /\ Cardinality(Counted(f)) <= Cardinality(DOMAIN disks)
          BY <3>1, <4>1, FS_Subset
        <4>3. /\ Cardinality(Counted(f)) \in Nat
              /\ Cardinality(DOMAIN disks) \in Nat
          BY <3>1, <4>2, FS_CardinalityType
        <4> QED
          BY <3>1, <4>2, <4>3, WordAssumption DEF Word
      <3>3. DiskShare(disks, space)
              = [f \in Fields("/disks/count") |-> Cardinality(Counted(f))]
        BY <2>2 DEF DiskShare
      <3> QED
        BY <1>2, <3>2, <3>3 DEF Share
    <2>3. CASE space = Failed \/ disks \in {Failed, Denied}
      BY <1>2, <2>3, RouteFields DEF Share, DiskShare
    <2> QED
      BY <2>2, <2>3
  <1>3. CASE rt = "/nodes/rps"
    <2>1. ans[1] \in Results("metrics")
      BY <1>3 DEF Calls
    <2>2. CASE ans[1] = Failed
      BY <1>3, <2>2, RouteFields DEF Share, RpsShare
    <2>3. CASE ans[1] # Failed
      <3>1. IsSnapshot(ans[1])
        BY <2>1, <2>3, GatherAssumption DEF Results
      <3>2. \A f \in Rates : Typed(ans[1])[f] \in Word
        BY <3>1, WordAssumption DEF Typed, IsSnapshot, MetricKeys, Word
      <3> QED
        BY <1>3, <2>3, <3>2 DEF Share, RpsShare, Fields
    <2> QED
      BY <2>2, <2>3
  <1>4. CASE rt = "/nodes/space"
    <2>1. ans[1] \in Results("space")
      BY <1>4 DEF Calls
    <2>2. CASE ans[1] = Failed
      BY <1>4, <2>2, RouteFields DEF Share, SpaceShare
    <2>3. CASE ans[1] # Failed
      <3>1. /\ ans[1].total \in Word
            /\ ans[1].free \in Word
            /\ ans[1].occupied \in Word
        BY <2>1, <2>3, GatherAssumption DEF Results
      <3> QED
        BY <1>4, <2>3, <3>1, MinusType DEF Share, SpaceShare, Fields
    <2> QED
      BY <2>2, <2>3
  <1> QED
    BY <1>1, <1>2, <1>3, <1>4 DEF Routes

\* Adding a share keeps a total well-formed.
LEMMA AddType ==
    ASSUME NEW rt \in Routes, NEW x \in [Fields(rt) -> Word],
           NEW y \in [Fields(rt) -> Word]
    PROVE  Add(x, y) \in [Fields(rt) -> Word]
  BY PlusType DEF Add

-----------------------------------------------------------------------------
(* Type correctness *)

\* The initial totals are well-formed.
LEMMA TypeInit == Init => TypeOK
  BY RouteFields, FS_EmptySet
     DEF Init, TypeOK, AnswersOK, Finished

\* The next call of a task gives an answer of the kind the route expects.
LEMMA CallType ==
    ASSUME TypeOK, NEW n \in Nodes, Call(n)
    PROVE  TypeOK'
  <1> DEFINE i == Len(answers[n]) + 1
             answer == cond[n][Calls(route)[i]]
  <1>1. /\ i \in 1 .. Len(Calls(route))
        /\ Calls(route)[i] \in {"metrics", "disks", "space"}
    BY RouteFields DEF TypeOK, Call, Finished
  <1>2. answer \in Results(Calls(route)[i]) /\ answer \in AllResults
    BY <1>1 DEF TypeOK, Results, AllResults
  <1>3. answers' = [answers EXCEPT ![n] = Append(answers[n], answer)]
    BY DEF Call
  <1> HIDE DEF answer
  <1>4. answers[n] \in Seq(AllResults)
    BY DEF TypeOK
  <1>5. /\ answers'[n] = Append(answers[n], answer)
        /\ \A m \in Nodes \ {n} : answers'[m] = answers[m]
        /\ answers' \in [Nodes -> Seq(AllResults)]
    BY <1>2, <1>3, <1>4 DEF TypeOK
  <1>6. Len(answers'[n]) = i /\ answers'[n][i] = answer
    BY <1>2, <1>4, <1>5
  <1>7. \A j \in 1 .. Len(answers[n]) : answers'[n][j] = answers[n][j]
    BY <1>2, <1>4, <1>5
  <1>8. AnswersOK'
    <2> SUFFICES ASSUME NEW m \in Nodes, NEW j \in 1 .. Len(answers'[m])
                 PROVE  answers'[m][j] \in Results(Calls(route)[j])
      BY DEF Call, AnswersOK, Results
    <2>1. CASE m # n
      BY <1>5, <2>1 DEF TypeOK, AnswersOK
    <2>2. CASE m = n /\ j = i
      BY <1>2, <1>6, <2>2
    <2>3. CASE m = n /\ j # i
      BY <1>4, <1>6, <1>7, <2>3 DEF TypeOK, AnswersOK
    <2> QED
      BY <2>1, <2>2, <2>3
  <1>9. \A m \in consumed : Finished(m)'
    BY <1>5 DEF TypeOK, Call, Finished
  <1>10. \A m \in Nodes : Len(answers'[m]) <= Len(Calls(route))
    <2>1. Len(answers'[n]) <= Len(Calls(route))
      BY <1>1, <1>6 DEF TypeOK
    <2>2. ASSUME NEW m \in Nodes \ {n}
          PROVE  Len(answers'[m]) <= Len(Calls(route))
      <3>1. answers'[m] = answers[m]
        BY <1>5
      <3> QED
        BY <3>1 DEF TypeOK
    <2> QED
      BY <2>1, <2>2
  <1> QED
    BY <1>5, <1>8, <1>9, <1>10 DEF TypeOK, Call

\* Every step keeps totals, answers and consumed tasks well-formed.
LEMMA TypeNext ==
    TypeOK /\ [Next]_vars => TypeOK'
  <1> SUFFICES ASSUME TypeOK, [Next]_vars PROVE TypeOK'
    OBVIOUS
  <1>1. ASSUME NEW n \in Nodes, Change(n) PROVE TypeOK'
    BY <1>1 DEF TypeOK, AnswersOK, Change, Finished
  <1>2. ASSUME NEW n \in Nodes, Call(n) PROVE TypeOK'
    BY <1>2, CallType
  <1>3. ASSUME NEW n \in Nodes, Consume(n) PROVE TypeOK'
    <2>1. Share(route, answers[n]) \in [Fields(route) -> Word]
      <3>1. \A i \in 1 .. Len(Calls(route)) :
               answers[n][i] \in Results(Calls(route)[i])
        BY <1>3 DEF Consume, Finished, TypeOK, AnswersOK
      <3> QED
        BY <3>1, ShareType DEF TypeOK
    <2>2. sum' \in [Fields(route) -> Word]
      BY <1>3, <2>1, AddType DEF Consume, TypeOK
    <2> QED
      BY <1>3, <2>2 DEF TypeOK, AnswersOK, Consume, Finished
  <1>4. ASSUME NEW rt \in Routes, Start(rt) PROVE TypeOK'
    <2>1. Len(Calls(rt)) \in Nat /\ Len(Calls(rt)) >= 0
      BY RouteFields
    <2> QED
      BY <1>4, <2>1, RouteFields DEF TypeOK, AnswersOK, Start, Finished
  <1>5. CASE Reply
    BY <1>5 DEF TypeOK, AnswersOK, Reply, Finished
  <1>6. CASE Close \/ Disconnect
    <2>1. Drop
      BY <1>6 DEF Close, Disconnect
    <2>2. Len(Calls(route)) \in Nat /\ Len(Calls(route)) >= 0
      BY RouteFields DEF TypeOK
    <2>3. /\ cond' = cond /\ route' = route /\ phase' = "idle" /\ consumed' = {}
          /\ sum' = Zero(route)
          /\ answers' = [n \in Nodes |-> <<>>]
          /\ during' = [n \in Nodes |-> {}]
      BY <2>1 DEF Drop
    <2> QED
      BY <2>2, <2>3, RouteFields DEF TypeOK, AnswersOK, Finished
  <1>7. CASE UNCHANGED vars
    BY <1>7 DEF TypeOK, AnswersOK, vars, Finished
  <1> QED
    BY <1>1, <1>2, <1>3, <1>4, <1>5, <1>6, <1>7 DEF Next

\* Totals never leave the word and tasks are consumed only when complete.
THEOREM GatherTyped == Spec => []TypeOK
  BY TypeInit, TypeNext, PTL DEF Spec

-----------------------------------------------------------------------------
(* Every node is counted once *)

\* Tally is inductive on top of the types: a consumed task adds one to one
\* count, and the counts cannot wrap because the cluster fits in a word.
LEMMA TallyInit == Init => Tally
  BY FS_EmptySet DEF Init, Tally, Zero, Fields

\* Taking in a task keeps the tally; every other step leaves it alone.
LEMMA TallyNext ==
    TypeOK /\ Tally /\ [Next]_vars => Tally'
  <1> SUFFICES ASSUME TypeOK, Tally, [Next]_vars PROVE Tally'
    OBVIOUS
  <1>1. ASSUME NEW n \in Nodes, Consume(n), route = "/nodes/count"
        PROVE  Tally'
    <2>1. PICK f \in {"good", "bad", "offline"} :
            NodeShare(answers[n][1]) = One("/nodes/count", f)
      BY NodeShareIsOne
    <2>2. sum' = Add(sum, One("/nodes/count", f))
      BY <1>1, <2>1 DEF Consume, Share
    <2>3. /\ IsFiniteSet(consumed)
          /\ Cardinality(consumed \cup {n}) = Cardinality(consumed) + 1
          /\ Cardinality(consumed \cup {n}) <= MaxWord
      <3>1. IsFiniteSet(consumed)
        BY GatherAssumption, FS_Subset DEF TypeOK
      <3>2. Cardinality(consumed \cup {n}) = Cardinality(consumed) + 1
        BY <1>1, <3>1, FS_AddElement DEF Consume
      <3>3. Cardinality(consumed \cup {n}) <= Cardinality(Nodes)
        BY GatherAssumption, FS_Subset DEF TypeOK
      <3>4. /\ Cardinality(consumed \cup {n}) \in Nat
            /\ Cardinality(Nodes) \in Nat
        BY <3>1, GatherAssumption, FS_CardinalityType, FS_AddElement
      <3> QED
        BY <3>1, <3>2, <3>3, <3>4, GatherAssumption, WordAssumption
    <2>4. Cardinality(consumed) \in Nat
      BY <2>3, FS_CardinalityType
    <2>5. /\ sum \in [{"good", "bad", "offline"} -> Word]
          /\ sum["good"] + sum["bad"] + sum["offline"] = Cardinality(consumed)
      BY <1>1 DEF TypeOK, Tally, Fields
    <2>6. /\ sum'["good"] = Plus(sum["good"], IF f = "good" THEN 1 ELSE 0)
          /\ sum'["bad"] = Plus(sum["bad"], IF f = "bad" THEN 1 ELSE 0)
          /\ sum'["offline"] = Plus(sum["offline"], IF f = "offline" THEN 1 ELSE 0)
      BY <2>2, <2>5 DEF Add, One, Fields
    <2>7. sum'["good"] + sum'["bad"] + sum'["offline"]
            = Cardinality(consumed) + 1
      BY <2>3, <2>4, <2>5, <2>6, WordAssumption DEF Plus, Word
    <2> QED
      BY <1>1, <2>3, <2>7 DEF Consume, Tally
  <1>2. ASSUME NEW n \in Nodes, Consume(n), route # "/nodes/count"
        PROVE  Tally'
    BY <1>2 DEF Consume, Tally
  <1>3. ASSUME NEW n \in Nodes, Change(n) \/ Call(n) PROVE Tally'
    BY <1>3 DEF Change, Call, Tally
  <1>4. ASSUME NEW rt \in Routes, Start(rt) PROVE Tally'
    BY <1>4, FS_EmptySet DEF Start, Tally, Zero, Fields
  <1>5. CASE Reply \/ UNCHANGED vars
    BY <1>5 DEF Reply, vars, Tally
  <1>6. CASE Close \/ Disconnect
    <2>1. route' = route /\ consumed' = {} /\ sum' = Zero(route)
      BY <1>6 DEF Close, Disconnect, Drop
    <2> QED
      BY <2>1, FS_EmptySet DEF Tally, Zero, Fields
  <1> QED
    BY <1>1, <1>2, <1>3, <1>4, <1>5, <1>6 DEF Next

\* The counts of /nodes/count are those of the tasks taken in, at every moment
\* and for every cluster that fits in a word.
THEOREM NodesTallied == Spec => []Tally
  BY TypeInit, TypeNext, TallyInit, TallyNext, PTL DEF Spec

\* The handler answers only when its loop has run out of tasks.
DoneMeansAll == phase = "done" => consumed = Nodes

\* Only Reply sets phase to done, and it waits for every task.
LEMMA DoneNext == DoneMeansAll /\ [Next]_vars => DoneMeansAll'
  BY DEF DoneMeansAll, Next, Change, Start, Call, Consume, Reply, Close,
         Disconnect, Drop, vars

\* The answer of /nodes/count adds up to the number of nodes, always.
THEOREM ClusterCounted == Spec => []AllNodesCounted
  <1>1. Init => DoneMeansAll
    BY DEF Init, DoneMeansAll
  <1>2. Tally /\ DoneMeansAll => AllNodesCounted
    BY DEF Tally, DoneMeansAll, AllNodesCounted
  <1> QED
    BY <1>1, <1>2, DoneNext, NodesTallied, PTL DEF Spec

-----------------------------------------------------------------------------
(* Space stays in balance *)

\* Every share of /nodes/space is balanced, and adding keeps the balance.
LEMMA BalanceNext ==
    TypeOK /\ SpaceBalance /\ [Next]_vars => SpaceBalance'
  <1> SUFFICES ASSUME TypeOK, SpaceBalance, [Next]_vars PROVE SpaceBalance'
    OBVIOUS
  <1>1. ASSUME NEW n \in Nodes, Consume(n), route = "/nodes/space"
        PROVE  SpaceBalance'
    <2> DEFINE space == answers[n][1]
    <2>1. sum \in [{"total", "free", "used", "occupied"} -> Word]
      BY <1>1 DEF TypeOK, Fields
    <2>2. sum' = Add(sum, SpaceShare(space))
      BY <1>1 DEF Consume, Share
    <2>3. space \in Results("space")
      <3>1. Len(answers[n]) = 1 /\ Calls(route)[1] = "space"
        BY <1>1 DEF Consume, Finished, Calls
      <3>2. \A i \in 1 .. Len(answers[n]) :
              answers[n][i] \in Results(Calls(route)[i])
        BY DEF TypeOK, AnswersOK
      <3>3. 1 \in 1 .. Len(answers[n])
        BY <3>1
      <3>4. answers[n][1] \in Results(Calls(route)[1])
        BY <3>2, <3>3
      <3> QED
        BY <3>1, <3>4
    <2>4. CASE space = Failed
      BY <1>1, <2>1, <2>2, <2>4, WordAssumption
         DEF Add, SpaceShare, Zero, Fields, Plus, Word, SpaceBalance, Consume
    <2>5. CASE space # Failed
      <3>1. space.total \in Word /\ space.free \in Word
        BY <2>3, <2>5, GatherAssumption DEF Results
      <3>2. /\ sum'["total"] = Plus(sum["total"], space.total)
            /\ sum'["free"] = Plus(sum["free"], space.free)
            /\ sum'["used"] = Plus(sum["used"], Minus(space.total, space.free))
        BY <2>1, <2>2, <2>5 DEF Add, SpaceShare
      <3>3. sum["total"] = Plus(sum["free"], sum["used"])
        BY <1>1 DEF SpaceBalance
      <3> QED
        BY <1>1, <2>1, <3>1, <3>2, <3>3, PlusBalance DEF SpaceBalance, Consume
    <2> QED
      BY <2>4, <2>5
  <1>2. ASSUME NEW n \in Nodes, Consume(n), route # "/nodes/space"
        PROVE  SpaceBalance'
    BY <1>2 DEF Consume, SpaceBalance
  <1>3. ASSUME NEW n \in Nodes, Change(n) \/ Call(n) PROVE SpaceBalance'
    BY <1>3 DEF Change, Call, SpaceBalance
  <1>4. ASSUME NEW rt \in Routes, Start(rt) PROVE SpaceBalance'
    BY <1>4, WordAssumption DEF Start, SpaceBalance, Zero, Fields, Plus
  <1>5. CASE Reply \/ UNCHANGED vars
    BY <1>5 DEF Reply, vars, SpaceBalance
  <1>6. CASE Close \/ Disconnect
    <2>1. route' = route /\ sum' = Zero(route)
      BY <1>6 DEF Close, Disconnect, Drop
    <2> QED
      BY <2>1, WordAssumption DEF SpaceBalance, Zero, Fields, Plus
  <1> QED
    BY <1>1, <1>2, <1>3, <1>4, <1>5, <1>6 DEF Next

\* Used and free space make up the total in every answer of /nodes/space,
\* also when a sum or a difference wraps.
THEOREM SpaceBalanced == Spec => []SpaceBalance
  <1>1. Init => SpaceBalance
    BY WordAssumption DEF Init, SpaceBalance, Zero, Fields, Plus
  <1> QED
    BY <1>1, TypeInit, TypeNext, BalanceNext, PTL DEF Spec

-----------------------------------------------------------------------------
(* Sums *)

\* As many things as the numbers of some nodes come to.
Heap(number, S) == UNION {{n} \X (1 .. number[n]) : n \in S}

\* One more node brings as many more things as its number.
LEMMA HeapGrows ==
    ASSUME NEW S, NEW number, NEW n, n \notin S, number[n] \in Nat,
           IsFiniteSet(Heap(number, S))
    PROVE  /\ IsFiniteSet(Heap(number, S \cup {n}))
           /\ Cardinality(Heap(number, S \cup {n}))
                = Cardinality(Heap(number, S)) + number[n]
  <1> DEFINE own == {n} \X (1 .. number[n])
  <1>1. Heap(number, S \cup {n}) = Heap(number, S) \cup own
    BY DEF Heap
  <1>2. Heap(number, S) \cap own = {}
    BY DEF Heap
  <1>3. IsFiniteSet(own) /\ Cardinality(own) = number[n]
    <2>1. IsFiniteSet({n}) /\ Cardinality({n}) = 1
      BY FS_Singleton
    <2>2. IsFiniteSet(1 .. number[n]) /\ Cardinality(1 .. number[n]) = number[n]
      BY FS_Interval
    <2>3. IsFiniteSet(own) /\ Cardinality(own) = Cardinality({n}) * Cardinality(1 .. number[n])
      BY <2>1, <2>2, FS_Product
    <2> QED
      BY <2>1, <2>2, <2>3
  <1> HIDE DEF own
  <1>4. /\ IsFiniteSet(Heap(number, S) \cup own)
        /\ Cardinality(Heap(number, S) \cup own)
             = Cardinality(Heap(number, S)) + Cardinality(own) - Cardinality({})
    BY <1>2, <1>3, FS_Union
  <1>5. Cardinality(Heap(number, S)) \in Nat /\ Cardinality({}) = 0
    BY FS_CardinalityType, FS_EmptySet
  <1>6. Cardinality(Heap(number, S \cup {n})) = Cardinality(Heap(number, S)) + number[n]
    <2>1. Cardinality(Heap(number, S \cup {n})) = Cardinality(Heap(number, S)) + number[n] - 0
      BY <1>1, <1>3, <1>4, <1>5
    <2>2. \A k, l \in Nat : k + l - 0 = k + l
      OBVIOUS
    <2> QED
      BY <1>5, <2>1, <2>2
  <1> QED
    BY <1>1, <1>4, <1>6

LEMMA HeapFinite ==
    ASSUME NEW S, IsFiniteSet(S), NEW number \in [S -> Nat], NEW T \in SUBSET S
    PROVE  IsFiniteSet(Heap(number, T))
  <1> DEFINE bad == {U \in SUBSET S : ~IsFiniteSet(Heap(number, U))}
  <1> SUFFICES ASSUME bad # {} PROVE FALSE
    OBVIOUS
  <1>1. PICK U \in bad : \A V \in bad : V \subseteq U => V = U
    <2>1. bad \subseteq SUBSET S
      OBVIOUS
    <2> HIDE DEF bad
    <2> QED
      BY <2>1, SmallestSet
  <1>2. CASE U = {}
    <2>1. Heap(number, U) = {}
      BY <1>2 DEF Heap
    <2> QED
      BY <1>1, <2>1, FS_EmptySet
  <1>3. ASSUME NEW n \in U PROVE FALSE
    <2>1. IsFiniteSet(Heap(number, U \ {n})) /\ number[n] \in Nat
      BY <1>1, <1>3
    <2>2. IsFiniteSet(Heap(number, (U \ {n}) \cup {n}))
      BY <2>1, HeapGrows
    <2>3. (U \ {n}) \cup {n} = U
      BY <1>3
    <2> QED
      BY <1>1, <2>2, <2>3
  <1> QED
    BY <1>2, <1>3

\* The sum over a function is the size of its heap.  The sum is defined by
\* taking out one node after the other: the sizes are such a function, and no
\* other one is.
LEMMA SumIsHeap ==
    ASSUME NEW S, IsFiniteSet(S), NEW number \in [S -> Nat]
    PROVE  SumFunction(number) = Cardinality(Heap(number, S))
  <1> DEFINE Recurs(f) ==
        f = [s \in SUBSET S |->
               IF s = {} THEN 0
               ELSE LET x == CHOOSE x \in s : TRUE IN number[x] + f[s \ {x}]]
             size == [s \in SUBSET S |-> Cardinality(Heap(number, s))]
  <1>1. SumFunction(number) = (CHOOSE f : Recurs(f))[S]
    BY DEF SumFunction, SumFunctionOnSet, FoldFunctionOnSet, MapThenFoldSet
  <1>2. Recurs(size)
    <2>1. Heap(number, {}) = {} /\ Cardinality({}) = 0
      BY FS_EmptySet DEF Heap
    <2>2. ASSUME NEW s \in SUBSET S, s # {}
          PROVE  LET x == CHOOSE x \in s : TRUE IN
                 Cardinality(Heap(number, s)) = number[x] + size[s \ {x}]
      <3> DEFINE x == CHOOSE x \in s : TRUE
      <3>1. x \in s
        BY <2>2
      <3> HIDE DEF x
      <3>2. /\ IsFiniteSet(Heap(number, s \ {x}))
            /\ number[x] \in Nat /\ (s \ {x}) \cup {x} = s
        BY <3>1, HeapFinite
      <3>3. Cardinality(Heap(number, s)) = Cardinality(Heap(number, s \ {x})) + number[x]
        BY <3>2, HeapGrows
      <3>4. size[s \ {x}] = Cardinality(Heap(number, s \ {x}))
        OBVIOUS
      <3>5. Cardinality(Heap(number, s \ {x})) \in Nat
        BY <3>2, FS_CardinalityType
      <3>6. Cardinality(Heap(number, s)) = number[x] + size[s \ {x}]
        BY <3>2, <3>3, <3>4, <3>5
      <3> QED
        BY <3>6 DEF x
    <2> QED
      BY <2>1, <2>2
  <1>3. ASSUME NEW f, Recurs(f) PROVE f = size
    <2> DEFINE bad == {s \in SUBSET S : f[s] # size[s]}
    <2> SUFFICES ASSUME bad # {} PROVE FALSE
      BY <1>3
    <2>1. PICK s \in bad : \A u \in bad : u \subseteq s => u = s
      <3>1. bad \subseteq SUBSET S
        OBVIOUS
      <3> HIDE DEF bad
      <3> QED
        BY <3>1, SmallestSet
    <2> DEFINE x == CHOOSE x \in s : TRUE
    <2>2. ASSUME s # {} PROVE x \in s /\ f[s \ {x}] = size[s \ {x}]
      <3>1. x \in s
        BY <2>2
      <3> HIDE DEF x, size
      <3>2. s \ {x} \in SUBSET S /\ s \ {x} # s
        BY <2>1, <3>1
      <3> QED
        BY <2>1, <3>1, <3>2
    <2>3. f[s] = IF s = {} THEN 0 ELSE number[x] + f[s \ {x}]
      BY <1>3, <2>1
    <2>4. size[s] = IF s = {} THEN 0 ELSE number[x] + size[s \ {x}]
      BY <1>2, <2>1
    <2> QED
      BY <2>1, <2>2, <2>3, <2>4
  <1>4. Recurs(CHOOSE f : Recurs(f))
    <2> HIDE DEF Recurs
    <2> QED
      BY <1>2
  <1>5. (CHOOSE f : Recurs(f)) = size
    <2> HIDE DEF Recurs, size
    <2> QED
      BY <1>3, <1>4
  <1> QED
    BY <1>1, <1>5

\* Division with a remainder, and that there is only one.
LEMMA Remainder ==
    ASSUME NEW a \in Nat, NEW m \in Nat \ {0}
    PROVE  a % m \in 0 .. m - 1 /\ \E q \in Int : a = (q * m) + (a % m)
  <1>1. a % m \in 0 .. m - 1
    OBVIOUS
  <1>2. a \div m \in Int /\ a = ((a \div m) * m) + (a % m)
    OBVIOUS
  <1> QED
    BY <1>1, <1>2

LEMMA RemainderUnique ==
    ASSUME NEW m \in Nat \ {0}, NEW r \in 0 .. m - 1, NEW q \in Int
    PROVE  ((q * m) + r) % m = r
  OBVIOUS

\* u64 addition is addition modulo the word.
LEMMA PlusMod ==
    ASSUME NEW a \in Nat, NEW b \in Word
    PROVE  Plus(a % (MaxWord + 1), b) = (a + b) % (MaxWord + 1)
  <1> DEFINE m == MaxWord + 1
  <1>1. m \in Nat \ {0} /\ b \in 0 .. m - 1
    BY WordAssumption DEF Word
  <1>2. PICK q \in Int : a = (q * m) + (a % m)
    BY <1>1, Remainder
  <1>3. PICK r \in 0 .. m - 1 : r = a % m
    BY <1>1, Remainder
  <1>4. Plus(a % m, b) = IF r + b < m THEN r + b ELSE r + b - m
    BY <1>1, <1>3, WordAssumption DEF Plus
  <1> HIDE DEF m
  <1>5. CASE r + b < m
    <2>1. a + b = (q * m) + (r + b) /\ r + b \in 0 .. m - 1
      BY <1>1, <1>2, <1>3, <1>5
    <2> QED
      BY <1>1, <1>4, <1>5, <2>1, RemainderUnique DEF m
  <1>6. CASE ~(r + b < m)
    <2>1. a + b = ((q + 1) * m) + (r + b - m) /\ r + b - m \in 0 .. m - 1
      BY <1>1, <1>2, <1>3, <1>6
    <2> QED
      BY <1>1, <1>4, <1>6, <2>1, RemainderUnique DEF m
  <1> QED
    BY <1>5, <1>6

-----------------------------------------------------------------------------
(* Every answer is made of what was true during the request *)

\* The totals are those of the tasks taken in so far.
Shares(f) == [n \in consumed |-> Share(route, answers[n])[f]]

SumOK == \A f \in Fields(route) : sum[f] = SumFunction(Shares(f)) % (MaxWord + 1)

\* A node was in some condition in which it answers a call as it did.
AnswersTrue ==
    phase # "idle" =>
        \A n \in Nodes :
            /\ cond[n] \in during[n]
            /\ \A i \in DOMAIN answers[n] :
                  \E c \in during[n] : answers[n][i] = c[Calls(route)[i]]

\* The share of a task that is taken in is a word in every field.
LEMMA SharesType ==
    ASSUME TypeOK, NEW n \in Nodes, Finished(n), NEW f \in Fields(route)
    PROVE  Share(route, answers[n])[f] \in Word
  <1>1. \A i \in 1 .. Len(Calls(route)) : answers[n][i] \in Results(Calls(route)[i])
    BY DEF Finished, TypeOK, AnswersOK
  <1>2. Share(route, answers[n]) \in [Fields(route) -> Word]
    BY <1>1, ShareType DEF TypeOK
  <1> QED
    BY <1>2

\* Nothing adds up to nothing.
LEMMA SumOfNone ==
    ASSUME NEW f \in [{} -> Nat] PROVE SumFunction(f) % (MaxWord + 1) = 0
  <1>1. Heap(f, {}) = {}
    BY DEF Heap
  <1>2. SumFunction(f) = 0
    BY <1>1, SumIsHeap, FS_EmptySet
  <1>3. MaxWord + 1 \in Nat \ {0}
    BY WordAssumption
  <1>4. 0 = (0 * (MaxWord + 1)) + 0 /\ 0 \in 0 .. (MaxWord + 1) - 1
    BY <1>3
  <1> QED
    BY <1>2, <1>3, <1>4, RemainderUnique

\* The sum with one more node is the sum without it and its number.
LEMMA SumOfOneMore ==
    ASSUME NEW S, IsFiniteSet(S), NEW n, n \notin S,
           NEW number \in [S \cup {n} -> Nat]
    PROVE  LET before == [m \in S |-> number[m]] IN
           /\ SumFunction(before) \in Nat
           /\ SumFunction(number) = SumFunction(before) + number[n]
  <1> DEFINE before == [m \in S |-> number[m]]
  <1>1. before \in [S -> Nat] /\ number[n] \in Nat
    OBVIOUS
  <1>2. Heap(before, S) = Heap(number, S)
    BY DEF Heap
  <1>3. IsFiniteSet(S \cup {n}) /\ IsFiniteSet(Heap(before, S))
    BY <1>1, HeapFinite, FS_AddElement
  <1>4. Cardinality(Heap(number, S \cup {n})) = Cardinality(Heap(before, S)) + number[n]
    BY <1>1, <1>2, <1>3, HeapGrows
  <1>5. SumFunction(before) = Cardinality(Heap(before, S))
    BY <1>1, SumIsHeap
  <1>6. SumFunction(number) = Cardinality(Heap(number, S \cup {n}))
    BY <1>3, SumIsHeap
  <1>7. Cardinality(Heap(before, S)) \in Nat
    BY <1>3, FS_CardinalityType
  <1> QED
    BY <1>4, <1>5, <1>6, <1>7

\* Tasks that are taken in are finished: what was added for them stays as it is.
LEMMA SumNext ==
    TypeOK /\ SumOK /\ [Next]_vars => SumOK'
  <1> SUFFICES ASSUME TypeOK, SumOK, [Next]_vars PROVE SumOK'
    OBVIOUS
  <1>1. ASSUME NEW n \in Nodes, Consume(n) PROVE SumOK'
    <2> SUFFICES ASSUME NEW f \in Fields(route)
                 PROVE  sum'[f] = SumFunction(Shares(f)') % (MaxWord + 1)
      BY <1>1 DEF Consume, SumOK, Fields
    <2>1. /\ n \notin consumed /\ Finished(n) /\ consumed' = consumed \cup {n}
          /\ sum' = Add(sum, Share(route, answers[n]))
          /\ UNCHANGED <<route, answers>>
      BY <1>1 DEF Consume
    <2>2. Shares(f)' = [m \in consumed \cup {n} |-> Share(route, answers[m])[f]]
      BY <2>1 DEF Shares
    <2>3. \A m \in consumed \cup {n} : Share(route, answers[m])[f] \in Word
      BY <2>1, SharesType DEF TypeOK
    <2>4. Shares(f)' \in [consumed \cup {n} -> Nat]
      BY <2>2, <2>3 DEF Word
    <2>5. IsFiniteSet(consumed)
      BY GatherAssumption, FS_Subset DEF TypeOK
    <2>6. Shares(f) = [m \in consumed |-> Shares(f)'[m]]
      BY <2>2 DEF Shares
    <2>7. /\ SumFunction(Shares(f)) \in Nat
          /\ SumFunction(Shares(f)') = SumFunction(Shares(f)) + Shares(f)'[n]
      BY <2>1, <2>4, <2>5, <2>6, SumOfOneMore
    <2>8. sum'[f] = Plus(sum[f], Share(route, answers[n])[f])
      BY <2>1 DEF Add, TypeOK
    <2>9. Shares(f)'[n] = Share(route, answers[n])[f] /\ Shares(f)'[n] \in Word
      BY <2>2, <2>3
    <2>10. sum[f] = SumFunction(Shares(f)) % (MaxWord + 1)
      BY DEF SumOK
    <2> HIDE DEF Shares
    <2> QED
      BY <2>7, <2>8, <2>9, <2>10, PlusMod
  <1>2. ASSUME NEW n \in Nodes, Call(n) PROVE SumOK'
    <2>1. n \notin consumed /\ \A m \in Nodes \ {n} : answers'[m] = answers[m]
      BY <1>2 DEF Call, TypeOK
    <2>2. UNCHANGED <<route, consumed, sum>>
      BY <1>2 DEF Call
    <2>3. \A f : Shares(f)' = Shares(f)
      BY <2>1, <2>2 DEF Shares, TypeOK
    <2> QED
      BY <2>2, <2>3 DEF SumOK
  <1>3. CASE UNCHANGED <<route, answers, consumed, sum>>
    BY <1>3 DEF SumOK, Shares
  <1>4. CASE consumed' = {} /\ route' \in Routes /\ sum' = Zero(route')
    <2> SUFFICES ASSUME NEW f \in Fields(route')
                 PROVE  sum'[f] = SumFunction(Shares(f)') % (MaxWord + 1)
      BY DEF SumOK
    <2>1. Shares(f)' \in [{} -> Nat]
      BY <1>4 DEF Shares
    <2>2. sum'[f] = 0
      BY <1>4 DEF Zero
    <2> QED
      BY <2>1, <2>2, SumOfNone
  <1>5. ASSUME NEW n \in Nodes, Change(n) PROVE SumOK'
    BY <1>3, <1>5 DEF Change
  <1>6. ASSUME NEW rt \in Routes, Start(rt) PROVE SumOK'
    BY <1>4, <1>6 DEF Start
  <1>7. CASE Reply \/ UNCHANGED vars
    BY <1>3, <1>7 DEF Reply, vars
  <1>8. CASE Close \/ Disconnect
    <2>1. consumed' = {} /\ route' = route /\ sum' = Zero(route)
      BY <1>8 DEF Close, Disconnect, Drop
    <2> QED
      BY <1>4, <2>1 DEF TypeOK
  <1> QED
    BY <1>1, <1>2, <1>5, <1>6, <1>7, <1>8 DEF Next

\* A call is answered from the condition that its node is in.
LEMMA AnswersNext ==
    TypeOK /\ AnswersTrue /\ [Next]_vars => AnswersTrue'
  <1> SUFFICES ASSUME TypeOK, AnswersTrue, [Next]_vars PROVE AnswersTrue'
    OBVIOUS
  <1>1. ASSUME NEW n \in Nodes, Change(n) PROVE AnswersTrue'
    <2>1. /\ phase = "gathering" /\ UNCHANGED <<route, phase, answers>>
          /\ cond'[n] \in during'[n] /\ \A m \in Nodes : during[m] \subseteq during'[m]
          /\ \A m \in Nodes \ {n} : cond'[m] = cond[m]
      BY <1>1 DEF Change, TypeOK
    <2>2. \A m \in Nodes : cond'[m] \in during'[m]
      BY <2>1 DEF AnswersTrue
    <2>3. \A m \in Nodes : \A i \in DOMAIN answers[m] :
            \E c \in during'[m] : answers[m][i] = c[Calls(route)[i]]
      BY <2>1 DEF AnswersTrue
    <2> QED
      BY <2>1, <2>2, <2>3 DEF AnswersTrue
  <1>2. ASSUME NEW n \in Nodes, Call(n) PROVE AnswersTrue'
    <2> DEFINE i == Len(answers[n]) + 1
               answer == cond[n][Calls(route)[i]]
    <2>1. /\ phase = "gathering" /\ UNCHANGED <<cond, route, phase, during>>
          /\ answers' = [answers EXCEPT ![n] = Append(answers[n], answer)]
      BY <1>2 DEF Call
    <2>2. answers[n] \in Seq(AllResults)
      BY DEF TypeOK
    <2>3. answer \in AllResults
      <3>1. i \in 1 .. Len(Calls(route))
        BY <1>2, RouteFields DEF Call, Finished, TypeOK
      <3> QED
        BY <3>1, RouteFields DEF TypeOK, Results, AllResults
    <2>4. answers'[n] = Append(answers[n], answer)
          /\ \A m \in Nodes \ {n} : answers'[m] = answers[m]
      BY <2>1 DEF TypeOK
    <2> SUFFICES ASSUME NEW m \in Nodes, NEW j \in DOMAIN answers'[m]
                 PROVE  \E c \in during[m] : answers'[m][j] = c[Calls(route)[j]]
      BY <2>1 DEF AnswersTrue
    <2>5. CASE m = n /\ j = i
      <3> HIDE DEF answer
      <3>1. answers'[n][i] = answer
        BY <2>2, <2>3, <2>4
      <3> QED
        BY <2>1, <2>5, <3>1 DEF AnswersTrue, answer
    <2>6. CASE m = n /\ j # i
      <3> HIDE DEF answer
      <3>1. j \in DOMAIN answers[n] /\ answers'[n][j] = answers[n][j]
        BY <2>2, <2>3, <2>4, <2>6
      <3> QED
        BY <2>1, <2>6, <3>1 DEF AnswersTrue
    <2>7. CASE m # n
      BY <2>1, <2>4, <2>7 DEF AnswersTrue
    <2> QED
      BY <2>5, <2>6, <2>7
  <1>3. ASSUME NEW n \in Nodes, Consume(n) PROVE AnswersTrue'
    BY <1>3 DEF Consume, AnswersTrue
  <1>4. ASSUME NEW rt \in Routes, Start(rt) PROVE AnswersTrue'
    BY <1>4 DEF Start, AnswersTrue
  <1>5. CASE Reply \/ UNCHANGED vars
    BY <1>5 DEF Reply, vars, AnswersTrue
  <1>6. CASE Close \/ Disconnect
    BY <1>6 DEF Close, Disconnect, Drop, AnswersTrue
  <1> QED
    BY <1>1, <1>2, <1>3, <1>4, <1>5, <1>6 DEF Next

\* When all tasks are taken in, a condition for each call of each node can be
\* picked from those the node had, and these are the shares that were added.
LEMMA AnswerMadeOf ==
    TypeOK /\ SumOK /\ AnswersTrue /\ DoneMeansAll => AnswerIsOfThisRequest
  <1> SUFFICES ASSUME TypeOK, SumOK, AnswersTrue, DoneMeansAll, phase = "done"
               PROVE  \E h \in Histories : \A f \in Fields(route) :
                        sum[f] = SumFunction([n \in Nodes |-> Share(route, AnswersIn(h[n]))[f]])
                                 % (MaxWord + 1)
    BY DEF AnswerIsOfThisRequest
  <1> DEFINE Fits(n, i, c) == i \in DOMAIN answers[n] => answers[n][i] = c[Calls(route)[i]]
             h == [n \in Nodes |-> [i \in 1 .. 2 |-> CHOOSE c \in during[n] : Fits(n, i, c)]]
  <1>1. consumed = Nodes
    BY DEF DoneMeansAll
  <1>2. ASSUME NEW n \in Nodes, NEW i \in 1 .. 2
        PROVE  h[n][i] \in during[n] /\ Fits(n, i, h[n][i])
    <2>1. \E c \in during[n] : Fits(n, i, c)
      BY DEF AnswersTrue
    <2> HIDE DEF Fits
    <2> QED
      BY <2>1
  <1>3. h \in Histories
    <2>1. \A n \in Nodes : during[n] \subseteq Conditions
      BY DEF TypeOK
    <2> HIDE DEF h
    <2>2. h \in [Nodes -> [1 .. 2 -> Conditions]]
      <3>1. ASSUME NEW n \in Nodes
            PROVE  [i \in 1 .. 2 |-> CHOOSE c \in during[n] : Fits(n, i, c)]
                     \in [1 .. 2 -> Conditions]
        BY <1>2, <2>1 DEF h
      <3> QED
        BY <3>1 DEF h
    <2> QED
      BY <1>2, <2>2 DEF Histories
  <1>4. ASSUME NEW n \in Nodes PROVE AnswersIn(h[n]) = answers[n]
    <2>1. /\ Len(answers[n]) = Len(Calls(route)) /\ Len(Calls(route)) \in 1 .. 2
          /\ answers[n] \in Seq(AllResults)
      BY <1>1, RouteFields DEF TypeOK, Finished
    <2>2. DOMAIN Calls(route) = 1 .. Len(Calls(route))
      <3>1. Calls(route) \in {<<"metrics">>, <<"disks", "space">>, <<"space">>}
        BY DEF Calls, TypeOK, Routes
      <3> QED
        BY <3>1
    <2> HIDE DEF h
    <2>3. \A i \in DOMAIN answers[n] : answers[n][i] = h[n][i][Calls(route)[i]]
      BY <1>2, <2>1
    <2>4. AnswersIn(h[n]) = [i \in DOMAIN answers[n] |-> h[n][i][Calls(route)[i]]]
      BY <2>1, <2>2 DEF AnswersIn
    <2>5. answers[n] = [i \in DOMAIN answers[n] |-> answers[n][i]]
      BY <2>1
    <2> QED
      BY <2>3, <2>4, <2>5
  <1>5. ASSUME NEW f \in Fields(route)
        PROVE  sum[f] = SumFunction([n \in Nodes |-> Share(route, AnswersIn(h[n]))[f]])
                        % (MaxWord + 1)
    <2> HIDE DEF h
    <2>1. [n \in Nodes |-> Share(route, AnswersIn(h[n]))[f]] = Shares(f)
      BY <1>1, <1>4 DEF Shares
    <2> QED
      BY <2>1 DEF SumOK
  <1> QED
    BY <1>3, <1>5

\* The answer of every summary is the sum, modulo the word, of one share per
\* node, each made of what was true of the node during this request.
THEOREM AnswersAreOfTheRequest == Spec => []AnswerIsOfThisRequest
  <1>1. Init => SumOK /\ AnswersTrue /\ DoneMeansAll
    <2> SUFFICES ASSUME Init PROVE SumOK /\ AnswersTrue /\ DoneMeansAll
      OBVIOUS
    <2>1. ASSUME NEW f \in Fields(route)
          PROVE  sum[f] = SumFunction(Shares(f)) % (MaxWord + 1)
      <3>1. Shares(f) \in [{} -> Nat] /\ sum[f] = 0
        BY DEF Init, Shares, Zero
      <3> QED
        BY <3>1, SumOfNone
    <2> QED
      BY <2>1 DEF Init, SumOK, AnswersTrue, DoneMeansAll
  <1> QED
    BY <1>1, TypeInit, TypeNext, SumNext, AnswersNext, DoneNext, AnswerMadeOf, PTL DEF Spec

=============================================================================
