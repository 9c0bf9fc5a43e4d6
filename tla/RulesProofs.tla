---------------------------- MODULE RulesProofs ----------------------------
(***************************************************************************)
(* Proofs about the parts that compute without waiting: for every report,  *)
(* not only those near the thresholds, every disk table, every deployment, *)
(* every object of Bob's types and every text.                             *)
(***************************************************************************)
EXTENDS Rules, SetLemmas, TLAPS

-----------------------------------------------------------------------------
(* The judgement of reports *)

\* A missing key reads as zero, and what is read is a word.
LEMMA TypedType ==
    ASSUME NEW snapshot, IsSnapshot(snapshot)
    PROVE  \A k \in MetricKeys : Typed(snapshot)[k] \in Word
  BY WordAssumption DEF Typed, IsSnapshot, Word

\* The node only ever reports snapshots of its set of reports.
LEMMA ReportIsSnapshot == Spec => [](report \in Reports)
  <1>1. Init => report \in Reports
    BY DEF Init
  <1>2. report \in Reports /\ [Next]_report => (report \in Reports)'
    BY DEF Next, Report
  <1> QED
    BY <1>1, <1>2, PTL DEF Spec

\* The two judgements of the source, is_bad_node and from_metrics, agree on
\* every report.
THEOREM JudgesAgree == Spec => []CountAgreesWithList
  <1>1. ASSUME NEW m
        PROVE  IsBadNode(m) <=> FromMetrics(m) # {}
    BY DEF IsBadNode, FromMetrics, NodeProblems, Has, FreeSpaceLow
  <1>2. CountAgreesWithList
    BY <1>1 DEF CountAgreesWithList, FromProblems
  <1> QED
    BY <1>2, PTL

\* The free-space rule for every word size and every sane report.
THEOREM FreeSpaceRule == Spec => []FreeSpaceIsATenth
  <1>1. report \in Reports => FreeSpaceIsATenth
    <2> SUFFICES ASSUME report \in Reports PROVE FreeSpaceIsATenth
      OBVIOUS
    <2> DEFINE total == Metrics["totalSpace"]
               free == Metrics["freeSpace"]
    <2>1. total \in Nat /\ free \in Nat
      BY ReportsAssumption, TypedType DEF Metrics, MetricKeys, Gauges, Word
    <2>2. "FreeSpaceRunningOut" \in FromMetrics(Metrics) <=> FreeSpaceLow(Metrics)
      BY DEF FromMetrics, NodeProblems, Has
    <2>3. ASSUME total > 0, free <= total
          PROVE  FreeSpaceLow(Metrics) <=> 10 * free <= total
      <3>1. FreeSpaceLow(Metrics) <=> 10 * (total - free) >= 9 * total
        BY <2>1, <2>3 DEF FreeSpaceLow, Minus
      <3> HIDE DEF total, free
      <3> QED
        BY <2>1, <2>3, <3>1
    <2> QED
      BY <2>2, <2>3 DEF FreeSpaceIsATenth, HasSpace
  <1> QED
    BY <1>1, ReportIsSnapshot, PTL

\* Getting worse keeps every problem, for every pair of reports.
THEOREM JudgementMonotone == Spec => WorseIsWorse
  <1> DEFINE Worse(m, w) ==
               /\ m["alienCount"] > 0 => w["alienCount"] > 0
               /\ m["corruptedBlobCount"] > 0 => w["corruptedBlobCount"] > 0
               /\ w["cpuLoad"] >= m["cpuLoad"]
               /\ w["totalSpace"] = m["totalSpace"]
               /\ w["freeSpace"] <= m["freeSpace"]
               /\ m["freeSpace"] <= m["totalSpace"]
               /\ w["virtualRam"] >= m["virtualRam"]
               /\ w["totalRam"] <= m["totalRam"]
  <1>1. ASSUME NEW m, NEW w, Worse(m, w),
               \A k \in MetricKeys : m[k] \in Word /\ w[k] \in Word
        PROVE  FromMetrics(m) \subseteq FromMetrics(w)
    <2>1. \A k \in Gauges : m[k] \in Nat /\ w[k] \in Nat
      BY <1>1 DEF MetricKeys, Word
    <2>2. FreeSpaceLow(m) => FreeSpaceLow(w)
      <3>1. Minus(m["totalSpace"], m["freeSpace"]) = m["totalSpace"] - m["freeSpace"]
        BY <1>1, <2>1 DEF Minus, Gauges
      <3>2. Minus(w["totalSpace"], w["freeSpace"]) = w["totalSpace"] - w["freeSpace"]
        BY <1>1, <2>1 DEF Minus, Gauges
      <3> QED
        BY <1>1, <2>1, <3>1, <3>2 DEF FreeSpaceLow, Gauges
    <2>3. ASSUME NEW problem \in NodeProblems, Has(problem, m)
          PROVE  Has(problem, w)
      <3>1. CASE problem \in {"AliensExists", "CorruptedExists"}
        <4>1. /\ m["alienCount"] \in Nat /\ m["corruptedBlobCount"] \in Nat
              /\ w["alienCount"] \in Nat /\ w["corruptedBlobCount"] \in Nat
          BY <2>1 DEF Gauges
        <4>2. /\ m["alienCount"] # 0 => w["alienCount"] # 0
              /\ m["corruptedBlobCount"] # 0 => w["corruptedBlobCount"] # 0
          BY <1>1, <4>1
        <4>3. CASE problem = "AliensExists"
          BY <2>3, <4>2, <4>3 DEF Has
        <4>4. CASE problem = "CorruptedExists"
          BY <2>3, <4>2, <4>4 DEF Has
        <4> QED
          BY <3>1, <4>3, <4>4
      <3>2. CASE problem = "HighCPULoad"
        BY <1>1, <2>1, <2>3, <3>2 DEF Has, Gauges, MAX_CPU
      <3>3. CASE problem = "FreeSpaceRunningOut"
        <4>1. FreeSpaceLow(m)
          BY <2>3, <3>3 DEF Has
        <4> QED
          BY <2>2, <3>3, <4>1 DEF Has
      <3>4. CASE problem = "VirtualMemLargerThanRAM"
        BY <1>1, <2>1, <2>3, <3>4 DEF Has, Gauges
      <3> QED
        BY <3>1, <3>2, <3>3, <3>4 DEF NodeProblems
    <2> QED
      BY <2>3 DEF FromMetrics
  <1>2. report \in Reports /\ [Next]_report =>
          [Worse(Typed(report), Typed(report')) =>
             FromMetrics(Typed(report)) \subseteq FromMetrics(Typed(report'))]_report
    BY <1>1, TypedType, ReportsAssumption DEF Next, Report
  <1> QED
    BY <1>2, ReportIsSnapshot, PTL DEF Spec, WorseIsWorse

-----------------------------------------------------------------------------
(* The clients that a login makes *)

\* Of a listed address with a port and a proper host one path is made, which
\* has the port of the login.
LEMMA OnePath ==
    ASSUME NEW address \in Address, NEW port,
           address.port # NoPort, address.host \in Hosts
    PROVE  PathsOf(address, port) = {<<address.host, port>>}
  <1> DEFINE changed == [address EXCEPT !.port = port]
  <1>1. ChangePort(address, port) = {changed}
    BY DEF ChangePort
  <1>2. changed.host = address.host /\ changed.port = port
    BY DEF Address
  <1>3. BasePath(changed) = {<<address.host, port>>}
    BY <1>2, HostsAssumption DEF BasePath
  <1> HIDE DEF changed
  <1> QED
    BY <1>1, <1>3 DEF PathsOf

\* A node is listed under a name of its own.
NamedOnce(listed, i) ==
    \A j \in DOMAIN listed \ {i} : listed[j].name # listed[i].name

\* The client of such a node has its path.
LEMMA OwnClient ==
    ASSUME NEW listed, NEW port, DOMAIN listed \subseteq Nat, NEW i \in DOMAIN listed,
           NamedOnce(listed, i), NEW path \in PathsOf(listed[i].address, port)
    PROVE  /\ listed[i].name \in DOMAIN Clients(listed, port)
           /\ Clients(listed, port)[listed[i].name] \in PathsOf(listed[i].address, port)
  <1> DEFINE made == {k \in DOMAIN listed : PathsOf(listed[k].address, port) # {}}
             IsLast(name, k) ==
                listed[k].name = name /\ \A j \in made : listed[j].name = name => j <= k
             name == listed[i].name
             last == CHOOSE k \in made : IsLast(name, k)
  <1>1. i \in made
    OBVIOUS
  <1>2. IsLast(name, i)
    BY DEF NamedOnce
  <1>3. \A k \in made : IsLast(name, k) => k = i
    BY DEF NamedOnce
  <1>4. last = i
    <2> HIDE DEF made, IsLast, name
    <2> QED
      BY <1>1, <1>2, <1>3
  <1>5. /\ DOMAIN Clients(listed, port) = {listed[k].name : k \in made}
        /\ name \in {listed[k].name : k \in made} =>
             Clients(listed, port)[name] = CHOOSE p \in PathsOf(listed[last].address, port) : TRUE
    BY DEF Clients
  <1> QED
    BY <1>1, <1>4, <1>5

\* That path is the place of the node's API, or of no API, or of another node's.
LEMMA ReachesItsPlace ==
    ASSUME NEW listed, NEW port, NEW sites,
           listed \in Seq([name : DOMAIN sites, address : Address]),
           \A m, n \in DOMAIN sites : sites[m] = sites[n] => m = n,
           Nowhere \notin DOMAIN sites
    PROVE  ReachesItself(listed, port, sites)
  <1> DEFINE clients == Clients(listed, port)
             reached == Reached(clients, sites)
             nodes == [name : DOMAIN sites, address : Address]
  <1> SUFFICES ASSUME NEW i \in DOMAIN listed,
                      \A j \in DOMAIN listed \ {i} : listed[j].name # listed[i].name,
                      listed[i].address.port # NoPort,
                      listed[i].address.host \in Hosts
               PROVE  /\ listed[i].name \in DOMAIN clients
                      /\ reached[listed[i].name] = listed[i].name <=>
                           sites[listed[i].name] = <<listed[i].address.host, port>>
    BY DEF ReachesItself
  <1>1. listed[i] \in nodes /\ DOMAIN listed \subseteq Nat
    <2> HIDE DEF nodes
    <2>1. listed \in Seq(nodes)
      BY DEF nodes
    <2> QED
      BY <2>1
  <1>2. PICK name : name = listed[i].name
    OBVIOUS
  <1>3. PICK path : path = <<listed[i].address.host, port>>
    OBVIOUS
  <1>4. name \in DOMAIN sites /\ listed[i].address \in Address
    BY <1>1, <1>2
  <1>5. PathsOf(listed[i].address, port) = {path}
    BY <1>3, <1>4, OnePath
  <1>6. NamedOnce(listed, i)
    BY DEF NamedOnce
  <1>7. name \in DOMAIN clients /\ clients[name] = path
    <2>1. path \in PathsOf(listed[i].address, port)
      BY <1>5
    <2>2. name \in DOMAIN clients /\ clients[name] \in PathsOf(listed[i].address, port)
      BY <1>1, <1>2, <1>6, <2>1, OwnClient
    <2> QED
      BY <1>5, <2>2
  <1>8. reached[name] = IF \E node \in DOMAIN sites : sites[node] = path
                        THEN CHOOSE node \in DOMAIN sites : sites[node] = path
                        ELSE Nowhere
    BY <1>7 DEF Reached
  <1> HIDE DEF reached, clients
  <1>9. reached[name] = name <=> sites[name] = path
    BY <1>4, <1>8
  <1> QED
    BY <1>2, <1>3, <1>7, <1>9

\* For every deployment: a node that is listed once and with a port has a client,
\* and this reaches the node if and only if its API is at the listed host, under
\* the port of the login.
THEOREM NodesAreReached == RulesSpec => []ClientsReachNodes
  <1>1. ASSUME NEW deployment \in Deployments
        PROVE  ReachesItself(deployment.listed, deployment.port, deployment.sites)
    BY DeploymentsAssumption, ReachesItsPlace
  <1>2. RulesInit => (kind = "deployment" => input \in Deployments)
    BY DEF RulesInit
  <1>3. (kind = "deployment" => input \in Deployments) /\ [RulesNext]_<<report, kind, input>>
          => (kind = "deployment" => input \in Deployments)'
    BY DEF RulesNext, JudgeReport, GivenTable, GivenDeployment, GivenForm, GivenText,
       Given, Done
  <1>4. (kind = "deployment" => input \in Deployments) => ClientsReachNodes
    BY <1>1 DEF ClientsReachNodes
  <1> QED
    BY <1>2, <1>3, <1>4, PTL DEF RulesSpec

-----------------------------------------------------------------------------
(* The disk table *)

\* The row of a disk carries what is listed and reported of it.
LEMMA RowOf ==
    ASSUME NEW disks, NEW space, NEW i \in FirstOfName(disks)
    PROVE  LET row == ProccessDisks(disks, space)[i] IN
           /\ row.name = disks[i].name
           /\ row.path = disks[i].path
           /\ row.status = DiskStatusOf(disks[i], space)
           /\ row.used_space = IF disks[i].name \in DOMAIN space.byDisk
                               THEN space.byDisk[disks[i].name] ELSE 0
  BY DEF ProccessDisks

\* The first entries with a given name.
FirstWith(disks, name) == {j \in FirstOfName(disks) : disks[j].name = name}

\* Each name has a first entry, the least of those that carry it, and one row.
LEMMA OneRowPerName ==
    ASSUME NEW S, NEW disks \in Seq(S), NEW i \in DOMAIN disks
    PROVE  \E k \in FirstOfName(disks) : FirstWith(disks, disks[i].name) = {k}
  <1> DEFINE named == {j \in DOMAIN disks : disks[j].name = disks[i].name}
  <1>1. DOMAIN disks = 1 .. Len(disks) /\ Len(disks) \in Nat
    OBVIOUS
  <1>2. named \subseteq Nat /\ named # {}
    BY <1>1
  <1>3. PICK k \in named : \A y \in named : k <= y
    <2> HIDE DEF named
    <2> QED
      BY <1>2, LeastOf
  <1>4. \A j \in 1 .. k - 1 : disks[j].name # disks[k].name
    <2> SUFFICES ASSUME NEW j \in 1 .. k - 1, disks[j].name = disks[k].name PROVE FALSE
      OBVIOUS
    <2>1. j \in named
      BY <1>1, <1>3
    <2> QED
      BY <1>1, <1>3, <2>1
  <1>5. k \in FirstOfName(disks)
    BY <1>3, <1>4 DEF FirstOfName
  <1>6. ASSUME NEW j \in FirstOfName(disks), disks[j].name = disks[i].name
        PROVE  j = k
    <2>1. j \in named /\ \A l \in 1 .. j - 1 : disks[l].name # disks[j].name
      BY <1>6 DEF FirstOfName
    <2>2. k <= j /\ k \in DOMAIN disks /\ j \in DOMAIN disks
      BY <1>3, <2>1
    <2>3. ~(k <= j - 1)
      BY <1>1, <1>3, <1>6, <2>1, <2>2
    <2> QED
      BY <1>1, <2>2, <2>3
  <1> QED
    BY <1>3, <1>5, <1>6 DEF FirstWith

\* No entry before the row has its name.
LEMMA RowIsFirst ==
    ASSUME NEW S, NEW disks \in Seq(S), NEW i \in FirstOfName(disks),
           NEW j \in DOMAIN disks, disks[i].name = disks[j].name
    PROVE  i <= j
  <1>1. DOMAIN disks = 1 .. Len(disks) /\ Len(disks) \in Nat
    OBVIOUS
  <1>2. i \in DOMAIN disks /\ \A l \in 1 .. i - 1 : disks[l].name # disks[i].name
    BY DEF FirstOfName
  <1> QED
    BY <1>1, <1>2

\* The rule by which a disk is bad, without wrapping subtraction.
LEMMA DiskSpaceRule ==
    ASSUME NEW total \in Word, NEW occupied \in Word
    PROVE  /\ DiskStatusFromSpace(total, occupied) \in {"good", "bad"}
           /\ occupied <= total =>
                (DiskStatusFromSpace(total, occupied) = "bad" <=>
                    total # 0 /\ 10 * (total - occupied) < total)
  BY WordAssumption DEF DiskStatusFromSpace, Minus, Word

\* A table satisfies all that DiskRows says of it.
LEMMA TableRows ==
    ASSUME NEW S, NEW disks \in Seq(S), NEW space,
           space.total \in Word,
           \A name \in DOMAIN space.byDisk : space.byDisk[name] \in Word
    PROVE  LET rows == ProccessDisks(disks, space)
               total == space.total IN
           /\ \A i \in DOMAIN disks :
               Cardinality({j \in DOMAIN rows : rows[j].name = disks[i].name}) = 1
           /\ \A i \in DOMAIN rows, j \in DOMAIN disks :
               rows[i].name = disks[j].name => i <= j /\ rows[i].path = disks[i].path
           /\ \A i \in DOMAIN rows :
               /\ rows[i].status = "offline" <=> rows[i].name \notin DOMAIN space.byDisk
               /\ total > 0 /\ rows[i].used_space <= total /\ rows[i].status # "offline" =>
                   (rows[i].status = "bad" <=> 10 * (total - rows[i].used_space) < total)
           /\ \A i, j \in DOMAIN rows :
               /\ rows[i].status = "bad" /\ rows[j].status # "offline"
               /\ rows[i].used_space <= rows[j].used_space /\ rows[j].used_space <= total
               => rows[j].status = "bad"
  <1> DEFINE rows == ProccessDisks(disks, space)
             total == space.total
  <1>1. DOMAIN rows = FirstOfName(disks)
    BY DEF ProccessDisks
  <1>2. \A i \in DOMAIN rows :
          /\ rows[i].name = disks[i].name
          /\ rows[i].path = disks[i].path
    BY <1>1, RowOf
  <1>3. ASSUME NEW i \in DOMAIN rows
        PROVE  IF rows[i].name \in DOMAIN space.byDisk
               THEN /\ rows[i].used_space \in Word
                    /\ rows[i].status = DiskStatusFromSpace(total, rows[i].used_space)
                    /\ rows[i].status # "offline"
               ELSE rows[i].status = "offline"
    <2>1. /\ rows[i].name = disks[i].name
          /\ rows[i].status = DiskStatusOf(disks[i], space)
          /\ rows[i].used_space = IF disks[i].name \in DOMAIN space.byDisk
                                  THEN space.byDisk[disks[i].name] ELSE 0
      BY <1>1, <1>3, RowOf
    <2> HIDE DEF rows
    <2> QED
      BY <2>1, DiskSpaceRule DEF DiskStatusOf
  <1> HIDE DEF rows
  <1>4. ASSUME NEW i \in DOMAIN disks
        PROVE  Cardinality({j \in DOMAIN rows : rows[j].name = disks[i].name}) = 1
    <2>1. {j \in DOMAIN rows : rows[j].name = disks[i].name} = FirstWith(disks, disks[i].name)
      BY <1>1, <1>2 DEF FirstWith
    <2>2. PICK k \in FirstOfName(disks) : FirstWith(disks, disks[i].name) = {k}
      BY <1>4, OneRowPerName
    <2> QED
      BY <2>1, <2>2, FS_Singleton
  <1>5. ASSUME NEW i \in DOMAIN rows, NEW j \in DOMAIN disks, rows[i].name = disks[j].name
        PROVE  i <= j /\ rows[i].path = disks[i].path
    BY <1>1, <1>2, <1>5, RowIsFirst
  <1>6. \A i \in DOMAIN rows :
          rows[i].status = "offline" <=> rows[i].name \notin DOMAIN space.byDisk
    BY <1>3
  <1>7. ASSUME NEW i \in DOMAIN rows, rows[i].status # "offline", rows[i].used_space <= total
        PROVE  /\ rows[i].used_space \in Int
               /\ rows[i].status = "bad" <=>
                    total # 0 /\ 10 * (total - rows[i].used_space) < total
    BY <1>3, <1>7, DiskSpaceRule DEF Word
  <1>8. total \in Nat
    BY WordAssumption DEF Word
  <1>9. ASSUME NEW i \in DOMAIN rows, NEW j \in DOMAIN rows,
               rows[i].status = "bad", rows[j].status # "offline",
               rows[i].used_space <= rows[j].used_space, rows[j].used_space <= total
        PROVE  rows[j].status = "bad"
    <2>1. rows[i].status # "offline"
      BY <1>9
    <2>2. rows[i].used_space \in Int /\ rows[j].used_space \in Int
      BY <1>3, <2>1, <1>9 DEF Word
    <2>3. rows[i].used_space <= total
      BY <1>8, <1>9, <2>2
    <2> HIDE DEF total
    <2> QED
      BY <1>7, <1>8, <1>9, <2>1, <2>2, <2>3
  <1>10. \A i \in DOMAIN rows :
           total > 0 /\ rows[i].used_space <= total /\ rows[i].status # "offline" =>
             (rows[i].status = "bad" <=> 10 * (total - rows[i].used_space) < total)
    <2> HIDE DEF total
    <2> QED
      BY <1>7, <1>8
  <1> QED
    BY <1>4, <1>5, <1>6, <1>9, <1>10 DEF rows

\* For every list of disks and every space report: one row for each name, the
\* status by the tenth of the node's space, and no fuller disk better.
THEOREM RowsOfDisks == RulesSpec => []DiskRows
  <1>1. ASSUME kind = "table" => input \in Tables
        PROVE  DiskRows
    <2> SUFFICES ASSUME kind = "table" PROVE DiskRows
      BY DEF DiskRows
    <2>1. /\ input.disks \in Seq(ToSet(input.disks))
          /\ input.space.total \in Word
          /\ \A name \in DOMAIN input.space.byDisk : input.space.byDisk[name] \in Word
      BY <1>1, TablesAssumption
    <2> QED
      BY <2>1, TableRows DEF DiskRows
  <1>2. RulesInit => (kind = "table" => input \in Tables)
    BY DEF RulesInit
  <1>3. (kind = "table" => input \in Tables) /\ [RulesNext]_<<report, kind, input>>
          => (kind = "table" => input \in Tables)'
    BY DEF RulesNext, JudgeReport, GivenTable, GivenDeployment, GivenForm, GivenText,
       Given, Done
  <1> QED
    BY <1>1, <1>2, <1>3, PTL DEF RulesSpec

-----------------------------------------------------------------------------
(* Texts and back *)

\* What FlattenSeq of the community modules computes on the way to its result.
Grows(seqs, n, f) ==
    f = [i \in 1 .. n |-> IF i = 1 THEN seqs[i] ELSE f[i - 1] \o seqs[i]]

\* There are such prefixes of every length: the first length without them would
\* be one more than a length with them.
LEMMA GrowthExists ==
    ASSUME NEW seqs, NEW n \in Nat
    PROVE  \E f : Grows(seqs, n, f)
  <1> DEFINE bad == {m \in Nat : ~ \E f : Grows(seqs, m, f)}
  <1> SUFFICES ASSUME n \in bad PROVE FALSE
    OBVIOUS
  <1>1. PICK m \in bad : \A y \in bad : m <= y
    <2>1. bad \subseteq Nat /\ bad # {}
      OBVIOUS
    <2> HIDE DEF bad
    <2> QED
      BY <2>1, LeastOf
  <1>2. CASE m = 0
    <2> DEFINE none == [i \in 1 .. 0 |-> seqs[i]]
    <2>1. none = [i \in 1 .. 0 |-> IF i = 1 THEN seqs[i] ELSE none[i - 1] \o seqs[i]]
      OBVIOUS
    <2>2. Grows(seqs, 0, none)
      BY <2>1 DEF Grows
    <2> QED
      BY <1>1, <1>2, <2>2
  <1>3. CASE m # 0
    <2>1. m - 1 \in Nat /\ m \in Nat /\ m - 1 \notin bad
      BY <1>1, <1>3
    <2>2. PICK f : Grows(seqs, m - 1, f)
      BY <2>1
    <2> DEFINE last == IF m = 1 THEN seqs[m] ELSE f[m - 1] \o seqs[m]
               g == [i \in 1 .. m |-> IF i = m THEN last ELSE f[i]]
    <2>3. ASSUME NEW i \in 1 .. m
          PROVE  g[i] = IF i = 1 THEN seqs[i] ELSE g[i - 1] \o seqs[i]
      <3>1. CASE i = m
        <4>1. m # 1 => g[m - 1] = f[m - 1]
          BY <2>1
        <4> QED
          BY <2>1, <3>1, <4>1
      <3>2. CASE i # m
        <4>1. i \in 1 .. m - 1 /\ (i # 1 => i - 1 \in 1 .. m - 1)
          BY <2>1, <3>2
        <4>2. f[i] = IF i = 1 THEN seqs[i] ELSE f[i - 1] \o seqs[i]
          BY <2>2, <4>1 DEF Grows
        <4>3. g[i] = f[i] /\ (i # 1 => g[i - 1] = f[i - 1])
          BY <2>1, <3>2, <4>1
        <4> QED
          BY <4>2, <4>3
      <3> QED
        BY <3>1, <3>2
    <2>4. Grows(seqs, m, g)
      <3> HIDE DEF last
      <3>1. g = [i \in 1 .. m |-> g[i]]
        OBVIOUS
      <3> HIDE DEF g
      <3> QED
        BY <2>3, <3>1 DEF Grows
    <2> QED
      BY <1>1, <2>4
  <1> QED
    BY <1>2, <1>3

\* What holds of the first prefix and goes from one to the next holds of the
\* whole text; X has the possible prefixes of each length.
LEMMA FlattenInduction ==
    ASSUME NEW n \in Nat \ {0}, NEW seqs, Len(seqs) = n, NEW X,
           seqs[1] \in X[1],
           \A i \in 2 .. n : \A x \in X[i - 1] : x \o seqs[i] \in X[i]
    PROVE  FlattenSeq(seqs) \in X[n]
  <1>1. FlattenSeq(seqs) = (CHOOSE f : Grows(seqs, n, f))[n]
    BY DEF FlattenSeq, Grows
  <1>2. PICK f : f = CHOOSE g : Grows(seqs, n, g)
    OBVIOUS
  <1>3. Grows(seqs, n, f)
    BY <1>2, GrowthExists
  <1>4. \A i \in 1 .. n : f[i] = IF i = 1 THEN seqs[i] ELSE f[i - 1] \o seqs[i]
    BY <1>3 DEF Grows
  <1> DEFINE bad == {i \in 1 .. n : f[i] \notin X[i]}
  <1>5. ASSUME bad # {} PROVE FALSE
    <2>1. PICK m \in bad : \A y \in bad : m <= y
      <3>1. bad \subseteq Nat
        OBVIOUS
      <3> HIDE DEF bad
      <3> QED
        BY <1>5, <3>1, LeastOf
    <2>2. m # 1
      BY <1>4, <2>1
    <2>3. m - 1 \in 1 .. n /\ m \in 2 .. n /\ m - 1 \notin bad
      BY <2>1, <2>2
    <2>4. f[m - 1] \in X[m - 1]
      BY <2>3
    <2>5. f[m] = f[m - 1] \o seqs[m]
      BY <1>4, <2>2, <2>3
    <2> QED
      BY <2>1, <2>3, <2>4, <2>5
  <1>6. FlattenSeq(seqs) = f[n]
    BY <1>1, <1>2
  <1>7. n \in 1 .. n
    OBVIOUS
  <1> QED
    BY <1>5, <1>6, <1>7

\* The fields of a type have keys of their own.
WellFormed(fields) ==
    /\ Len(fields) \in Nat \ {0} /\ DOMAIN fields = 1 .. Len(fields)
    /\ \A i, j \in DOMAIN fields : fields[i].key = fields[j].key => i = j

LEMMA ObjectsAreWellFormed == \A fields \in Objects : WellFormed(fields)
  <1>1. WellFormed(Dir)
    <2>1. Len(Dir) = 3 /\ DOMAIN Dir = 1 .. 3
      BY DEF Dir
    <2>2. /\ Dir[1].key = "name"
          /\ Dir[2].key = "path"
          /\ Dir[3].key = "children"
      BY DEF Dir, Opt, Req
    <2> QED
      BY <2>1, <2>2 DEF WellFormed
  <1>2. WellFormed(DiskState)
    <2>1. Len(DiskState) = 3 /\ DOMAIN DiskState = 1 .. 3
      BY DEF DiskState
    <2>2. /\ DiskState[1].key = "name"
          /\ DiskState[2].key = "path"
          /\ DiskState[3].key = "is_active"
      BY DEF DiskState, Opt, Req
    <2> QED
      BY <2>1, <2>2 DEF WellFormed
  <1>3. WellFormed(DistrFunc)
    <2>1. Len(DistrFunc) = 1 /\ DOMAIN DistrFunc = 1 .. 1
      BY DEF DistrFunc
    <2>2. /\ DistrFunc[1].key = "func"
      BY DEF DistrFunc, Opt, Req
    <2> QED
      BY <2>1, <2>2 DEF WellFormed
  <1>4. WellFormed(Error)
    <2>1. Len(Error) = 2 /\ DOMAIN Error = 1 .. 2
      BY DEF Error
    <2>2. /\ Error[1].key = "code"
          /\ Error[2].key = "message"
      BY DEF Error, Opt, Req
    <2> QED
      BY <2>1, <2>2 DEF WellFormed
  <1>5. WellFormed(Node)
    <2>1. Len(Node) = 3 /\ DOMAIN Node = 1 .. 3
      BY DEF Node
    <2>2. /\ Node[1].key = "name"
          /\ Node[2].key = "address"
          /\ Node[3].key = "vdisks"
      BY DEF Node, Opt, Req
    <2> QED
      BY <2>1, <2>2 DEF WellFormed
  <1>6. WellFormed(NodeConfiguration)
    <2>1. Len(NodeConfiguration) = 2 /\ DOMAIN NodeConfiguration = 1 .. 2
      BY DEF NodeConfiguration
    <2>2. /\ NodeConfiguration[1].key = "blob_file_name_prefix"
          /\ NodeConfiguration[2].key = "root_dir_name"
      BY DEF NodeConfiguration, Opt, Req
    <2> QED
      BY <2>1, <2>2 DEF WellFormed
  <1>7. WellFormed(Partition)
    <2>1. Len(Partition) = 5 /\ DOMAIN Partition = 1 .. 5
      BY DEF Partition
    <2>2. /\ Partition[1].key = "vdisk_id"
          /\ Partition[2].key = "node_name"
          /\ Partition[3].key = "disk_name"
          /\ Partition[4].key = "timestamp"
          /\ Partition[5].key = "records_count"
      BY DEF Partition, Opt, Req
    <2> QED
      BY <2>1, <2>2 DEF WellFormed
  <1>8. WellFormed(Replica)
    <2>1. Len(Replica) = 3 /\ DOMAIN Replica = 1 .. 3
      BY DEF Replica
    <2>2. /\ Replica[1].key = "node"
          /\ Replica[2].key = "disk"
          /\ Replica[3].key = "path"
      BY DEF Replica, Opt, Req
    <2> QED
      BY <2>1, <2>2 DEF WellFormed
  <1>9. WellFormed(StatusExt)
    <2>1. Len(StatusExt) = 3 /\ DOMAIN StatusExt = 1 .. 3
      BY DEF StatusExt
    <2>2. /\ StatusExt[1].key = "status"
          /\ StatusExt[2].key = "ok"
          /\ StatusExt[3].key = "msg"
      BY DEF StatusExt, Opt, Req
    <2> QED
      BY <2>1, <2>2 DEF WellFormed
  <1>10. WellFormed(VDisk)
    <2>1. Len(VDisk) = 2 /\ DOMAIN VDisk = 1 .. 2
      BY DEF VDisk
    <2>2. /\ VDisk[1].key = "id"
          /\ VDisk[2].key = "replicas"
      BY DEF VDisk, Opt, Req
    <2> QED
      BY <2>1, <2>2 DEF WellFormed
  <1>11. WellFormed(VDiskPartitions)
    <2>1. Len(VDiskPartitions) = 4 /\ DOMAIN VDiskPartitions = 1 .. 4
      BY DEF VDiskPartitions
    <2>2. /\ VDiskPartitions[1].key = "vdisk"
          /\ VDiskPartitions[2].key = "node"
          /\ VDiskPartitions[3].key = "disk"
          /\ VDiskPartitions[4].key = "partitions"
      BY DEF VDiskPartitions, Opt, Req
    <2> QED
      BY <2>1, <2>2 DEF WellFormed
  <1>12. WellFormed(Version)
    <2>1. Len(Version) = 2 /\ DOMAIN Version = 1 .. 2
      BY DEF Version
    <2>2. /\ Version[1].key = "version"
          /\ Version[2].key = "build_time"
      BY DEF Version, Opt, Req
    <2> QED
      BY <2>1, <2>2 DEF WellFormed
  <1>13. WellFormed(VersionInfo)
    <2>1. Len(VersionInfo) = 2 /\ DOMAIN VersionInfo = 1 .. 2
      BY DEF VersionInfo
    <2>2. /\ VersionInfo[1].key = "bobversion"
          /\ VersionInfo[2].key = "pearlversion"
      BY DEF VersionInfo, Opt, Req
    <2> QED
      BY <2>1, <2>2 DEF WellFormed
  <1> QED
    BY <1>1, <1>2, <1>3, <1>4, <1>5, <1>6, <1>7, <1>8, <1>9, <1>10, <1>11, <1>12, <1>13
       DEF Objects

\* Nested objects and lists are not read.
LEMMA NotRead ==
    ASSUME NEW sort, NEW piece, sort # "text", sort # "int", sort # "bool"
    PROVE  ReadValue(sort, piece) = {}
  BY Zenon DEF ReadValue

\* A value that was read is one piece, and this piece reads as the same value.
LEMMA ReadAgain ==
    ASSUME NEW sort, NEW piece \in Pieces, NEW value \in ReadValue(sort, piece)
    PROVE  /\ sort \in {"text", "int", "bool"}
           /\ \E p \in Pieces : value = <<p>> /\ ReadValue(sort, p) = {value}
  <1>1. CASE sort = "text"
    <2>1. \A p : ReadValue(sort, p) = {<<p>>}
      BY <1>1 DEF ReadValue
    <2> QED
      BY <1>1, <2>1
  <1>2. CASE sort = "int"
    <2>1. \A p : ReadValue(sort, p) = IF p \in DOMAIN Numbers THEN {<<Numbers[p]>>} ELSE {}
      BY <1>2 DEF ReadValue
    <2>2. value \in IF piece \in DOMAIN Numbers THEN {<<Numbers[piece]>>} ELSE {}
      BY <2>1
    <2>3. piece \in DOMAIN Numbers /\ value = <<Numbers[piece]>>
      BY <2>2
    <2>4. /\ Numbers[piece] \in Pieces /\ Numbers[piece] \in DOMAIN Numbers
          /\ Numbers[Numbers[piece]] = Numbers[piece]
      BY <2>3, NumbersAssumption
    <2> QED
      BY <1>2, <2>1, <2>3, <2>4
  <1>3. CASE sort = "bool"
    <2>1. \A p : ReadValue(sort, p) = {<<p>>} \cap {<<"true">>, <<"false">>}
      BY <1>3 DEF ReadValue
    <2>2. value = <<piece>> /\ <<piece>> \in {<<"true">>, <<"false">>}
      BY <2>1
    <2>3. ReadValue(sort, piece) = {value}
      BY <2>1, <2>2
    <2> QED
      BY <1>3, <2>2, <2>3
  <1>4. CASE sort \notin {"text", "int", "bool"}
    <2>1. sort # "text" /\ sort # "int" /\ sort # "bool"
      BY <1>4
    <2>2. ReadValue(sort, piece) = {}
      BY <2>1, NotRead
    <2> QED
      BY <2>2
  <1> QED
    BY <1>1, <1>2, <1>3, <1>4

\* A key of a type is that of one field, whose kind it has.
LEMMA KindOfField ==
    ASSUME NEW fields, WellFormed(fields)
    PROVE  /\ ToSet(fields) = {fields[i] : i \in DOMAIN fields}
           /\ \A i \in DOMAIN fields : KindOf(fields, fields[i].key) = fields[i].kind
           /\ Keys(fields) = {fields[i].key : i \in DOMAIN fields}
  <1>1. ToSet(fields) = {fields[i] : i \in DOMAIN fields}
    BY DEF ToSet
  <1>2. ASSUME NEW i \in DOMAIN fields
        PROVE  KindOf(fields, fields[i].key) = fields[i].kind
    <2> DEFINE field == CHOOSE f \in ToSet(fields) : f.key = fields[i].key
    <2>1. field \in ToSet(fields) /\ field.key = fields[i].key
      BY <1>1
    <2>2. PICK j \in DOMAIN fields : field = fields[j]
      BY <1>1, <2>1
    <2>3. j = i
      BY <2>1, <2>2 DEF WellFormed
    <2> QED
      BY <2>2, <2>3 DEF KindOf
  <1> QED
    BY <1>1, <1>2 DEF Keys

\* Objects with something to print and nothing that would be lost: every value is
\* one piece that reads as this value.
Plain(fields, object) ==
    /\ object = [key \in DOMAIN object |-> object[key]]
    /\ DOMAIN object # {}
    /\ Required(fields) \subseteq DOMAIN object /\ DOMAIN object \subseteq Keys(fields)
    /\ \A key \in DOMAIN object :
          \E piece \in Pieces :
              /\ object[key] = <<piece>>
              /\ ReadValue(KindOf(fields, key), piece) = {object[key]}

\* A text has pairs of keys and values of an object, and all of some keys.
Carries(text, object, keys) ==
    /\ text \in Seq(Pieces)
    /\ \E m \in Nat :
          /\ Len(text) = 2 * m
          /\ \A j \in 1 .. m :
                /\ text[2 * j - 1] \in DOMAIN object
                /\ object[text[2 * j - 1]] = <<text[2 * j]>>
          /\ \A key \in keys : \E j \in 1 .. m : text[2 * j - 1] = key

LEMMA CarriesNone ==
    ASSUME NEW object PROVE Carries(<<>>, object, {})
  <1>1. <<>> \in Seq(Pieces) /\ Len(<<>>) = 2 * 0 /\ 0 \in Nat
    OBVIOUS
  <1>2. 1 .. 0 = {}
    OBVIOUS
  <1> QED
    BY <1>1, <1>2 DEF Carries

LEMMA CarriesMore ==
    ASSUME NEW object, NEW keys, NEW text, Carries(text, object, keys),
           NEW key \in DOMAIN object, key \in Pieces,
           NEW piece \in Pieces, object[key] = <<piece>>
    PROVE  Carries(text \o <<key, piece>>, object, keys \cup {key})
  <1> DEFINE longer == text \o <<key, piece>>
  <1>1. PICK m \in Nat :
          /\ Len(text) = 2 * m
          /\ \A j \in 1 .. m :
                /\ text[2 * j - 1] \in DOMAIN object
                /\ object[text[2 * j - 1]] = <<text[2 * j]>>
          /\ \A k \in keys : \E j \in 1 .. m : text[2 * j - 1] = k
    BY DEF Carries
  <1>2. text \in Seq(Pieces) /\ <<key, piece>> \in Seq(Pieces)
    BY DEF Carries
  <1>3. longer \in Seq(Pieces) /\ Len(longer) = 2 * (m + 1)
    BY <1>1, <1>2
  <1>4. \A i \in 1 .. 2 * m : longer[i] = text[i]
    BY <1>1, <1>2
  <1>5. longer[2 * m + 1] = key /\ longer[2 * m + 2] = piece
    BY <1>1, <1>2
  <1> HIDE DEF longer
  <1>6. ASSUME NEW j \in 1 .. m + 1
        PROVE  /\ longer[2 * j - 1] \in DOMAIN object
               /\ object[longer[2 * j - 1]] = <<longer[2 * j]>>
    <2>1. CASE j = m + 1
      <3>1. 2 * j - 1 = 2 * m + 1 /\ 2 * j = 2 * m + 2
        BY <2>1
      <3> QED
        BY <1>5, <3>1
    <2>2. CASE j # m + 1
      <3>1. j \in 1 .. m /\ 2 * j - 1 \in 1 .. 2 * m /\ 2 * j \in 1 .. 2 * m
        BY <2>2
      <3>2. longer[2 * j - 1] = text[2 * j - 1] /\ longer[2 * j] = text[2 * j]
        BY <1>4, <3>1
      <3> QED
        BY <1>1, <3>1, <3>2
    <2> QED
      BY <2>1, <2>2
  <1>7. ASSUME NEW k \in keys \cup {key}
        PROVE  \E j \in 1 .. m + 1 : longer[2 * j - 1] = k
    <2>1. CASE k \in keys
      <3>1. PICK j \in 1 .. m : text[2 * j - 1] = k
        BY <1>1, <2>1
      <3>2. 2 * j - 1 \in 1 .. 2 * m /\ j \in 1 .. m + 1
        OBVIOUS
      <3> QED
        BY <1>4, <3>1, <3>2
    <2>2. CASE k = key
      <3>1. m + 1 \in 1 .. m + 1 /\ 2 * (m + 1) - 1 = 2 * m + 1
        OBVIOUS
      <3> QED
        BY <1>5, <2>2, <3>1
    <2> QED
      BY <2>1, <2>2
  <1>8. m + 1 \in Nat
    OBVIOUS
  <1>9. Carries(longer, object, keys \cup {key})
    BY <1>3, <1>6, <1>7, <1>8 DEF Carries
  <1> QED
    BY <1>9 DEF longer

LEMMA TwoPieces ==
    ASSUME NEW a \in Pieces, NEW b \in Pieces
    PROVE  <<a>> \o <<b>> = <<a, b>>
  <1> DEFINE l == <<a>> \o <<b>>
             r == <<a, b>>
  <1>1. /\ <<a>> \in Seq(Pieces) /\ Len(<<a>>) = 1 /\ <<a>>[1] = a
        /\ <<b>> \in Seq(Pieces) /\ Len(<<b>>) = 1 /\ <<b>>[1] = b
    OBVIOUS
  <1>2. l \in Seq(Pieces) /\ Len(l) = 2 /\ l[1] = a /\ l[2] = b
    <2> QED
      BY <1>1
  <1>3. r \in Seq(Pieces) /\ Len(r) = 2 /\ r[1] = a /\ r[2] = b
    OBVIOUS
  <1> HIDE DEF l, r
  <1>4. l \in [1 .. 2 -> Pieces] /\ r \in [1 .. 2 -> Pieces]
    BY <1>2, <1>3
  <1>5. \A i \in 1 .. 2 : l[i] = r[i]
    <2>1. \A i \in 1 .. 2 : i = 1 \/ i = 2
      OBVIOUS
    <2> QED
      BY <1>2, <1>3, <2>1
  <1>6. l = r
    BY <1>4, <1>5
  <1> QED
    BY <1>6 DEF l, r

\* A sequence of one piece.
LEMMA OnePiece ==
    ASSUME NEW s \in Seq(Pieces), Len(s) = 1
    PROVE  s[1] \in Pieces /\ s = <<s[1]>>
  <1> DEFINE t == <<s[1]>>
  <1>1. s \in [1 .. 1 -> Pieces] /\ s[1] \in Pieces
    OBVIOUS
  <1>2. t \in Seq(Pieces) /\ Len(t) = 1 /\ t[1] = s[1]
    BY <1>1
  <1> HIDE DEF t
  <1>3. t \in [1 .. 1 -> Pieces] /\ \A i \in 1 .. 1 : i = 1
    BY <1>2
  <1>4. s = t
    BY <1>1, <1>2, <1>3
  <1> QED
    BY <1>1, <1>4 DEF t

\* What is printed of a plain object carries all of its keys.
LEMMA JoinCarries ==
    ASSUME NEW fields \in Objects, NEW object, Plain(fields, object)
    PROVE  Carries(Join(fields, object), object, DOMAIN object)
  <1> DEFINE n == Len(fields)
             parts == [i \in DOMAIN fields |-> PrintField(fields[i], object)]
             keysTo(i) == {fields[k].key : k \in 1 .. i} \cap DOMAIN object
             X == [i \in 1 .. n |-> {text \in Seq(Pieces) : Carries(text, object, keysTo(i))}]
  <1>1. WellFormed(fields)
    BY ObjectsAreWellFormed
  <1>2. n \in Nat \ {0} /\ DOMAIN fields = 1 .. n
    BY <1>1 DEF WellFormed
  <1>3. Len(parts) = n
    BY <1>2
  <1>4. ASSUME NEW i \in 1 .. n, NEW text, NEW keys, Carries(text, object, keys)
        PROVE  Carries(text \o parts[i], object, keys \cup ({fields[i].key} \cap DOMAIN object))
    <2>1. parts[i] = PrintField(fields[i], object)
      BY <1>2
    <2> HIDE DEF parts
    <2>2. CASE fields[i].key \notin DOMAIN object
      <3>1. parts[i] = <<>> /\ {fields[i].key} \cap DOMAIN object = {}
        BY <2>1, <2>2 DEF PrintField
      <3>2. text \in Seq(Pieces)
        BY <1>4 DEF Carries
      <3>3. text \o parts[i] = text
        BY <3>1, <3>2
      <3>4. keys \cup ({fields[i].key} \cap DOMAIN object) = keys
        BY <3>1
      <3> QED
        BY <1>4, <3>3, <3>4
    <2>3. CASE fields[i].key \in DOMAIN object
      <3>1. PICK key : key = fields[i].key
        OBVIOUS
      <3>2. key \in DOMAIN object /\ key \in Pieces
        <4>1. key \in Keys(fields)
          BY <1>1, <1>2, <3>1, KindOfField
        <4> QED
          BY <2>3, <3>1, <4>1, KeysAssumption
      <3>3. PICK piece \in Pieces :
              object[key] = <<piece>> /\ ReadValue(KindOf(fields, key), piece) = {object[key]}
        BY <3>2 DEF Plain
      <3>4. fields[i].kind # "nested"
        <4>1. KindOf(fields, key) = fields[i].kind
          BY <1>1, <1>2, <3>1, KindOfField
        <4>2. ASSUME fields[i].kind = "nested" PROVE FALSE
          <5>1. ReadValue(fields[i].kind, piece) = {}
            BY <4>2, NotRead
          <5> QED
            BY <3>3, <4>1, <5>1
        <4> QED
          BY <4>2
      <3>5. parts[i] = <<key>> \o object[key]
        BY <2>1, <3>1, <3>2, <3>4 DEF PrintField
      <3>6. parts[i] = <<key, piece>>
        <4>1. <<key>> \o <<piece>> = <<key, piece>>
          BY <3>2, <3>3, TwoPieces
        <4> QED
          BY <3>3, <3>5, <4>1
      <3>7. Carries(text \o <<key, piece>>, object, keys \cup {key})
        BY <1>4, <3>2, <3>3, CarriesMore
      <3>8. {fields[i].key} \cap DOMAIN object = {key}
        BY <3>1, <3>2
      <3> QED
        BY <3>6, <3>7, <3>8
    <2> QED
      BY <2>2, <2>3
  <1>5. parts[1] \in X[1]
    <2>1. Carries(<<>> \o parts[1], object, {} \cup ({fields[1].key} \cap DOMAIN object))
      <3>1. 1 \in 1 .. n
        BY <1>2
      <3> HIDE DEF parts
      <3> QED
        BY <1>4, <3>1, CarriesNone
    <2>2. <<>> \o parts[1] = parts[1]
      BY <2>1 DEF Carries
    <2>3. {} \cup ({fields[1].key} \cap DOMAIN object) = keysTo(1)
      OBVIOUS
    <2>4. Carries(parts[1], object, keysTo(1))
      BY <2>1, <2>2, <2>3
    <2>5. parts[1] \in Seq(Pieces) /\ 1 \in 1 .. n
      BY <1>2, <2>4 DEF Carries
    <2> HIDE DEF parts, keysTo
    <2> QED
      BY <2>4, <2>5
  <1>6. ASSUME NEW i \in 2 .. n, NEW x \in X[i - 1]
        PROVE  x \o parts[i] \in X[i]
    <2>1. i \in 1 .. n /\ i - 1 \in 1 .. n /\ 1 .. i = (1 .. i - 1) \cup {i}
      BY <1>2
    <2>2. Carries(x, object, keysTo(i - 1))
      BY <1>6, <2>1
    <2>3. Carries(x \o parts[i], object, keysTo(i - 1) \cup ({fields[i].key} \cap DOMAIN object))
      BY <1>4, <2>1, <2>2
    <2>4. keysTo(i - 1) \cup ({fields[i].key} \cap DOMAIN object) = keysTo(i)
      BY <2>1
    <2>5. Carries(x \o parts[i], object, keysTo(i))
      BY <2>3, <2>4
    <2>6. x \o parts[i] \in Seq(Pieces)
      BY <2>5 DEF Carries
    <2> HIDE DEF parts, keysTo
    <2> QED
      BY <2>1, <2>5, <2>6
  <1>7. FlattenSeq(parts) \in X[n]
    <2> HIDE DEF X, parts
    <2> QED
      BY <1>2, <1>3, <1>5, <1>6, FlattenInduction
  <1>8. Carries(FlattenSeq(parts), object, keysTo(n))
    BY <1>2, <1>7
  <1>9. keysTo(n) = DOMAIN object
    <2>1. Keys(fields) = {fields[i].key : i \in 1 .. n}
      BY <1>1, <1>2, KindOfField
    <2> QED
      BY <2>1 DEF Plain
  <1> QED
    BY <1>8, <1>9 DEF Join

\* The text of an object is a sequence of pieces.
LEMMA TextType ==
    ASSUME NEW fields \in Objects, NEW object, IsObject(fields, object)
    PROVE  Join(fields, object) \in Seq(Pieces)
  <1> DEFINE n == Len(fields)
             parts == [i \in DOMAIN fields |-> PrintField(fields[i], object)]
             X == [i \in 1 .. n |-> Seq(Pieces)]
  <1>1. WellFormed(fields)
    BY ObjectsAreWellFormed
  <1>2. n \in Nat \ {0} /\ DOMAIN fields = 1 .. n
    BY <1>1 DEF WellFormed
  <1>3. ASSUME NEW i \in 1 .. n PROVE parts[i] \in Seq(Pieces)
    <2>1. parts[i] = PrintField(fields[i], object)
      BY <1>2
    <2> HIDE DEF parts
    <2>2. CASE fields[i].key \in DOMAIN object /\ fields[i].kind # "nested"
      <3>1. parts[i] = <<fields[i].key>> \o object[fields[i].key]
        BY <2>1, <2>2 DEF PrintField
      <3>2. fields[i].key \in Pieces
        BY <1>1, <1>2, KindOfField, KeysAssumption
      <3>3. object[fields[i].key] \in Seq(Pieces)
        BY <2>2 DEF IsObject
      <3> QED
        BY <3>1, <3>2, <3>3
    <2>3. CASE ~(fields[i].key \in DOMAIN object /\ fields[i].kind # "nested")
      BY <2>1, <2>3 DEF PrintField
    <2> QED
      BY <2>2, <2>3
  <1>4. Len(parts) = n
    BY <1>2
  <1> HIDE DEF parts
  <1>5. parts[1] \in X[1]
    BY <1>2, <1>3
  <1>6. ASSUME NEW i \in 2 .. n, NEW x \in X[i - 1]
        PROVE  x \o parts[i] \in X[i]
    <2>1. i \in 1 .. n /\ i - 1 \in 1 .. n
      BY <1>2
    <2>2. x \in Seq(Pieces) /\ parts[i] \in Seq(Pieces)
      BY <1>3, <1>6, <2>1
    <2> QED
      BY <2>1, <2>2
  <1>7. FlattenSeq(parts) \in X[n]
    <2> HIDE DEF X
    <2> QED
      BY <1>2, <1>4, <1>5, <1>6, FlattenInduction
  <1> QED
    BY <1>2, <1>7 DEF Join, parts

-----------------------------------------------------------------------------
(* Reading a text *)

\* The pairs that parse makes of a text.
PairsOf(text, m) == [i \in 1 .. m |-> [key |-> text[2 * i - 1], val |-> text[2 * i]]]

LEMMA PairsOfText ==
    ASSUME NEW text, Len(text) \in Nat
    PROVE  /\ \A m \in Nat : Len(text) = 2 * m => Pairs(text) = {PairsOf(text, m)}
           /\ \A ps \in Pairs(text) :
                 \E m \in Nat : Len(text) = 2 * m /\ ps = PairsOf(text, m)
  <1>1. ASSUME NEW m \in Nat, Len(text) = 2 * m
        PROVE  Pairs(text) = {PairsOf(text, m)}
    <2>1. Len(text) \div 2 = m
      BY <1>1
    <2>2. {j \in {Len(text) \div 2} : Len(text) = 2 * j} = {m}
      BY <1>1, <2>1
    <2> QED
      BY <2>2, Zenon DEF Pairs, PairsOf
  <1>2. ASSUME NEW ps \in Pairs(text)
        PROVE  \E m \in Nat : Len(text) = 2 * m /\ ps = PairsOf(text, m)
    <2>1. PICK m \in {j \in {Len(text) \div 2} : Len(text) = 2 * j} : ps = PairsOf(text, m)
      BY <1>2, Zenon DEF Pairs, PairsOf
    <2>2. m \in Nat /\ Len(text) = 2 * m
      BY <2>1
    <2> QED
      BY <2>1, <2>2
  <1> QED
    BY <1>1, <1>2

\* The parts of FromText.
ReadPair(fields, pair) ==
    IF pair.key \in Keys(fields) THEN ReadValue(KindOf(fields, pair.key), pair.val) ELSE {}

FirstPair(pairs, key) ==
    pairs[CHOOSE i \in DOMAIN pairs :
        pairs[i].key = key /\ \A j \in 1 .. i - 1 : pairs[j].key # key]

PairKeys(pairs) == {pair.key : pair \in ToSet(pairs)}

Accepted(fields, pairs) ==
    /\ \A pair \in ToSet(pairs) : ReadPair(fields, pair) # {}
    /\ Required(fields) \subseteq PairKeys(pairs)

ObjectOf(fields, pairs) ==
    [key \in PairKeys(pairs) |-> CHOOSE value \in ReadPair(fields, FirstPair(pairs, key)) : TRUE]

LEMMA FromTextReads ==
    ASSUME NEW fields, NEW text
    PROVE  FromText(fields, text) =
             {ObjectOf(fields, pairs) : pairs \in {ps \in Pairs(text) : Accepted(fields, ps)}}
  BY Zenon DEF FromText, ReadPair, FirstPair, PairKeys, Accepted, ObjectOf

\* A key of a text has a first pair.
LEMMA FirstPairOfKey ==
    ASSUME NEW m \in Nat, NEW pairs, DOMAIN pairs = 1 .. m, NEW key \in PairKeys(pairs)
    PROVE  /\ FirstPair(pairs, key) \in ToSet(pairs)
           /\ FirstPair(pairs, key).key = key
  <1> DEFINE with == {i \in DOMAIN pairs : pairs[i].key = key}
             IsFirst(i) == pairs[i].key = key /\ \A j \in 1 .. i - 1 : pairs[j].key # key
  <1>1. ToSet(pairs) = {pairs[i] : i \in DOMAIN pairs}
    BY DEF ToSet
  <1>2. with \subseteq Nat /\ with # {}
    BY <1>1 DEF PairKeys
  <1>3. PICK k \in with : \A y \in with : k <= y
    <2> HIDE DEF with
    <2> QED
      BY <1>2, LeastOf
  <1>4. \A j \in 1 .. k - 1 : pairs[j].key # key
    <2> SUFFICES ASSUME NEW j \in 1 .. k - 1, pairs[j].key = key PROVE FALSE
      OBVIOUS
    <2>1. k \in 1 .. m /\ k \in Nat
      BY <1>3
    <2>2. j \in 1 .. m /\ j < k
      BY <2>1
    <2>3. j \in with
      BY <2>2
    <2> QED
      BY <1>3, <2>1, <2>2, <2>3
  <1>5. k \in DOMAIN pairs /\ IsFirst(k)
    BY <1>3, <1>4
  <1> DEFINE first == CHOOSE i \in DOMAIN pairs : IsFirst(i)
  <1>6. first \in DOMAIN pairs /\ IsFirst(first)
    <2> HIDE DEF IsFirst
    <2> QED
      BY <1>5
  <1>7. FirstPair(pairs, key) = pairs[first]
    BY DEF FirstPair
  <1> QED
    BY <1>1, <1>6, <1>7

\* A text that carries a plain object reads as this object.
LEMMA ReadBack ==
    ASSUME NEW fields \in Objects, NEW object, Plain(fields, object),
           NEW text, Carries(text, object, DOMAIN object)
    PROVE  FromText(fields, text) = {object}
  <1>1. PICK m \in Nat :
          /\ Len(text) = 2 * m
          /\ \A j \in 1 .. m :
                /\ text[2 * j - 1] \in DOMAIN object
                /\ object[text[2 * j - 1]] = <<text[2 * j]>>
          /\ \A key \in DOMAIN object : \E j \in 1 .. m : text[2 * j - 1] = key
    BY DEF Carries
  <1> DEFINE ps == PairsOf(text, m)
  <1>2. Pairs(text) = {ps}
    BY <1>1, PairsOfText DEF Carries
  <1>3. /\ DOMAIN ps = 1 .. m
        /\ \A j \in 1 .. m : ps[j].key = text[2 * j - 1] /\ ps[j].val = text[2 * j]
    BY DEF PairsOf
  <1>4. ToSet(ps) = {ps[j] : j \in 1 .. m}
    BY <1>3 DEF ToSet
  <1> HIDE DEF ps
  <1>5. PairKeys(ps) = DOMAIN object
    <2>1. PairKeys(ps) = {ps[j].key : j \in 1 .. m}
      BY <1>4 DEF PairKeys
    <2>2. ASSUME NEW j \in 1 .. m PROVE ps[j].key \in DOMAIN object
      BY <1>1, <1>3
    <2>3. ASSUME NEW key \in DOMAIN object PROVE \E j \in 1 .. m : key = ps[j].key
      <3>1. PICK j \in 1 .. m : text[2 * j - 1] = key
        BY <1>1
      <3> QED
        BY <1>3, <3>1
    <2> QED
      BY <2>1, <2>2, <2>3
  <1>6. ASSUME NEW pair \in ToSet(ps)
        PROVE  pair.key \in DOMAIN object /\ ReadPair(fields, pair) = {object[pair.key]}
    <2>1. PICK j \in 1 .. m : pair = ps[j]
      BY <1>4
    <2>2. pair.key \in DOMAIN object /\ object[pair.key] = <<pair.val>>
      BY <1>1, <1>3, <2>1
    <2>3. PICK piece \in Pieces :
            /\ object[pair.key] = <<piece>>
            /\ ReadValue(KindOf(fields, pair.key), piece) = {object[pair.key]}
      BY <2>2 DEF Plain
    <2>4. piece = pair.val
      BY <2>2, <2>3
    <2>5. pair.key \in Keys(fields)
      BY <2>2 DEF Plain
    <2> QED
      BY <2>2, <2>3, <2>4, <2>5 DEF ReadPair
  <1>7. Accepted(fields, ps)
    BY <1>5, <1>6 DEF Accepted, Plain
  <1>8. ObjectOf(fields, ps) = object
    <2>1. ASSUME NEW key \in DOMAIN object
          PROVE  (CHOOSE value \in ReadPair(fields, FirstPair(ps, key)) : TRUE) = object[key]
      <3>1. FirstPair(ps, key) \in ToSet(ps) /\ FirstPair(ps, key).key = key
        BY <1>3, <1>5, FirstPairOfKey
      <3>2. ReadPair(fields, FirstPair(ps, key)) = {object[key]}
        BY <1>6, <3>1
      <3> QED
        BY <3>2
    <2>2. object = [key \in DOMAIN object |-> object[key]]
      BY DEF Plain
    <2>3. ObjectOf(fields, ps) = [key \in DOMAIN object |-> object[key]]
      BY <1>5, <2>1 DEF ObjectOf
    <2> QED
      BY <2>2, <2>3
  <1>9. {p \in Pairs(text) : Accepted(fields, p)} = {ps}
    BY <1>2, <1>7
  <1>10. FromText(fields, text) = {ObjectOf(fields, p) : p \in {ps}}
    BY <1>9, FromTextReads
  <1> QED
    BY <1>8, <1>10

\* Whatever is read from a text has only values that were read.
LEMMA ReadIsPlain ==
    ASSUME NEW fields \in Objects, NEW text \in Seq(Pieces), text # <<>>,
           NEW object \in FromText(fields, text)
    PROVE  Plain(fields, object)
  <1>1. PICK ps \in Pairs(text) : Accepted(fields, ps) /\ object = ObjectOf(fields, ps)
    BY FromTextReads
  <1>2. PICK m \in Nat : Len(text) = 2 * m /\ ps = PairsOf(text, m)
    BY PairsOfText
  <1>3. m # 0
    BY <1>2
  <1>4. /\ DOMAIN ps = 1 .. m
        /\ \A j \in 1 .. m : ps[j].key = text[2 * j - 1] /\ ps[j].val = text[2 * j]
    BY <1>2 DEF PairsOf
  <1>5. ToSet(ps) = {ps[j] : j \in 1 .. m}
    BY <1>4 DEF ToSet
  <1>6. ASSUME NEW pair \in ToSet(ps) PROVE pair.val \in Pieces
    <2>1. PICK j \in 1 .. m : pair = ps[j]
      BY <1>5
    <2>2. 2 * j \in 1 .. Len(text)
      BY <1>2
    <2>3. text[2 * j] \in Pieces
      BY <2>2
    <2> QED
      BY <1>4, <2>1, <2>3
  <1>7. DOMAIN object = PairKeys(ps) /\ object = [key \in DOMAIN object |-> object[key]]
    BY <1>1 DEF ObjectOf
  <1>8. DOMAIN object # {}
    <2>1. ps[1] \in ToSet(ps)
      BY <1>3, <1>5
    <2> QED
      BY <1>7, <2>1 DEF PairKeys
  <1>9. ASSUME NEW key \in DOMAIN object
        PROVE  /\ key \in Keys(fields)
               /\ \E piece \in Pieces :
                    /\ object[key] = <<piece>>
                    /\ ReadValue(KindOf(fields, key), piece) = {object[key]}
    <2> DEFINE pair == FirstPair(ps, key)
    <2>1. pair \in ToSet(ps) /\ pair.key = key
      BY <1>4, <1>7, FirstPairOfKey
    <2>2. object[key] = CHOOSE value \in ReadPair(fields, pair) : TRUE
      BY <1>1, <1>7 DEF ObjectOf
    <2> HIDE DEF pair
    <2>3. ReadPair(fields, pair) # {}
      BY <1>1, <2>1 DEF Accepted
    <2>4. object[key] \in ReadPair(fields, pair)
      BY <2>2, <2>3
    <2>5. key \in Keys(fields) /\ object[key] \in ReadValue(KindOf(fields, key), pair.val)
      BY <2>1, <2>4 DEF ReadPair
    <2> QED
      BY <1>6, <2>1, <2>5, ReadAgain
  <1> QED
    BY <1>1, <1>7, <1>8, <1>9 DEF Plain, Accepted

\* An object is plain if nothing of it gets lost.
LEMMA WhatIsPlain ==
    ASSUME NEW fields \in Objects, NEW object, IsObject(fields, object),
           DOMAIN object # {},
           \A key \in DOMAIN object :
             KindOf(fields, key) \in {"text", "int", "bool"} /\ Len(object[key]) = 1
    PROVE  Plain(fields, object)
  <1>1. ASSUME NEW key \in DOMAIN object
        PROVE  \E piece \in Pieces :
                 /\ object[key] = <<piece>>
                 /\ ReadValue(KindOf(fields, key), piece) = {object[key]}
    <2>1. object[key] \in Seq(Pieces) /\ Len(object[key]) = 1
      BY DEF IsObject
    <2>2. PICK piece : piece = object[key][1]
      OBVIOUS
    <2>3. piece \in Pieces /\ object[key] = <<piece>>
      BY <2>1, <2>2, OnePiece
    <2>4. PICK sort : sort = KindOf(fields, key)
      OBVIOUS
    <2>5. ReadValue(sort, piece) = {<<piece>>}
      <3>1. CASE sort = "text"
        BY <3>1 DEF ReadValue
      <3>2. CASE sort = "int"
        <4>1. PICK p \in DOMAIN Numbers : object[key] = <<Numbers[p]>>
          BY <2>4, <3>2 DEF IsObject
        <4>2. piece = Numbers[p]
          BY <2>3, <4>1
        <4>3. piece \in DOMAIN Numbers /\ Numbers[piece] = piece
          BY <4>2, NumbersAssumption
        <4> QED
          BY <3>2, <4>3 DEF ReadValue
      <3>3. CASE sort = "bool"
        <4>1. <<piece>> \in {<<"true">>, <<"false">>}
          BY <2>3, <2>4, <3>3 DEF IsObject
        <4>2. ReadValue(sort, piece) = {<<piece>>} \cap {<<"true">>, <<"false">>}
          BY <3>3 DEF ReadValue
        <4> QED
          BY <4>1, <4>2
      <3> QED
        BY <2>4, <3>1, <3>2, <3>3
    <2> QED
      BY <2>3, <2>4, <2>5
  <1> QED
    BY <1>1 DEF Plain, IsObject

\* What is printed of a plain object is read as this object.
LEMMA PlainComesBack ==
    ASSUME NEW fields \in Objects, NEW object, Plain(fields, object)
    PROVE  FromText(fields, ToText(fields, object)) = {object}
  <1>1. Carries(Join(fields, object), object, DOMAIN object)
    BY JoinCarries
  <1>2. Join(fields, object) # <<>>
    <2>1. PICK m \in Nat :
            /\ Len(Join(fields, object)) = 2 * m
            /\ \A key \in DOMAIN object : \E j \in 1 .. m : Join(fields, object)[2 * j - 1] = key
      BY <1>1 DEF Carries
    <2>2. m # 0
      BY <2>1 DEF Plain
    <2> QED
      BY <2>1, <2>2
  <1>3. ToText(fields, object) = Join(fields, object)
    BY <1>2 DEF ToText
  <1> QED
    BY <1>1, <1>3, ReadBack

\* One piece alone is no pair, and reads as nothing.
LEMMA NothingInOnePiece ==
    ASSUME NEW fields, NEW piece PROVE FromText(fields, <<piece>>) = {}
  <1>1. Len(<<piece>>) = 1
    OBVIOUS
  <1>2. \A m \in Nat : 2 * m # 1
    OBVIOUS
  <1>3. \A ps \in Pairs(<<piece>>) : FALSE
    BY <1>1, <1>2, PairsOfText
  <1> QED
    BY <1>3, FromTextReads

\* So an object comes back exactly if it is plain.
LEMMA ObjectComesBack ==
    ASSUME NEW fields \in Objects, NEW object, IsObject(fields, object)
    PROVE  ComesBack(fields, object)
  <1>1. ASSUME FromText(fields, ToText(fields, object)) = {object}
        PROVE  Plain(fields, object)
    <2>1. Join(fields, object) # <<>>
      <3>1. ASSUME Join(fields, object) = <<>> PROVE FALSE
        <4>1. ToText(fields, object) = <<"">>
          BY <3>1 DEF ToText
        <4> QED
          BY <1>1, <4>1, NothingInOnePiece
      <3> QED
        BY <3>1
    <2>2. ToText(fields, object) = Join(fields, object)
      BY <2>1 DEF ToText
    <2> QED
      BY <1>1, <2>1, <2>2, TextType, ReadIsPlain
  <1>2. ASSUME Plain(fields, object), NEW key \in DOMAIN object
        PROVE  KindOf(fields, key) \in {"text", "int", "bool"} /\ Len(object[key]) = 1
    <2>1. PICK piece \in Pieces :
            /\ object[key] = <<piece>>
            /\ ReadValue(KindOf(fields, key), piece) = {object[key]}
      BY <1>2 DEF Plain
    <2>2. Len(object[key]) = 1
      BY <2>1
    <2>3. object[key] \in ReadValue(KindOf(fields, key), piece)
      BY <2>1
    <2> QED
      BY <2>2, <2>3, ReadAgain
  <1>3. Plain(fields, object) => DOMAIN object # {}
    BY DEF Plain
  <1> QED
    BY <1>1, <1>2, <1>3, WhatIsPlain, PlainComesBack DEF ComesBack

\* What is read is plain, and so is settled.
LEMMA TextIsSettled ==
    ASSUME NEW fields \in Objects, NEW text \in Seq(Pieces), text # <<>>
    PROVE  IsSettled(fields, text)
  BY ReadIsPlain, PlainComesBack DEF IsSettled

\* For every object of the thirteen types and every text: an object comes back
\* from its text if and only if nothing of it gets lost there, and what is read
\* from a text is printed and read again without a change.
THEOREM TextsAgree == RulesSpec => []TextFormsAgree
  <1> DEFINE Inputs == /\ kind = "form" => input \in Forms
                       /\ kind = "text" => input \in Texts
  <1>1. Inputs => TextFormsAgree
    <2>1. ASSUME NEW form \in Forms PROVE ComesBack(form.fields, form.object)
      BY FormsAssumption, ObjectComesBack
    <2>2. ASSUME NEW form \in Texts PROVE IsSettled(form.fields, form.text)
      BY TextsAssumption, TextIsSettled
    <2> QED
      BY <2>1, <2>2 DEF TextFormsAgree
  <1>2. RulesInit => Inputs
    BY DEF RulesInit
  <1>3. Inputs /\ [RulesNext]_<<report, kind, input>> => Inputs'
    BY DEF RulesNext, JudgeReport, GivenTable, GivenDeployment, GivenForm, GivenText,
       Given, Done
  <1> QED
    BY <1>1, <1>2, <1>3, PTL DEF RulesSpec

-----------------------------------------------------------------------------
(* The reports of the run *)

\* Looking at an input leaves the report alone: what holds of all reports of
\* NodeReports, the theorems above, holds in the run that looks at both.
THEOREM ReportsAreNodeReports == RulesSpec => Spec
  <1>1. RulesInit => Init
    BY DEF RulesInit
  <1>2. [RulesNext]_<<report, kind, input>> => [Next]_report
    BY DEF RulesNext, JudgeReport, GivenTable, GivenDeployment, GivenForm, GivenText,
       Given, Done, Next
  <1> QED
    BY <1>1, <1>2, PTL DEF RulesSpec, Spec

\* So the two judgements agree in the run, the free-space problem is there from
\* a tenth of free space down, and a worse report keeps its problems.
COROLLARY RunJudgesWell ==
    RulesSpec => []CountAgreesWithList /\ []FreeSpaceIsATenth /\ WorseIsWorse
  BY ReportsAreNodeReports, JudgesAgree, FreeSpaceRule, JudgementMonotone

=============================================================================
