# A model of the Bob management backend

This directory holds TLA+ modules that model the backend of the Bob management
UI (`src/backend`), the TLC configurations that check them on small instances,
and proofs that TLAPS checks for every instance. Bob is a distributed object
store. The backend sits between browsers and a Bob cluster: it logs users in,
keeps one HTTP client per cluster, asks the nodes in parallel, and answers with
summaries and pages.

All paths below are relative to the repository (`src/`), all modules are in this
directory.

## 1. The system

| part | state | operations | modules |
|---|---|---|---|
| Login, logout, sessions (`backend/src/services/auth.rs`, `main.rs`) | `SharedBobStore` (one `BobClient` per hostname, behind an `RwLock`), the session store and session records of axum-sessions, the destroy flag of a session | `login`, `logout`, `AuthLayer` with axum-login's `MemoryStore`, the session layer around every request | `BobUser`, `Gate`, `Auth`, `AuthProofs`, `MCAuth` |
| Node and disk judgement (`services/dto.rs`, `services/api.rs`) | none | `NodeProblem::from_metrics`, `NodeStatus::from_problems`, `is_bad_node`, `disk_status_from_space`, `proccess_disks` | `Health`, `NodeReports`, `Rules`, `RulesProofs`, `MCRules` |
| Cluster summaries (`services/api.rs`) | the handler's totals and its set of tasks | `get_nodes_count`, `get_disks_count`, `get_rps`, `get_space` | `Gather`, `GatherProofs`, `MCGather` |
| Virtual disks page (`services/api.rs`) | tasks, listings, `res_disks`, the answer in progress | `get_vdisks`, `process_replica`, `is_node_online` | `Cluster`, `VDisksAnswer`, `VDisks`, `VDisksProofs`, `MCVDisks` |
| Page of one node (`services/api.rs`) | tasks, `proc_disks`, `res_partitions`, `res_replicas`, the answer in progress | `get_detailed_node_info`, `get_client_by_node`, `process_vdisks_for_node` | `Cluster`, `NodePage`, `NodePageProofs`, `MCNodePage` |
| Bob HTTP client (`connector/client.rs`, `services/methods.rs`) | one call in flight | `form_get_request`, `call`, `handle_response_json`, `err_from_code`, one method per endpoint, `request_*` | `ApiCall`, `ApiCallProofs` |
| Nodes page (`services/api.rs`) | tasks, the list of nodes in progress | `get_nodes`, which calls `get_vdisks` | `VDisksAnswer`, `NodesPage`, `NodesPageProofs`, `MCNodesPage` |
| Raw metrics and configuration (`services/api.rs`) | none | `raw_metrics_by_node`, `raw_configuration_by_node` | routes of `NodePage` |
| Construction of a client (`connector/mod.rs`, `models/models.rs`) | `BobClient::cluster`, fixed at login | `try_new`, `change_port`, `into_base_path`, `Hostname` | `NodeClients`, `Rules`, `RulesProofs`, `MCRules`, `MCSites` |
| Bob's data types (`connector/dto.rs`) | none | `to_string` and `from_str` of thirteen types | `QueryForm`, `Rules`, `RulesProofs`, `MCRules` |
| Command line, configuration, router, OpenAPI, build scripts | start-up only | | not modelled |

How they interact. A browser's request to `/api` passes the session layer and
`AuthLayer` (`main.rs:155`), which looks the session's user up in the shared store
and hands the handler a clone of its `BobClient`. On `login` and `logout` both
layers run too, but no user is required, and these handlers only log the one they
are given. Handlers of pages
spawn one tokio task per node of `BobClient::cluster`, make calls of their own
meanwhile, and take the tasks' results in the order in which they finish
(`FuturesUnordered`). A task is detached: it runs on when its handler returns an
error or is dropped. Every call to Bob goes through the HTTP client, whose
timeout covers the wait for the head of a response.

What is hard here:

- *Interleaving.* Handlers are async functions; any two requests interleave at
  their awaits. `login` writes the session before the store, with an await
  between; `AuthLayer` reads the session before it awaits the store; the session
  layer reads the destroy flag of a session before it awaits the session store.
- *Sharing.* All sessions of a cluster use one store entry. A login of another
  user replaces the client that other sessions are bound to.
- *Cancellation.* hyper drops a handler at an await when its browser goes away.
- *Restart.* The secret, the sessions and the clients live in the process.
- *Stale addresses.* The clients of the nodes are made at login, from the addresses
  Bob listed then with the port of the login in place of theirs. Nodes on one
  host, or nodes that have moved since, answer for each other.
- *Order.* Results are added, or inserted into maps, in the order in which nodes
  answer, and nodes change while a page is being made.
- *Partial failure.* Each of the calls of a page may fail by itself.
- *Time.* A late answer races the timeout, and a body has no timeout.
- *Numbers.* Sums and differences are `u64`, thresholds are compared in doubles.

What makes each part correct:

- Sessions: nobody is served with a client Bob did not accept or that the session
  has not logged in with; a logged-out session stays out, but for a request that is
  just storing it; a session is not ended by what others do, except in the ways the
  shared store implies.
- Judgement: the two copies of the node's rule agree, and worse is never better.
- Summaries: every node is accounted for once, totals are sums of things that
  were true during the request, and an answer comes.
- Pages: what is called good, or offline, was so during this request; statuses
  are those of the right replicas; a node's report is its own, whoever answers at
  its address; parts of a page contradict each other only about what changed while
  it was made; an answer comes.
- Clients of nodes: each reaches its own node, under conditions on the deployment
  that the code takes for granted.
- Data types: what is printed reads back, and when it does not.
- Client: a result is backed by a whole and well-formed response, and a call
  ends.

## 2. The modules and the code

**`BobUser`** has the users: a `BobClient` is a hostname with optional
credentials (`connector/mod.rs`, reduced to what identifies it), its password
hash is the password or the empty one (`AuthUser::get_password_hash`), and a
session's record is the pair that axum-login keeps.

**`Gate`** is the abstract promise of authentication: a request is served with a
client only if Bob accepted that client and the request's own session has
presented its hostname and password. It knows no store, no layers and no awaits.

**`Auth`** is the detailed system. `store` is the `SharedBobStore`, `session`,
`live` and `destroyed` are the session layer's, and each request has a position
`pc`, a session `handle`, the `client` it works with, what `AuthLayer` has `seen`
and its `outcome`. One action lies between two awaits:

| action | code |
|---|---|
| `LoginStart`, `Connect`, `Probe`, `Bind`, `Insert` | `login`, from its entry over `try_new`, `probe`, `auth.login` and the write lock to the insertion |
| `ApiStart`, `LoadUser`, `ServeDone` | `AuthLayer`'s read of the session, `load_user` with the comparison of hashes, the secured handler |
| `LogoutStart`, `Logout` | `logout` |
| `Enter`, `Finish`, `Save`, `Remove` | the session layer (external): a handle before the handler, after it the read of the destroy flag, and after one more await the write of the session store |
| `Cancel`, `Restart` | a disconnect; the end and start of the process |

`LoadUser` is external as well: the store behind `AuthLayer` is axum-login's
`MemoryStore` (`main.rs:146`); the `BobMemoryStore` of `auth.rs` is never made.
`Bind` has the failure of `auth.login`: 401, and nothing is inserted. `AuthLayer`
is not modelled before `login` and `logout`, where what it finds has no effect.

`granted`, `presented`, `gone` and `late` are history: clients Bob has accepted,
bindings a session logged in with, sessions whose logout was answered, and
sessions that were destroyed while a request was between `Finish` and `Save`.

**`Health`** has the pure rules. A metrics snapshot is a function from a subset of
the keys to values; a missing key reads as 0 (`From<MetricsSnapshotModel>`).
`Plus` and `Minus` are `u64` arithmetic that wraps at `MaxWord + 1`, what a
release build does. The rule of the node's free space is written twice, as in the
source (`FreeSpaceLow`, and within `IsBadNode`). The comparison with 10 % is
`10 * x <= total` for nodes and `<` for disks, as doubles come out: `1.0 - 0.9` is
less than `0.1`.
**`NodeReports`** is a node that reports again and again, so that the rules can
be checked and proved as invariants and as an action property. `ProccessDisks` is
the disk table of a node's page.

**`Gather`** has the four summary routes in one state machine; `Calls`, `Fields`
and `Share` say what differs. `Call(n)` is a step of node n's task, `Consume(n)`
one turn of the handler's loop, `Reply` its end, `Close` and `Disconnect` drop
the handler's locals. `cond` is what the nodes answer, and `Change` changes it
at any moment. `during` is history: the conditions a node had since the request
began.

**`NodeClients`** is the map of clients that a login makes: `ChangePort` is
`change_port` (what follows the last colon is replaced, so that of `http://host`
only the word `http` is left, as a host), `BasePath` is `into_base_path` (always
`http`), `Clients` is the chain in `try_new` (an address that cannot be used is
left out, the last of several nodes with one name stays), and `Reached` says which
node answers where a client leads.

**`Cluster`** has what the pages share: nodes that are up or not, disks that
are active or not, the client's map (`known`, fixed at login) and Bob's list
(`members`), which need not agree; `reaches`, the node that answers at the address
of each client, if any; and `Process`, which is `process_replica` with
`is_node_online`. `sawUp`, `sawDown`, `sawActive`, `sawInactive` are history: what
was so at some moment of the request. `MCSites` works the values of `reaches` out
with `NodeClients`: every client at home, both nodes on one host, nodes that have
moved since login.

**`VDisksAnswer`** is the abstract promise of `get_vdisks`: it is asked once, and
answers about the whole layout with verdicts that the history backs, or refuses.
**`VDisks`** is `get_vdisks` itself, with a task of two calls for each client, the
two requests of the handler, the loop that collects listings under the name that
a node gives itself (`get_status`), and one action per replica, since each replica
is an await. It implements `VDisksAnswer` (`KeepsPromise`): the verdicts of all
replicas are given at once when the answer is sent, and everything before is a
stutter or a change of the cluster.

**`NodesPage`** is `get_nodes`, on top of `VDisksAnswer` and not of its
implementation: its own tasks of three calls start first, `VDisksAnswered` is the
return of `get_vdisks`, `ListNodes` the later list with the virtual disks that the
earlier answer has, `Collect` writes a complete report under the name in its
status. `fit` are the nodes whose metrics show no problem; what a problem is, is
in `Health`.

**`NodePage`** is `get_detailed_node_info` and, as two further values of `route`,
the raw metrics and the raw configuration: `get_client_by_node`, the calls in
sequence, the merged map of disks, the partition tasks (one action, nothing
depends on their order), and the replicas with the list they share. `Left` are the
virtual disks of the page that have no row yet, `Current` is the first of them.

**`QueryForm`** is `to_string` and `from_str` of the thirteen types of
`connector/dto.rs`. A type is the sequence of its fields, a text the sequence of
the pieces between its commas; `Pairs` is the loop of `parse`. The backend speaks
JSON with Bob and calls neither function; they are part of the library. `IsObject`
says what an object of a type is: the required fields are there, numbers and
booleans are as the code prints them.
**`Rules`** puts the parts that compute without waiting (`NodeReports`,
`Health`'s disk table, `NodeClients`, `QueryForm`) before TLC, one input at a time.

**`ApiCall`** is one call: what Bob has put on the wire, what the client has read
of it, and the clock. `Variant` is the client's table of status codes, `DataType`
its table of types, and `DecodesAs` says which bodies serde reads as which type.
The derived types skip unknown fields, and in `Dir`, `Partition`,
`VDiskPartitions`, `VersionInfo`, `NodeConfiguration` and `StatusExt` every field
is an `Option` (`Open`): these are read from any JSON object, so that the
`StatusExt` of a refusal, sent with 200, is a `Dir` to the client, and any object
sent with 403 is a refusal. The other types have a required field (`Closed`).
`StatusFor` is what `methods.rs` makes of a result.

The modules that compose: `Auth` refines `Gate` (`INSTANCE Gate WITH serving <-
Serving`); `VDisks` refines `VDisksAnswer`, which `NodesPage` extends; `Gather` and
`NodeReports` extend `Health`; the pages extend `Cluster`, whose `reaches` is worked
out by `NodeClients`. `Gather` and the pages take a call as one step that gives
data or fails; `ApiCall` says when that is right (`CallEnds`).

## 3. The runs

| run | instance | checks |
|---|---|---|
| `auth_two_users` | 1 cluster, 2 users, 2 sessions, 2 requests | `Vouched`, `LoggedOutStaysOut`, `Isolation`, `TornOnlyByDisconnect`, `ImplementsGate`, types |
| `rules` | 288 reports on both sides of each threshold; tables of up to 3 disks; 2 listed nodes with every form of address; objects and texts of all types | `CountAgreesWithList`, `FreeSpaceIsATenth`, `WorseIsWorse`, `DiskRows`, `ClientsReachNodes`, `TextFormsAgree` |
| `gather` | 2 nodes, 3 conditions, all four routes | `Tally`, `AllNodesCounted`, `SpaceBalance`, `AnswerIsOfThisRequest`, `HandlerAnswers`, types |
| `api_call` | all endpoints, five status codes, the bodies of all endpoints and five others, timeout of 2 ticks | `ResultIsBacked`, `ForbiddenMeansRefused`, `CallEnds`, `SilenceEnds`, types |
| `vdisks` | 2 nodes, 3 virtual disks, 2 changes, 3 ways for the clients to lead | `GoodIsSeen`, `OfflineIsSeen`, `StatusIsSeen`, `KeepsPromise`, `HandlerAnswers`, types |
| `nodes_page` | 2 nodes, 1 virtual disk, 1 change, clients at home or on one host | `ReportIsItsOwn`, `OfflineIsSeen`, `ContradictionIsChange`, `HandlerAnswers`, types |
| `node_page` | 2 nodes with names of their own for their disks, 2 virtual disks, 2 changes, clients at home or moved, all three routes | `GoodIsSeen`, `OfflineIsSeen`, `StatusCoversReplicas`, `HandlerAnswers`, types |

Five runs end in a violation, each of one property that a comment or the README
of the repository states:

| run | property | what happens |
|---|---|---|
| `rules_tenth` | `FreeSpaceIsBelowATenth` | a node with exactly a tenth of its space free is bad already (`dto.rs:127`, `api.rs:210`); the project's `README.md:23` says less than 10 % |
| `gather_disks` | `DisksAllCounted` | `/disks/count` skips inactive disks (`api.rs:83`); its doc promises the count of disks per status |
| `api_call_wait` | `WaitIsLimited` | a body is awaited without limit (`client.rs:347`); the configuration speaks of the maximal time to a response |
| `node_page_bad` | `BadIsItsOwn` | a virtual disk is bad for the replicas of one before it on the page (`api.rs:539`) |
| `node_page_same_name` | `GoodReplicaHasItsDisk` | two nodes that use one disk name: the last to answer decides for both (`api.rs:616`) |

What the properties say:

- `Vouched` joins four facts: the store has only accepted clients under their own
  hostname, login past the probe works with an accepted client, a session records
  only users it logged in as, a handler runs with an accepted client of a binding
  its session presented. Binding and client may come from different logins: a
  session bound by one user may be served with the client of another login whose
  password hash is the same. (The theorem has this case; the two users of the run
  have different passwords.)
- `Isolation` lists every step that may end a session's authorisation. One is a
  login by another session: with another password it displaces the client.
- `TornOnlyByDisconnect`: a session bound to a user that nobody can load arises
  only when the browser leaves between `auth.login` and the insertion.
- `LoggedOutStaysOut`: a request that still runs when a logout is answered ends in
  the session layer afterwards. The destroy flag, read when the handler is done,
  keeps the session out. It does not where the request had read the flag before
  the logout and stores the session after it: without `late` in the property TLC
  finds such a run, in which the cookie is known to the session store again,
  with its user, until a later request of it ends and removes it (the flag itself
  stays up). `late` names this window, and the property says there is no other.
- `FreeSpaceIsATenth` says where the bound of the node's rule really lies:
  a tenth itself belongs to it. `rules_tenth` sets that against the project's README.
- `ResultIsBacked`: a typed result needs the status code and the whole body, and a
  type with required fields needs its own JSON (or an empty list, where it is a
  list). `nodes`, `vdisks`, `disks`, `vdisk`, `metrics`, `space`, `status` and
  `records` are of this kind. The open types promise no more than an object; of
  them the services use the partitions of a virtual disk, which count as none if
  the object has no such field, and the raw configuration.
- `AnswerIsOfThisRequest`: a summary is a sum of one share for each node, each
  made of conditions the node had during the request. It need not be the picture
  of any one moment.
- `GoodIsSeen` and `OfflineIsSeen` are the same idea for pages. On the page of one
  node they hold only where no two nodes share a disk name.
- `StatusIsSeen` lifts this to the status of a virtual disk: all of its replicas
  were seen good, all offline, or some of each.
- `ReportIsItsOwn`: the nodes page shows a node as good or bad only on metrics that
  this node had during the request, also where another node answers at the address
  that its client was given.
- `ContradictionIsChange`: the nodes page shows an offline node beside a good
  replica on it only where that node was both up and down meanwhile.
- `ClientsReachNodes`: a client that is made from an address with a port reaches
  its own node exactly if this node serves its API on the listed host, under the
  port of the login. Two nodes on one host cannot both be reached.
- `DiskRows`: one row for each name; a disk with a space report is bad exactly if
  less than a tenth of the *node's* space is left beside it, as long as no more is
  occupied than there is. Beyond that the subtraction wraps and the disk counts as
  good.
- `TextFormsAgree`: an object reads back from its text exactly
  if it has a field that is printed, none that is not, no list and no comma in a
  value; whatever reads at all has a normal form.
- `StatusCoversReplicas` says what the shared list does to a status: it covers
  the virtual disk and all before it.
- `CallEnds`: if Bob ends the responses it begins, every call ends. `SilenceEnds`:
  the wait for the head ends whatever Bob does.

### Bounds, and why they are enough

- Two sessions and two requests have every pair of login, logout and API request
  of one session, or of two, in every order of awaits, with two users that displace
  each other in the store. More clusters, sessions and requests are the matter of
  the proofs, which cover every property of this run for any number of them.
  Sessions and requests are symmetric; the properties are safety properties.
- `MaxWord = 127` leaves room for the thresholds (90 and 100) and lets sums of two
  nodes wrap. `MaxWord` must be at least 100, which is the assumption of `Health`.
- The three conditions of `MCGather` have each case that `Share` tells apart: all
  sides of the thresholds, missing keys, a disk listed twice, disks that are full,
  without a report or inactive, disks denied, more free than total space, a node
  that is down.
- Inputs of `rules` have every case the definitions tell apart: repeated, unreported
  and overfull disks, a total of 0; addresses with and without scheme, host and
  port, repeated names; each type with every subset of its fields, values with
  commas, empty values, numbers written in two ways, repeated keys, missing and
  unknown keys, texts of an odd number of pieces. `Pieces` are all strings. `Silent` is the one report in
  which inputs are taken, since none depends on it.
- `MaxChanges` bounds the nodes and disks that come and go during one request of a
  page. Two changes suffice to make a node or disk go and come back between two
  observations of it; one, on the nodes page, to tell moments apart. The proofs about
  `VDisks` hold for any bound.
- The pages handle one request: nothing of a handler's state outlives it, so the
  next request starts as this one did, from any world (`ClusterInit` is any
  cluster). These runs may stop, hence `CHECK_DEADLOCK FALSE`.
- `Change` of `Cluster` moves neither members nor addresses while a request runs:
  they are any at its start and then stay, so that a node that moves between two
  calls of one task (`get_status` and `get_metrics`) is outside the pages' models.
- `Horizon` stops the clock of `ApiCall` one tick after the timeout.

### Fairness

`Gather`, `VDisks`, `NodesPage` and `NodePage` have one weak fairness condition each, on the
disjunction of all steps of the handler and its tasks: the tokio runtime runs
some ready task, and a node's call ends. It does not say which task runs, and
asks nothing of nodes that change or browsers that leave. `NodesPage` counts the
return of `get_vdisks` among these steps, which `HandlerAnswers` of `VDisks` gives. That the call ends is
what `ApiCall` is about: `CallEnds` needs that Bob ends a response it began
(`BobEnds`), the client alone does not ensure it (`WaitIsLimited`). `ApiCall`
assumes weak fairness of the client's own steps and of time, none of Bob. `Auth`
has only safety properties and assumes no fairness.

## 4. The proofs

All theorems are about `Spec` (`NodesSpec` in `NodesPage`, whose `Spec` is the one
of `VDisksAnswer`, and `RulesSpec` for the inputs of `Rules`), without its fairness, for all values of the constants that satisfy the
named assumptions.

| module | theorem | result |
|---|---|---|
| `AuthProofs` | `TypeCorrect`, `AuthVouched`, `LogoutIsFinal` | the invariants `TypeOK`, `Vouched`, `LoggedOutStaysOut` |
| | `AuthImplementsGate` | `Auth` refines `Gate` |
| | `SessionsIsolated`, `LoginAtomicButDisconnect` | the action properties `Isolation`, `TornOnlyByDisconnect` |
| `RulesProofs` | `JudgesAgree`, `FreeSpaceRule`, `JudgementMonotone` | the two judgements agree, the free-space problem is there from a tenth down, and a worse report keeps its problems, for every word size |
| | `RowsOfDisks`, `NodesAreReached`, `TextsAgree` | `DiskRows`, `ClientsReachNodes`, `TextFormsAgree`, for every table, deployment, object and text |
| | `ReportsAreNodeReports` | the specification of the run implements that of `NodeReports`, whose theorems so hold in it |
| `GatherProofs` | `GatherTyped`, `NodesTallied`, `ClusterCounted`, `SpaceBalanced` | types and the three accounting invariants, for every cluster that fits in a word |
| | `AnswersAreOfTheRequest` | every summary is the sum of one share for each node, made of conditions the node had during the request |
| `VDisksProofs` | `PageTyped`, `GoodWasSeen`, `OfflineWasSeen`, `StatusWasSeen` | the page's verdicts are backed, for every cluster, layout, addressing and number of changes |
| | `PromiseKept` | `VDisks` implements `VDisksAnswer` |
| `NodesPageProofs` | `NodesPageTyped`, `ReportsAreOwn`, `OfflineWasSeen`, `ContradictionWasChange` | all the invariants of `NodesPage`, for every cluster, layout, addressing and number of changes |
| `NodePageProofs` | `TypesHold`, `StatusIsOfAllBefore` | `TypeOK`, `StatusCoversReplicas`, for every cluster, layout and addressing |
| | `GoodWasSeen`, `OfflineWasSeen` | `GoodIsSeen`, `OfflineIsSeen`, where no other node has a disk of a replica's name (`NamesAreOwn`) |
| `ApiCallProofs` | `CallTyped`, `ResultsAreBacked`, `ForbiddenIsARefusal` | types; a result needs a whole response, its status code and the fields its type requires; a refusal needs a 403, for every timeout and set of codes |

`SetLemmas` has the two lemmas that stand in for induction (below).

Assumptions: `UserAssumption`, `AuthAssumption` (attempts are clients, the
markers for "none" are none of the values), `WordAssumption` (`MaxWord >= 100`),
`ReportsAssumption` (reports are snapshots), `GatherAssumption` (a finite cluster
and finite listings that fit in a word, reports that are well-typed),
`LayoutAssumption`, `TimeAssumption`; for the inputs of `Rules`,
`TablesAssumption` (a list of disks, space in words), `HostsAssumption` and
`DeploymentsAssumption` (two nodes do not serve their API at one place),
`NumbersAssumption` (a printed number reads as itself), `KeysAssumption` (no key
has a comma), `FormsAssumption` and `TextsAssumption` (objects of the types, texts
of at least one piece). TLC evaluates each of them in a run.

`NamesAreOwn` is no assumption but a hypothesis of two theorems, since the code
does not ensure it: Bob lets two nodes use one disk name, and then the merged map
of `get_detailed_node_info` tells of whichever answered last. The run
`node_page` has a cluster that satisfies it, `node_page_same_name` one that does
not and finds a good replica whose disk was inactive all the time.

The arguments:

- *Sessions.* `Vouched` is inductive together with `TypeOK`: its four parts hand a
  client on from `Probe` to `Insert`, and a binding from `Bind` to `LoadUser`.
  `LoggedOutStaysOut` is not inductive. `LogoutInv` adds that a session whose
  logout was answered has its flag up, so that `Finish` sends no further request of
  it to `Save`; that a destroyed session which a request is still about to store is
  in `late`; and that who removes a session has seen its flag, which `Isolation`
  needs too. The refinement maps `Probe` to `Grant`, `Bind` to
  `Present`, `LoadUser` to `Serve`, the ways out of a handler to `Leave`, a fresh
  session to `Forget`, and the rest to stuttering; `Serve`'s guards are `Vouched`.
- *Summaries.* `Tally` needs that a node's share of `/nodes/count` is one in one
  field and that the number of consumed nodes stays in the word. `SpaceBalance`
  needs that `Plus` and `Minus` cancel modulo the word, also where they wrap.
  `AnswerIsOfThisRequest` is about a sum over all nodes. The invariant is that each
  total is the sum of the shares of the tasks taken in, modulo the word (`SumOK`),
  and that each result in a task was true of some condition of the node since the
  request began (`AnswersTrue`). A sum of naturals over a finite set is the
  number of elements of a disjoint union (`SumIsHeap`), so that the library's facts
  about cardinality give what one more node adds (`SumOfOneMore`).
- *Virtual disks.* `IInv` says why the history backs the verdicts: while a request
  runs, the history contains the world as it is (`Watching`); every known node
  has a running task, a listing that was seen, or a failed call that was seen
  (`TasksOK`), which at the end of the loop leaves a listing or a failure; and the
  verdicts so far are backed (`VerdictsOK`), which what comes later cannot undo,
  since the history only grows (`HistoryGrows`). `StatusWasSeen` adds that a status
  counts the problems of its own replicas (`StatusMatchesReplicas`). `PromiseKept`
  maps `Start` to the question, `Reply` to the answer, whose verdicts `IInv` backs,
  the failures of the two requests to a refusal, and the rest to stuttering.
- *Nodes page.* None of its three safety invariants is inductive. `IInv` says of a
  report that it is true of the node at the client's address (`ReportsOK`), of a
  task that it is there until its report is taken in (`TasksOK`), and of the list
  that it is made from the answer, which stays (`DisksAnswered`). A reply waits for
  all tasks, so a node that a known client reaches and that is still offline has
  lost its report, for which it was down: `OfflineIsSeen`. `ContradictionIsChange`
  follows from that and the promise of `VDisksAnswer`: a good replica's node was up
  and within reach of a client.
- *Page of one node.* `IInv` has what was seen of the nodes at the clients'
  addresses (`ListingsOK`), that the merged map tells nothing that was not seen of
  a disk of that name (`MapOK`), and that after the loop each known node was down or
  has all its disks in the map (`TasksOK`). With `NamesAreOwn`, what the map says of
  a replica's disk name it says of that disk; so verdicts are backed
  (`VerdictsOK`), and stay so while the history grows. `StatusCoversReplicas`
  follows from the order of rows: `FinishVDisk` always finishes the least virtual
  disk left, so all before it have their rows, and their replicas are in the list
  that its status is computed from.
- *Disk table.* Of the entries with one name there is a least, which has the row
  (`OneRowPerName`). As long as no more is occupied than there is, `Minus` is
  subtraction (`DiskSpaceRule`), and the rest is arithmetic.
- *Clients.* A node listed once has the client made of its own address (`OwnClient`),
  whose path has the port of the login (`OnePath`); as no two places are alike,
  it leads to the node itself or to none or another one.
- *Texts.* What is printed of the first `i` fields is a sequence of pairs, those of
  the keys among them that the object has (`Carries`), by induction on `i`
  (`JoinCarries`). A text that carries a whole object reads as it (`ReadBack`),
  since all pairs with a key have one value. What has been read has one piece in
  each value, which reads as this value again (`ReadIsPlain`, `ReadAgain`).
- *Calls.* `BackedInv` ties a result to the code and body it was made of: once the
  head has come its code stays, and so does the body once it has ended
  (`BackedNext`); what `Decode` takes for a closed type is that type's JSON or an
  empty list (`DecodeBacked`).

Induction. The provers cannot use the library's induction theorems, which take an
operator as a parameter. Where a proof needs induction over the nodes or over the
fields of a type, it takes a smallest counterexample instead: `SmallestSet` and
`LeastOf`, from the well-foundedness of strict inclusion among the subsets of a
finite set. That the recursive functions in the community modules' `SumFunction`
and `FlattenSeq` exist, and so have the values that their definitions say, is part
of the proofs (`SumIsHeap`, `GrowthExists`).

Checked only by TLC: the liveness properties `HandlerAnswers`, `CallEnds` and
`SilenceEnds`, which need fairness and `ENABLED`; both are out of the prover's reach.
All other properties of the passing runs have a theorem.

## 5. What is left out, and what the code and its docs disagree on

Abstractions. Texts, logs and JSON layout are left out. A hostname, a login, a name
of a node or disk is a model value. `try_new` in login is one call that succeeds or
not, so `Auth` does not see the map of node clients; `Cluster` takes any set of
known nodes with any addressing. The case of letters and paths in addresses are left
out. Rates and sizes that a page copies from a report are not part of it, nor is the
iops of a disk. hyper's connections, TLS and pools are outside. The models follow a
release build: `u64` wraps, and a panic ends the process (`panic = "abort"`,
`Cargo.toml:98`), which is `Restart` in `Auth` and the end of the request in all
other modules. Only in a debug build does overflow panic, and a task that panics
count as one whose call failed.

Not modelled. The command line, the YAML file, the logger and CORS (`cli`,
`backend/src/config.rs`) act once, before the first request; the one number that
reaches the models is the time limit, which `main.rs:120` cuts to whole
milliseconds. OpenAPI and the root page are constant; build scripts and the
generated TypeScript are not part of the running system.

Disagreements without a run of their own: login answers 401 for every failure, where
its doc lists a code for each, `NOT_FOUND` for a host that cannot be reached
(`auth.rs:57`); the project's README lists a disk that is unavailable among the
problems of a node, and `NodeProblem` has no such kind (`dto.rs:97`); `probe` turns
Bob's 403 into 401, where its doc says it returns what Bob sent
(`connector/mod.rs:130`); a load of exactly 90 % (`dto.rs:124`) is a problem
already, where the project's README says above 90 %; `process_replica` gives
`DiskUnavailable` as the reason when only the node is unavailable (`api.rs:428`).

## 6. Plan

Done: sessions with their abstract specification, the judgement, the summaries, the
client, the virtual disks page with its abstract promise, the nodes page, the page
of one node with the raw routes, the clients of the nodes, the text form of the
data types; proofs of all safety and action properties that the runs check.

Next, in this order:

1. `get_nodes` as a whole: that the nodes page over `VDisks` itself implements
   `NodesPage`, which is built on the promise of `get_vdisks`.
2. An abstract promise for the page of one node, as `VDisksAnswer` is one for the
   virtual disks, so that both pages can be compared.
3. Composition of `Auth` with a page: a handler keeps the client it was given
   while its session logs out or another login replaces the store's entry.
