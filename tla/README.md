# Sheeternetes, specified

TLA+ specifications of Sheeternetes, a container orchestrator whose state is a
spreadsheet, with TLC runs that check them on small instances and TLAPS proofs
that hold for all. Line numbers refer to the files under `src/`.

Contents: [the system](#the-system), [modules](#modules-and-the-code-they-model),
[runs](#runs), [fairness](#fairness), [where code and documents disagree](#where-code-and-documents-disagree),
[proofs](#proofs), [limits](#what-is-not-modelled), [plan](#plan).

## The system

| component | state it keeps | operations | talks to |
|---|---|---|---|
| scheduler (`apiserver.py`, `schedule`) | none: a function of the tabs | keep the running pods, place the others, assign host ports | called by every reconcile |
| control plane (`apiserver.py`) | the workbook: Deployments, Nodes, Pods, Gateways and Routes tabs | heartbeat, apply, scale, delete, cordon, uncordon, drain, migrate, label, taint | HTTP, one request at a time under `WB_LOCK` |
| storage (`storage.py`) | the workbook file(s) | load, save (rename, one PUT, or file by file) | control plane; the user's own spreadsheet program |
| kubelet (`kubelet.sh`) | none of its own; the docker engine of its node | snapshot, heartbeat, converge, collect garbage, hot-load gateway config | polls the control plane, drives docker |
| sheetgate (`sheetgate.py`, hot load in `kubelet.sh`) | Gateways, Routes tabs; file and recorded hash in each gateway pod | plan routes, report status, render, load, test, roll back | control plane and kubelet |
| bridge (`bridge.py`) | none; local variables of a running command | migrate, sync (once or as a daemon), stretch, status | HTTP to two control planes |
| sheetwire (`sheetwire.py`) | per relay: cursor, outbox, `conns`, one pump thread per connection | accept or dial, pump, poll, deliver, flush | two relays through one append-only Wire tab |
| Google Sheets server (`apiserver_sheets.py`) | the same tabs, each read and rewritten by separate API calls, no lock | heartbeat, apply, scale, delete | kubelets, operators, Sheets API |
| sheetmesh (`sheetmesh.py`) | Members, Assignments, Clusters tabs of a Mesh sheet; the clusters a provisioner started | publish, assign, apply, provision | Sheets API, control planes |
| the rest | none that matters here | request signing, `sicf`, `wasmlet`, `skctl`, tests, lab | |

### What is hard, and what makes it correct

- **Scheduler.** Two loops share running totals of capacity and bound ports.
  Correct when no node is oversubscribed, no two pods of a node bind one port,
  running pods have precedence, and a second pass changes nothing (otherwise
  every heartbeat recreates containers).
- **Control plane and kubelets.** A kubelet acts on an answer computed from a
  snapshot taken earlier, while other kubelets, operators and the clock change
  the workbook. Heartbeats get lost, are handled late, or after the kubelet has
  died. Correct when every answer can be carried out, phases do not flap, closed
  nodes gain nothing, and the cluster settles on what the spreadsheet says.
- **Storage.** A load or a save may fail, a load may come back empty, a save may
  be cut short by a crash, or be stored although nobody hears of it; users have
  the same files open. Correct when the book changes by whole updates, each on top
  of what its request read, and nothing is answered that is not stored.
- **Sheetgate.** Rows typed by hand may be invalid, refer to nothing, or claim
  what another row has; nginx may refuse a file, not have started, or exit at any
  moment of the hot load. Correct when requests go where the rows say, the status
  column is true, and a recorded hash is that of what is served.
- **Bridge.** Each get and post is a separate request, each command a process of
  its own, without a lock: commands overlap, die between any two requests, and act
  on tabs that containers, lagging kubelets and failed heartbeats have left behind.
  Correct when a migrate takes no replica down, no deployment ends up on neither
  side, and sync makes both sides agree and comes to rest.
- **Sheetwire.** Main and pump threads share `conns` without a lock; streams are
  cut into frames, batches and ticks. Correct when streams arrive whole, in
  order and once, and an end of stream is passed on.
- **Google Sheets server.** A request is several calls, and rewriting a tab is a
  clear and an update; requests overlap freely and a call may fail halfway.
  Correct when no update is lost and no running pod is stopped for it.
- **Sheetmesh.** Planners split a deployment by capacities published some time
  ago, agents carry out what they read some time ago and end for good when a call
  fails, and a provisioner that is started again has forgotten its clusters. Correct when no cluster is promised more
  than it holds, and every cluster ends up with its share.

PROJECT.json lists the individual hazards, each at its line.

## Modules and the code they model

`PROJECT.json` maps every definition to its lines; this is the outline.

| module | models | state | steps |
|---|---|---|---|
| `Placement` | the decisions of `schedule`: affinity, taints, capacity, `bind_ports`, `take`, the choice of a node | none | operators only |
| `Scheduler` | `schedule` as a function: slots from the tabs, the two loops as walks over them | none | operators only |
| `SchedulePass` | the same pass as a state machine, one iteration a step | the arguments, the loop, the allocation | `Keep`, `StartPlacing`, `Place`, `Finish` |
| `Allocator` | what a pass is for: any legal placement, one pod after another | a placement | `Place` |
| `Cluster` | control plane, kubelets and engines of one cluster; EXTENDS `Scheduler` | the three tabs, per node engine and loop, late heartbeats | `Report`, `Heartbeat`, `Start`, `Stop`, `CollectGarbage`; nine operator commands; time and trouble |
| `Workbook` | what the apiserver promises of its spreadsheet | the book, what the request being served has read, the copy a user has open, what was stored and answered | `Read`, `Store`, or `Begin`, `Cut`, `Write`, `Finish` file by file; `Answer`, `Drop`, `Lose`, `Open`, `HandSave` |
| `Storage` | the lock, the request threads and the three kinds of backend | the file(s), temporary files, the load or save in progress, users' copies | each system call that matters; failures, empty answers, crash, restart, saves by hand |
| `SheetGate` | Gateways and Routes, their planning and status, and the hot load in each gateway pod | the two tabs, services, per pod nginx and its files, the kubelet's loop | validated and typed edits, `Heartbeat`, `Run`, `Install`, `Test`, `Reload`, `Record`, `Collect`, nginx |
| `Bridge` | migrate, sync, status `--push` and stretch between two clusters | both Deployments and Pods tabs, containers, late heartbeats, any number of migrates, pushes and stretches in progress, one sync daemon | every request of each command, kubelets and their failing heartbeats, container deaths, crashes |
| `Wire` | both relays and the log | log, main threads, pumps, sockets, each relay's fetched rows and outbox | each access to `conns` is a step |
| `SheetsServer` | the lock-free server | tabs, kubelets, one handler per client | each Sheets API call is a step |
| `Mesh` | agents, planners, provisioner and the Mesh sheet | Members and Assignments tabs, per cluster its Deployments tab and used cpu, the calls in progress | each Sheets call and each request to an apiserver; failures, cordons, ends and restarts |
| `ClusterProofs`, `WireProofs`, `StorageProofs`, `SheetGateProofs`, `BridgeProofs`, `SheetsProofs`, `MeshProofs`, `Recursion` | theorems | | |
| `MC*` | instances for TLC | | |

`Placement` is shared: `SchedulePass` walks its two steps one slot at a time,
where a pass is compared with `Allocator`, and `Scheduler` walks the same two steps in one
recursive function, so that `Cluster` can run a whole pass inside one reconcile.
`ClusterProofs` proves about both.

Two components are shown to implement an abstract specification.
`SchedulePass!PlacesLegally` maps a pass to `Allocator`, which knows no totals,
loops or preferences: it counts the pods on a node, and the ports they claim, anew for every
placement. `Storage!KeepsPromise` maps the server and its backends to `Workbook`, which has
no lock, threads, temporary files or requests to a server: only a book that changes in
one step or, for a csvdir, tab by tab, and what the request being served has read of it.

Abstractions, and why they lose nothing the properties look at:

- *Atomic requests in `Cluster`*: `do_POST` takes `WB_LOCK` before it loads the
  workbook and releases it after the save; `Storage` is where this frame is taken
  apart. In `SheetsServer` nothing is atomic but a call to the Sheets API.
- *A pass as a sequence of choices*: host ports are chosen with sets (`HostsFor`,
  `Bindings`); each such set has at most one element, so `CHOOSE` is the
  program's first hit. `Best` has one element too, because rows are distinct.
- *A spec hash* is the pair of image and ports, the part of a deployment the
  model lets change; a container id is the node that created it; the age of a
  heartbeat is whether it is under `NODE_TTL`.
- *A kubelet's order list* is carried out one order a step. Running orders come
  before Terminating ones, as in the response.
- *The log of `Wire`* is a sequence; a poll returns the frames past the cursor up to
  `Limit`, for `A{cursor+1}:E100000` (`sheetwire.py:85`). What the Sheets API makes of a
  range that begins below its end is external, and modelled as no rows.
- *A tab of `Storage`* is the set of updates it shows, an update a mark. An apply
  of several rows loads and saves once per row, under one lock: `After` chains them.
- *A route cell of `SheetGate`* stands for the hosts it matches (`Pattern`), a path
  for its segments, `nginx.conf` for the set of its locations and how nginx
  chooses among them; a hash for the configuration itself. `Refused` are the hosts
  that pass validation and that nginx does not load.
- *`Bridge` sees a cluster* as its tabs and containers, with the heartbeat split
  from the carrying out of its orders; placement does not matter to migrate or
  sync, which count pods. A heartbeat reports one pod, may fail, upon which the kubelet
  stops what it runs (`kubelet.sh:76`, `194-202`), and may then still arrive. A bridge
  process that gives up on a request counts as in progress until the request has
  taken effect, and as dead after. How many replicas stretch keeps at home is left open:
  whatever the free cpu it read.
- *A chunk of `Wire`* is what one `recv` returns; sharding into base64 cells is
  below it. A closed socket sends its FIN when no thread is blocked in `recv` on
  it, which is why `SeesEnd` looks at the pump too.
- *A deployment of `SheetsServer`* has one replica and every node has room; what
  is in question is which rows are there when a request reads them.
- *Calls of `Mesh`*: an agent reads the nodes of its cluster, appends its row, reads the
  assignments and applies them in four steps; a failed call ends it (`sheetmesh.py:97-114`
  catches nothing), and nothing in the repository starts it again, though somebody
  may. The provisioner goes on with the next cluster (`sheetmesh.py:165-177`).
- *A cluster of `Mesh`* is one node with the cpu its scheduler has given out. Only
  the newest row of a member counts, and the tab matters by its length alone.

Every operator commented "A plausible slip" is a wrong version of the definition
next to it. No specification uses it; `PROJECT.json` "mutants" substitutes each
one to show that a property does notice.

## Runs

| run | bounds | question |
|---|---|---|
| `schedule_pass` | two deployments, three replicas, two nodes (ready, tainted, stale, cordoned, drained), three ports of which two are in the range, every Pods tab these can have left | does a pass keep its promises on capacity, ports, affinity, precedence and stability, and implement `Allocator`? |
| `cluster` | two nodes, two deployments, any two out of nine commands and six kinds of fault | can every answer be carried out, do phases flap, does a closed node gain a pod, does the cluster settle and fail over? |
| `storage` | an apply of two rows, a heartbeat and a read; three backends; two tabs; two of a failing load or save, an empty answer, a crash, a save by hand | is `Workbook` implemented, does every request end? |
| `gate` | two gateways, three route names, cells that are exact, wildcard, blank or refused, an invalid row; two edits or exits | do requests go where the rows say, is the status true, does the hot load tell the truth and get there? |
| `bridge_migrate` | a deployment of two replicas and one of none, two migrates of either, either way, overlapping or not, waiting or not, with a rollback window that may pass at once; one container death, failed heartbeat or crash | does a migrate take a replica down, is a deployment left homeless, do the clusters settle? |
| `bridge_sync` | two names, a daemon, one apply, rename, push or stretch, one migrate, one crash | do both sides agree, and does sync come to rest? |
| `wire` | one connection, a log read down to its fifth frame, any three of: a chunk written, a relay dying of a failed request, a relay started again | streams in order and whole; all arrives, an end of stream gets through? |
| `sheets` | two names, two nodes, two operators, two commands, one failing call | what survives without overlap, and does the Pods tab follow after it? |
| `mesh` | two members, one of them provisioned, two deployments, a Members window of four rows, two stretches that may overlap, one trouble | is a cluster ever promised more than it holds, does each reach its share? |
| `assigned_port_stays`, `garbage`, `wire_curl` | | violations, see below |

Why the bounds are enough for these questions:

- Two nodes and two deployments make the pairs that matter: a pod and the node
  it left, a running pod and a newcomer, an automatic port and a fixed one.
  Capacities are such that b fits beside a on one node and not on the other,
  and the two-port range can run out.
- Two commands or faults let one act on the unfinished effect of the other (cordon
  during a migrate, a lost heartbeat during a drain). A third would repeat the pattern.
- Two migrates are the least number with which a deployment can come back to
  a cluster whose Pods tab still shows it from before, and with which opposite
  ones can overlap. Two replicas let one be Running and the other not; a migrate of none
  does not wait. One fault of any kind; two were checked with one replica.
  Without a rollback window a migrate ends when it has deleted, as one does whose
  window passes at once: `Watching = {TRUE}` covers both.
- Two chunks per direction tell reordering from loss, and let data and close
  share a batch or not. The two connections needed for `conns` to matter across
  connections are in `wire_curl`.
- Three requests let one wait for the lock while another holds it and a third has
  been answered; two tabs of one heartbeat make a torn csvdir visible, and a save
  by hand between the reads or writes of its two files.
- A connection with two chunks writes five frames (open, two data, two close) and fits
  the range of `wire`; one with three chunks may outgrow it.
- The gate's rows hold each relation once: same host and path on one gateway and
  on all, an exact name under a wildcard, a longer path under a blank host; and its three hosts
  are one that all these cells match, one the exact name does not, one only the blank one does.
- Two stretches are the least for which one can move what another placed. Four
  rows of Members let each member publish twice, and then the window is full.
- Between them the passing runs fire every action, and every property is broken by at
  least one slip within the bounds of its run.

Deadlock is checked except where the system really stops: a scheduling pass
terminates, relays that have died and are not restarted do nothing more, and a
server all of whose requests are over waits.

What the less obvious properties say:

- `RescheduleIsStable`: feed a pass its own result, and it changes neither a node
  nor a port. It excludes pods that publish one container port twice:
  `prev_ports` is keyed by container port, and there the property is false.
- `RunningPodsWin`: a pod that could have stayed and does not was pushed out by
  pods that stayed. Stated against the load of the kept pods only, recomputed
  from the result.
- `OrdersStartable`: no answer to a heartbeat asks docker for two containers on
  one port, nor to run and stop one pod.
- `NoFlapping`: a running pod that stays where it is turns Pending only in a step
  that handles a report of its own node.
- `CordonedGainsNothing`: a pod's node changes only to one that is live and open
  in that very step, whichever of the commands or heartbeats moves it. `Migrate`
  writes just one cell, so the following passes are in question.
- `KeepsPromise`: as a refinement, it compares the file after every system call
  with the only books there may be: the old one, what the request read with its update
  on top, a user's copy; for csvdir alone the pieces a cut or a save in between leaves,
  and for a blob alone an empty one, once the server has failed to deliver the book.
- `Routed`: for every host and path, what nginx answers out of the rendered file is
  what the rows promise, read without the planner: `Standing` is the documented
  rule, earliest row wins. One kind of request is excepted, see below.
- `StatusTells`: Accepted exactly when every gateway of the route serves it and its service
  exists; the winner named in a conflict does claim the same host and path.
- `RecordedIsServed`: outside the four commands of the hot load, the hash in a pod is
  that of what its nginx serves and its file loads, however often the container
  was replaced in the middle.
- `NoDowntime`: as long as no two migrates of one deployment have overlapped, each
  replica of it has a container on some side, or a side that wants it has lost it
  and not started it again yet. The history `gaps` records what may lose one: a
  container death; a failed heartbeat (and one that arrives late and vouches for what is gone); a
  migrate that was told not to wait; a rollback, which leaves the target before the
  source is back (`bridge.py:130-131`). A migrate that waits never does,
  although it reads the tab of the target and not its containers.
- `NeverHomeless`: in the same histories, every deployment nobody renames is in some
  cluster's spreadsheet, wherever a migrate dies, times out or rolls back.
- `NoTruncation`: an application that sees the end of the stream, without
  having ended it, has received everything.
- `PodsFollow`: the Pods tab equals the Deployments tab again and again, after
  any overlap and failure. Combined with `AppliedStays` and `RunningPodsStay`,
  which only speak of calm histories, it separates what a race can lose for
  good from what heals.
- `NoOvercommit`: speaks of stretches that began when nothing was on its way
  (`Settled`), which the code does not wait for. Everything after the beginning may
  happen in any order: late agents, stale rows, a cordon, a forgetful provisioner,
  a planner killed between clear and update.
- `SplitReached`: whatever the Assignments tab says in the end, the clusters run whose
  agent or provisioner has not ended, or was started again; also after overlapping
  stretches, and with a window that is full.
- `RequestsArrive`, `EndsRelayed`: while the first relays live and the log is within the
  range they read. A frame below row 100000 is never read, and nothing trims the log.

## Fairness

| assumed | because |
|---|---|
| a live kubelet's `Report`, `Start`, `Stop`, `CollectGarbage` (weak) | `while true` with `sleep`, `kubelet.sh` |
| a heartbeat is not in flight for ever (`HeartbeatEnds`) | `curl -m 30`; it ends answered or failed |
| `Expire` of a node that is down (weak) | the clock; `NODE_TTL` |
| in `Storage`, some waiting thread gets a free lock; `Handler`; `SendBody` or `HangUp` (weak) | a lock, straight-line code, and clients that give up (`curl -m 30`). Which thread gets the lock is not assumed; requests are finitely many |
| in `SheetGate`, the kubelet's loop, and `NginxStarts` (weak) | as above; nginx reads its file once and runs or exits |
| each started `Migrate` and `Order` goes on (weak) | straight-line code; migrate's two loops have deadlines |
| `Sync` (weak), until it is dead | `--interval` loop |
| per pod, `Heartbeat`, `StopPod` and `StartPod` of `Bridge` (weak) | as above; only boundedly many heartbeats fail |
| `Main` and `Pump` of a live relay (weak) | one tick a second; `recv` returns once there is something |
| a begun request of `SheetsServer`, and heartbeats (weak) | each runs in a thread of its own |
| in `Mesh`, an agent and a provisioner that run, a begun stretch (weak) | `--interval` loops and straight-line code. That an ended one is started again is not assumed |

Operators, applications, faults, crashes, restarts and late heartbeats owe
nothing. Liveness is claimed once they are over, which their bounds ensure; that
every kubelet loop for ever takes longer than `NODE_TTL` is therefore not
covered. `FailsOver` asks for a surviving kubelet: nothing marks a node NotReady
unless a heartbeat or an operator makes the control plane look.

## Where code and documents disagree

Each of these has a run that TLC ends with a counterexample:

1. `assigned_port_stays`. README.md:107, "an assigned port stays with its pod
   across reschedules". Phase 1 binds in row order and does not reserve what later
   rows hold (`apiserver.py:438`). An earlier pod that gains an automatic port
   takes the lowest free one; if a later pod held it, that pod is recreated on
   another port.
2. `garbage`. `kubelet.sh:194`, "garbage-collect pods no longer desired". A failed
   heartbeat is taken for `{"pods":[]}` (`kubelet.sh:76`), and every container of
   the node is removed although its row wants it.
3. `wire_curl`. `sheetwire.py:16`, "curl ... reaches side B's web". The test and
   the use of `conns` are two accesses; a pump's `pop` in between is a KeyError
   that ends the relay, and with it every other connection.

Seen while modelling, without a run of their own:

- A pod migrated away is still reported by its source kubelet, and its row then
  shows Running with the endpoints of the node it has not started on
  (`apiserver.py:500-501` says only its own kubelet may vouch for it).
- `migrate` between nodes is make-before-break (`apiserver.py:309-310`) only if the
  target heartbeats before the source.
- Of two overlapping applies on Google Sheets the later write erases the other. (That
  concurrent requests must not lose an update is what `tests/test_concurrency.py:2` says of
  `apiserver.py` and its lock, which it drives; nothing says it of this server.)
  `AppliedStays` therefore speaks of calm histories only. Between the clear and
  the update of a tab every other request sees it empty; a heartbeat in that
  window stops the pods of its node, which `RunningPodsStay` excludes the same way.
- A route for a wildcard is not found when the gateway also has a server block of
  a more specific name: nginx answers 404 from that block although the wildcard's
  row has the longest path (README.md:144-146). `Routed` excepts such requests.
- A route for every gateway that conflicts on one is served on the others, and its
  status is Conflicted. With a gateway typed twice, every such route conflicts
  with itself. Two route rows of one name share the last one's status.
- A user's Deployment called `sheetgate-<gateway>` is dropped in favour of the
  generated one, and still counts as an existing service.
- Programmed means that a gateway's pod runs, not that it has loaded anything.
- "None if it doesn't exist yet" (`storage.py:152`): CryptPad's load returns None for
  any empty-bodied answer, of whatever status, before `raise_for_status`
  (`storage.py:126-128`), and `apiserver.py:72-80` then saves a book of mere headers over
  the real one, even for a read. `Workbook` names the loss, `Lose`.
- "source left intact (no downtime)", `bridge.py:91-92`. Two opposite migrates of one
  deployment may delete it on both sides: the first applies on the peer and finds
  it Running there; the second, from the peer, finds the rows of the local side
  still Running and deletes on the peer; then the first deletes on the local side
  (`bridge.py:109-119`). And a failed heartbeat empties a node whose rows
  stay Running and are counted (`kubelet.sh:76`). `NoDowntime` and `NeverHomeless` say
  what is left; TLC finds the first history when `crossed` is dropped from them.
- On timeout the copy on the target stays (`bridge.py:115`): the deployment runs twice.
- A csvdir save that dies leaves torn tabs, which is why `Workbook` has `Cut`.
  What the next load makes of a file cut within its header row is not modelled.
- Saves by hand ignore the lock (`apiserver.py:612`), whatever the backend: the last one
  wins, either way, in a csvdir file by file.
- `WB_LOCK` is taken before the body is read: a client that neither sends nor
  hangs up stalls everybody. `EveryRequestEnds` rests on the fairness above.
- A PUT whose answer is lost is stored, and the request fails; so do the first rows
  of an apply whose later row fails.
- Sync resurrects the old name of a renamed deployment. `SyncRests` and
  `Federates` hold all the same.
- `stretch` counts its own replicas as used cpu. Run twice, it moves replicas to the
  peer although the local cluster has them (README.md:262, "fills the local cluster
  first").
- Closing a socket whose pump is blocked in `recv` sends no FIN until the `recv`
  returns. `EndsRelayed` therefore says that the relay closes the connection, not
  that the client reads the end.
- A relay that is started again replays the log from the top: a target is dialed
  again and fed the old request. `InOrder` says how far this goes: the target
  reads one request from its start, while a client that survived may read a
  second answer.
- A member that is not in a new split keeps its replicas: agents apply what is
  addressed to them and nothing says zero. Of two overlapping stretches one loses its assignments.
- An agent ends with its first failed call (`sheetmesh.py:100-110`): its member ages
  out of new splits, and shares it already has are not applied.
- The Wire log is read down to row 100000 (`sheetwire.py:85`) and never trimmed: past
  that the relays live on and nothing gets through.
- Readers of Members see rows up to 5000 (`sheetmesh.py:62`), so that "readers dedup
  by newest `last_seen`" (README.md:313) ends there: every member then ages out.
- A provisioner that is started again seeds every workbook anew; the share of the mesh comes
  back, a deployment made on the cluster itself does not. If the rows of Clusters
  were reordered in between, a port may belong to another cluster's old server.

## Proofs

| module | theorem | statement | for every |
|---|---|---|---|
| `ClusterProofs` | `PassTypes`, `PortsAreExclusive`, `PortsAnswerSpecs`, `PlacementIsLegal`, `CapacityIsRespected` | `PassSpec => []` of `PassTypeOK`, `HostPortsExclusive`, `PortsAsRequested`, `PlacementLegal`, `CapacityRespected` | fleet, workload, Pods tab, port range |
| | `Allocates` | `PassSpec => PlacesLegally` (refinement of `Allocator`) | the same |
| | `RunningPodsAreKept`, `ReschedulingIsStable` | `PassSpec => []RunningPodsWin`, `[]RescheduleIsStable` | the same |
| | `NobodyIsLeftOut` | at the end of a pass, no node would take a pod the pass left out (`OutMeansNoRoom`) | the same |
| | `FewerBound` (lemma) | specs that `bind_ports` can serve beside some bound ports it can serve beside fewer, whatever the pod held | specs, ports, ranges |
| | `ClusterTypes`, `ResponsesAreStartable` | `Spec => []TypeOK`, `[]OrdersStartable` | nodes, deployments, versions, commands, faults |
| | `NobodyElseFlaps`, `OnlyOpenNodesGain` | `Spec => NoFlapping`, `CordonedGainsNothing` (action properties) | the same |
| `WireProofs` | `RelayTypes`, `ReceivesInOrder`, `EndsComplete` | `Spec => []TypeOK`, `[]InOrder`, `[]NoTruncation` | connections, chunks, relay deaths and restarts |
| `StorageProofs` | `TypeCorrect`, `PromiseKept` | `Spec => []TypeOK`, `Spec => KeepsPromise` (refinement of `Workbook`) | requests, tabs, chains of rows, number of faults |
| `SheetGateProofs` | `TypesHold`, `RecordsAreTrue` | `Spec => []TypeOK`, `[]RecordedIsServed` | sheets, gateways, edits and exits |
| | `RoutesAsPromised`, `StatusIsTrue` | `Spec => []Routed`, `[]StatusTells` | rows, cells, paths, services |
| `BridgeProofs` | `TypeCorrect`, `NobodyHomeless` | `Spec => []TypeOK`; `[]NeverHomeless` when nobody renames | clusters, deployments, any number of overlapping commands, faults |
| | `NoDowntimeHolds` | `Spec => []NoDowntime` when operators only push and a name starts with one number of replicas | the same, waiting or not, rolled back or not, with or without a sync daemon |
| `SheetsProofs` | `TypeCorrect`, `NothingIsLost`, `NothingIsStopped` | `Spec => []TypeOK`, `[]AppliedStays`, `RunningPodsStay` | names, nodes, operators, failing calls |
| `MeshProofs` | `TypeCorrect`, `NeverOvercommitted` | `Spec => []TypeOK`, `[]NoOvercommit` | members, deployments, sizes, windows, troubles |
| `Recursion` | `Climb`, `Smallest`, `SetInduction`, `SumInsert`, `SumSubset`, `OneIsLeft`, `Greatest` | what holds at the first index and goes on holding at each next one holds at all; a set of naturals has a least element; what each subset of a finite set inherits from its own subsets they all have; the sum over a finite set, split at an element, and monotone; a pigeonhole; the greatest of finitely many | ranges of naturals; functions into the integers |

Assumptions are those the modules state of their constants, and no others: the empty cell is not
a node (`NoNodeAssumption`), the range consists of nameable ports and "any" is not
one of them (`PortAssumption`), inputs of a pass are well-formed (`InputsAssumption`), the Nodes tab is finite with a row per node,
and `fixed_anywhere` has every host port a slot asks for (`TabsAssumption`, by `apiserver.py:396`),
and so are the nodes and deployments a cluster begins with, whose tabs have one row per
name (`ClusterAssumption`; a name is the key of every tab, which apply and heartbeat
look rows up by), names that mean "none" are none of the names (`NamesAssumption` of `Storage`),
the rows of an apply form a chain (`AfterAssumption`),
the deployments of `Bridge` are well-formed to begin with (`InitialAssumption`), its sides finitely many, local and peer among them (`SideAssumption`), its bounds
and switches numbers and Booleans (`BoundsAssumption`, `WatchingAssumption`), the cells of
`SheetGate` match as names, wildcards and the blank cell do: of two that match one host one
matches strictly less (`PatternAssumption`), its rows have the columns of the tabs
(`RowsAssumption`), and what a
cluster ran before the mesh was there fits its node (`LocalAssumption`). Nothing is
assumed about sizes: capacities may be zero, ranges and windows empty.

The arguments.

- **Ports of a pass.** `HostPortsExclusive` compares the ports of pods, while the code
  only looks at the ports recorded on a node, so it is not inductive.
  `Covers` closes the gap: whatever a placed pod claims is recorded on
  its node. `Sound(in, alloc)` is the conjunction of six facts about an allocation: its types,
  its totals within capacity (`Loads`), `Covers`, and the three placement properties
  (`Exclusive`, `AnswersSpecs`, `Legal`).
  `HostsForSound` and `BindingsSound` say what a binding is, and that `take` with one
  keeps an allocation sound; the guards of the two loops establish what it asks for.
  `PassInv`, which adds the loop's position, is the inductive invariant of `SchedulePass`.
- **Capacity and the refinement to `Allocator`.** The code keeps a running total per
  node, the property sums over its pods. `LoadIsSum` says these are the same, `NotYetSeen`
  that the first loop has not touched what it has not come to; together with `PassInv`
  they are inductive (`AllocatorInv`), and each iteration is then a `Place` or a stutter.
- **Who is pushed out.** `RunningPodsWin` tests a pod against the kept pods alone, while the code
  tested it beside all that was bound then, before later pods changed what is bound.
  Two facts close the gap. What has room on a node has room on an
  emptier one (`RoomIsMonotone`); for ports this is not obvious, since `bind_ports` is greedy and
  what it takes for one spec depends on what is bound and on what it took before.
  `FewerBound` counts: beside more bound ports the automatic specs of one protocol, up to
  the next, each got a port of their own; those before the next took fewer ports
  than that beside fewer bound ones, so one of them is still free (`OneIsLeft`), and no requested
  port is among them, for `fixed` has all of those. And what is bound on a node is what its pods claim, what is used is
  what they ask for, so the pods kept on a node are an emptier
  version of it. `ChoiceInv` adds to `AllocatorInv` that bookkeeping (`BoundIsClaims`, `NobodyMoved`)
  and what is so far true of the pods the loops have passed (`Pushed`, `LeftOut`); TLC has
  checked each part on the bounds of `schedule_pass` before it was proved.
  `NobodyIsLeftOut` falls out of it.
- **A pass fed with its own result.** The second pass meets the pods in the order of their slots,
  not in the order they were placed in, so its running totals are at no moment those of
  the first. They are always those of the result restricted to the slots passed: `RestoreOne`
  shows that the first loop puts the next pod back where it was, with the ports it had (its own,
  hence free; found by container port, hence `DistinctContainerPorts`). After that loop the
  allocation is the result, and since nobody is left out the second loop finds nothing
  to place (`NothingToPlace`); `ScheduleAgain` carries both through the recursive function by `Climb`.
- **A whole pass inside a step.** `Schedule` is a function of the tabs. By `Climb` over
  both of its walks, `Sound(in, Schedule(in))` for every well-formed input, which is how
  the scheduler's guarantees reach `Cluster` without its loop being one of its actions.
- **Answers a kubelet can carry out.** What `reconcile` reads off a sound allocation is a
  table of desired pods; the answer to a node lists the pods of that node and what it
  reported and should not run. No two of the former share a host port (`OrdersOK`).
  `OrdersStartable` holds for an answer when it is computed, but the kubelet
  carries it out step by step while the workbook changes: `LoopOK` therefore ties each
  kubelet's remaining list to itself and to nothing in the workbook. The inductive
  invariant `ClusterInv` is `WorkbookOK` (three well-formed tabs), `MachinesOK` (engines and
  loops) and `LateOK` (heartbeats that are handled after all); TLC has checked it on the
  bounds of `cluster` before it was proved. `NoFlapping` and `CordonedGainsNothing` are
  proved of single steps from such states: only `ReconcileOK`'s result may move a pod, and
  `Legal` says to what nodes.
- **Streams of the wire.** `StreamOK` speaks of the log and a relay's outbox as one sequence:
  frames of a connection stand in it by rank (open, data 1, 2, ..., close; `Sorted`), no data frame
  is there without those before it (`NoGaps`), and as long as a pump or its outbox was never lost
  what it has read is all there. `ReceivedOK` ties the other relay to it: an application
  has got chunks 1, 2, ... n, and while its socket is open a data frame has been handled
  (`Past`: at or before the cursor, and not among the rows of the last poll still in hand)
  exactly when its chunk is one of those. A relay that is started again replays the log from
  the top, so serve's stream and expose's receipts are claimed until then only, as in
  `InOrder`. `Dialed` and `Endings` add who may connect and who may let go of a socket, and what
  it must have handled before; `NoTruncation` is what they say at an end of stream.
- **Storage.** `Serving` says what the request with the lock has done so far and when it has
  read the whole book, `Backends` which backend saves how and what a user has open of
  it, `Files` how far the loop over the csvdir has come, `Ordered` that the rows of
  an apply are stored one after another. From these every step is a step of `Workbook` or none.
- **Hot load.** `Progress` says for each position of the script which of a pod's file,
  its backup and its recorded hash can be relied on. It survives an exit and a restart of the
  container in the middle, because a new container has nothing recorded and the script's
  next command then fails or finds no nginx.
- **The plan.** `Plan` walks over the rows of Routes. `PlanOK(p, k)` says what it has after k of
  them: a gateway's configuration is exactly the rows up to k that `Standing` names, the rows a
  user would point at; the status table has an entry for each name so far. A row
  finds its key taken exactly when an earlier standing row has it (`FirstStands`, for which
  `Smallest` gives the first row of a key), so both by `Climb`. `StatusTells` then reads
  off the status given to a row when it was planned, which `StatusStays` carries to the end
  when no later row has its name.
- **What nginx answers.** `LongestExists` and `Narrowest`: among the rows that match, there are some
  of the longest path, and of those one of the narrowest cell (cells that match one host are
  nested). It is one row, as a plan has no two of one key. `AnswerIsNamed` shows that nginx finds it
  in the server block it picks by name first and path second: the row is in that block,
  its own or inherited from the blank host, and whatever else in the block has as
  long a path would be narrower. The types and these facts hold in every reachable state, because
  `TypeOK` is inductive: edits keep the tabs' rows (`Upserted`, `Shortened`, `TypedOver`) and
  `PlanOK` types what a heartbeat writes and sends.
- **Migration.** `Housed` adds to `NeverHomeless` where a deployment's home is while
  a migrate is between two requests: the target has it before the source loses it,
  the source has it again before the target loses it (`Homes`). With several migrates the
  home one relies on could be what another deletes: `Apart` says that two in progress
  have different names unless `crossed`, and `Sent` that a migrate about to delete has its
  name on the other side. Sync and pushes only add rows. A rename takes the home of
  the old name away by design, hence the assumption.
- **Make before break.** `HandoverInv`: a row that shows a pod Running is right about it
  or the pod is in `gaps` (`Truthful`; a heartbeat condemns only what the spreadsheet
  does not want, and drops that row and that gap in the same step; a failed one
  condemns with the row left alone, and opens a gap); every name is `On` somewhere,
  wanted with each of its pods running or in `gaps` (`AllOn`); and a migrate past its
  wait has its name `On` at the target (`Seen`). Cardinalities meet rows in `ReadyIsOn`: as
  many Running rows as replicas means all of them, since no row is beyond the
  number of replicas, which nobody changes (`SizesAgree`). A migrate that did not
  wait, and a rollback, put what is missing into `gaps` themselves, so that `AllOn` holds
  after their delete too. Applies, renames and stretches change what a name is owed, hence
  the assumption; sync and push do not.
- **Overlapping requests.** `Calm` ties the one request in progress to the tabs it has read
  and not yet written. It is inductive while `calm` holds, and
  `RunningPodsStay` is a property of single steps from such states.
- **Mesh.** `Promised`: there are bounds per cluster and deployment that fit the
  cluster's node, and every number anywhere (tabs, agents' orders, planners' copies) stays below
  them. Replicas are only ever copied, so only a new plan can break this; a plan made on
  a settled mesh gives out no more than free cpu, so what the
  clusters run, with the plan's shares on top, fits again.
- **Induction.** The library's induction theorems take the predicate as an operator, which
  the provers cannot instantiate. `Recursion` states the two that are needed with a set in its
  place: `Climb` over the indices of a loop, `SetInduction` over the subsets of a finite set. Sums
  are defined by recursion on a set; `SumInsert` and `SumSubset` are their laws.

Every invariant and every step property of the passing runs is stated by a theorem. Only
model-checked are the temporal properties that rest on fairness, which are out of the prover's reach:
`Converges`, `FailsOver` (`Cluster`); `Settles`, `Federates`, `SyncRests` (`Bridge`); `RequestsArrive`,
`EndsRelayed` (`Wire`); `PodsFollow` (`SheetsServer`); `Reconciles` (`SheetGate`); `EveryRequestEnds`
(`Storage`); `SplitReached` (`Mesh`).

## What is not modelled

- Argument checks that change nothing (unknown names, bad tokens, bad JSON).
- Secret files, resource limits and networks of `docker run`; replicas, listen ports and
  placement of gateways, which are those of any other deployment.
- Gateways and Routes on Google Sheets (rewrites of two more tabs), the ageing of
  nodes there, and the 2000 rows of a tab that are read and cleared
  (`apiserver_sheets.py:59`, `76`): what a tab holds below them is not seen.
- A second sync daemon. One that a hand-started pass overlaps differs from a push.
- A book or directory that goes missing at runtime, and the save with which
  `_ensure_schema` upgrades an old book. A user's program is taken to save a
  whole file at once, by a rename: what the server still writes into the old one is gone.
- Memory and image of a replica in the mesh; the provisioner's ports; creation of tabs.
- Socket buffers that fill up and block a relay's only main thread: the code has no answer
  to an application that stops reading, and there is nothing to state.
- Request signing, `sicf`, `wasmlet`, `skctl`: cryptography, one-shot I/O and
  formatting, without state whose interleavings could go wrong.

## Plan

Done: every component that keeps state, two refinements, and proofs about all of them.

What is left, in the order of what it would add:

1. Socket buffers with a bound, once the code has a policy for full ones.
