------------------------------ MODULE Cluster ------------------------------
(***************************************************************************)
(* One cluster: the apiserver (apiserver.py), whose whole state is the     *)
(* workbook, and one kubelet (kubelet.sh) per node with its docker engine. *)
(*                                                                         *)
(* Every request to the apiserver is one step: do_POST holds WB_LOCK over  *)
(* the load, the change and the save of the workbook.  A kubelet loop is   *)
(* several steps: snapshot the running containers, heartbeat, carry out    *)
(* the orders one by one, collect garbage.  Between any two of them other  *)
(* kubelets, operators, crashes and the clock may act.                     *)
(*                                                                         *)
(* A container id is abstracted to the node that created the container, a  *)
(* spec_hash to the pair of what the model lets it depend on: image and    *)
(* ports.  last_heartbeat is abstracted to whether it is younger than      *)
(* NODE_TTL.                                                               *)
(***************************************************************************)
EXTENDS Scheduler

CONSTANTS
    Cpu, Mem,       \* per node, the totals its kubelet reports
    Initial,        \* the Deployments tab at the start
    Manifests,      \* the deployments apply may submit
    Replicas,       \* the replica counts scale may ask for
    Taints, Labels, \* what taint and label may set or clear
    Limit           \* bound: per command and fault in use, up to which event it may occur

\* Names are the keys of every tab: the Deployments tab starts with no two rows of one name.
ASSUME ClusterAssumption ==
    /\ Cpu \in [Node -> Nat] /\ Mem \in [Node -> Nat]
    /\ Initial \in Seq(Deployment) /\ Manifests \subseteq Deployment /\ Replicas \subseteq Nat
    /\ \A j, k \in DOMAIN Initial : Initial[j].name = Initial[k].name => j = k
    /\ Labels \subseteq STRING \X STRING /\ Taints \subseteq Taint

VARIABLES
    deployments,    \* Deployments tab: sequence of rows
    nodes,          \* Nodes tab: function from registered nodes to their row
    pods,           \* Pods tab: function from pods to their row
    docker,         \* per node, the running containers: pod -> spec
    kubelet,        \* per node, the state of its kubelet loop
    late,           \* heartbeats whose kubelet has given up but that may yet be handled
    events          \* commands and faults so far

workbook == <<deployments, nodes, pods>>
machines == <<docker, kubelet>>
vars == <<deployments, nodes, pods, docker, kubelet, late, events>>

Event(kind) == kind \in DOMAIN Limit /\ events < Limit[kind] /\ events' = events + 1

None == [p \in {} |-> 0]      \* the empty tab, engine or report
Without(f, p) == [q \in DOMAIN f \ {p} |-> f[q]]
With(f, p, value) == [q \in DOMAIN f \cup {p} |-> IF q = p THEN value ELSE f[q]]

Idle == [pc |-> "idle", seen |-> None, run |-> <<>>, stop |-> {}, names |-> {}]

-----------------------------------------------------------------------------
(* The workbook after a reconcile.                                             *)

LoadNodes(tab) ==
    [n \in DOMAIN tab |-> [row |-> tab[n].row, cpu |-> Cpu[n], mem |-> Mem[n],
                           fresh |-> tab[n].fresh, schedulable |-> tab[n].schedulable,
                           labels |-> tab[n].labels, taints |-> tab[n].taints]]

\* What schedule() returns: per pod its node and the spec its container must have.
Desired(deps, input, alloc) ==
    LET slot(p) == CHOOSE s \in DOMAIN input.slots : input.slots[s].pod = p
        image(name) == deps[CHOOSE d \in DOMAIN deps : deps[d].name = name].image
    IN  [p \in {input.slots[s].pod : s \in DOMAIN input.slots} |->
            [node |-> alloc.node[slot(p)],
             spec |-> [image |-> image(p[1]), ports |-> alloc.ports[slot(p)]]]]

Endpoints(n, ports) == {<<n, ports[k]>> : k \in DOMAIN ports}

\* A plausible slip: another node's heartbeat resets the row.
PodRowFlapping(p, d, existing, reported, reporter) ==
    LET old == IF p \in DOMAIN existing THEN existing[p] ELSE [node |-> NoNode, cid |-> NoNode]
        live == p \in DOMAIN reported
        sameNode == d.node # NoNode /\ old.node = d.node
        row(phase, endpoints) ==
            [node |-> d.node, ports |-> d.spec.ports, phase |-> phase, endpoints |-> endpoints,
             cid |-> IF live THEN reporter ELSE IF sameNode THEN old.cid ELSE NoNode]
    IN  IF d.node = NoNode THEN row("Unschedulable", {})
        ELSE IF live THEN row("Running", Endpoints(d.node, reported[p].ports))
        ELSE row("Pending", {})

\* pod_rows for one pod; reporter is NoNode for a control action.
PodRow(p, d, existing, reported, reporter) ==
    LET old == IF p \in DOMAIN existing THEN existing[p] ELSE [node |-> NoNode, cid |-> NoNode]
        live == p \in DOMAIN reported
        sameNode == d.node # NoNode /\ old.node = d.node
        row(phase, endpoints) ==
            [node |-> d.node, ports |-> d.spec.ports, phase |-> phase, endpoints |-> endpoints,
             cid |-> IF live THEN reporter ELSE IF sameNode THEN old.cid ELSE NoNode]
    IN  IF d.node = NoNode THEN row("Unschedulable", {})
        ELSE IF live THEN row("Running", Endpoints(d.node, reported[p].ports))
        ELSE IF sameNode /\ d.node # reporter THEN row(old.phase, old.endpoints)
        ELSE row("Pending", {})

NodeStatus(row) == IF ~row.fresh THEN "NotReady"
                   ELSE IF ~row.schedulable THEN "SchedulingDisabled" ELSE "Ready"

\* _reconcile: the Pods and Nodes tabs after a pass over tab, with a kubelet's report.
Reconcile(tab, reported, reporter, exclude) ==
    LET input == PassInput(deployments, pods, LoadNodes(tab), exclude)
        alloc == Schedule(input)
        desired == Desired(deployments, input, alloc)
    IN  [input |-> input, desired |-> desired,
         pods |-> [p \in DOMAIN desired |-> PodRow(p, desired[p], pods, reported, reporter)],
         nodes |-> [n \in DOMAIN tab |-> [tab[n] EXCEPT !.status = NodeStatus(tab[n]),
                                                        !.cpuUsed = alloc.load[n].cpu]]]

\* A control action: change the Nodes tab and reschedule (_reschedule).
Reschedule(tab, exclude) ==
    LET result == Reconcile(tab, None, NoNode, exclude)
    IN  nodes' = result.nodes /\ pods' = result.pods

\* node_orders: what node must run, in desired order, and which reported pods it must stop.
RunOrders(result, n) ==
    LET slots == result.input.slots
        desired(s) == result.desired[slots[s].pod]
        orders[s \in 0..Len(slots)] ==
            IF s = 0 THEN <<>>
            ELSE IF desired(s).node = n
            THEN Append(orders[s - 1], [pod |-> slots[s].pod, spec |-> desired(s).spec])
            ELSE orders[s - 1]
    IN  orders[Len(slots)]
StopOrders(result, reported, n) ==
    {p \in DOMAIN reported : p \notin DOMAIN result.desired \/ result.desired[p].node # n}

NewNode(row) == [row |-> row, fresh |-> TRUE, schedulable |-> TRUE, labels |-> {},
                 taints |-> {}, status |-> "Ready", cpuUsed |-> 0]

\* A plausible slip: a new node is written as the first row.
HeardFromAtTop(n) ==
    IF n \in DOMAIN nodes
    THEN [nodes EXCEPT ![n].fresh = TRUE]
    ELSE With(nodes, n, NewNode(1))

\* The Nodes tab once a heartbeat of n is written: known or appended, and fresh.
HeardFrom(n) ==
    IF n \in DOMAIN nodes
    THEN [nodes EXCEPT ![n].fresh = TRUE]
    ELSE With(nodes, n, NewNode(Cardinality(DOMAIN nodes) + 1))

-----------------------------------------------------------------------------
Init ==
    /\ deployments = Initial
    /\ nodes = None
    /\ pods = None
    /\ docker = [n \in Node |-> None]
    /\ kubelet = [n \in Node |-> Idle]
    /\ late = {}
    /\ events = 0

-----------------------------------------------------------------------------
(* The kubelet loop.                                                           *)

\* Top of the loop: snapshot the running containers and send them.
Report(n) ==
    /\ kubelet[n].pc = "idle"
    /\ kubelet' = [kubelet EXCEPT ![n] = [Idle EXCEPT !.pc = "sent", !.seen = docker[n]]]
    /\ UNCHANGED <<workbook, docker, late, events>>

\* The apiserver handles the heartbeat (heartbeat) and the kubelet gets its orders.
Heartbeat(n) ==
    LET seen == kubelet[n].seen
        result == Reconcile(HeardFrom(n), seen, n, {})
        run == RunOrders(result, n)
        stop == StopOrders(result, seen, n)
    IN  /\ kubelet[n].pc = "sent"
        /\ nodes' = result.nodes
        /\ pods' = result.pods
        /\ kubelet' = [kubelet EXCEPT ![n] =
                          [pc |-> "work", seen |-> seen, run |-> run, stop |-> stop,
                           names |-> {run[k].pod : k \in DOMAIN run} \cup stop]]
        /\ UNCHANGED <<deployments, docker, late, events>>

\* A plausible slip: the fingerprint is compared with nothing, so a changed spec is kept.
AfterSpecCheckNever(n, order) == docker[n]

\* Converge, Running: a container started from another spec goes first.
AfterSpecCheck(n, order) ==
    LET seen == kubelet[n].seen
    IN  IF order.pod \in DOMAIN seen /\ seen[order.pod] # order.spec
        THEN Without(docker[n], order.pod)
        ELSE docker[n]

\* docker run succeeds only if no running container has one of the ports.
PortsFree(engine, order) ==
    \A q \in DOMAIN engine : Claims(engine[q].ports) \cap Claims(order.spec.ports) = {}

Start(n) ==
    /\ kubelet[n].pc = "work" /\ kubelet[n].run # <<>>
    /\ LET order == Head(kubelet[n].run)
           engine == AfterSpecCheck(n, order)
       IN  docker' = [docker EXCEPT ![n] =
               IF order.pod \notin DOMAIN engine /\ PortsFree(engine, order)
               THEN With(engine, order.pod, order.spec)
               ELSE engine]
    /\ kubelet' = [kubelet EXCEPT ![n].run = Tail(kubelet[n].run)]
    /\ UNCHANGED <<workbook, late, events>>

\* Converge, Terminating: orders come after the Running ones.
Stop(n) ==
    /\ kubelet[n].pc = "work" /\ kubelet[n].run = <<>>
    /\ \E p \in kubelet[n].stop :
        /\ docker' = [docker EXCEPT ![n] = Without(docker[n], p)]
        /\ kubelet' = [kubelet EXCEPT ![n].stop = kubelet[n].stop \ {p}]
    /\ UNCHANGED <<workbook, late, events>>

\* End of the loop: remove the containers the response does not name, then sleep.
CollectGarbage(n) ==
    /\ kubelet[n].pc = "work" /\ kubelet[n].run = <<>> /\ kubelet[n].stop = {}
    /\ docker' = [docker EXCEPT ![n] =
                    [p \in DOMAIN docker[n] \cap kubelet[n].names |-> docker[n][p]]]
    /\ kubelet' = [kubelet EXCEPT ![n] = Idle]
    /\ UNCHANGED <<workbook, late, events>>

-----------------------------------------------------------------------------
(* Operator commands.                                                          *)

RowOf(name) == {d \in DOMAIN deployments : deployments[d].name = name}

Apply ==
    /\ Event("apply")
    /\ \E m \in Manifests :
        deployments' = IF RowOf(m.name) = {}
                       THEN Append(deployments, m)
                       ELSE [d \in DOMAIN deployments |->
                                IF d \in RowOf(m.name) THEN m ELSE deployments[d]]
    /\ UNCHANGED <<nodes, pods, machines, late>>

Scale ==
    /\ Event("scale")
    /\ \E d \in DOMAIN deployments, r \in Replicas :
        deployments' = [deployments EXCEPT ![d].replicas = r]
    /\ UNCHANGED <<nodes, pods, machines, late>>

Delete ==
    /\ Event("delete")
    /\ \E d \in DOMAIN deployments : deployments' = RemoveAt(deployments, d)
    /\ UNCHANGED <<nodes, pods, machines, late>>

Cordon ==
    /\ Event("cordon")
    /\ \E n \in DOMAIN nodes : Reschedule([nodes EXCEPT ![n].schedulable = FALSE], {})
    /\ UNCHANGED <<deployments, machines, late>>

Uncordon ==
    /\ Event("uncordon")
    /\ \E n \in DOMAIN nodes : Reschedule([nodes EXCEPT ![n].schedulable = TRUE], {})
    /\ UNCHANGED <<deployments, machines, late>>

Drain ==
    /\ Event("drain")
    /\ \E n \in DOMAIN nodes : Reschedule([nodes EXCEPT ![n].schedulable = FALSE], {n})
    /\ UNCHANGED <<deployments, machines, late>>

\* A plausible slip: the target is not checked.
MigrateAnywhere ==
    /\ Event("migrate")
    /\ \E p \in DOMAIN pods, target \in DOMAIN nodes :
        pods' = [pods EXCEPT ![p].node = target]
    /\ UNCHANGED <<deployments, nodes, machines, late>>

\* Only the node cell of the row changes; the rest follows at the next reconcile.
Migrate ==
    /\ Event("migrate")
    /\ \E p \in DOMAIN pods, target \in DOMAIN nodes :
        /\ nodes[target].fresh /\ nodes[target].schedulable
        /\ pods' = [pods EXCEPT ![p].node = target]
    /\ UNCHANGED <<deployments, nodes, machines, late>>

LabelNode ==
    /\ Event("label")
    /\ \E n \in DOMAIN nodes, l \in Labels :
        \/ Reschedule([nodes EXCEPT ![n].labels =
               {x \in nodes[n].labels : x[1] # l[1]} \cup {l}], {})
        \/ Reschedule([nodes EXCEPT ![n].labels = {x \in nodes[n].labels : x[1] # l[1]}], {})
    /\ UNCHANGED <<deployments, machines, late>>

TaintNode ==
    /\ Event("taint")
    /\ \E n \in DOMAIN nodes, t \in Taints :
        \/ Reschedule([nodes EXCEPT ![n].taints =
               {x \in nodes[n].taints : x.key # t.key} \cup {t}], {})
        \/ Reschedule([nodes EXCEPT ![n].taints = {x \in nodes[n].taints : x.key # t.key}], {})
    /\ UNCHANGED <<deployments, machines, late>>

Operator == \/ Apply \/ Scale \/ Delete \/ Cordon \/ Uncordon \/ Drain \/ Migrate
            \/ LabelNode \/ TaintNode

-----------------------------------------------------------------------------
(* Time and faults.                                                            *)

\* NODE_TTL passes without a heartbeat of a node whose kubelet is down ...
Expire(n) ==
    /\ n \in DOMAIN nodes /\ nodes[n].fresh
    /\ kubelet[n].pc = "down"
    /\ nodes' = [nodes EXCEPT ![n].fresh = FALSE]
    /\ UNCHANGED <<deployments, pods, machines, late, events>>

\* ... or whose kubelet is slow: a long image pull, a long timeout.
SlowLoop(n) ==
    /\ Event("slow")
    /\ n \in DOMAIN nodes /\ nodes[n].fresh
    /\ kubelet[n].pc # "down"
    /\ nodes' = [nodes EXCEPT ![n].fresh = FALSE]
    /\ UNCHANGED <<deployments, pods, machines, late>>

\* curl fails or times out: the loop goes on with no pods.  The request may be gone, or
\* still be waiting for the apiserver.
HeartbeatFails(n) ==
    /\ Event("heartbeat")
    /\ kubelet[n].pc = "sent"
    /\ kubelet' = [kubelet EXCEPT ![n].pc = "work"]
    /\ late' \in {late, late \cup {[node |-> n, seen |-> kubelet[n].seen]}}
    /\ UNCHANGED <<workbook, docker>>

\* The apiserver handles a heartbeat nobody waits for any more.
LateHeartbeat ==
    \E h \in late :
        LET result == Reconcile(HeardFrom(h.node), h.seen, h.node, {})
        IN  /\ nodes' = result.nodes
            /\ pods' = result.pods
            /\ late' = late \ {h}
            /\ UNCHANGED <<deployments, machines, events>>

\* docker run fails: the image cannot be pulled or loaded.
StartFails(n) ==
    /\ Event("start")
    /\ kubelet[n].pc = "work" /\ kubelet[n].run # <<>>
    /\ docker' = [docker EXCEPT ![n] = AfterSpecCheck(n, Head(kubelet[n].run))]
    /\ kubelet' = [kubelet EXCEPT ![n].run = Tail(kubelet[n].run)]
    /\ UNCHANGED <<workbook, late>>

ContainerExits(n) ==
    /\ Event("exit")
    /\ \E p \in DOMAIN docker[n] : docker' = [docker EXCEPT ![n] = Without(docker[n], p)]
    /\ UNCHANGED <<workbook, kubelet, late>>

\* The kubelet is killed; its containers run on, and so may its request.
KubeletStops(n) ==
    /\ Event("kubelet")
    /\ kubelet[n].pc # "down"
    /\ kubelet' = [kubelet EXCEPT ![n] = [Idle EXCEPT !.pc = "down"]]
    /\ late' \in {late} \cup IF kubelet[n].pc = "sent"
                            THEN {late \cup {[node |-> n, seen |-> kubelet[n].seen]}} ELSE {}
    /\ UNCHANGED <<workbook, docker>>

\* The machine fails: kubelet and containers are gone.
NodeFails(n) ==
    /\ Event("node")
    /\ kubelet[n].pc # "down"
    /\ kubelet' = [kubelet EXCEPT ![n] = [Idle EXCEPT !.pc = "down"]]
    /\ docker' = [docker EXCEPT ![n] = None]
    /\ UNCHANGED <<workbook, late>>

KubeletStarts(n) ==
    /\ kubelet[n].pc = "down"
    /\ kubelet' = [kubelet EXCEPT ![n] = Idle]
    /\ UNCHANGED <<workbook, docker, late, events>>

Loop(n) == Report(n) \/ Heartbeat(n) \/ Start(n) \/ Stop(n) \/ CollectGarbage(n)

Trouble(n) == \/ Expire(n) \/ SlowLoop(n) \/ HeartbeatFails(n) \/ StartFails(n)
              \/ ContainerExits(n) \/ KubeletStops(n) \/ NodeFails(n) \/ KubeletStarts(n)

Next == (\E n \in Node : Loop(n) \/ Trouble(n)) \/ LateHeartbeat \/ Operator

Spec == Init /\ [][Next]_vars

\* The loop of a kubelet that is up goes on: each of its own steps is fair, and a
\* heartbeat does not stay in flight (curl -m 30).  Time passes for a node that is down.
\* Operators and faults owe nothing, nor does anybody restart a kubelet.
Converge(n) == Start(n) \/ Stop(n) \/ CollectGarbage(n)
HeartbeatEnds(n) == []<>(kubelet[n].pc # "sent")

FairSpec ==
    /\ Spec
    /\ \A n \in Node : /\ WF_vars(Report(n)) /\ HeartbeatEnds(n) /\ WF_vars(Converge(n))
                       /\ WF_vars(Expire(n))

-----------------------------------------------------------------------------
(* Safety.                                                                     *)

Pod == STRING \X Nat
ContainerSpec == [image : STRING, ports : Seq(Mapping)]
IsEngine(f) == DOMAIN f \subseteq Pod /\ \A p \in DOMAIN f : f[p] \in ContainerSpec

\* Every tab, engine and kubelet holds what its readers expect.
TypeOK ==
    /\ DOMAIN nodes \subseteq Node
    /\ \A n \in DOMAIN nodes :
        /\ nodes[n].fresh \in BOOLEAN /\ nodes[n].schedulable \in BOOLEAN
        /\ nodes[n].labels \subseteq Labels /\ nodes[n].taints \subseteq Taints
        /\ nodes[n].status \in {"Ready", "NotReady", "SchedulingDisabled"}
        /\ nodes[n].cpuUsed \in 0..Cpu[n]
        /\ \A m \in DOMAIN nodes \ {n} : nodes[m].row # nodes[n].row
    /\ DOMAIN pods \subseteq Pod
    /\ \A p \in DOMAIN pods :
        /\ pods[p].node \in DOMAIN nodes \cup {NoNode}
        /\ pods[p].phase \in {"Running", "Pending", "Unschedulable"}
        /\ pods[p].cid \in Node \cup {NoNode}
        /\ pods[p].ports \in Seq(Mapping)
        /\ pods[p].endpoints \subseteq Node \X Mapping
    /\ \A n \in Node :
        /\ IsEngine(docker[n]) /\ IsEngine(kubelet[n].seen)
        /\ kubelet[n].pc \in {"idle", "sent", "work", "down"}
        /\ \A k \in DOMAIN kubelet[n].run : kubelet[n].run[k].pod \in kubelet[n].names
        /\ kubelet[n].stop \subseteq kubelet[n].names
    /\ \A h \in late : h.node \in Node /\ IsEngine(h.seen)

\* No response asks docker for two containers on the same host port, nor for the same
\* pod to run and to stop: docker can carry out every response, in any starting state
\* that has only its own leftovers in the way.
OrdersStartable == \A n \in Node :
    LET run == kubelet[n].run IN
    /\ \A j, k \in DOMAIN run : j # k =>
        /\ run[j].pod # run[k].pod
        /\ Claims(run[j].spec.ports) \cap Claims(run[k].spec.ports) = {}
    /\ \A j \in DOMAIN run : run[j].pod \notin kubelet[n].stop

\* The report of n is being handled in this step.
ReportHandled(n) == \/ kubelet[n].pc = "sent" /\ kubelet'[n].pc = "work"
                    \/ \E h \in late \ late' : h.node = n

\* "Multi-node clusters don't flap Running<->Pending": a running pod that stays on its
\* node is shown as anything else only when its own kubelet reported without it.
NoFlapping == [][\A p \in DOMAIN pods \cap DOMAIN pods' :
    /\ pods[p].phase = "Running" /\ pods'[p].phase # "Running"
    /\ pods[p].node = pods'[p].node /\ pods[p].node # NoNode
    => ReportHandled(pods[p].node)]_vars

\* Whatever is done to the cluster, a pod only ever moves to a node that is live and
\* open for scheduling at that moment: a cordon or a drain is never undone by a
\* reschedule, a late heartbeat, a failover or a migrate.
CordonedGainsNothing == [][\A p \in DOMAIN pods' :
    LET n == pods'[p].node IN
    n # NoNode /\ (p \in DOMAIN pods => pods[p].node # n)
    => nodes'[n].fresh /\ nodes'[n].schedulable]_vars

-----------------------------------------------------------------------------
(* Liveness, under FairSpec.                                                   *)

Up(n) == kubelet[n].pc # "down"

\* The Pods tab has a row for every replica, and for nothing else.
TabComplete == DOMAIN pods =
    UNION {{<<deployments[d].name, r>> : r \in 1..deployments[d].replicas} :
               d \in DOMAIN deployments}

\* A live engine runs what the Pods tab assigns to its node, from the current image and
\* on the assigned ports, and the row says so.
EngineConverged(n) ==
    /\ DOMAIN docker[n] = {p \in DOMAIN pods : pods[p].node = n}
    /\ \A p \in DOMAIN docker[n] :
        /\ docker[n][p].ports = pods[p].ports
        /\ \A d \in RowOf(p[1]) : docker[n][p].image = deployments[d].image
        /\ pods[p].phase = "Running" /\ pods[p].cid = n
        /\ pods[p].endpoints = Endpoints(n, pods[p].ports)

\* Once operators and faults are over, the cluster settles: whatever happened before,
\* every live node ends up running exactly what the spreadsheet says, for good.
Converges == <>[]((\E n \in Node : Up(n)) =>
                      TabComplete /\ \A n \in Node : Up(n) => EngineConverged(n))

\* "Its pods are rescheduled onto survivors": a node that stays down loses its pods and
\* its Ready status, as long as one kubelet is left to make the apiserver look.
FailsOver == <>[](\A n \in DOMAIN nodes : ~Up(n) /\ (\E m \in Node : Up(m)) =>
                      /\ nodes[n].status = "NotReady"
                      /\ \A p \in DOMAIN pods : pods[p].node # n)

-----------------------------------------------------------------------------
(* What the comments say and the code does not do.                             *)

\* kubelet.sh: "garbage-collect pods no longer desired at all".  With nobody editing the
\* cluster, no kubelet removes a container the Pods tab assigns to it.
GarbageIsUndesired == [][\A n \in Node : \A p \in DOMAIN docker[n] \ DOMAIN docker'[n] :
    ~(p \in DOMAIN pods /\ pods[p].node = n /\ pods[p].ports = docker[n][p].ports)]_vars
=============================================================================
