---------------------------- MODULE SheetsServer ----------------------------
(***************************************************************************)
(* The apiserver over a Google Sheet (apiserver_sheets.py).  It schedules  *)
(* like apiserver.py but holds no lock: ThreadingHTTPServer runs every     *)
(* request in its own thread, and a request is a series of calls to the    *)
(* Sheets API, each a step of its own.  A tab is rewritten by a clear and  *)
(* an update; in between it is empty.                                      *)
(*                                                                         *)
(* A deployment is a name with one replica, the pod of that name; where a  *)
(* pod without a place goes is left open, except that it stays where the   *)
(* Pods tab has it.  Nodes do not age.                                     *)
(***************************************************************************)
EXTENDS Naturals, FiniteSets

CONSTANTS
    Name,           \* deployments
    Node,           \* nodes, each with a kubelet
    NoNode,         \* the empty node cell
    Operator,       \* clients that apply, scale and delete
    MaxOps,         \* bound: apply, scale and delete requests
    MaxFailures     \* bound: Sheets API calls that fail

ASSUME NoNodeAssumption == NoNode \notin Node

VARIABLES
    deployments,    \* the Deployments tab: names
    nodes,          \* the Nodes tab: names
    pods,           \* the Pods tab: pod -> node
    running,        \* per node, the pods its kubelet runs
    handler,        \* per client, the request in progress and what it has read
    applied,        \* history: the names applied and answered, and not asked to go since
    retired,        \* history: the names ever asked to go
    calm,           \* history: no two requests have overlapped, no call has failed
    ops, failures

vars == <<deployments, nodes, pods, running, handler, applied, retired, calm, ops, failures>>

Client == Node \cup Operator
NoPods == [p \in {} |-> NoNode]
Idle == [pc |-> "idle", verb |-> "", name |-> "", nodes |-> {}, pods |-> NoPods, deps |-> {}]

Init ==
    /\ deployments = {}
    /\ nodes = {}
    /\ pods = NoPods
    /\ running = [n \in Node |-> {}]
    /\ handler = [c \in Client |-> Idle]
    /\ applied = {}
    /\ retired = {}
    /\ calm = TRUE
    /\ ops = 0
    /\ failures = 0

Begins(c) == /\ handler[c].pc = "idle"
             /\ calm' = (calm /\ \A d \in Client : handler[d].pc = "idle")
At(c, pc) == handler[c].pc = pc
Step(c, new) == handler' = [handler EXCEPT ![c] = new]
Goto(c, pc) == handler' = [handler EXCEPT ![c].pc = pc]

-----------------------------------------------------------------------------
(* heartbeat                                                                   *)

\* Read the Nodes tab, with the reporting node in it.
ReadNodes(n) ==
    /\ Begins(n)
    /\ Step(n, [Idle EXCEPT !.pc = "pods", !.verb = "heartbeat", !.nodes = nodes \cup {n}])
    /\ UNCHANGED <<deployments, nodes, pods, running, applied, retired, ops, failures>>

ReadPods(n) ==
    /\ At(n, "pods")
    /\ Step(n, [handler[n] EXCEPT !.pc = "deps", !.pods = pods])
    /\ UNCHANGED <<deployments, nodes, pods, running, applied, retired, calm, ops, failures>>

\* A plausible slip: the place a pod has does not count.
AnyPlacements(deps, live, existing) ==
    {f \in [deps -> live \cup {NoNode}] : \A p \in deps : f[p] = NoNode => live = {}}

\* A plausible slip: the rows of deleted deployments stay.
StalePlacements(deps, live, existing) ==
    {f \in [deps \cup DOMAIN existing -> live \cup {NoNode}] : \A p \in DOMAIN f :
        f[p] = NoNode => live = {}}

\* The results schedule() may have: a pod stays, or lands on some node if there is one.
Placements(deps, live, existing) ==
    {f \in [deps -> live \cup {NoNode}] : \A p \in deps :
        IF p \in DOMAIN existing /\ existing[p] \in live THEN f[p] = existing[p]
                                                         ELSE f[p] = NoNode => live = {}}

\* Read the Deployments tab and schedule.
ReadDeployments(n) ==
    /\ At(n, "deps")
    /\ \E desired \in Placements(deployments, handler[n].nodes, handler[n].pods) :
        Step(n, [handler[n] EXCEPT !.pc = "clearPods", !.pods = desired])
    /\ UNCHANGED <<deployments, nodes, pods, running, applied, retired, calm, ops, failures>>

ClearPods(n) ==
    /\ At(n, "clearPods")
    /\ pods' = NoPods
    /\ Goto(n, "writePods")
    /\ UNCHANGED <<deployments, nodes, running, applied, retired, calm, ops, failures>>

WritePods(n) ==
    /\ At(n, "writePods")
    /\ pods' = handler[n].pods
    /\ Goto(n, "clearNodes")
    /\ UNCHANGED <<deployments, nodes, running, applied, retired, calm, ops, failures>>

ClearNodes(n) ==
    /\ At(n, "clearNodes")
    /\ nodes' = {}
    /\ Goto(n, "writeNodes")
    /\ UNCHANGED <<deployments, pods, running, applied, retired, calm, ops, failures>>

WriteNodes(n) ==
    /\ At(n, "writeNodes")
    /\ nodes' = handler[n].nodes
    /\ Goto(n, "answer")
    /\ UNCHANGED <<deployments, pods, running, applied, retired, calm, ops, failures>>

\* A plausible slip: what the request read stays behind in the handler.
AnswerKeeps(n) ==
    /\ At(n, "answer")
    /\ running' = [running EXCEPT ![n] = {p \in DOMAIN handler[n].pods : handler[n].pods[p] = n}]
    /\ Goto(n, "idle")
    /\ UNCHANGED <<deployments, nodes, pods, applied, retired, calm, ops, failures>>

\* The orders reach the kubelet, which starts what it is assigned and stops the rest.
Answer(n) ==
    /\ At(n, "answer")
    /\ running' = [running EXCEPT ![n] = {p \in DOMAIN handler[n].pods : handler[n].pods[p] = n}]
    /\ Step(n, Idle)
    /\ UNCHANGED <<deployments, nodes, pods, applied, retired, calm, ops, failures>>

Heartbeat(n) == \/ ReadNodes(n) \/ ReadPods(n) \/ ReadDeployments(n) \/ ClearPods(n)
                \/ WritePods(n) \/ ClearNodes(n) \/ WriteNodes(n) \/ Answer(n)

-----------------------------------------------------------------------------
(* apply, scale and delete                                                     *)

\* A plausible slip: the tab is rewritten from the request alone.
RewriteRequestOnly(verb, name, deps) == IF verb = "delete" THEN deps \ {name} ELSE {name}

Rewritten(verb, name, deps) == IF verb = "delete" THEN deps \ {name} ELSE deps \cup {name}

\* Read the Deployments tab; a delete or scale that does not find its row ends here.
Read(c) ==
    /\ Begins(c) /\ ops < MaxOps
    /\ \E verb \in {"apply", "scale", "delete"}, name \in Name :
        /\ Step(c, IF verb # "apply" /\ name \notin deployments THEN Idle
                   ELSE [Idle EXCEPT !.pc = "clear", !.verb = verb, !.name = name,
                                     !.deps = Rewritten(verb, name, deployments)])
        /\ applied' = IF verb = "delete" THEN applied \ {name} ELSE applied
        /\ retired' = IF verb = "delete" THEN retired \cup {name} ELSE retired
    /\ ops' = ops + 1
    /\ UNCHANGED <<deployments, nodes, pods, running, failures>>

Clear(c) ==
    /\ At(c, "clear")
    /\ deployments' = {}
    /\ Goto(c, "update")
    /\ UNCHANGED <<nodes, pods, running, applied, retired, calm, ops, failures>>

\* Write the tab and answer.  A name that is being deleted meanwhile is not promised.
Update(c) ==
    LET deleting == {handler[d].name : d \in {x \in Operator : handler[x].verb = "delete"}}
    IN  /\ At(c, "update")
        /\ deployments' = handler[c].deps
        /\ applied' = IF handler[c].verb = "apply"
                      THEN applied \cup ({handler[c].name} \ deleting) ELSE applied
        /\ Step(c, Idle)
        /\ UNCHANGED <<nodes, pods, running, retired, calm, ops, failures>>

\* A call to the Sheets API fails: the exception ends the request, nothing is undone.
Fail(c) ==
    /\ handler[c].pc \notin {"idle", "answer"} /\ failures < MaxFailures
    /\ failures' = failures + 1
    /\ calm' = FALSE
    /\ Step(c, Idle)
    /\ UNCHANGED <<deployments, nodes, pods, running, applied, retired, ops>>

Next == \/ \E n \in Node : Heartbeat(n)
        \/ \E c \in Operator : Read(c) \/ Clear(c) \/ Update(c)
        \/ \E c \in Client : Fail(c)

Spec == Init /\ [][Next]_vars

\* Every request that has begun goes on, and every kubelet heartbeats again and again.
FairSpec == /\ Spec
            /\ \A n \in Node : WF_vars(Heartbeat(n))
            /\ \A c \in Operator : WF_vars(Clear(c) \/ Update(c))

-----------------------------------------------------------------------------
(* Properties.                                                                 *)

\* Requests in progress are well-formed and leave nothing behind for the next one.
TypeOK ==
    /\ deployments \subseteq Name /\ nodes \subseteq Node
    /\ applied \subseteq Name /\ retired \subseteq Name
    /\ DOMAIN pods \subseteq Name
    /\ \A p \in DOMAIN pods : pods[p] \in Node \cup {NoNode}
    /\ \A n \in Node : running[n] \subseteq Name
    /\ \A c \in Client : handler[c].pc = "idle" => handler[c] = Idle

Rewriting == \E c \in Operator : At(c, "update")

\* As long as no two requests overlap and no call fails, a deployment that was applied,
\* with an answer, and that nobody asked to delete is in the tab, and ...
AppliedStays == calm /\ ~Rewriting => applied \subseteq deployments

\* ... nobody stops the pod of a deployment that was never to go: not a rewrite of the tab
\* for another deployment, nor a heartbeat of another node.  (A name deleted and applied
\* again may land elsewhere while the node it left still runs the old pod.)
RunningPodsStay == [][calm =>
    \A n \in Node : (running[n] \cap applied) \ retired \subseteq running'[n]]_vars

\* However requests overlap or fail, once the operators are done the Pods tab shows again
\* and again exactly the deployments of the Deployments tab.
PodsFollow == []<>(DOMAIN pods = deployments)

=============================================================================
