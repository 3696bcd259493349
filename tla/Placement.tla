----------------------------- MODULE Placement -----------------------------
(***************************************************************************)
(* The decisions schedule() in apiserver.py takes for one pod: may it stay *)
(* on its node, where else may it go, which host ports does it get, and    *)
(* what the placement charges to the node.  A pass (SchedulePass, and      *)
(* Schedule of module Scheduler) is a sequence of these decisions.         *)
(*                                                                         *)
(* An input of a pass is a record                                          *)
(*   slots    sequence of slots, one per replica, in Deployment-row order  *)
(*   nodes    function from the names in the Nodes tab to their row        *)
(*   exclude  nodes being drained                                          *)
(*   fixed    the <<host port, proto>> some Deployment asks for explicitly *)
(* and an allocation is a record                                           *)
(*   load     per node, the cpu and memory charged so far                  *)
(*   bound    per node, the <<host port, proto>> claimed so far            *)
(*   node     per slot, its node or NoNode                                 *)
(*   ports    per slot, its published mapping                              *)
(***************************************************************************)
EXTENDS Integers, Sequences

CONSTANTS
    Node,       \* node names
    NoNode,     \* the empty node cell: not placed
    HostPort,   \* host ports that can be named or assigned
    PortLo,     \* NODEPORT_RANGE, lower bound
    PortHi,     \* NODEPORT_RANGE, upper bound
    AnyHost,    \* the host of a port spec that leaves the choice to the scheduler
    Proto       \* protocols

ASSUME NoNodeAssumption == NoNode \notin Node
ASSUME PortAssumption == /\ HostPort \subseteq Nat
                         /\ PortLo \in Nat /\ PortHi \in Nat
                         /\ PortLo..PortHi \subseteq HostPort
                         /\ AnyHost \notin HostPort

\* A published mapping "host:container/proto", and a spec that may leave host open.
Mapping == [host : HostPort, cont : Nat, proto : Proto]
PortSpec == [host : HostPort \cup {AnyHost}, cont : Nat, proto : Proto]

\* The (host port, protocol) pairs a mapping binds on its node.
Claims(ports) == {<<ports[k].host, ports[k].proto>> : k \in DOMAIN ports}

-----------------------------------------------------------------------------
(* Affinity and taints.  A label is a pair <<key, value>>, a selector a set of *)
(* labels; a toleration is <<key>> or <<key, value>>.                          *)

Tolerates(tolerations, taints) ==
    \A t \in taints : t.effect = "NoSchedule" =>
        <<t.key>> \in tolerations \/ <<t.key, t.value>> \in tolerations

Matches(row, slot) ==
    /\ slot.selector \subseteq row.labels
    /\ Tolerates(slot.tolerations, row.taints)

\* A plausible slip: a node that went silent keeps its pods.
KeepableStale(input) == DOMAIN input.nodes \ input.exclude

Keepable(input) == {n \in DOMAIN input.nodes : input.nodes[n].fresh} \ input.exclude

\* A plausible slip: a cordoned node still takes new pods.
PlaceableIgnoringCordon(input, slot) ==
    {n \in Keepable(input) : Matches(input.nodes[n], slot)}

Placeable(input, slot) ==
    {n \in Keepable(input) : /\ input.nodes[n].schedulable
                             /\ Matches(input.nodes[n], slot)}

\* A plausible slip: memory is not counted.
FitsCpuOnly(input, alloc, n, slot) ==
    alloc.load[n].cpu + slot.cpu <= input.nodes[n].cpu

Fits(input, alloc, n, slot) ==
    /\ alloc.load[n].cpu + slot.cpu <= input.nodes[n].cpu
    /\ alloc.load[n].mem + slot.mem <= input.nodes[n].mem

-----------------------------------------------------------------------------
(* Host ports.  bind_ports walks the specs in order; each takes one host port, *)
(* or the whole binding fails.                                                 *)

\* {h: the last previous mapping of this container port was on host h}: at most one.
PrevHost(prevPorts, spec) ==
    LET same == {k \in DOMAIN prevPorts : /\ prevPorts[k].cont = spec.cont
                                          /\ prevPorts[k].proto = spec.proto}
    IN  {prevPorts[k].host : k \in {k \in same : \A j \in same : j <= k}}

\* A plausible slip: ports reserved by fixed requests are handed out.
FreeHostsIgnoringFixed(proto, taken, fixed) ==
    {h \in PortLo..PortHi : <<h, proto>> \notin taken}

FreeHosts(proto, taken, fixed) ==
    {h \in PortLo..PortHi : <<h, proto>> \notin taken \cup fixed}

\* A plausible slip: the previous port is forgotten.
HostsForUnsticky(spec, prevPorts, taken, fixed) ==
    IF spec.host # AnyHost
    THEN {spec.host} \ {h \in HostPort : <<h, spec.proto>> \in taken}
    ELSE LET free == FreeHosts(spec.proto, taken, fixed)
         IN  {h \in free : \A x \in free : h <= x}

\* The host port a spec gets, as a set: empty when there is none.
HostsFor(spec, prevPorts, taken, fixed) ==
    IF spec.host # AnyHost
    THEN {spec.host} \ {h \in HostPort : <<h, spec.proto>> \in taken}
    ELSE LET free == FreeHosts(spec.proto, taken, fixed)
             kept == PrevHost(prevPorts, spec) \cap free
         IN  IF kept # {} THEN kept ELSE {h \in free : \A x \in free : h <= x}

\* What spec k may not take: the node's ports and those of the specs before it.
TakenBefore(used, specs, hosts, k) ==
    used \cup {<<hosts[j], specs[j].proto>> : j \in 1..(k-1)}

\* bind_ports: the mapping for the specs, as a set: empty when it returns None.
Bindings(specs, prevPorts, used, fixed) ==
    LET chosen == {hosts \in [DOMAIN specs -> HostPort] : \A k \in DOMAIN specs :
                     hosts[k] \in HostsFor(specs[k], prevPorts,
                                           TakenBefore(used, specs, hosts, k), fixed)}
    IN  {[k \in DOMAIN specs |-> [host |-> hosts[k], cont |-> specs[k].cont,
                                  proto |-> specs[k].proto]] : hosts \in chosen}

BindingsOn(input, alloc, n, slot, prevPorts) ==
    Bindings(slot.specs, prevPorts, alloc.bound[n], input.fixed)

-----------------------------------------------------------------------------
(* One placement decision.                                                     *)

\* A plausible slip: only live nodes get an entry.
EmptyAllocationOfFresh(input) ==
    LET fresh == {n \in DOMAIN input.nodes : input.nodes[n].fresh} IN
    [load  |-> [n \in fresh |-> [cpu |-> 0, mem |-> 0]],
     bound |-> [n \in fresh |-> {}],
     node  |-> [i \in DOMAIN input.slots |-> NoNode],
     ports |-> [i \in DOMAIN input.slots |-> <<>>]]

EmptyAllocation(input) ==
    [load  |-> [n \in DOMAIN input.nodes |-> [cpu |-> 0, mem |-> 0]],
     bound |-> [n \in DOMAIN input.nodes |-> {}],
     node  |-> [i \in DOMAIN input.slots |-> NoNode],
     ports |-> [i \in DOMAIN input.slots |-> <<>>]]

\* A plausible slip: the ports a pod took are not recorded on its node.
TakeUnbound(input, alloc, i, n, ports) ==
    LET slot == input.slots[i] IN
    [load  |-> [alloc.load EXCEPT ![n] = [cpu |-> alloc.load[n].cpu + slot.cpu,
                                          mem |-> alloc.load[n].mem + slot.mem]],
     bound |-> alloc.bound,
     node  |-> [alloc.node EXCEPT ![i] = n],
     ports |-> [alloc.ports EXCEPT ![i] = ports]]

\* take(): slot i lands on node n with these ports.
Take(input, alloc, i, n, ports) ==
    LET slot == input.slots[i] IN
    [load  |-> [alloc.load EXCEPT ![n] = [cpu |-> alloc.load[n].cpu + slot.cpu,
                                          mem |-> alloc.load[n].mem + slot.mem]],
     bound |-> [alloc.bound EXCEPT ![n] = alloc.bound[n] \cup Claims(ports)],
     node  |-> [alloc.node EXCEPT ![i] = n],
     ports |-> [alloc.ports EXCEPT ![i] = ports]]

\* Phase 1: the pod can stay where it is.
CanStay(input, alloc, i) ==
    LET slot == input.slots[i] IN
    /\ slot.prev \in Keepable(input)
    /\ Matches(input.nodes[slot.prev], slot)
    /\ Fits(input, alloc, slot.prev, slot)
    /\ BindingsOn(input, alloc, slot.prev, slot, slot.prevPorts) # {}

StickyStep(input, alloc, i) ==
    LET slot == input.slots[i] IN
    IF CanStay(input, alloc, i)
    THEN Take(input, alloc, i, slot.prev,
              CHOOSE m \in BindingsOn(input, alloc, slot.prev, slot, slot.prevPorts) : TRUE)
    ELSE alloc

\* Phase 2: the nodes that could take the pod, and among them the one with the most
\* free cpu, the earliest row on a tie.
Candidates(input, alloc, i) ==
    LET slot == input.slots[i] IN
    {n \in Placeable(input, slot) : /\ Fits(input, alloc, n, slot)
                                    /\ BindingsOn(input, alloc, n, slot, <<>>) # {}}

Best(input, alloc, cands) ==
    LET free(n) == input.nodes[n].cpu - alloc.load[n].cpu
    IN  {n \in cands : \A m \in cands \ {n} :
            \/ free(n) > free(m)
            \/ free(n) = free(m) /\ input.nodes[n].row < input.nodes[m].row}

\* A plausible slip: a pod that was kept is placed once more.
PlaceStepAgain(input, alloc, i) ==
    LET best == Best(input, alloc, Candidates(input, alloc, i))
        n    == CHOOSE n \in best : TRUE
    IN  IF best # {}
        THEN Take(input, alloc, i, n,
                  CHOOSE m \in BindingsOn(input, alloc, n, input.slots[i], <<>>) : TRUE)
        ELSE alloc

PlaceStep(input, alloc, i) ==
    LET best == Best(input, alloc, Candidates(input, alloc, i))
        n    == CHOOSE n \in best : TRUE
    IN  IF alloc.node[i] = NoNode /\ best # {}
        THEN Take(input, alloc, i, n,
                  CHOOSE m \in BindingsOn(input, alloc, n, input.slots[i], <<>>) : TRUE)
        ELSE alloc
=============================================================================
