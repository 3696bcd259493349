--------------------------- MODULE SchedulePass ---------------------------
(***************************************************************************)
(* One pass of schedule() in apiserver.py, step by step: the slots are     *)
(* walked once to keep the pods that can stay on their node and once more  *)
(* to place the others.  The state is what the loops read and write; the   *)
(* properties say what a pass promises to the pods and to the nodes.       *)
(***************************************************************************)
EXTENDS Scheduler

CONSTANT Inputs     \* the inputs a pass may start from

VARIABLES
    input,      \* the arguments of the pass
    phase,      \* "sticky", "place" or "done"
    i,          \* the slot the current loop is at
    alloc       \* what has been placed so far

passVars == <<input, phase, i, alloc>>

ASSUME InputsAssumption == \A in \in Inputs : IsInput(in)

\* The Nodes tab has finitely many rows, each its own; fixed_anywhere has what any slot asks for.
ASSUME TabsAssumption == \A in \in Inputs :
    /\ IsFiniteSet(DOMAIN in.nodes)
    /\ \A m, n \in DOMAIN in.nodes : m # n => in.nodes[m].row # in.nodes[n].row
    /\ \A s \in DOMAIN in.slots : FixedPorts(in.slots[s].specs) \subseteq in.fixed

-----------------------------------------------------------------------------
PassInit ==
    /\ input \in Inputs
    /\ phase = "sticky"
    /\ i = 1
    /\ alloc = EmptyAllocation(input)

\* A plausible slip: one loop, so an early newcomer is served before a later running pod.
KeepOrPlace ==
    /\ phase = "sticky"
    /\ i <= Len(input.slots)
    /\ alloc' = PlaceStep(input, StickyStep(input, alloc, i), i)
    /\ i' = i + 1
    /\ UNCHANGED <<input, phase>>

Keep ==
    /\ phase = "sticky"
    /\ i <= Len(input.slots)
    /\ alloc' = StickyStep(input, alloc, i)
    /\ i' = i + 1
    /\ UNCHANGED <<input, phase>>

StartPlacing ==
    /\ phase = "sticky"
    /\ i > Len(input.slots)
    /\ phase' = "place"
    /\ i' = 1
    /\ UNCHANGED <<input, alloc>>

Place ==
    /\ phase = "place"
    /\ i <= Len(input.slots)
    /\ alloc' = PlaceStep(input, alloc, i)
    /\ i' = i + 1
    /\ UNCHANGED <<input, phase>>

Finish ==
    /\ phase = "place"
    /\ i > Len(input.slots)
    /\ phase' = "done"
    /\ UNCHANGED <<input, i, alloc>>

PassNext == Keep \/ StartPlacing \/ Place \/ Finish

PassSpec == PassInit /\ [][PassNext]_passVars

-----------------------------------------------------------------------------
(* Properties.                                                                 *)

AllocationOK ==
    /\ alloc = [load |-> alloc.load, bound |-> alloc.bound,
                node |-> alloc.node, ports |-> alloc.ports]
    /\ alloc.load \in [DOMAIN input.nodes -> [cpu : Nat, mem : Nat]]
    /\ alloc.bound \in [DOMAIN input.nodes -> SUBSET (HostPort \X Proto)]
    /\ alloc.node \in [DOMAIN input.slots -> DOMAIN input.nodes \cup {NoNode}]
    /\ alloc.ports \in [DOMAIN input.slots -> Seq(Mapping)]

\* The loops stay inside the slot list, and every slot and node has its entry.
PassTypeOK ==
    /\ IsInput(input)
    /\ phase \in {"sticky", "place", "done"}
    /\ i \in 1..(Len(input.slots) + 1)
    /\ AllocationOK

Cpus == [s \in DOMAIN input.slots |-> input.slots[s].cpu]
Mems == [s \in DOMAIN input.slots |-> input.slots[s].mem]
PlacedOn(n) == {s \in DOMAIN input.slots : alloc.node[s] = n}

\* The pods placed on a node fit it, counted from the pods themselves and not from the
\* running totals: no node is ever promised more cpu or memory than it reported.
CapacityRespected == \A n \in DOMAIN input.nodes :
    /\ SumFunctionOnSet(Cpus, PlacedOn(n)) <= input.nodes[n].cpu
    /\ SumFunctionOnSet(Mems, PlacedOn(n)) <= input.nodes[n].mem

\* "The scheduler never places two pods that bind the same host port and protocol on one
\* node", and a pod never binds the same one twice: docker could start neither.
HostPortsExclusive ==
    /\ \A s, t \in DOMAIN input.slots : s # t /\ alloc.node[s] = alloc.node[t] =>
           Claims(alloc.ports[s]) \cap Claims(alloc.ports[t]) = {}
    /\ \A s \in DOMAIN input.slots : \A j, k \in DOMAIN alloc.ports[s] : j # k =>
           \/ alloc.ports[s][j].host # alloc.ports[s][k].host
           \/ alloc.ports[s][j].proto # alloc.ports[s][k].proto

\* A placed pod has one mapping per spec, in order: the host port it asked for, or one
\* of the NODEPORT_RANGE that no Deployment asks for.
PortsAsRequested == \A s \in DOMAIN input.slots : alloc.node[s] # NoNode =>
    LET specs == input.slots[s].specs
        ports == alloc.ports[s]
    IN  /\ Len(ports) = Len(specs)
        /\ \A k \in DOMAIN specs :
             /\ ports[k].cont = specs[k].cont /\ ports[k].proto = specs[k].proto
             /\ IF specs[k].host = AnyHost
                THEN /\ ports[k].host \in PortLo..PortHi
                     /\ <<ports[k].host, ports[k].proto>> \notin input.fixed
                ELSE ports[k].host = specs[k].host

\* A pod only lands on a live node that is not being drained, carries the labels it
\* selects and no taint it does not tolerate; a cordoned node keeps the pods it has and
\* gets no others.
PlacementLegal == \A s \in DOMAIN input.slots : alloc.node[s] # NoNode =>
    LET row == input.nodes[alloc.node[s]] IN
    /\ row.fresh /\ alloc.node[s] \notin input.exclude
    /\ Matches(row, input.slots[s])
    /\ row.schedulable \/ alloc.node[s] = input.slots[s].prev

\* "Running pods win over newcomers": a pod that could stay on its node and does not
\* stay was pushed out by pods that themselves stayed there, never by a newcomer.
RunningPodsWin ==
    LET kept(n) == {s \in PlacedOn(n) : input.slots[s].prev = n}
        keptOnly(n) ==
            [load  |-> [m \in {n} |-> [cpu |-> SumFunctionOnSet(Cpus, kept(n)),
                                       mem |-> SumFunctionOnSet(Mems, kept(n))]],
             bound |-> [m \in {n} |-> UNION {Claims(alloc.ports[s]) : s \in kept(n)}]]
    IN  phase # "sticky" => \A s \in DOMAIN input.slots :
            LET prev == input.slots[s].prev IN
            prev \in Keepable(input) /\ alloc.node[s] # prev => ~CanStay(input, keptOnly(prev), s)

DistinctContainerPorts == \A s \in DOMAIN input.slots :
    LET specs == input.slots[s].specs
    IN  \A j, k \in DOMAIN specs : j # k => \/ specs[j].cont # specs[k].cont
                                            \/ specs[j].proto # specs[k].proto

\* A second pass over the result of the first moves no pod and changes no port: the
\* spec_hash of every order is stable, so no kubelet recreates a container because of a
\* heartbeat.  (A pod publishing one container port twice is outside this promise.)
RescheduleIsStable ==
    LET again == [input EXCEPT !.slots = [s \in DOMAIN input.slots |->
                     [input.slots[s] EXCEPT !.prev = alloc.node[s], !.prevPorts = alloc.ports[s]]]]
        result == Schedule(again)
    IN  phase = "done" /\ DistinctContainerPorts =>
            result.node = alloc.node /\ result.ports = alloc.ports

Allocation == INSTANCE Allocator WITH node <- alloc.node, ports <- alloc.ports

\* The pass, with its running totals, its two loops and its preferences, is an allocator:
\* every step places one more pod, legally as counted from the pods already placed, or
\* none; nothing is ever moved or taken back.
PlacesLegally == Allocation!Spec

\* README: "an assigned port stays with its pod across reschedules".  A pod that stays on
\* its node, asks for the same ports as before, and holds ports that are its own keeps them.
AssignedPortStays ==
    phase = "done" => \A s \in DOMAIN input.slots :
        LET slot == input.slots[s]
            hadTheseSpecs == /\ Len(slot.prevPorts) = Len(slot.specs)
                             /\ \A k \in DOMAIN slot.specs :
                                  /\ slot.prevPorts[k].cont = slot.specs[k].cont
                                  /\ slot.prevPorts[k].proto = slot.specs[k].proto
                                  /\ slot.specs[k].host = AnyHost
            owned == \A t \in DOMAIN input.slots \ {s} : input.slots[t].prev = slot.prev =>
                         Claims(input.slots[t].prevPorts) \cap Claims(slot.prevPorts) = {}
            unreserved == Claims(slot.prevPorts) \cap input.fixed = {}
        IN  /\ alloc.node[s] = slot.prev /\ alloc.node[s] # NoNode
            /\ hadTheseSpecs /\ owned /\ unreserved
            => alloc.ports[s] = slot.prevPorts
=============================================================================
