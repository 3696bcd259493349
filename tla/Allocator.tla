----------------------------- MODULE Allocator -----------------------------
(***************************************************************************)
(* What a scheduling pass is for: one after the other, in whatever order,  *)
(* some of the pods get a node that may host them, has room for them next  *)
(* to the pods it holds already, and host ports none of these has.  A pod  *)
(* that has a place keeps it.  Nothing is said of totals, of the loops, or *)
(* of which node is preferred; SchedulePass implements this.               *)
(***************************************************************************)
EXTENDS Placement, Functions

VARIABLES
    input,      \* the arguments of the pass, whatever they are
    node,       \* per slot, its node or NoNode
    ports       \* per slot, its published mapping

avars == <<input, node, ports>>

Init ==
    /\ node = [s \in DOMAIN input.slots |-> NoNode]
    /\ ports = [s \in DOMAIN input.slots |-> <<>>]

On(n) == {s \in DOMAIN input.slots : node[s] = n}

\* The node is live, not drained, matches the pod, and is open or the one it runs on.
MayHost(n, s) ==
    /\ n \in Keepable(input)
    /\ Matches(input.nodes[n], input.slots[s])
    /\ input.nodes[n].schedulable \/ n = input.slots[s].prev

\* Counted from the pods on the node and not from totals.
HasRoom(n, s) ==
    /\ SumFunctionOnSet([t \in DOMAIN input.slots |-> input.slots[t].cpu], On(n) \cup {s})
         <= input.nodes[n].cpu
    /\ SumFunctionOnSet([t \in DOMAIN input.slots |-> input.slots[t].mem], On(n) \cup {s})
         <= input.nodes[n].mem

\* A mapping per spec: the requested host port, or one of the range nobody asks for.
Answers(m, spec) ==
    /\ m.cont = spec.cont /\ m.proto = spec.proto
    /\ IF spec.host = AnyHost THEN /\ m.host \in PortLo..PortHi
                                   /\ <<m.host, m.proto>> \notin input.fixed
                              ELSE m.host = spec.host

MayBind(n, s, m) ==
    /\ Len(m) = Len(input.slots[s].specs)
    /\ \A k \in DOMAIN m : Answers(m[k], input.slots[s].specs[k])
    /\ \A j, k \in DOMAIN m : j # k => m[j].host # m[k].host \/ m[j].proto # m[k].proto
    /\ \A t \in On(n) : Claims(m) \cap Claims(ports[t]) = {}

Place(s, n) ==
    /\ node[s] = NoNode
    /\ MayHost(n, s) /\ HasRoom(n, s) /\ MayBind(n, s, ports'[s])
    /\ node' = [node EXCEPT ![s] = n]
    /\ ports' = [ports EXCEPT ![s] = ports'[s]]
    /\ UNCHANGED input

Next == \E s \in DOMAIN input.slots : \E n \in DOMAIN input.nodes : Place(s, n)

Spec == Init /\ [][Next]_avars
=============================================================================
