----------------------------- MODULE Scheduler -----------------------------
(***************************************************************************)
(* schedule() of apiserver.py as a function: the slots it builds from the  *)
(* Deployments and Pods tabs, and the two walks over them.                 *)
(*                                                                         *)
(* A deployment is a record [name, image, replicas, cpu, mem, specs,       *)
(* selector, tolerations]; a pod is a pair <<deployment name, replica>>;   *)
(* existing is a function from the pods in the Pods tab to their rows, of  *)
(* which a pass reads node and ports.                                      *)
(***************************************************************************)
EXTENDS Placement, SequencesExt

Deployment == [name : STRING, image : STRING, replicas : Nat, cpu : Nat, mem : Nat,
               specs : Seq(PortSpec), selector : SUBSET (STRING \X STRING),
               tolerations : SUBSET Seq(STRING)]
Slot == [pod : STRING \X Nat, cpu : Nat, mem : Nat, specs : Seq(PortSpec),
         selector : SUBSET (STRING \X STRING), tolerations : SUBSET Seq(STRING),
         prev : Node \cup {NoNode}, prevPorts : Seq(Mapping)]
Taint == [key : STRING, value : STRING, effect : STRING]
NodeRow == [row : Nat, cpu : Nat, mem : Nat, fresh : BOOLEAN, schedulable : BOOLEAN,
            labels : SUBSET (STRING \X STRING), taints : SUBSET Taint]

IsInput(in) ==
    /\ in = [slots |-> in.slots, nodes |-> in.nodes, exclude |-> in.exclude, fixed |-> in.fixed]
    /\ in.slots \in Seq(Slot)
    /\ DOMAIN in.nodes \subseteq Node
    /\ in.nodes \in [DOMAIN in.nodes -> NodeRow]
    /\ in.exclude \subseteq Node
    /\ in.fixed \subseteq HostPort \X Proto

-----------------------------------------------------------------------------
Row(existing, pod) ==
    IF pod \in DOMAIN existing THEN existing[pod] ELSE [node |-> NoNode, ports |-> <<>>]

\* One slot per replica.
SlotsOf(dep, existing) ==
    [r \in 1..dep.replicas |->
        [pod |-> <<dep.name, r>>, cpu |-> dep.cpu, mem |-> dep.mem, specs |-> dep.specs,
         selector |-> dep.selector, tolerations |-> dep.tolerations,
         prev |-> Row(existing, <<dep.name, r>>).node,
         prevPorts |-> Row(existing, <<dep.name, r>>).ports]]

Slots(deployments, existing) ==
    FlattenSeq([d \in DOMAIN deployments |-> SlotsOf(deployments[d], existing)])

FixedPorts(specs) == {<<s.host, s.proto>> : s \in {t \in ToSet(specs) : t.host # AnyHost}}

\* The host ports some Deployment asks for, even one scaled to zero.
FixedAnywhere(deployments) == UNION {FixedPorts(deployments[d].specs) : d \in DOMAIN deployments}

PassInput(deployments, existing, nodes, exclude) ==
    [slots |-> Slots(deployments, existing), nodes |-> nodes, exclude |-> exclude,
     fixed |-> FixedAnywhere(deployments)]

\* Two walks over the slots: the allocation after the k-th decision.
Schedule(input) ==
    LET n == Len(input.slots)
        after[k \in 0..2 * n] ==
            IF k = 0 THEN EmptyAllocation(input)
            ELSE IF k <= n THEN StickyStep(input, after[k - 1], k)
            ELSE PlaceStep(input, after[k - 1], k - n)
    IN  after[2 * n]
=============================================================================
