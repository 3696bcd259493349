---------------------------- MODULE ClusterProofs ----------------------------
(***************************************************************************)
(* Proofs about schedule() and about the cluster that lives by it, for     *)
(* every fleet, every list of deployments, every Pods tab and every port   *)
(* range.  First what one decision does to an allocation, hence what a     *)
(* whole pass returns; then the promises of module SchedulePass: the ports *)
(* and the placements, the totals of the nodes with the refinement of the  *)
(* Allocator, who is pushed out and who is left out, and the pass fed with *)
(* its own result; then module Cluster: what a reconcile writes and        *)
(* orders, and the invariants.                                             *)
(***************************************************************************)
EXTENDS Cluster, SchedulePass, Recursion

-----------------------------------------------------------------------------
(* Host ports of one pod.                                                      *)

\* A host port a spec may get is not taken; an automatic one is in the range and
\* reserved by no Deployment, a requested one is the one requested (bind_ports).
LEMMA HostsForSound ==
    ASSUME NEW spec \in PortSpec, NEW prevPorts \in Seq(Mapping),
           NEW taken \in SUBSET (HostPort \X Proto), NEW fixed \in SUBSET (HostPort \X Proto),
           NEW h \in HostsFor(spec, prevPorts, taken, fixed)
    PROVE  /\ h \in HostPort
           /\ <<h, spec.proto>> \notin taken
           /\ spec.host = AnyHost => h \in PortLo..PortHi /\ <<h, spec.proto>> \notin fixed
           /\ spec.host # AnyHost => h = spec.host
  BY PortAssumption DEF HostsFor, FreeHosts, PortSpec

BindingOK(specs, used, fixed, m) ==
    /\ m \in Seq(Mapping) /\ DOMAIN m = DOMAIN specs /\ Len(m) = Len(specs)
    /\ Claims(m) \in SUBSET (HostPort \X Proto)
    /\ Claims(m) \cap used = {}
    /\ \A j, k \in DOMAIN m : j # k => m[j].host # m[k].host \/ m[j].proto # m[k].proto
    /\ \A k \in DOMAIN specs :
         /\ m[k].cont = specs[k].cont /\ m[k].proto = specs[k].proto
         /\ IF specs[k].host = AnyHost
            THEN /\ m[k].host \in PortLo..PortHi
                 /\ <<m[k].host, m[k].proto>> \notin fixed
            ELSE m[k].host = specs[k].host

\* A binding has one mapping per spec, as requested, clashes with nothing bound on the
\* node and not with itself (bind_ports).
LEMMA BindingsSound ==
    ASSUME NEW specs \in Seq(PortSpec), NEW prevPorts \in Seq(Mapping),
           NEW used \in SUBSET (HostPort \X Proto), NEW fixed \in SUBSET (HostPort \X Proto),
           NEW m \in Bindings(specs, prevPorts, used, fixed)
    PROVE  BindingOK(specs, used, fixed, m)
<1> DEFINE Mapped(hosts) == [k \in DOMAIN specs |-> [host |-> hosts[k], cont |-> specs[k].cont,
                                                     proto |-> specs[k].proto]]
<1>1. PICK hosts \in [DOMAIN specs -> HostPort] :
          /\ m = Mapped(hosts)
          /\ \A k \in DOMAIN specs : hosts[k] \in HostsFor(specs[k], prevPorts,
                                        TakenBefore(used, specs, hosts, k), fixed)
  BY DEF Bindings
<1>2. DOMAIN specs = 1..Len(specs) /\ Len(specs) \in Nat
  OBVIOUS
<1>3. \A k \in DOMAIN specs : specs[k] \in PortSpec
  OBVIOUS
<1>4. \A k \in DOMAIN specs : TakenBefore(used, specs, hosts, k) \in SUBSET (HostPort \X Proto)
  <2> TAKE k \in DOMAIN specs
  <2>1. \A j \in 1..(k-1) : j \in DOMAIN specs
    BY <1>2
  <2>2. \A j \in 1..(k-1) : hosts[j] \in HostPort /\ specs[j].proto \in Proto
    BY <2>1, <1>3 DEF PortSpec
  <2> QED
    BY <2>2 DEF TakenBefore
<1>5. \A k \in DOMAIN specs :
          /\ <<hosts[k], specs[k].proto>> \notin TakenBefore(used, specs, hosts, k)
          /\ specs[k].host = AnyHost => /\ hosts[k] \in PortLo..PortHi
                                     /\ <<hosts[k], specs[k].proto>> \notin fixed
          /\ specs[k].host # AnyHost => hosts[k] = specs[k].host
  BY <1>1, <1>3, <1>4, HostsForSound
<1>6. m \in Seq(Mapping) /\ DOMAIN m = DOMAIN specs /\ Len(m) = Len(specs)
  <2>1. m \in [1..Len(specs) -> Mapping]
    BY <1>1, <1>2, <1>3 DEF Mapping, PortSpec
  <2> QED
    BY <2>1, <1>2
<1>7. \A k \in DOMAIN specs : /\ m[k].host = hosts[k] /\ m[k].cont = specs[k].cont
                              /\ m[k].proto = specs[k].proto
  BY <1>1
<1>8. Claims(m) \in SUBSET (HostPort \X Proto)
  <2>1. \A k \in DOMAIN m : m[k] \in Mapping
    BY <1>6
  <2>2. \A k \in DOMAIN m : m[k].host \in HostPort /\ m[k].proto \in Proto
    BY <2>1 DEF Mapping
  <2> QED
    BY <2>2 DEF Claims
<1>9. Claims(m) \cap used = {}
  BY <1>5, <1>6, <1>7 DEF Claims, TakenBefore
<1>10. \A j, k \in DOMAIN specs : j < k => hosts[j] # hosts[k] \/ specs[j].proto # specs[k].proto
  <2> SUFFICES ASSUME NEW j \in DOMAIN specs, NEW k \in DOMAIN specs, j < k,
                      hosts[j] = hosts[k], specs[j].proto = specs[k].proto
               PROVE  FALSE
    OBVIOUS
  <2>1. j \in 1..(k-1)
    BY <1>2
  <2>2. <<hosts[j], specs[j].proto>> \in TakenBefore(used, specs, hosts, k)
    BY <2>1 DEF TakenBefore
  <2> QED
    BY <2>2, <1>5
<1>11. \A j, k \in DOMAIN m : j # k => m[j].host # m[k].host \/ m[j].proto # m[k].proto
  <2> SUFFICES ASSUME NEW j \in DOMAIN specs, NEW k \in DOMAIN specs, j # k
               PROVE  m[j].host # m[k].host \/ m[j].proto # m[k].proto
    BY <1>6
  <2>1. j < k \/ k < j
    BY <1>2
  <2> QED
    BY <2>1, <1>7, <1>10
<1> QED
  BY <1>5, <1>6, <1>7, <1>8, <1>9, <1>11 DEF BindingOK
-----------------------------------------------------------------------------
(* An allocation that is sound for an input.  That the ports of different pods *)
(* do not clash is not kept by placing one more pod unless what the node has   *)
(* bound covers the claims of every pod already there.                         *)

Typed(in, a) ==
    /\ a = [load |-> a.load, bound |-> a.bound, node |-> a.node, ports |-> a.ports]
    /\ a.load \in [DOMAIN in.nodes -> [cpu : Nat, mem : Nat]]
    /\ a.bound \in [DOMAIN in.nodes -> SUBSET (HostPort \X Proto)]
    /\ a.node \in [DOMAIN in.slots -> DOMAIN in.nodes \cup {NoNode}]
    /\ a.ports \in [DOMAIN in.slots -> Seq(Mapping)]

Loads(in, a) == \A n \in DOMAIN in.nodes :
    a.load[n].cpu <= in.nodes[n].cpu /\ a.load[n].mem <= in.nodes[n].mem

Covers(in, a) == \A s \in DOMAIN in.slots :
    IF a.node[s] = NoNode THEN a.ports[s] = <<>>
                          ELSE Claims(a.ports[s]) \subseteq a.bound[a.node[s]]

Exclusive(in, a) ==
    /\ \A s, t \in DOMAIN in.slots : s # t /\ a.node[s] = a.node[t] =>
           Claims(a.ports[s]) \cap Claims(a.ports[t]) = {}
    /\ \A s \in DOMAIN in.slots : \A j, k \in DOMAIN a.ports[s] : j # k =>
           a.ports[s][j].host # a.ports[s][k].host \/ a.ports[s][j].proto # a.ports[s][k].proto

AnswersSpecs(in, a) == \A s \in DOMAIN in.slots : a.node[s] # NoNode =>
    /\ Len(a.ports[s]) = Len(in.slots[s].specs)
    /\ \A k \in DOMAIN in.slots[s].specs :
         /\ a.ports[s][k].cont = in.slots[s].specs[k].cont
         /\ a.ports[s][k].proto = in.slots[s].specs[k].proto
         /\ IF in.slots[s].specs[k].host = AnyHost
            THEN /\ a.ports[s][k].host \in PortLo..PortHi
                 /\ <<a.ports[s][k].host, a.ports[s][k].proto>> \notin in.fixed
            ELSE a.ports[s][k].host = in.slots[s].specs[k].host

Legal(in, a) == \A s \in DOMAIN in.slots : a.node[s] # NoNode =>
    /\ in.nodes[a.node[s]].fresh /\ a.node[s] \notin in.exclude
    /\ Matches(in.nodes[a.node[s]], in.slots[s])
    /\ in.nodes[a.node[s]].schedulable \/ a.node[s] = in.slots[s].prev

Sound(in, a) == /\ Typed(in, a) /\ Loads(in, a) /\ Covers(in, a)
                /\ Exclusive(in, a) /\ AnswersSpecs(in, a) /\ Legal(in, a)

\* The node may have the slot's pod.
Hosts(in, s, n) == /\ in.nodes[n].fresh /\ n \notin in.exclude
                   /\ Matches(in.nodes[n], in.slots[s])
                   /\ in.nodes[n].schedulable \/ n = in.slots[s].prev

\* What an input consists of.
LEMMA InputParts ==
    ASSUME NEW in, IsInput(in)
    PROVE  /\ in.slots \in Seq(Slot) /\ Len(in.slots) \in Nat
           /\ DOMAIN in.slots = 1..Len(in.slots)
           /\ in.fixed \in SUBSET (HostPort \X Proto)
           /\ \A n \in DOMAIN in.nodes : /\ n \in Node /\ n # NoNode /\ in.nodes[n] \in NodeRow
                                         /\ in.nodes[n].cpu \in Nat /\ in.nodes[n].mem \in Nat
           /\ \A s \in DOMAIN in.slots :
                  /\ in.slots[s] \in Slot /\ in.slots[s].specs \in Seq(PortSpec)
                  /\ in.slots[s].cpu \in Nat /\ in.slots[s].mem \in Nat
                  /\ in.slots[s].prevPorts \in Seq(Mapping)
<1>1. in.slots \in Seq(Slot) /\ Len(in.slots) \in Nat /\ DOMAIN in.slots = 1..Len(in.slots)
  BY DEF IsInput
<1>2. \A s \in DOMAIN in.slots : in.slots[s] \in Slot
  BY <1>1
<1>3. \A x \in Slot : x.specs \in Seq(PortSpec) /\ x.cpu \in Nat /\ x.mem \in Nat
                     /\ x.prevPorts \in Seq(Mapping)
  BY DEF Slot
<1>4. \A n \in DOMAIN in.nodes : n \in Node /\ n # NoNode /\ in.nodes[n] \in NodeRow
  BY NoNodeAssumption DEF IsInput
<1>5. \A x \in NodeRow : x.cpu \in Nat /\ x.mem \in Nat
  BY DEF NodeRow
<1>6. in.fixed \in SUBSET (HostPort \X Proto)
  BY DEF IsInput
<1> QED
  BY <1>1, <1>2, <1>3, <1>4, <1>5, <1>6

\* Placing slot s on a node that may have it and where it fits, with a binding found for it
\* there, keeps an allocation sound (take).
LEMMA TakeSound ==
    ASSUME NEW in, IsInput(in), NEW a, Sound(in, a),
           NEW s \in DOMAIN in.slots, NEW n \in DOMAIN in.nodes,
           NEW prevPorts \in Seq(Mapping),
           NEW m \in BindingsOn(in, a, n, in.slots[s], prevPorts),
           Hosts(in, s, n), Fits(in, a, n, in.slots[s]),
           NEW b, b = Take(in, a, s, n, m)
    PROVE  Sound(in, b)
<1> DEFINE slot == in.slots[s]
<1>1. /\ slot.specs \in Seq(PortSpec) /\ slot.cpu \in Nat /\ slot.mem \in Nat
      /\ n \in Node /\ n # NoNode /\ in.fixed \in SUBSET (HostPort \X Proto)
  BY InputParts
<1>3. /\ a.load \in [DOMAIN in.nodes -> [cpu : Nat, mem : Nat]]
      /\ a.bound \in [DOMAIN in.nodes -> SUBSET (HostPort \X Proto)]
      /\ a.node \in [DOMAIN in.slots -> DOMAIN in.nodes \cup {NoNode}]
      /\ a.ports \in [DOMAIN in.slots -> Seq(Mapping)]
  BY DEF Sound, Typed
<1>4. BindingOK(slot.specs, a.bound[n], in.fixed, m)
  <2>1. m \in Bindings(slot.specs, prevPorts, a.bound[n], in.fixed)
    BY DEF BindingsOn
  <2>2. a.bound[n] \in SUBSET (HostPort \X Proto)
    BY <1>3
  <2> QED
    BY <1>1, <2>1, <2>2, BindingsSound
<1>5. /\ b.load = [a.load EXCEPT ![n] = [cpu |-> a.load[n].cpu + slot.cpu,
                                          mem |-> a.load[n].mem + slot.mem]]
      /\ b.bound = [a.bound EXCEPT ![n] = a.bound[n] \cup Claims(m)]
      /\ b.node = [a.node EXCEPT ![s] = n]
      /\ b.ports = [a.ports EXCEPT ![s] = m]
      /\ b = [load |-> b.load, bound |-> b.bound, node |-> b.node, ports |-> b.ports]
  BY DEF Take
<1>6. Typed(in, b)
  <2>1. b.load \in [DOMAIN in.nodes -> [cpu : Nat, mem : Nat]]
    BY <1>1, <1>3, <1>5
  <2>2. b.bound \in [DOMAIN in.nodes -> SUBSET (HostPort \X Proto)]
    BY <1>3, <1>4, <1>5 DEF BindingOK
  <2>3. b.node \in [DOMAIN in.slots -> DOMAIN in.nodes \cup {NoNode}]
    BY <1>3, <1>5
  <2>4. b.ports \in [DOMAIN in.slots -> Seq(Mapping)]
    BY <1>3, <1>4, <1>5 DEF BindingOK
  <2> QED
    BY <1>5, <2>1, <2>2, <2>3, <2>4 DEF Typed
<1>7. \A t \in DOMAIN in.slots : t # s => b.node[t] = a.node[t] /\ b.ports[t] = a.ports[t]
  BY <1>3, <1>5
<1>8. b.node[s] = n /\ b.ports[s] = m
  BY <1>3, <1>5
<1>9. Loads(in, b)
  <2> SUFFICES ASSUME NEW x \in DOMAIN in.nodes
               PROVE  b.load[x].cpu <= in.nodes[x].cpu /\ b.load[x].mem <= in.nodes[x].mem
    BY DEF Loads
  <2>1. CASE x = n
    BY <2>1, <1>3, <1>5 DEF Fits
  <2>2. CASE x # n
    BY <2>2, <1>3, <1>5 DEF Sound, Loads
  <2> QED
    BY <2>1, <2>2
<1>10. Covers(in, b)
  <2> SUFFICES ASSUME NEW t \in DOMAIN in.slots
               PROVE  IF b.node[t] = NoNode THEN b.ports[t] = <<>>
                      ELSE Claims(b.ports[t]) \subseteq b.bound[b.node[t]]
    BY DEF Covers
  <2>1. CASE t = s
    BY <2>1, <1>1, <1>3, <1>5, <1>8
  <2>2. CASE t # s
    <3>1. IF a.node[t] = NoNode THEN a.ports[t] = <<>>
          ELSE Claims(a.ports[t]) \subseteq a.bound[a.node[t]]
      BY DEF Sound, Covers
    <3>2. \A x \in DOMAIN in.nodes : a.bound[x] \subseteq b.bound[x]
      BY <1>3, <1>5
    <3> QED
      BY <2>2, <3>1, <3>2, <1>3, <1>7
  <2> QED
    BY <2>1, <2>2
<1>11. Exclusive(in, b)
  <2>1. ASSUME NEW t \in DOMAIN in.slots, t # s, a.node[t] = n
        PROVE  Claims(m) \cap Claims(a.ports[t]) = {}
    <3>1. Claims(a.ports[t]) \subseteq a.bound[n]
      BY <2>1, <1>1 DEF Sound, Covers
    <3> QED
      BY <3>1, <1>4 DEF BindingOK
  <2>2. ASSUME NEW t \in DOMAIN in.slots, NEW u \in DOMAIN in.slots, t # u, b.node[t] = b.node[u]
        PROVE  Claims(b.ports[t]) \cap Claims(b.ports[u]) = {}
    <3>1. CASE t = s
      BY <3>1, <2>1, <2>2, <1>7, <1>8
    <3>2. CASE u = s
      BY <3>2, <2>1, <2>2, <1>7, <1>8
    <3>3. CASE t # s /\ u # s
      BY <3>3, <2>2, <1>7 DEF Sound, Exclusive
    <3> QED
      BY <3>1, <3>2, <3>3
  <2>3. ASSUME NEW t \in DOMAIN in.slots,
               NEW j \in DOMAIN b.ports[t], NEW k \in DOMAIN b.ports[t], j # k
        PROVE  b.ports[t][j].host # b.ports[t][k].host \/ b.ports[t][j].proto # b.ports[t][k].proto
    <3>1. CASE t = s
      BY <3>1, <2>3, <1>4, <1>8 DEF BindingOK
    <3>2. CASE t # s
      BY <3>2, <2>3, <1>7 DEF Sound, Exclusive
    <3> QED
      BY <3>1, <3>2
  <2> QED
    BY <2>2, <2>3 DEF Exclusive
<1>12. AnswersSpecs(in, b)
  <2> SUFFICES ASSUME NEW t \in DOMAIN in.slots, b.node[t] # NoNode
               PROVE  /\ Len(b.ports[t]) = Len(in.slots[t].specs)
                      /\ \A k \in DOMAIN in.slots[t].specs :
                           /\ b.ports[t][k].cont = in.slots[t].specs[k].cont
                           /\ b.ports[t][k].proto = in.slots[t].specs[k].proto
                           /\ IF in.slots[t].specs[k].host = AnyHost
                              THEN /\ b.ports[t][k].host \in PortLo..PortHi
                                   /\ <<b.ports[t][k].host, b.ports[t][k].proto>> \notin in.fixed
                              ELSE b.ports[t][k].host = in.slots[t].specs[k].host
    BY DEF AnswersSpecs
  <2>1. CASE t = s
    BY <2>1, <1>4, <1>8 DEF BindingOK
  <2>2. CASE t # s
    <3>1. a.node[t] # NoNode /\ b.ports[t] = a.ports[t]
      BY <2>2, <1>7
    <3>2. AnswersSpecs(in, a)
      BY DEF Sound
    <3> QED
      BY <3>1, <3>2, Zenon DEF AnswersSpecs
  <2> QED
    BY <2>1, <2>2
<1>13. Legal(in, b)
  <2> SUFFICES ASSUME NEW t \in DOMAIN in.slots, b.node[t] # NoNode
               PROVE  /\ in.nodes[b.node[t]].fresh /\ b.node[t] \notin in.exclude
                      /\ Matches(in.nodes[b.node[t]], in.slots[t])
                      /\ in.nodes[b.node[t]].schedulable \/ b.node[t] = in.slots[t].prev
    BY DEF Legal
  <2>1. CASE t = s
    BY <2>1, <1>8 DEF Hosts
  <2>2. CASE t # s
    BY <2>2, <1>7 DEF Sound, Legal
  <2> QED
    BY <2>1, <2>2
<1> QED
  BY <1>6, <1>9, <1>10, <1>11, <1>12, <1>13 DEF Sound

\* The empty allocation is sound.
LEMMA EmptySound == ASSUME NEW in, IsInput(in) PROVE Sound(in, EmptyAllocation(in))
<1> DEFINE a == EmptyAllocation(in)
<1>1. /\ a.load = [n \in DOMAIN in.nodes |-> [cpu |-> 0, mem |-> 0]]
      /\ a.bound = [n \in DOMAIN in.nodes |-> {}]
      /\ a.node = [s \in DOMAIN in.slots |-> NoNode]
      /\ a.ports = [s \in DOMAIN in.slots |-> <<>>]
      /\ a = [load |-> a.load, bound |-> a.bound, node |-> a.node, ports |-> a.ports]
  BY DEF EmptyAllocation
<1>2. <<>> \in Seq(Mapping)
  OBVIOUS
<1> HIDE DEF a
<1>3. Typed(in, a)
  BY <1>1, <1>2 DEF Typed
<1>4. Loads(in, a)
  BY <1>1, InputParts DEF Loads
<1>5. \A s \in DOMAIN in.slots : a.node[s] = NoNode /\ a.ports[s] = <<>> /\ DOMAIN a.ports[s] = {}
  BY <1>1
<1>6. \A s \in DOMAIN in.slots : Claims(a.ports[s]) = {}
  BY <1>5 DEF Claims
<1>7. Sound(in, a)
  BY <1>3, <1>4, <1>5, <1>6 DEF Sound, Covers, Exclusive, AnswersSpecs, Legal
<1> QED
  BY <1>7 DEF a

\* The first loop keeps the pod where CanStay says it may stay, or changes nothing.
LEMMA StickySound ==
    ASSUME NEW in, IsInput(in), NEW a, Sound(in, a), NEW s \in DOMAIN in.slots
    PROVE  Sound(in, StickyStep(in, a, s))
<1> DEFINE slot == in.slots[s]
           m == CHOOSE x \in BindingsOn(in, a, slot.prev, slot, slot.prevPorts) : TRUE
<1>1. CASE CanStay(in, a, s)
  <2>1. /\ slot.prev \in DOMAIN in.nodes /\ Hosts(in, s, slot.prev)
        /\ Fits(in, a, slot.prev, slot)
        /\ m \in BindingsOn(in, a, slot.prev, slot, slot.prevPorts)
    BY <1>1 DEF CanStay, Keepable, Hosts
  <2>2. StickyStep(in, a, s) = Take(in, a, s, slot.prev, m)
    BY <1>1 DEF StickyStep
  <2>3. slot.prevPorts \in Seq(Mapping)
    BY InputParts
  <2> HIDE DEF m
  <2> QED
    BY <2>1, <2>2, <2>3, TakeSound
<1>2. CASE ~CanStay(in, a, s)
  BY <1>2 DEF StickyStep
<1> QED
  BY <1>1, <1>2

\* What the second loop finds for a pod.
LEMMA BestIsCandidate ==
    ASSUME NEW in, NEW a, NEW s, NEW n \in Best(in, a, Candidates(in, a, s))
    PROVE  /\ n \in DOMAIN in.nodes /\ Hosts(in, s, n) /\ in.nodes[n].schedulable
           /\ Fits(in, a, n, in.slots[s])
           /\ BindingsOn(in, a, n, in.slots[s], <<>>) # {}
BY DEF Best, Candidates, Placeable, Keepable, Hosts

\* The second loop places a pod on one of its candidates, or changes nothing.
LEMMA PlaceSound ==
    ASSUME NEW in, IsInput(in), NEW a, Sound(in, a), NEW s \in DOMAIN in.slots
    PROVE  Sound(in, PlaceStep(in, a, s))
<1> DEFINE slot == in.slots[s]
           best == Best(in, a, Candidates(in, a, s))
           n == CHOOSE x \in best : TRUE
           m == CHOOSE x \in BindingsOn(in, a, n, slot, <<>>) : TRUE
<1>1. CASE a.node[s] = NoNode /\ best # {}
  <2>1. n \in best
    BY <1>1
  <2>2. PlaceStep(in, a, s) = Take(in, a, s, n, m)
    BY <1>1 DEF PlaceStep
  <2>3. n \in DOMAIN in.nodes /\ Hosts(in, s, n) /\ Fits(in, a, n, slot)
        /\ BindingsOn(in, a, n, slot, <<>>) # {}
    BY <2>1, BestIsCandidate
  <2>4. m \in BindingsOn(in, a, n, slot, <<>>)
    BY <2>3
  <2>5. <<>> \in Seq(Mapping)
    OBVIOUS
  <2> HIDE DEF n, m
  <2> QED
    BY <2>2, <2>3, <2>4, <2>5, TakeSound
<1>2. CASE ~(a.node[s] = NoNode /\ best # {})
  BY <1>2 DEF PlaceStep
<1> QED
  BY <1>1, <1>2

-----------------------------------------------------------------------------
(* The pass as a function: two loops over the slots.                           *)

Decision(in, k, a) == IF k = 0 THEN EmptyAllocation(in)
                      ELSE IF k <= Len(in.slots) THEN StickyStep(in, a, k)
                      ELSE PlaceStep(in, a, k - Len(in.slots))
Walks(in, f, top) == f = [k \in 0..top |-> Decision(in, k, f[k - 1])]

\* The decisions can be taken one after the other, and a pass returns what the last leaves.
LEMMA PassIsWalk ==
    ASSUME NEW in, IsInput(in)
    PROVE  \E f : Walks(in, f, 2 * Len(in.slots)) /\ Schedule(in) = f[2 * Len(in.slots)]
<1> DEFINE top == 2 * Len(in.slots)
           Q == {k \in 0..top : \E f : Walks(in, f, k)}
<1>1. top \in Nat
  BY InputParts
<1>2. 0 \in Q
  <2>1. Walks(in, [k \in 0..0 |-> EmptyAllocation(in)], 0)
    BY DEF Walks, Decision
  <2> QED
    BY <1>1, <2>1
<1>3. ASSUME NEW k \in 0..top, k - 1 \in Q, k > 0 PROVE k \in Q
  <2>1. PICK f : Walks(in, f, k - 1)
    BY <1>3
  <2> DEFINE h == [j \in 0..k |-> IF j = k THEN Decision(in, k, f[k - 1]) ELSE f[j]]
  <2>2. ASSUME NEW j \in 0..k PROVE h[j] = Decision(in, j, h[j - 1])
    <3>1. CASE j = k
      BY <3>1, <1>1, <1>3
    <3>2. CASE j # k /\ j > 0
      <4>1. j \in 0..(k - 1) /\ j - 1 \in 0..k /\ j - 1 # k
        BY <3>2, <1>1
      <4> QED
        BY <3>2, <4>1, <2>1 DEF Walks
    <3>3. CASE j = 0
      BY <3>3, <1>1, <1>3, <2>1 DEF Walks, Decision
    <3> QED
      BY <3>1, <3>2, <3>3, <1>1
  <2>3. Walks(in, h, k)
    BY <2>2 DEF Walks
  <2> QED
    BY <2>3
<1> HIDE DEF Q
<1>4. 0..top \subseteq Q
  BY <1>1, <1>2, <1>3, Climb
<1>5. \E f : Walks(in, f, top)
  BY <1>1, <1>4 DEF Q
<1>6. Schedule(in) = (CHOOSE f : Walks(in, f, top))[top]
  BY DEF Schedule, Walks, Decision
<1> QED
  BY <1>5, <1>6

\* What a pass returns is sound, whatever its input (schedule).
LEMMA ScheduleSound == ASSUME NEW in, IsInput(in) PROVE Sound(in, Schedule(in))
<1>1. PICK f : /\ Walks(in, f, 2 * Len(in.slots))
               /\ Schedule(in) = f[2 * Len(in.slots)]
  BY PassIsWalk
<1> DEFINE top == 2 * Len(in.slots)
           Q == {k \in 0..top : Sound(in, f[k])}
<1>2. Len(in.slots) \in Nat /\ top \in Nat /\ DOMAIN in.slots = 1..Len(in.slots)
  BY InputParts
<1>3. \A k \in 0..top : f[k] = Decision(in, k, f[k - 1])
  BY <1>1 DEF Walks
<1>4. 0 \in Q
  BY <1>2, <1>3, EmptySound DEF Decision
<1>5. ASSUME NEW k \in 0..top, k - 1 \in Q, k > 0 PROVE k \in Q
  <2>1. Sound(in, f[k - 1]) /\ f[k] = Decision(in, k, f[k - 1])
    BY <1>3, <1>5
  <2>2. CASE k <= Len(in.slots)
    BY <1>2, <1>5, <2>1, <2>2, StickySound DEF Decision
  <2>3. CASE ~(k <= Len(in.slots))
    <3>1. k - Len(in.slots) \in DOMAIN in.slots
      BY <1>2, <2>3
    <3> QED
      BY <1>2, <1>5, <2>1, <2>3, <3>1, PlaceSound DEF Decision
  <2> QED
    BY <2>2, <2>3
<1> HIDE DEF Q
<1>6. 0..top \subseteq Q
  BY <1>2, <1>4, <1>5, Climb
<1> QED
  BY <1>1, <1>2, <1>6 DEF Q

-----------------------------------------------------------------------------
(* Module SchedulePass: the pass step by step.                                 *)

PassInv == PassTypeOK /\ Sound(input, alloc)

\* A sound allocation keeps the promises of the pass.
LEMMA SoundKeepsPromises ==
    PassInv => AllocationOK /\ HostPortsExclusive /\ PortsAsRequested /\ PlacementLegal
<1> SUFFICES ASSUME PassInv
             PROVE  AllocationOK /\ HostPortsExclusive /\ PortsAsRequested /\ PlacementLegal
  OBVIOUS
<1>1. AllocationOK
  BY DEF PassInv, PassTypeOK
<1>2. HostPortsExclusive
  BY DEF PassInv, Sound, Exclusive, HostPortsExclusive
<1>3. PortsAsRequested
  <2>1. AnswersSpecs(input, alloc)
    BY DEF PassInv, Sound
  <2>2. ASSUME NEW s \in DOMAIN input.slots
        PROVE  Typed(input, alloc) /\ input.slots[s].specs \in Seq(PortSpec)
    BY InputParts DEF PassInv, PassTypeOK, Sound
  <2> QED
    BY <2>1, Zenon DEF AnswersSpecs, PortsAsRequested
<1>4. PlacementLegal
  BY DEF PassInv, Sound, Legal, PlacementLegal
<1> QED
  BY <1>1, <1>2, <1>3, <1>4

\* The pass starts from the sound empty allocation ...
LEMMA InitEstablishes == PassInit => PassInv
<1> SUFFICES ASSUME PassInit PROVE PassInv
  OBVIOUS
<1>1. IsInput(input) /\ alloc = EmptyAllocation(input)
  BY InputsAssumption DEF PassInit
<1>2. Sound(input, alloc)
  BY <1>1, EmptySound
<1>3. phase \in {"sticky", "place", "done"} /\ i \in 1..(Len(input.slots) + 1)
  BY <1>1, InputParts DEF PassInit
<1> QED
  BY <1>1, <1>2, <1>3 DEF PassInv, PassTypeOK, Sound, Typed, AllocationOK

\* ... and every step of it keeps the allocation sound.
LEMMA StepPreserves == PassInv /\ [PassNext]_passVars => PassInv'
<1> SUFFICES ASSUME PassInv, [PassNext]_passVars PROVE PassInv'
  OBVIOUS
<1>1. /\ IsInput(input) /\ Len(input.slots) \in Nat /\ DOMAIN input.slots = 1..Len(input.slots)
      /\ i \in 1..(Len(input.slots) + 1) /\ Sound(input, alloc)
      /\ phase \in {"sticky", "place", "done"}
  BY InputParts DEF PassInv, PassTypeOK
<1>2. /\ input' = input /\ phase' \in {"sticky", "place", "done"}
      /\ i' \in 1..(Len(input.slots) + 1)
  BY <1>1 DEF PassNext, Keep, Place, StartPlacing, Finish, passVars
<1>3. Sound(input, alloc')
  <2>1. CASE Keep
    BY <1>1, <2>1, StickySound DEF Keep
  <2>2. CASE Place
    BY <1>1, <2>2, PlaceSound DEF Place
  <2>3. CASE StartPlacing \/ Finish \/ UNCHANGED passVars
    BY <1>1, <2>3 DEF StartPlacing, Finish, passVars
  <2> QED
    BY <2>1, <2>2, <2>3 DEF PassNext
<1>4. Sound(input, alloc)'
  BY <1>2, <1>3
<1> QED
  BY <1>1, <1>2, <1>3, <1>4 DEF PassInv, PassTypeOK, Sound, Typed, AllocationOK

\* The invariant holds throughout every pass.
THEOREM PassInvariance == PassSpec => []PassInv
  BY InitEstablishes, StepPreserves, PTL DEF PassSpec

\* Every loop index, row and mapping of a pass is well-formed.
THEOREM PassTypes == PassSpec => []PassTypeOK
  BY PassInvariance, PTL DEF PassInv

\* No two pods on a node are given the same host port and protocol, whatever the ports
\* they held before and whatever the two phases decided (schedule, bind_ports, take).
THEOREM PortsAreExclusive == PassSpec => []HostPortsExclusive
  BY PassInvariance, SoundKeepsPromises, PTL

\* A pod's mapping answers its specs one by one, and no automatic port is one that some
\* Deployment asks for (bind_ports, fixed_anywhere).
THEOREM PortsAnswerSpecs == PassSpec => []PortsAsRequested
  BY PassInvariance, SoundKeepsPromises, PTL

\* No pod lands on a stale, drained, cordoned, unlabelled or tainted node, except that a
\* cordoned node keeps the pods it has (keepable, placeable, _matches).
THEOREM PlacementIsLegal == PassSpec => []PlacementLegal
  BY PassInvariance, SoundKeepsPromises, PTL

-----------------------------------------------------------------------------
(* The nodes' totals.                                                          *)

\* The load of a node is what its pods ask for; pods the first loop has yet to come to
\* have no place.
LoadIsSum == \A n \in DOMAIN input.nodes :
    /\ alloc.load[n].cpu = SumFunctionOnSet(Cpus, PlacedOn(n))
    /\ alloc.load[n].mem = SumFunctionOnSet(Mems, PlacedOn(n))

NotYetSeen == phase = "sticky" => \A s \in DOMAIN input.slots : s >= i => alloc.node[s] = NoNode

AllocatorInv == PassInv /\ LoadIsSum /\ CapacityRespected /\ NotYetSeen

\* What the sums are taken of.
LEMMA SummandsOK ==
    ASSUME PassInv
    PROVE  /\ Cpus \in [DOMAIN input.slots -> Int] /\ Mems \in [DOMAIN input.slots -> Int]
           /\ \A n : PlacedOn(n) \in SUBSET DOMAIN input.slots /\ IsFiniteSet(PlacedOn(n))
           /\ \A s \in DOMAIN input.slots : /\ Cpus[s] = input.slots[s].cpu
                                            /\ Mems[s] = input.slots[s].mem
<1>1. /\ input.slots \in Seq(Slot)
      /\ DOMAIN input.slots = 1..Len(input.slots) /\ Len(input.slots) \in Nat
  BY DEF PassInv, PassTypeOK, IsInput
<1>2. \A s \in DOMAIN input.slots : input.slots[s].cpu \in Int /\ input.slots[s].mem \in Int
  <2>1. \A s \in DOMAIN input.slots : input.slots[s] \in Slot
    BY <1>1
  <2>2. \A x \in Slot : x.cpu \in Int /\ x.mem \in Int
    BY DEF Slot
  <2> QED
    BY <2>1, <2>2
<1>3. IsFiniteSet(DOMAIN input.slots)
  BY <1>1, FS_Interval
<1>4. \A n : PlacedOn(n) \in SUBSET DOMAIN input.slots
  BY DEF PlacedOn
<1>5. \A n : IsFiniteSet(PlacedOn(n))
  BY <1>3, <1>4, FS_Subset
<1> QED
  BY <1>2, <1>4, <1>5 DEF Cpus, Mems

\* The allocator's sums are these sums.
LEMMA SameSums == \A f, S : Allocation!SumFunctionOnSet(f, S) = SumFunctionOnSet(f, S)
  BY DEF Allocation!SumFunctionOnSet, Allocation!FoldFunctionOnSet, Allocation!MapThenFoldSet,
         SumFunctionOnSet, FoldFunctionOnSet, MapThenFoldSet

\* Placing an unplaced pod on a node that may have it and where it fits is a step of the
\* allocator, and the totals stay sums (take).
LEMMA TakeAllocates ==
    ASSUME AllocatorInv,
           NEW s \in DOMAIN input.slots, NEW n \in DOMAIN input.nodes,
           NEW prevPorts \in Seq(Mapping),
           NEW m \in BindingsOn(input, alloc, n, input.slots[s], prevPorts),
           alloc.node[s] = NoNode,
           input.nodes[n].fresh, n \notin input.exclude,
           Matches(input.nodes[n], input.slots[s]),
           input.nodes[n].schedulable \/ n = input.slots[s].prev,
           Fits(input, alloc, n, input.slots[s]),
           alloc' = Take(input, alloc, s, n, m),
           input' = input
    PROVE  LoadIsSum' /\ CapacityRespected' /\ Allocation!Next
<1> DEFINE slot == input.slots[s]
<1>1. PassInv
  BY DEF AllocatorInv
<1>2. /\ input.slots \in Seq(Slot) /\ slot \in Slot
      /\ n \in Node /\ n # NoNode
      /\ input.fixed \in SUBSET (HostPort \X Proto)
  BY <1>1, NoNodeAssumption DEF PassInv, PassTypeOK, IsInput
<1>3. slot.specs \in Seq(PortSpec) /\ slot.cpu \in Nat /\ slot.mem \in Nat
  BY <1>2 DEF Slot
<1>4. /\ alloc.load \in [DOMAIN input.nodes -> [cpu : Nat, mem : Nat]]
      /\ alloc.bound \in [DOMAIN input.nodes -> SUBSET (HostPort \X Proto)]
      /\ alloc.node \in [DOMAIN input.slots -> DOMAIN input.nodes \cup {NoNode}]
      /\ alloc.ports \in [DOMAIN input.slots -> Seq(Mapping)]
  BY <1>1 DEF PassInv, PassTypeOK, AllocationOK
<1>5. /\ alloc'.load = [alloc.load EXCEPT ![n] = [cpu |-> alloc.load[n].cpu + slot.cpu,
                                                  mem |-> alloc.load[n].mem + slot.mem]]
      /\ alloc'.node = [alloc.node EXCEPT ![s] = n]
      /\ alloc'.ports = [alloc.ports EXCEPT ![s] = m]
  BY DEF Take
<1>6. BindingOK(slot.specs, alloc.bound[n], input.fixed, m)
  <2>1. m \in Bindings(slot.specs, prevPorts, alloc.bound[n], input.fixed)
    BY DEF BindingsOn
  <2>2. alloc.bound[n] \in SUBSET (HostPort \X Proto)
    BY <1>4
  <2> QED
    BY <1>2, <1>3, <2>1, <2>2, BindingsSound
<1>7. s \notin PlacedOn(n)
  BY <1>2 DEF PlacedOn
<1>8. PlacedOn(n)' = PlacedOn(n) \cup {s}
  BY <1>4, <1>5 DEF PlacedOn
<1>9. \A x \in DOMAIN input.nodes : x # n => PlacedOn(x)' = PlacedOn(x)
  <2> TAKE x \in DOMAIN input.nodes
  <2>1. x # NoNode
    BY <1>1, NoNodeAssumption DEF PassInv, PassTypeOK, IsInput
  <2> QED
    BY <1>4, <1>5, <2>1 DEF PlacedOn
<1>10. Cpus' = Cpus /\ Mems' = Mems
  BY DEF Cpus, Mems
<1>11. /\ SumFunctionOnSet(Cpus, PlacedOn(n) \cup {s}) = slot.cpu + alloc.load[n].cpu
       /\ SumFunctionOnSet(Mems, PlacedOn(n) \cup {s}) = slot.mem + alloc.load[n].mem
  <2>1. /\ SumFunctionOnSet(Cpus, PlacedOn(n) \cup {s})
             = Cpus[s] + SumFunctionOnSet(Cpus, PlacedOn(n))
        /\ SumFunctionOnSet(Mems, PlacedOn(n) \cup {s})
             = Mems[s] + SumFunctionOnSet(Mems, PlacedOn(n))
    <3>1. PlacedOn(n) \in SUBSET DOMAIN input.slots /\ IsFiniteSet(PlacedOn(n))
      BY <1>1, SummandsOK
    <3>2. \A f \in [DOMAIN input.slots -> Int] :
              SumFunctionOnSet(f, PlacedOn(n) \cup {s}) = f[s] + SumFunctionOnSet(f, PlacedOn(n))
      BY <1>7, <3>1, SumInsert
    <3> QED
      BY <1>1, <3>2, SummandsOK
  <2> QED
    BY <1>1, <2>1, SummandsOK DEF AllocatorInv, LoadIsSum
<1>12. LoadIsSum'
  <2> SUFFICES ASSUME NEW x \in DOMAIN input.nodes
               PROVE  /\ alloc'.load[x].cpu = SumFunctionOnSet(Cpus, PlacedOn(x)')
                      /\ alloc'.load[x].mem = SumFunctionOnSet(Mems, PlacedOn(x)')
    BY <1>10 DEF LoadIsSum
  <2>1. CASE x = n
    <3>1. alloc.load[n].cpu \in Nat /\ alloc.load[n].mem \in Nat
      BY <1>4
    <3>2. /\ alloc'.load[n].cpu = slot.cpu + alloc.load[n].cpu
          /\ alloc'.load[n].mem = slot.mem + alloc.load[n].mem
      BY <1>3, <1>4, <1>5, <3>1
    <3> QED
      BY <2>1, <3>2, <1>8, <1>11
  <2>2. CASE x # n
    <3>1. alloc'.load[x] = alloc.load[x]
      BY <2>2, <1>4, <1>5
    <3> QED
      BY <2>2, <3>1, <1>9 DEF AllocatorInv, LoadIsSum
  <2> QED
    BY <2>1, <2>2
<1>13. /\ slot.cpu + alloc.load[n].cpu <= input.nodes[n].cpu
       /\ slot.mem + alloc.load[n].mem <= input.nodes[n].mem
  <2>1. alloc.load[n].cpu \in Nat /\ alloc.load[n].mem \in Nat
    BY <1>4
  <2> QED
    BY <1>3, <2>1 DEF Fits
<1>14. CapacityRespected'
  <2> SUFFICES ASSUME NEW x \in DOMAIN input.nodes
               PROVE  /\ SumFunctionOnSet(Cpus, PlacedOn(x)') <= input.nodes[x].cpu
                      /\ SumFunctionOnSet(Mems, PlacedOn(x)') <= input.nodes[x].mem
    BY <1>10 DEF CapacityRespected
  <2>1. CASE x = n
    BY <2>1, <1>8, <1>11, <1>13
  <2>2. CASE x # n
    BY <2>2, <1>9 DEF AllocatorInv, CapacityRespected
  <2> QED
    BY <2>1, <2>2
<1>15. Allocation!MayHost(n, s)
  BY DEF Allocation!MayHost, Allocation!Keepable, Allocation!Matches, Allocation!Tolerates,
         Matches, Tolerates
<1>16. Allocation!On(n) = PlacedOn(n)
  BY DEF Allocation!On, PlacedOn
<1>17. Allocation!HasRoom(n, s)
  BY <1>11, <1>13, <1>16, SameSums DEF Allocation!HasRoom, Cpus, Mems
<1>18. Allocation!MayBind(n, s, m)
  <2>1. \A t \in PlacedOn(n) : Claims(m) \cap Claims(alloc.ports[t]) = {}
    <3> TAKE t \in PlacedOn(n)
    <3>1. Claims(alloc.ports[t]) \subseteq alloc.bound[n]
      BY <1>1, <1>2 DEF PassInv, Sound, Covers, PlacedOn
    <3> QED
      BY <3>1, <1>6 DEF BindingOK
  <2>2. \A t \in PlacedOn(n) : Allocation!Claims(m) \cap Allocation!Claims(alloc.ports[t]) = {}
    BY <2>1 DEF Claims, Allocation!Claims
  <2>3. Len(m) = Len(slot.specs) /\ DOMAIN m = DOMAIN slot.specs
    BY <1>6 DEF BindingOK
  <2>4. \A k \in DOMAIN m : Allocation!Answers(m[k], slot.specs[k])
    BY <1>6 DEF BindingOK, Allocation!Answers
  <2>5. \A j, k \in DOMAIN m : j # k => m[j].host # m[k].host \/ m[j].proto # m[k].proto
    BY <1>6 DEF BindingOK
  <2> QED
    BY <2>2, <2>3, <2>4, <2>5, <1>16 DEF Allocation!MayBind
<1>19. Allocation!Place(s, n)
  <2>1. alloc'.ports[s] = m
    BY <1>4, <1>5
  <2> QED
    BY <2>1, <1>5, <1>15, <1>17, <1>18 DEF Allocation!Place
<1> QED
  BY <1>12, <1>14, <1>19 DEF Allocation!Next

\* The empty allocation: every sum is empty.
LEMMA InitAllocates == PassInit => AllocatorInv /\ Allocation!Init
<1> SUFFICES ASSUME PassInit PROVE AllocatorInv /\ Allocation!Init
  OBVIOUS
<1>1. PassInv
  BY InitEstablishes
<1>2. /\ alloc.load = [n \in DOMAIN input.nodes |-> [cpu |-> 0, mem |-> 0]]
      /\ alloc.node = [s \in DOMAIN input.slots |-> NoNode]
      /\ alloc.ports = [s \in DOMAIN input.slots |-> <<>>]
  BY DEF PassInit, EmptyAllocation
<1>3. ASSUME NEW n \in DOMAIN input.nodes
      PROVE  /\ PlacedOn(n) = {}
             /\ alloc.load[n].cpu = 0 /\ alloc.load[n].mem = 0
             /\ input.nodes[n].cpu \in Nat /\ input.nodes[n].mem \in Nat
  <2>1. n # NoNode /\ input.nodes[n] \in NodeRow
    BY <1>1, NoNodeAssumption DEF PassInv, PassTypeOK, IsInput
  <2> QED
    BY <2>1, <1>2 DEF PlacedOn, NodeRow
<1>4. LoadIsSum
  BY <1>3, SumEmpty DEF LoadIsSum
<1>5. CapacityRespected
  <2>1. SumFunctionOnSet(Cpus, {}) = 0 /\ SumFunctionOnSet(Mems, {}) = 0
    BY SumEmpty
  <2> QED
    <3> SUFFICES ASSUME NEW n \in DOMAIN input.nodes
                 PROVE  /\ SumFunctionOnSet(Cpus, PlacedOn(n)) <= input.nodes[n].cpu
                        /\ SumFunctionOnSet(Mems, PlacedOn(n)) <= input.nodes[n].mem
      BY DEF CapacityRespected
    <3>1. SumFunctionOnSet(Cpus, PlacedOn(n)) = 0 /\ SumFunctionOnSet(Mems, PlacedOn(n)) = 0
      BY <1>3, <2>1
    <3> QED
      BY <1>3, <3>1
<1> QED
  BY <1>1, <1>2, <1>4, <1>5 DEF AllocatorInv, NotYetSeen, Allocation!Init

\* A step that leaves the allocation alone.
LEMMA StutterAllocates ==
    ASSUME AllocatorInv, input' = input, alloc' = alloc
    PROVE  LoadIsSum' /\ CapacityRespected' /\ UNCHANGED Allocation!avars
<1>1. Cpus' = Cpus /\ Mems' = Mems /\ \A n : PlacedOn(n)' = PlacedOn(n)
  BY DEF Cpus, Mems, PlacedOn
<1> QED
  BY <1>1 DEF AllocatorInv, LoadIsSum, CapacityRespected, Allocation!avars

\* Every step of a pass is a step of the allocator or none.
LEMMA StepAllocates ==
    AllocatorInv /\ [PassNext]_passVars
        => AllocatorInv' /\ [Allocation!Next]_(Allocation!avars)
<1> SUFFICES ASSUME AllocatorInv, [PassNext]_passVars
             PROVE  AllocatorInv' /\ (Allocation!Next \/ UNCHANGED Allocation!avars)
  OBVIOUS
<1> DEFINE slot == input.slots[i]
<1>1. PassInv /\ PassInv'
  BY StepPreserves DEF AllocatorInv
<1>2. /\ input.slots \in Seq(Slot)
      /\ DOMAIN input.slots = 1..Len(input.slots) /\ Len(input.slots) \in Nat
      /\ i \in 1..(Len(input.slots) + 1)
  BY <1>1 DEF PassInv, PassTypeOK, IsInput
<1>3. CASE Keep
  <2> DEFINE m == CHOOSE x \in BindingsOn(input, alloc, slot.prev, slot, slot.prevPorts) : TRUE
  <2>1. /\ i \in DOMAIN input.slots /\ input' = input
        /\ phase' = phase /\ i' = i + 1 /\ phase = "sticky"
    BY <1>2, <1>3 DEF Keep
  <2>2. slot.prevPorts \in Seq(Mapping)
    <3>1. slot \in Slot
      BY <1>2, <2>1
    <3> QED
      BY <3>1 DEF Slot
  <2>3. alloc.node[i] = NoNode
    BY <1>2, <2>1 DEF AllocatorInv, NotYetSeen
  <2>4. CASE CanStay(input, alloc, i)
    <3>1. /\ slot.prev \in DOMAIN input.nodes
          /\ input.nodes[slot.prev].fresh /\ slot.prev \notin input.exclude
          /\ Matches(input.nodes[slot.prev], slot)
          /\ Fits(input, alloc, slot.prev, slot)
          /\ m \in BindingsOn(input, alloc, slot.prev, slot, slot.prevPorts)
      BY <2>4 DEF CanStay, Keepable
    <3>2. alloc' = Take(input, alloc, i, slot.prev, m)
      BY <1>3, <2>4 DEF Keep, StickyStep
    <3> HIDE DEF m
    <3>3. LoadIsSum' /\ CapacityRespected' /\ Allocation!Next
      BY <2>1, <2>2, <2>3, <3>1, <3>2, TakeAllocates
    <3>4. alloc'.node = [alloc.node EXCEPT ![i] = slot.prev]
      BY <3>2 DEF Take
    <3>5. NotYetSeen'
      <4>1. \A s \in DOMAIN input.slots : s # i => alloc'.node[s] = alloc.node[s]
        BY <1>1, <3>4 DEF PassInv, PassTypeOK, AllocationOK
      <4>2. \A s \in DOMAIN input.slots : s >= i + 1 => alloc.node[s] = NoNode /\ s # i
        BY <1>2, <2>1 DEF AllocatorInv, NotYetSeen
      <4> QED
        BY <2>1, <4>1, <4>2 DEF NotYetSeen
    <3> QED
      BY <1>1, <3>3, <3>5 DEF AllocatorInv
  <2>5. CASE ~CanStay(input, alloc, i)
    <3>1. alloc' = alloc
      BY <1>3, <2>5 DEF Keep, StickyStep
    <3>2. NotYetSeen'
      BY <1>2, <2>1, <3>1 DEF AllocatorInv, NotYetSeen
    <3> QED
      BY <1>1, <2>1, <3>1, <3>2, StutterAllocates DEF AllocatorInv
  <2> QED
    BY <2>4, <2>5
<1>4. CASE Place
  <2> DEFINE best == Best(input, alloc, Candidates(input, alloc, i))
             n == CHOOSE x \in best : TRUE
             m == CHOOSE x \in BindingsOn(input, alloc, n, slot, <<>>) : TRUE
  <2>1. i \in DOMAIN input.slots /\ input' = input /\ phase' = phase /\ phase = "place"
    BY <1>2, <1>4 DEF Place
  <2>2. NotYetSeen'
    BY <2>1 DEF NotYetSeen
  <2>3. CASE alloc.node[i] = NoNode /\ best # {}
    <3>1. n \in Candidates(input, alloc, i)
      BY <2>3 DEF Best
    <3>2. /\ n \in DOMAIN input.nodes
          /\ input.nodes[n].fresh /\ n \notin input.exclude
          /\ input.nodes[n].schedulable /\ Matches(input.nodes[n], slot)
          /\ Fits(input, alloc, n, slot)
          /\ BindingsOn(input, alloc, n, slot, <<>>) # {}
      BY <3>1 DEF Candidates, Placeable, Keepable
    <3>3. m \in BindingsOn(input, alloc, n, slot, <<>>)
      BY <3>2
    <3>4. alloc' = Take(input, alloc, i, n, m)
      BY <1>4, <2>3 DEF Place, PlaceStep
    <3>5. <<>> \in Seq(Mapping)
      OBVIOUS
    <3> HIDE DEF n, m
    <3>6. LoadIsSum' /\ CapacityRespected' /\ Allocation!Next
      BY <2>1, <2>3, <3>2, <3>3, <3>4, <3>5, TakeAllocates
    <3> QED
      BY <1>1, <2>2, <3>6 DEF AllocatorInv
  <2>4. CASE ~(alloc.node[i] = NoNode /\ best # {})
    <3>1. alloc' = alloc
      BY <1>4, <2>4 DEF Place, PlaceStep
    <3> QED
      BY <1>1, <2>1, <2>2, <3>1, StutterAllocates DEF AllocatorInv
  <2> QED
    BY <2>3, <2>4
<1>5. CASE StartPlacing \/ Finish \/ UNCHANGED passVars
  <2>1. input' = input /\ alloc' = alloc
    BY <1>5 DEF StartPlacing, Finish, passVars
  <2>2. NotYetSeen'
    BY <1>5 DEF StartPlacing, Finish, passVars, AllocatorInv, NotYetSeen
  <2> QED
    BY <1>1, <2>1, <2>2, StutterAllocates DEF AllocatorInv
<1> QED
  BY <1>3, <1>4, <1>5 DEF PassNext

\* No pass promises a node more cpu or memory than the node reported, summed over the pods
\* themselves (take, the fit tests of both loops).
THEOREM CapacityIsRespected == PassSpec => []CapacityRespected
<1>1. AllocatorInv => CapacityRespected
  BY DEF AllocatorInv
<1> QED
  BY <1>1, InitAllocates, StepAllocates, PTL DEF PassSpec

\* schedule() is an allocator, for every fleet, workload and port range.
THEOREM Allocates == PassSpec => PlacesLegally
  BY InitAllocates, StepAllocates, PTL DEF PassSpec, PlacesLegally, Allocation!Spec

-----------------------------------------------------------------------------
(* Fewer ports bound, and a pod that could be bound still can: bind_ports is   *)
(* greedy, so what it hands out differs, but not how many ports it takes from  *)
(* the range.                                                                  *)

\* The specs up to the k-th have the host ports h.
BoundUpTo(specs, prevPorts, used, fixed, k, h) ==
    /\ h \in [1..k -> HostPort]
    /\ \A j \in 1..k : h[j] \in HostsFor(specs[j], prevPorts, TakenBefore(used, specs, h, j), fixed)

\* A binding is host ports for all the specs.
LEMMA BindingsExist ==
    ASSUME NEW specs \in Seq(PortSpec), NEW prevPorts, NEW used, NEW fixed
    PROVE  Bindings(specs, prevPorts, used, fixed) # {}
               <=> \E h : BoundUpTo(specs, prevPorts, used, fixed, Len(specs), h)
<1>1. DOMAIN specs = 1..Len(specs)
  OBVIOUS
<1> DEFINE chosen == {h \in [DOMAIN specs -> HostPort] : \A k \in DOMAIN specs :
                         h[k] \in HostsFor(specs[k], prevPorts,
                                           TakenBefore(used, specs, h, k), fixed)}
<1>2. \A h : h \in chosen <=> BoundUpTo(specs, prevPorts, used, fixed, Len(specs), h)
  BY <1>1 DEF BoundUpTo
<1>3. Bindings(specs, prevPorts, used, fixed) # {} <=> chosen # {}
  BY DEF Bindings
<1> HIDE DEF chosen
<1> QED
  BY <1>2, <1>3

\* An automatic spec gets a port whenever one of the range is free (bind_ports).
LEMMA SomeHost ==
    ASSUME NEW spec, spec.host = AnyHost, NEW prevPorts, NEW taken, NEW fixed,
           NEW x \in FreeHosts(spec.proto, taken, fixed)
    PROVE  HostsFor(spec, prevPorts, taken, fixed) # {}
<1> DEFINE free == FreeHosts(spec.proto, taken, fixed)
           kept == PrevHost(prevPorts, spec) \cap free
<1>1. free \in SUBSET Nat
  BY PortAssumption DEF FreeHosts
<1>2. HostsFor(spec, prevPorts, taken, fixed)
          = IF kept # {} THEN kept ELSE {h \in free : \A y \in free : h <= y}
  BY DEF HostsFor
<1> HIDE DEF free, kept
<1>3. \E n \in free : \A p \in free : n <= p
  BY <1>1, Smallest DEF free
<1> QED
  BY <1>2, <1>3

\* The ports fewer specs take are among those more take.
LEMMA TakenUpTo ==
    ASSUME NEW specs, NEW used, NEW h, NEW g, NEW k \in Nat, \A j \in 1..(k - 1) : h[j] = g[j]
    PROVE  TakenBefore(used, specs, h, k) = TakenBefore(used, specs, g, k)
BY DEF TakenBefore

\* The j-th host port is free of the node's and of the earlier ones, and is as requested.
HostSound(specs, used, fixed, h, j) ==
    /\ h[j] \in HostPort
    /\ <<h[j], specs[j].proto>> \notin used
    /\ \A l \in 1..(j - 1) : <<h[l], specs[l].proto>> # <<h[j], specs[j].proto>>
    /\ specs[j].host = AnyHost => h[j] \in PortLo..PortHi /\ <<h[j], specs[j].proto>> \notin fixed
    /\ specs[j].host # AnyHost => h[j] = specs[j].host

\* Every host port found so far is (bind_ports).
LEMMA BoundSound ==
    ASSUME NEW specs \in Seq(PortSpec), NEW prevPorts \in Seq(Mapping),
           NEW used \in SUBSET (HostPort \X Proto), NEW fixed \in SUBSET (HostPort \X Proto),
           NEW n \in 0..Len(specs), NEW h, BoundUpTo(specs, prevPorts, used, fixed, n, h),
           NEW j \in 1..n
    PROVE  HostSound(specs, used, fixed, h, j)
<1> DEFINE t == TakenBefore(used, specs, h, j)
<1>1. /\ n \in Nat /\ n <= Len(specs) /\ DOMAIN specs = 1..Len(specs)
      /\ \A l \in 1..n : specs[l] \in PortSpec /\ specs[l].proto \in Proto
  <2>1. \A l \in 1..n : specs[l] \in PortSpec
    OBVIOUS
  <2> QED
    BY <2>1 DEF PortSpec
<1>2. h \in [1..n -> HostPort] /\ h[j] \in HostsFor(specs[j], prevPorts, t, fixed)
  BY DEF BoundUpTo
<1>3. t \in SUBSET (HostPort \X Proto)
  <2>1. \A l \in 1..(j - 1) : h[l] \in HostPort /\ specs[l].proto \in Proto
    BY <1>1, <1>2
  <2> QED
    BY <2>1 DEF TakenBefore
<1>4. used \subseteq t /\ \A l \in 1..(j - 1) : <<h[l], specs[l].proto>> \in t
  BY DEF TakenBefore
<1>5. specs[j] \in PortSpec
  BY <1>1
<1> HIDE DEF t
<1>6. /\ <<h[j], specs[j].proto>> \notin t
      /\ specs[j].host = AnyHost => h[j] \in PortLo..PortHi /\ <<h[j], specs[j].proto>> \notin fixed
      /\ specs[j].host # AnyHost => h[j] = specs[j].host
  BY <1>2, <1>3, <1>5, HostsForSound
<1> QED
  BY <1>2, <1>4, <1>6 DEF HostSound

\* With fewer ports bound on the node, and whatever the pod held before, the next spec finds
\* a host port if it found one with more bound (bind_ports).
LEMMA NextHost ==
    ASSUME NEW specs \in Seq(PortSpec),
           NEW prevPorts \in Seq(Mapping), NEW otherPorts \in Seq(Mapping),
           NEW used \in SUBSET (HostPort \X Proto), NEW fewer \in SUBSET used,
           NEW fixed \in SUBSET (HostPort \X Proto), FixedPorts(specs) \subseteq fixed,
           NEW g, BoundUpTo(specs, prevPorts, used, fixed, Len(specs), g),
           NEW k \in 1..Len(specs), NEW h, BoundUpTo(specs, otherPorts, fewer, fixed, k - 1, h)
    PROVE  HostsFor(specs[k], otherPorts, TakenBefore(fewer, specs, h, k), fixed) # {}
<1> DEFINE taken == TakenBefore(fewer, specs, h, k)
           p == specs[k].proto
<1>1. /\ Len(specs) \in Nat /\ DOMAIN specs = 1..Len(specs) /\ k - 1 \in Nat
      /\ \A j \in 1..Len(specs) : specs[j] \in PortSpec /\ specs[j].proto \in Proto
  <2>1. \A j \in 1..Len(specs) : specs[j] \in PortSpec
    OBVIOUS
  <2> QED
    BY <2>1 DEF PortSpec
<1>2. \A j \in 1..Len(specs) : HostSound(specs, used, fixed, g, j)
  <2>1. Len(specs) \in 0..Len(specs)
    BY <1>1
  <2> QED
    BY <2>1, BoundSound
<1>3. \A j \in 1..(k - 1) : HostSound(specs, fewer, fixed, h, j)
  <2>1. fewer \in SUBSET (HostPort \X Proto) /\ k - 1 \in 0..Len(specs)
    BY <1>1
  <2> QED
    BY <2>1, BoundSound
<1>4. \A j \in 1..Len(specs) :
          specs[j].host # AnyHost => <<specs[j].host, specs[j].proto>> \in fixed
  BY <1>1 DEF FixedPorts, ToSet
<1>5. CASE specs[k].host # AnyHost
  <2>1. g[k] = specs[k].host /\ <<g[k], p>> \notin fewer
    BY <1>2, <1>5 DEF HostSound
  <2>2. ASSUME NEW j \in 1..(k - 1) PROVE <<h[j], specs[j].proto>> # <<g[k], p>>
    <3>1. j \in 1..Len(specs)
      BY <1>1
    <3>2. CASE specs[j].host = AnyHost
      BY <1>3, <1>4, <1>5, <2>1, <3>2 DEF HostSound
    <3>3. CASE specs[j].host # AnyHost
      <4>1. h[j] = g[j]
        BY <1>2, <1>3, <3>1, <3>3 DEF HostSound
      <4> QED
        BY <1>2, <4>1 DEF HostSound
    <3> QED
      BY <3>2, <3>3
  <2>3. <<g[k], p>> \notin taken
    BY <2>1, <2>2 DEF TakenBefore
  <2> QED
    BY <1>5, <2>1, <2>3 DEF HostsFor
<1>6. CASE specs[k].host = AnyHost
  <2> DEFINE A == {j \in 1..(k - 1) : specs[j].host = AnyHost /\ specs[j].proto = p}
  <2>1. IsFiniteSet(A)
    <3>1. IsFiniteSet(1..(k - 1))
      BY <1>1, FS_Interval
    <3>2. A \in SUBSET (1..(k - 1))
      OBVIOUS
    <3> QED
      BY <3>1, <3>2, FS_Subset
  <2>2. k \notin A
    OBVIOUS
  <2>3. \A y \in A \cup {k} : y \in 1..Len(specs) /\ specs[y].proto = p /\ specs[y].host = AnyHost
    BY <1>1, <1>6
  <2>4. \A y, z \in A \cup {k} : y < z => g[y] # g[z]
    <3> SUFFICES ASSUME NEW y \in A \cup {k}, NEW z \in A \cup {k}, y < z PROVE g[y] # g[z]
      OBVIOUS
    <3>1. y \in 1..(z - 1) /\ z \in 1..Len(specs) /\ specs[y].proto = specs[z].proto
      BY <2>3
    <3> QED
      BY <1>2, <3>1 DEF HostSound
  <2>5. \A y, z \in A \cup {k} : g[y] = g[z] => y = z
    <3>1. A \cup {k} \subseteq Int
      OBVIOUS
    <3> HIDE DEF A
    <3>2. \A y, z \in A \cup {k} : y < z \/ z < y \/ y = z
      BY <3>1
    <3> QED
      BY <2>4, <3>2
  <2> HIDE DEF A
  <2>6. PICK y \in A \cup {k} : g[y] \notin {h[z] : z \in A}
    BY <2>1, <2>2, <2>5, OneIsLeft
  <2>7. /\ g[y] \in PortLo..PortHi /\ <<g[y], p>> \notin fixed /\ <<g[y], p>> \notin fewer
    BY <1>2, <2>3, <2>6 DEF HostSound
  <2>8. ASSUME NEW j \in 1..(k - 1) PROVE <<h[j], specs[j].proto>> # <<g[y], p>>
    <3>1. CASE specs[j].host = AnyHost /\ specs[j].proto = p
      <4>1. j \in A
        BY <3>1 DEF A
      <4> QED
        BY <2>6, <4>1
    <3>2. CASE specs[j].proto # p
      BY <3>2
    <3>3. CASE specs[j].host # AnyHost
      <4>1. j \in 1..Len(specs)
        BY <1>1
      <4> QED
        BY <1>3, <1>4, <2>7, <3>3, <4>1 DEF HostSound
    <3> QED
      BY <3>1, <3>2, <3>3
  <2>9. <<g[y], p>> \notin taken
    BY <2>7, <2>8 DEF TakenBefore
  <2>10. g[y] \in FreeHosts(p, taken, fixed)
    BY <2>7, <2>9 DEF FreeHosts
  <2> HIDE DEF taken
  <2>11. HostsFor(specs[k], otherPorts, taken, fixed) # {}
    BY <1>6, <2>10, SomeHost
  <2> QED
    BY <2>11 DEF taken
<1> QED
  BY <1>5, <1>6

\* A pod whose ports can be bound on a node can be bound there with fewer ports in use,
\* whatever ports it held before: bind_ports never fails for having been luckier earlier.
LEMMA FewerBound ==
    ASSUME NEW specs \in Seq(PortSpec),
           NEW prevPorts \in Seq(Mapping), NEW otherPorts \in Seq(Mapping),
           NEW used \in SUBSET (HostPort \X Proto), NEW fewer \in SUBSET used,
           NEW fixed \in SUBSET (HostPort \X Proto), FixedPorts(specs) \subseteq fixed,
           Bindings(specs, prevPorts, used, fixed) # {}
    PROVE  Bindings(specs, otherPorts, fewer, fixed) # {}
<1>1. PICK g : BoundUpTo(specs, prevPorts, used, fixed, Len(specs), g)
  BY BindingsExist
<1> DEFINE Q == {k \in 0..Len(specs) : \E h : BoundUpTo(specs, otherPorts, fewer, fixed, k, h)}
<1>2. 0 \in Q
  <2>1. BoundUpTo(specs, otherPorts, fewer, fixed, 0, [j \in 1..0 |-> PortLo])
    BY DEF BoundUpTo
  <2> QED
    BY <2>1
<1>3. ASSUME NEW k \in 0..Len(specs), k - 1 \in Q, k > 0 PROVE k \in Q
  <2>1. PICK h : BoundUpTo(specs, otherPorts, fewer, fixed, k - 1, h)
    BY <1>3
  <2>2. k \in 1..Len(specs)
    BY <1>3
  <2> DEFINE before == TakenBefore(fewer, specs, h, k)
  <2>3. PICK x : x \in HostsFor(specs[k], otherPorts, before, fixed)
    BY <1>1, <2>1, <2>2, NextHost
  <2> DEFINE f == [j \in 1..k |-> IF j = k THEN x ELSE h[j]]
  <2>4. h \in [1..(k - 1) -> HostPort]
    BY <2>1 DEF BoundUpTo
  <2>5. x \in HostPort
    <3>1. specs[k].host \in HostPort \cup {AnyHost}
      <4>1. specs[k] \in PortSpec
        BY <2>2
      <4> QED
        BY <4>1 DEF PortSpec
    <3>2. x \in PortLo..PortHi \/ (x = specs[k].host /\ specs[k].host # AnyHost)
      <4> HIDE DEF before
      <4>1. CASE specs[k].host = AnyHost
        <5>1. x \in FreeHosts(specs[k].proto, before, fixed)
          BY <2>3, <4>1 DEF HostsFor
        <5> QED
          BY <5>1 DEF FreeHosts
      <4>2. CASE specs[k].host # AnyHost
        BY <2>3, <4>2 DEF HostsFor
      <4> QED
        BY <4>1, <4>2
    <3> QED
      BY <3>1, <3>2, PortAssumption
  <2>6. \A j \in 1..(k - 1) : f[j] = h[j]
    BY <2>2
  <2>7. \A j \in 1..k : TakenBefore(fewer, specs, f, j) = TakenBefore(fewer, specs, h, j)
    <3> TAKE j \in 1..k
    <3>1. \A l \in 1..(j - 1) : f[l] = h[l]
      BY <2>2, <2>6
    <3> HIDE DEF f
    <3> QED
      BY <3>1, TakenUpTo
  <2>8. f \in [1..k -> HostPort]
    BY <2>2, <2>4, <2>5
  <2>9. ASSUME NEW j \in 1..k
        PROVE  f[j] \in HostsFor(specs[j], otherPorts, TakenBefore(fewer, specs, f, j), fixed)
    <3>1. CASE j = k
      BY <2>3, <2>7, <3>1
    <3>2. CASE j # k
      <4>1. j \in 1..(k - 1) /\ f[j] = h[j]
        BY <2>2, <3>2
      <4> QED
        BY <2>1, <2>7, <4>1 DEF BoundUpTo
    <3> QED
      BY <3>1, <3>2
  <2>10. BoundUpTo(specs, otherPorts, fewer, fixed, k, f)
    BY <2>8, <2>9 DEF BoundUpTo
  <2> QED
    BY <2>10
<1> HIDE DEF Q
<1>4. Len(specs) \in Nat
  OBVIOUS
<1>5. 0..Len(specs) \subseteq Q
  BY <1>2, <1>3, <1>4, Climb
<1>6. Len(specs) \in Q
  BY <1>4, <1>5
<1> QED
  BY <1>6, BindingsExist DEF Q
-----------------------------------------------------------------------------
(* Running pods win.  The invariant speaks of the pods kept on a node as if    *)
(* they were alone there: while the first loop runs they are, and what the     *)
(* second adds can only make less room.                                        *)

HasRoom(in, a, n, s, prevPorts) ==
    /\ Fits(in, a, n, in.slots[s])
    /\ BindingsOn(in, a, n, in.slots[s], prevPorts) # {}

\* b has no more on the node than a.
NodeEntryOK(a, n) == /\ a.load[n].cpu \in Int /\ a.load[n].mem \in Int
                     /\ a.bound[n] \in SUBSET (HostPort \X Proto)
Emptier(b, a, n) == /\ NodeEntryOK(a, n) /\ NodeEntryOK(b, n)
                    /\ b.load[n].cpu <= a.load[n].cpu /\ b.load[n].mem <= a.load[n].mem
                    /\ b.bound[n] \subseteq a.bound[n]

\* What has room on a node has room on an emptier one (fits, bind_ports).
LEMMA RoomIsMonotone ==
    ASSUME NEW in \in Inputs, NEW s \in DOMAIN in.slots, NEW n \in DOMAIN in.nodes,
           NEW a, NEW b, Emptier(b, a, n),
           NEW prevPorts \in Seq(Mapping), NEW otherPorts \in Seq(Mapping),
           HasRoom(in, a, n, s, prevPorts)
    PROVE  HasRoom(in, b, n, s, otherPorts)
<1> DEFINE slot == in.slots[s]
<1>1. IsInput(in) /\ FixedPorts(slot.specs) \subseteq in.fixed
  BY InputsAssumption, TabsAssumption
<1>2. /\ slot.specs \in Seq(PortSpec) /\ slot.cpu \in Nat /\ slot.mem \in Nat
      /\ in.fixed \in SUBSET (HostPort \X Proto)
      /\ in.nodes[n].cpu \in Nat /\ in.nodes[n].mem \in Nat
  BY <1>1, InputParts
<1>3. Fits(in, b, n, slot)
  <2>1. /\ a.load[n].cpu + slot.cpu <= in.nodes[n].cpu
        /\ a.load[n].mem + slot.mem <= in.nodes[n].mem
    BY DEF HasRoom, Fits
  <2>2. /\ a.load[n].cpu \in Int /\ a.load[n].mem \in Int
        /\ b.load[n].cpu \in Int /\ b.load[n].mem \in Int
        /\ b.load[n].cpu <= a.load[n].cpu /\ b.load[n].mem <= a.load[n].mem
    BY DEF Emptier, NodeEntryOK
  <2>3. /\ b.load[n].cpu + slot.cpu <= in.nodes[n].cpu
        /\ b.load[n].mem + slot.mem <= in.nodes[n].mem
    <3>1. /\ slot.cpu \in Int /\ slot.mem \in Int
          /\ in.nodes[n].cpu \in Int /\ in.nodes[n].mem \in Int
      BY <1>2
    <3> HIDE DEF slot
    <3> QED
      BY <2>1, <2>2, <3>1
  <2> QED
    BY <2>3 DEF Fits
<1>4. Bindings(slot.specs, prevPorts, a.bound[n], in.fixed) # {}
  BY DEF HasRoom, BindingsOn
<1>5. a.bound[n] \in SUBSET (HostPort \X Proto) /\ b.bound[n] \in SUBSET a.bound[n]
  BY DEF Emptier, NodeEntryOK
<1>6. Bindings(slot.specs, otherPorts, b.bound[n], in.fixed) # {}
  <2> HIDE DEF slot
  <2>1. \A used \in SUBSET (HostPort \X Proto) : \A fewer \in SUBSET used :
            Bindings(slot.specs, prevPorts, used, in.fixed) # {} =>
                Bindings(slot.specs, otherPorts, fewer, in.fixed) # {}
    <3>1. PICK specs : specs = slot.specs
      OBVIOUS
    <3>2. PICK fixed : fixed = in.fixed
      OBVIOUS
    <3> SUFFICES ASSUME NEW used \in SUBSET (HostPort \X Proto), NEW fewer \in SUBSET used,
                        Bindings(specs, prevPorts, used, fixed) # {}
                 PROVE  Bindings(specs, otherPorts, fewer, fixed) # {}
      BY <3>1, <3>2
    <3>3. /\ specs \in Seq(PortSpec) /\ fixed \in SUBSET (HostPort \X Proto)
          /\ FixedPorts(specs) \subseteq fixed
      BY <1>1, <1>2, <3>1, <3>2
    <3> QED
      BY <3>3, FewerBound
  <2> QED
    BY <1>4, <1>5, <2>1
<1> QED
  BY <1>3, <1>6 DEF HasRoom, BindingsOn

\* What can stay can stay on an emptier node.
LEMMA StaysOnEmptier ==
    ASSUME NEW in \in Inputs, NEW s \in DOMAIN in.slots, NEW a, NEW b,
           Emptier(b, a, in.slots[s].prev), CanStay(in, a, s)
    PROVE  CanStay(in, b, s)
<1> DEFINE slot == in.slots[s]
<1>1. slot.prev \in DOMAIN in.nodes /\ HasRoom(in, a, slot.prev, s, slot.prevPorts)
  BY DEF CanStay, HasRoom, Keepable
<1>2. slot.prevPorts \in Seq(Mapping)
  BY InputsAssumption, InputParts
<1>3. HasRoom(in, b, slot.prev, s, slot.prevPorts)
  BY <1>1, <1>2, RoomIsMonotone
<1> QED
  BY <1>3 DEF CanStay, HasRoom

PodsOn(in, a, n) == {s \in DOMAIN in.slots : a.node[s] = n}
PodsKept(in, a, n) == {s \in PodsOn(in, a, n) : in.slots[s].prev = n}
CpuOf(in) == [s \in DOMAIN in.slots |-> in.slots[s].cpu]
MemOf(in) == [s \in DOMAIN in.slots |-> in.slots[s].mem]
ClaimsOf(a, P) == UNION {Claims(a.ports[s]) : s \in P}

\* The entry of a node that has only the pods P.
HasOnly(in, a, n, P) ==
    [load  |-> [m \in {n} |-> [cpu |-> SumFunctionOnSet(CpuOf(in), P),
                               mem |-> SumFunctionOnSet(MemOf(in), P)]],
     bound |-> [m \in {n} |-> ClaimsOf(a, P)]]

Summed(in, a) == \A n \in DOMAIN in.nodes :
    /\ a.load[n].cpu = SumFunctionOnSet(CpuOf(in), PodsOn(in, a, n))
    /\ a.load[n].mem = SumFunctionOnSet(MemOf(in), PodsOn(in, a, n))
BoundIsClaims(in, a) == \A n \in DOMAIN in.nodes :
    a.bound[n] = ClaimsOf(a, PodsOn(in, a, n))
NobodyMoved(in, a) == \A s \in DOMAIN in.slots : a.node[s] \in {in.slots[s].prev, NoNode}

\* The pods S that could be where they were and are not cannot stay beside those kept there.
Pushed(in, a, S) == \A s \in S :
    in.slots[s].prev \in Keepable(in) /\ a.node[s] # in.slots[s].prev =>
        ~CanStay(in, HasOnly(in, a, in.slots[s].prev, PodsKept(in, a, in.slots[s].prev)), s)

\* The entries the sums make are well-formed, and with fewer pods emptier.
LEMMA EntryOfPods ==
    ASSUME NEW in, IsInput(in), NEW a, Typed(in, a), NEW n,
           NEW P \in SUBSET DOMAIN in.slots, NEW R \in SUBSET P
    PROVE  Emptier(HasOnly(in, a, n, R), HasOnly(in, a, n, P), n)
<1>1. /\ IsFiniteSet(DOMAIN in.slots)
      /\ \A s \in DOMAIN in.slots : in.slots[s].cpu \in Nat /\ in.slots[s].mem \in Nat
  BY InputParts, FS_Interval
<1>2. /\ CpuOf(in) \in [DOMAIN in.slots -> Nat] /\ CpuOf(in) \in [DOMAIN in.slots -> Int]
      /\ MemOf(in) \in [DOMAIN in.slots -> Nat] /\ MemOf(in) \in [DOMAIN in.slots -> Int]
  BY <1>1 DEF CpuOf, MemOf
<1>3. IsFiniteSet(P) /\ IsFiniteSet(R) /\ R \in SUBSET DOMAIN in.slots
  BY <1>1, FS_Subset
<1>4. \A f \in [DOMAIN in.slots -> Nat] :
          SumFunctionOnSet(f, R) <= SumFunctionOnSet(f, P)
  BY <1>3, SumSubset
<1>5. \A f \in [DOMAIN in.slots -> Int] :
          SumFunctionOnSet(f, R) \in Int /\ SumFunctionOnSet(f, P) \in Int
  BY <1>3, SumType
<1>6. \A s \in DOMAIN in.slots : Claims(a.ports[s]) \in SUBSET (HostPort \X Proto)
  <2> TAKE s \in DOMAIN in.slots
  <2>1. \A k \in DOMAIN a.ports[s] : a.ports[s][k] \in Mapping
    BY DEF Typed
  <2>2. \A k \in DOMAIN a.ports[s] :
            a.ports[s][k].host \in HostPort /\ a.ports[s][k].proto \in Proto
    BY <2>1 DEF Mapping
  <2> QED
    BY <2>2 DEF Claims
<1>7. /\ ClaimsOf(a, R) \subseteq ClaimsOf(a, P)
      /\ ClaimsOf(a, P) \in SUBSET (HostPort \X Proto)
      /\ ClaimsOf(a, R) \in SUBSET (HostPort \X Proto)
  BY <1>6 DEF ClaimsOf
<1> QED
  BY <1>2, <1>4, <1>5, <1>7 DEF Emptier, NodeEntryOK, HasOnly

\* What a node has is what its pods make of it; with some of them only, it is emptier.
LEMMA SomePodsOnly ==
    ASSUME NEW in, IsInput(in), NEW a, Typed(in, a), Summed(in, a), BoundIsClaims(in, a),
           NEW n \in DOMAIN in.nodes, NEW R \in SUBSET PodsOn(in, a, n)
    PROVE  /\ Emptier(HasOnly(in, a, n, R), a, n)
           /\ R = PodsOn(in, a, n) => Emptier(a, HasOnly(in, a, n, R), n)
<1> DEFINE P == PodsOn(in, a, n)
<1>1. P \in SUBSET DOMAIN in.slots /\ P \in SUBSET P
  BY DEF PodsOn
<1>2. /\ Emptier(HasOnly(in, a, n, R), HasOnly(in, a, n, P), n)
      /\ Emptier(HasOnly(in, a, n, P), HasOnly(in, a, n, P), n)
  BY <1>1, EntryOfPods
<1>3. LET b == HasOnly(in, a, n, P)
      IN  /\ a.load[n].cpu = b.load[n].cpu /\ a.load[n].mem = b.load[n].mem
          /\ a.bound[n] = b.bound[n]
  BY DEF HasOnly, Summed, BoundIsClaims
<1> HIDE DEF P
<1>4. Emptier(HasOnly(in, a, n, R), a, n) /\ Emptier(a, HasOnly(in, a, n, P), n)
  BY <1>2, <1>3 DEF Emptier, NodeEntryOK
<1> QED
  BY <1>4 DEF P

\* Placing one more pod leaves every node at least as full (take).
LEMMA TakeFills ==
    ASSUME NEW in, IsInput(in), NEW a, Typed(in, a), NEW b, Typed(in, b),
           NEW s \in DOMAIN in.slots, NEW n \in DOMAIN in.nodes, NEW m,
           b = Take(in, a, s, n, m)
    PROVE  \A x \in DOMAIN in.nodes : Emptier(a, b, x)
<1> DEFINE slot == in.slots[s]
<1>1. slot.cpu \in Nat /\ slot.mem \in Nat
  BY InputParts
<1>2. /\ a.load \in [DOMAIN in.nodes -> [cpu : Nat, mem : Nat]]
      /\ b.load \in [DOMAIN in.nodes -> [cpu : Nat, mem : Nat]]
      /\ a.bound \in [DOMAIN in.nodes -> SUBSET (HostPort \X Proto)]
      /\ b.bound \in [DOMAIN in.nodes -> SUBSET (HostPort \X Proto)]
  BY DEF Typed
<1>3. /\ b.load = [a.load EXCEPT ![n] = [cpu |-> a.load[n].cpu + slot.cpu,
                                         mem |-> a.load[n].mem + slot.mem]]
      /\ b.bound = [a.bound EXCEPT ![n] = a.bound[n] \cup Claims(m)]
  BY DEF Take
<1> SUFFICES ASSUME NEW x \in DOMAIN in.nodes PROVE Emptier(a, b, x)
  OBVIOUS
<1>4. NodeEntryOK(a, x) /\ NodeEntryOK(b, x)
  BY <1>2 DEF NodeEntryOK
<1>5. a.load[x].cpu <= b.load[x].cpu /\ a.load[x].mem <= b.load[x].mem
  <2>1. a.load[x].cpu \in Nat /\ a.load[x].mem \in Nat
    BY <1>2
  <2>2. CASE x = n
    BY <1>1, <1>2, <1>3, <2>1, <2>2
  <2>3. CASE x # n
    BY <1>2, <1>3, <2>1, <2>3
  <2> QED
    BY <2>2, <2>3
<1>6. a.bound[x] \subseteq b.bound[x]
  BY <1>2, <1>3
<1> QED
  BY <1>4, <1>5, <1>6 DEF Emptier

\* What a node has bound is what its pods claim (take).
LEMMA TakeBinds ==
    ASSUME NEW in, IsInput(in), NEW a, Typed(in, a), BoundIsClaims(in, a),
           NEW s \in DOMAIN in.slots, a.node[s] = NoNode, NEW n \in DOMAIN in.nodes, NEW m,
           NEW b, b = Take(in, a, s, n, m)
    PROVE  BoundIsClaims(in, b)
<1>1. /\ a.bound \in [DOMAIN in.nodes -> SUBSET (HostPort \X Proto)]
      /\ a.node \in [DOMAIN in.slots -> DOMAIN in.nodes \cup {NoNode}]
      /\ a.ports \in [DOMAIN in.slots -> Seq(Mapping)]
      /\ \A x \in DOMAIN in.nodes : x # NoNode
  BY InputParts DEF Typed
<1>2. /\ b.bound = [a.bound EXCEPT ![n] = a.bound[n] \cup Claims(m)]
      /\ b.node = [a.node EXCEPT ![s] = n]
      /\ b.ports = [a.ports EXCEPT ![s] = m]
  BY DEF Take
<1> SUFFICES ASSUME NEW x \in DOMAIN in.nodes
             PROVE  b.bound[x] = ClaimsOf(b, PodsOn(in, b, x))
  BY DEF BoundIsClaims
<1>3. a.bound[x] = ClaimsOf(a, PodsOn(in, a, x))
  BY DEF BoundIsClaims
<1>4. \A t \in PodsOn(in, a, x) : t # s /\ b.ports[t] = a.ports[t]
  BY <1>1, <1>2 DEF PodsOn
<1>5. ClaimsOf(b, PodsOn(in, a, x)) = ClaimsOf(a, PodsOn(in, a, x))
  BY <1>4 DEF ClaimsOf
<1>6. CASE x = n
  <2>1. PodsOn(in, b, x) = PodsOn(in, a, x) \cup {s}
    BY <1>1, <1>2, <1>6 DEF PodsOn
  <2>2. b.ports[s] = m /\ b.bound[x] = a.bound[x] \cup Claims(m)
    BY <1>1, <1>2, <1>6
  <2>3. ClaimsOf(b, PodsOn(in, a, x) \cup {s})
            = ClaimsOf(b, PodsOn(in, a, x)) \cup Claims(b.ports[s])
    BY DEF ClaimsOf
  <2> QED
    BY <1>3, <1>5, <2>1, <2>2, <2>3
<1>7. CASE x # n
  <2>1. PodsOn(in, b, x) = PodsOn(in, a, x)
    BY <1>1, <1>2, <1>7 DEF PodsOn
  <2> QED
    BY <1>1, <1>2, <1>3, <1>5, <1>7, <2>1
<1> QED
  BY <1>6, <1>7

\* While nobody has moved, the pods kept on a node are all it has: whether a pod may stay is
\* asked of the node as it is.
LEMMA AloneTogether ==
    ASSUME NEW in \in Inputs, NEW a, Typed(in, a), Summed(in, a), BoundIsClaims(in, a),
           NobodyMoved(in, a),
           NEW s \in DOMAIN in.slots, NEW n, n = in.slots[s].prev, n \in DOMAIN in.nodes
    PROVE  CanStay(in, HasOnly(in, a, n, PodsKept(in, a, n)), s) <=> CanStay(in, a, s)
<1>1. IsInput(in)
  BY InputsAssumption
<1>2. n # NoNode
  BY <1>1, InputParts
<1>3. PodsKept(in, a, n) = PodsOn(in, a, n)
  BY <1>2 DEF PodsKept, PodsOn, NobodyMoved
<1> DEFINE b == HasOnly(in, a, n, PodsKept(in, a, n))
<1>4. Emptier(a, b, n) /\ Emptier(b, a, n)
  BY <1>1, <1>3, SomePodsOnly
<1> HIDE DEF b
<1>5. CanStay(in, b, s) <=> CanStay(in, a, s)
  BY <1>4, StaysOnEmptier
<1> QED
  BY <1>5 DEF b

\* The first loop: who was turned away stays turned away, and so does the pod it is at.
LEMMA KeepingPushes ==
    ASSUME NEW in \in Inputs, NEW a, NEW b,
           Typed(in, a), Typed(in, b), Summed(in, a), Summed(in, b),
           BoundIsClaims(in, a), BoundIsClaims(in, b), NobodyMoved(in, a), NobodyMoved(in, b),
           \A x \in DOMAIN in.nodes : Emptier(a, b, x),
           NEW s \in DOMAIN in.slots,
           in.slots[s].prev \in Keepable(in) => ~CanStay(in, a, s)
    PROVE  Pushed(in, b, {s})
<1> DEFINE n == in.slots[s].prev
<1> SUFFICES ASSUME n \in Keepable(in)
             PROVE  ~CanStay(in, HasOnly(in, b, n, PodsKept(in, b, n)), s)
  BY DEF Pushed
<1>1. n \in DOMAIN in.nodes
  BY DEF Keepable
<1>2. ~CanStay(in, b, s)
  BY <1>1, StaysOnEmptier
<1> HIDE DEF n
<1>3. CanStay(in, HasOnly(in, b, n, PodsKept(in, b, n)), s) <=> CanStay(in, b, s)
  BY <1>1, AloneTogether DEF n
<1> QED
  BY <1>2, <1>3

\* The second loop: a pod that was pushed out of its node does not come back to it, and the
\* newcomers do not count.
LEMMA PlacingPushes ==
    ASSUME NEW in \in Inputs, NEW a, Typed(in, a), Summed(in, a), BoundIsClaims(in, a),
           Pushed(in, a, DOMAIN in.slots),
           NEW s \in DOMAIN in.slots, a.node[s] = NoNode,
           NEW n \in Candidates(in, a, s), NEW m, NEW b, b = Take(in, a, s, n, m)
    PROVE  Pushed(in, b, DOMAIN in.slots)
<1>1. IsInput(in) /\ in.slots[s].prevPorts \in Seq(Mapping) /\ <<>> \in Seq(Mapping)
  BY InputsAssumption, InputParts
<1>2. /\ n \in DOMAIN in.nodes /\ n \in Keepable(in) /\ Matches(in.nodes[n], in.slots[s])
      /\ HasRoom(in, a, n, s, <<>>) /\ n # NoNode
  BY <1>1, InputParts DEF Candidates, Placeable, Keepable, HasRoom
<1>3. n # in.slots[s].prev
  <2> SUFFICES ASSUME n = in.slots[s].prev PROVE FALSE
    OBVIOUS
  <2> DEFINE c == HasOnly(in, a, n, PodsKept(in, a, n))
  <2>1. ~CanStay(in, c, s)
    BY <1>2 DEF Pushed
  <2>2. PodsKept(in, a, n) \in SUBSET PodsOn(in, a, n)
    BY DEF PodsKept
  <2>3. Emptier(c, a, n)
    BY <1>1, <1>2, <2>2, SomePodsOnly
  <2> HIDE DEF c
  <2>4. HasRoom(in, c, n, s, in.slots[s].prevPorts)
    <3>1. \A old, new \in Seq(Mapping) : HasRoom(in, a, n, s, old) => HasRoom(in, c, n, s, new)
      BY <1>2, <2>3, RoomIsMonotone
    <3> QED
      BY <1>1, <1>2, <3>1
  <2> QED
    BY <1>2, <2>1, <2>4 DEF CanStay, HasRoom
<1>4. /\ a.node \in [DOMAIN in.slots -> DOMAIN in.nodes \cup {NoNode}]
      /\ a.ports \in [DOMAIN in.slots -> Seq(Mapping)]
      /\ b.node = [a.node EXCEPT ![s] = n]
      /\ b.ports = [a.ports EXCEPT ![s] = m]
  BY DEF Typed, Take
<1>5. ASSUME NEW x, x # NoNode
      PROVE  /\ PodsKept(in, b, x) = PodsKept(in, a, x)
             /\ HasOnly(in, b, x, PodsKept(in, b, x)) = HasOnly(in, a, x, PodsKept(in, a, x))
  <2>1. PodsKept(in, b, x) = PodsKept(in, a, x)
    BY <1>3, <1>4, <1>5 DEF PodsKept, PodsOn
  <2>2. \A t \in PodsKept(in, a, x) : b.ports[t] = a.ports[t]
    BY <1>4, <1>5 DEF PodsKept, PodsOn
  <2>3. ClaimsOf(b, PodsKept(in, a, x)) = ClaimsOf(a, PodsKept(in, a, x))
    BY <2>2 DEF ClaimsOf
  <2> QED
    BY <2>1, <2>3 DEF HasOnly
<1> SUFFICES ASSUME NEW t \in DOMAIN in.slots, in.slots[t].prev \in Keepable(in),
                    b.node[t] # in.slots[t].prev
             PROVE  ~CanStay(in, HasOnly(in, b, in.slots[t].prev,
                                         PodsKept(in, b, in.slots[t].prev)), t)
  BY DEF Pushed
<1>6. in.slots[t].prev # NoNode
  BY <1>1, InputParts DEF Keepable
<1>7. a.node[t] # in.slots[t].prev
  BY <1>4, <1>6
<1>8. ~CanStay(in, HasOnly(in, a, in.slots[t].prev, PodsKept(in, a, in.slots[t].prev)), t)
  BY <1>7 DEF Pushed
<1> QED
  BY <1>5, <1>6, <1>8

-----------------------------------------------------------------------------
(* Nobody is left out.  A pod is left unplaced only when no node can take it,  *)
(* and no later placement changes that.                                        *)

\* The second loop finds a node whenever there is a candidate: free cpu, and the row of the
\* Nodes tab on a tie, always single one out.
LEMMA BestExists ==
    ASSUME NEW in \in Inputs, NEW a, Typed(in, a),
           NEW C \in SUBSET DOMAIN in.nodes, C # {}
    PROVE  Best(in, a, C) # {}
<1>1. /\ IsFiniteSet(C)
      /\ \A x, y \in C : x # y => in.nodes[x].row # in.nodes[y].row
  BY TabsAssumption, FS_Subset
<1>2. \A x \in C : in.nodes[x].row \in Nat /\ in.nodes[x].cpu \in Nat /\ a.load[x].cpu \in Nat
  <2> TAKE x \in C
  <2>1. in.nodes[x] \in NodeRow
    BY InputsAssumption, InputParts
  <2>2. a.load[x] \in [cpu : Nat, mem : Nat]
    BY DEF Typed
  <2> QED
    BY <2>1, <2>2 DEF NodeRow
<1> DEFINE free(x) == in.nodes[x].cpu - a.load[x].cpu
           row(x) == in.nodes[x].row
           over(x, y) == free(x) > free(y) \/ (free(x) = free(y) /\ row(x) < row(y))
           Above == {xy \in C \X C : over(xy[1], xy[2])}
<1>3. \A x, y \in C : <<x, y>> \in Above <=> over(x, y)
  OBVIOUS
<1>4. \A x \in C : free(x) \in Int /\ row(x) \in Int
  BY <1>2
<1>5. \A x, y \in C : x # y => over(x, y) \/ over(y, x)
  <2> TAKE x, y \in C
  <2>1. x # y => row(x) # row(y)
    BY <1>1
  <2> HIDE DEF free, row
  <2> QED
    BY <1>4, <2>1
<1>6. \A x, y, z \in C : over(x, y) /\ over(y, z) => over(x, z)
  <2> HIDE DEF free, row
  <2> QED
    BY <1>4
<1> HIDE DEF over, Above
<1>7. PICK x \in C : \A y \in C \ {x} : <<x, y>> \in Above
  BY <1>1, <1>3, <1>5, <1>6, Greatest
<1>8. \A y \in C \ {x} : over(x, y)
  BY <1>3, <1>7
<1> QED
  BY <1>8 DEF Best, over

\* On fuller nodes a pod has no new candidates.
LEMMA FewerCandidates ==
    ASSUME NEW in \in Inputs, NEW a, NEW b, \A x \in DOMAIN in.nodes : Emptier(a, b, x),
           NEW s \in DOMAIN in.slots
    PROVE  Candidates(in, b, s) \subseteq Candidates(in, a, s)
<1> SUFFICES ASSUME NEW n \in Candidates(in, b, s) PROVE n \in Candidates(in, a, s)
  OBVIOUS
<1>1. /\ n \in Placeable(in, in.slots[s]) /\ n \in DOMAIN in.nodes
      /\ HasRoom(in, b, n, s, <<>>) /\ <<>> \in Seq(Mapping)
  BY DEF Candidates, Placeable, Keepable, HasRoom
<1>2. \A old, new \in Seq(Mapping) : HasRoom(in, b, n, s, old) => HasRoom(in, a, n, s, new)
  BY <1>1, RoomIsMonotone
<1>3. HasRoom(in, a, n, s, <<>>)
  BY <1>1, <1>2
<1> QED
  BY <1>1, <1>3 DEF Candidates, HasRoom

\* The pods S that are nowhere have nowhere to go.
LeftOut(in, a, S) == \A s \in S : a.node[s] = NoNode => Candidates(in, a, s) = {}

\* No placement makes room (take).
LEMMA StillLeftOut ==
    ASSUME NEW in \in Inputs, NEW a, NEW b, Typed(in, a), Typed(in, b),
           NEW S \in SUBSET DOMAIN in.slots, LeftOut(in, a, S),
           \A x \in DOMAIN in.nodes : Emptier(a, b, x),
           \A s \in S : b.node[s] = NoNode => a.node[s] = NoNode
    PROVE  LeftOut(in, b, S)
<1> SUFFICES ASSUME NEW s \in S, b.node[s] = NoNode PROVE Candidates(in, b, s) = {}
  BY DEF LeftOut
<1>1. Candidates(in, a, s) = {}
  BY DEF LeftOut
<1>2. Candidates(in, b, s) \subseteq Candidates(in, a, s)
  BY FewerCandidates
<1> QED
  BY <1>1, <1>2

-----------------------------------------------------------------------------
(* The pass, step by step, with who was turned away and who is left out.       *)

Asked == IF phase = "sticky" THEN 1..(i - 1) ELSE DOMAIN input.slots
Served == IF phase = "sticky" THEN {} ELSE IF phase = "place" THEN 1..(i - 1)
                                      ELSE DOMAIN input.slots

ChoiceInv == /\ AllocatorInv
             /\ input \in Inputs
             /\ BoundIsClaims(input, alloc)
             /\ phase = "sticky" => NobodyMoved(input, alloc)
             /\ Pushed(input, alloc, Asked)
             /\ LeftOut(input, alloc, Served)

\* The totals of module SchedulePass are these.
LEMMA SummedIsLoad ==
    ASSUME AllocatorInv
    PROVE  IsInput(input) /\ Typed(input, alloc) /\ Summed(input, alloc)
BY DEF AllocatorInv, PassInv, PassTypeOK, Sound, LoadIsSum, Summed, Cpus, Mems, PlacedOn,
       CpuOf, MemOf, PodsOn

\* What the first loop does for the pod it is at.
LEMMA KeepCases ==
    ASSUME AllocatorInv, Keep
    PROVE  /\ i \in DOMAIN input.slots /\ input' = input /\ phase = "sticky"
           /\ phase' = phase /\ i' = i + 1 /\ i \in Nat /\ alloc.node[i] = NoNode
           /\ ~CanStay(input, alloc, i) => alloc' = alloc
           /\ CanStay(input, alloc, i) =>
                 /\ input.slots[i].prev \in DOMAIN input.nodes
                 /\ \E m : alloc' = Take(input, alloc, i, input.slots[i].prev, m)
<1>1. /\ DOMAIN input.slots = 1..Len(input.slots) /\ Len(input.slots) \in Nat
      /\ i \in 1..(Len(input.slots) + 1)
  BY InputParts DEF AllocatorInv, PassInv, PassTypeOK
<1>2. i \in DOMAIN input.slots /\ i \in Nat /\ phase = "sticky"
  BY <1>1 DEF Keep
<1>3. alloc.node[i] = NoNode
  BY <1>2 DEF AllocatorInv, NotYetSeen
<1>4. CanStay(input, alloc, i) => input.slots[i].prev \in DOMAIN input.nodes
  BY DEF CanStay, Keepable
<1> QED
  BY <1>2, <1>3, <1>4 DEF Keep, StickyStep

\* What the second loop does for the pod it is at.
LEMMA PlaceCases ==
    ASSUME AllocatorInv, input \in Inputs, Place
    PROVE  /\ i \in DOMAIN input.slots /\ input' = input /\ phase = "place"
           /\ phase' = phase /\ i' = i + 1 /\ i \in Nat
           /\ \/ alloc' = alloc /\ (alloc.node[i] = NoNode => Candidates(input, alloc, i) = {})
              \/ /\ alloc.node[i] = NoNode
                 /\ \E n \in Candidates(input, alloc, i) : \E m :
                       alloc' = Take(input, alloc, i, n, m)
<1>1. /\ DOMAIN input.slots = 1..Len(input.slots) /\ Len(input.slots) \in Nat
      /\ i \in 1..(Len(input.slots) + 1)
  BY InputParts DEF AllocatorInv, PassInv, PassTypeOK
<1>2. i \in DOMAIN input.slots /\ i \in Nat /\ phase = "place"
  BY <1>1 DEF Place
<1> DEFINE C == Candidates(input, alloc, i)
<1>3. C \in SUBSET DOMAIN input.nodes
  BY DEF Candidates, Placeable, Keepable
<1>4. C # {} => Best(input, alloc, C) # {}
  BY <1>3, BestExists, SummedIsLoad
<1>5. Best(input, alloc, C) \subseteq C
  BY DEF Best
<1>6. CASE alloc.node[i] = NoNode /\ C # {}
  BY <1>2, <1>4, <1>5, <1>6 DEF Place, PlaceStep
<1>7. CASE ~(alloc.node[i] = NoNode /\ C # {})
  BY <1>2, <1>5, <1>7 DEF Place, PlaceStep
<1> QED
  BY <1>6, <1>7

\* Nobody has been asked or served yet.
LEMMA InitChooses == PassInit => ChoiceInv
<1> SUFFICES ASSUME PassInit PROVE ChoiceInv
  OBVIOUS
<1>1. AllocatorInv /\ input \in Inputs /\ phase = "sticky" /\ i = 1
  BY InitAllocates DEF PassInit
<1>2. /\ alloc.node = [s \in DOMAIN input.slots |-> NoNode]
      /\ alloc.bound = [n \in DOMAIN input.nodes |-> {}]
  BY DEF PassInit, EmptyAllocation
<1>3. \A n \in DOMAIN input.nodes : n # NoNode
  BY <1>1, InputsAssumption, InputParts
<1>4. \A n \in DOMAIN input.nodes : PodsOn(input, alloc, n) = {}
  BY <1>2, <1>3 DEF PodsOn
<1>5. BoundIsClaims(input, alloc)
  BY <1>2, <1>4 DEF BoundIsClaims, ClaimsOf
<1>6. NobodyMoved(input, alloc)
  BY <1>2 DEF NobodyMoved
<1>7. Asked = {} /\ Served = {}
  BY <1>1 DEF Asked, Served
<1>8. Pushed(input, alloc, Asked) /\ LeftOut(input, alloc, Served)
  BY <1>7 DEF Pushed, LeftOut
<1> QED
  BY <1>1, <1>5, <1>6, <1>8 DEF ChoiceInv

\* The first loop: a pod is kept, or turned away for good.
LEMMA KeepChooses == ASSUME ChoiceInv, Keep, AllocatorInv' PROVE ChoiceInv'
<1>1. AllocatorInv /\ input \in Inputs /\ BoundIsClaims(input, alloc)
  BY DEF ChoiceInv
<1>2. /\ i \in DOMAIN input.slots /\ input' = input /\ phase = "sticky"
      /\ phase' = phase /\ i' = i + 1 /\ i \in Nat /\ alloc.node[i] = NoNode
      /\ ~CanStay(input, alloc, i) => alloc' = alloc
      /\ CanStay(input, alloc, i) =>
            /\ input.slots[i].prev \in DOMAIN input.nodes
            /\ \E m : alloc' = Take(input, alloc, i, input.slots[i].prev, m)
  BY <1>1, KeepCases
<1>3. NobodyMoved(input, alloc) /\ Pushed(input, alloc, 1..(i - 1))
  BY <1>2 DEF ChoiceInv, Asked
<1>4. IsInput(input) /\ Typed(input, alloc) /\ Summed(input, alloc)
  BY <1>1, SummedIsLoad
<1>5. Typed(input, alloc') /\ Summed(input, alloc')
  <2>1. LoadIsSum' /\ Sound(input', alloc')
    BY DEF AllocatorInv, PassInv
  <2>2. /\ Cpus' = CpuOf(input) /\ Mems' = MemOf(input)
        /\ \A n : PlacedOn(n)' = PodsOn(input, alloc', n)
    BY <1>2 DEF Cpus, Mems, CpuOf, MemOf, PlacedOn, PodsOn
  <2>3. \A n \in DOMAIN input.nodes :
            /\ alloc'.load[n].cpu = SumFunctionOnSet(Cpus', PlacedOn(n)')
            /\ alloc'.load[n].mem = SumFunctionOnSet(Mems', PlacedOn(n)')
    BY <1>2, <2>1 DEF LoadIsSum
  <2> QED
    BY <1>2, <2>1, <2>2, <2>3 DEF Summed, Sound
<1>6. DOMAIN input.slots = 1..Len(input.slots) /\ Len(input.slots) \in Nat
  BY <1>4, InputParts
<1>7. /\ BoundIsClaims(input, alloc') /\ NobodyMoved(input, alloc')
      /\ \A x \in DOMAIN input.nodes : Emptier(alloc, alloc', x)
      /\ \A s \in DOMAIN input.slots : s # i => alloc'.node[s] = alloc.node[s]
      /\ CanStay(input, alloc, i) => alloc'.node[i] = input.slots[i].prev
  <2>1. CASE ~CanStay(input, alloc, i)
    <3>1. \A x \in DOMAIN input.nodes : Emptier(alloc, alloc, x)
      <4> TAKE x \in DOMAIN input.nodes
      <4>1. alloc.load[x] \in [cpu : Nat, mem : Nat]
        BY <1>4 DEF Typed
      <4> QED
        BY <1>4, <4>1 DEF Typed, Emptier, NodeEntryOK
    <3> QED
      BY <1>1, <1>2, <1>3, <2>1, <3>1
  <2>2. CASE CanStay(input, alloc, i)
    <3>1. PICK n : n = input.slots[i].prev /\ n \in DOMAIN input.nodes
      BY <1>2, <2>2
    <3>2. PICK m : alloc' = Take(input, alloc, i, n, m)
      BY <1>2, <2>2, <3>1
    <3>3. BoundIsClaims(input, alloc')
      BY <1>1, <1>2, <1>4, <3>1, <3>2, TakeBinds
    <3>4. \A x \in DOMAIN input.nodes : Emptier(alloc, alloc', x)
      BY <1>2, <1>4, <1>5, <3>1, <3>2, TakeFills
    <3>5. alloc'.node = [alloc.node EXCEPT ![i] = n]
      BY <3>2 DEF Take
    <3>6. alloc.node \in [DOMAIN input.slots -> DOMAIN input.nodes \cup {NoNode}]
      BY <1>4 DEF Typed
    <3>7. /\ \A s \in DOMAIN input.slots : s # i => alloc'.node[s] = alloc.node[s]
          /\ alloc'.node[i] = n
      BY <1>2, <3>5, <3>6
    <3>8. NobodyMoved(input, alloc')
      BY <1>3, <3>1, <3>7 DEF NobodyMoved
    <3> QED
      BY <3>1, <3>3, <3>4, <3>7, <3>8
  <2> QED
    BY <2>1, <2>2
<1>8. Pushed(input, alloc', 1..i)
  <2> SUFFICES ASSUME NEW s \in 1..i, input.slots[s].prev \in Keepable(input),
                      alloc'.node[s] # input.slots[s].prev
               PROVE  Pushed(input, alloc', {s})
    BY DEF Pushed
  <2>1. s \in DOMAIN input.slots /\ (s = i \/ s \in 1..(i - 1))
    BY <1>2, <1>6
  <2>2. ~CanStay(input, alloc, s)
    <3>1. CASE s = i
      BY <1>7, <3>1
    <3>2. CASE s \in 1..(i - 1)
      <4>1. PICK n : n = input.slots[s].prev
        OBVIOUS
      <4>2. alloc.node[s] # n
        BY <1>2, <1>7, <2>1, <3>2, <4>1
      <4>3. ~CanStay(input, HasOnly(input, alloc, n, PodsKept(input, alloc, n)), s)
        BY <1>3, <3>2, <4>1, <4>2 DEF Pushed
      <4>4. n \in DOMAIN input.nodes
        BY <4>1 DEF Keepable
      <4> QED
        BY <1>1, <1>3, <1>4, <2>1, <4>1, <4>3, <4>4, AloneTogether
    <3> QED
      BY <2>1, <3>1, <3>2
  <2> QED
    BY <1>1, <1>3, <1>4, <1>5, <1>7, <2>1, <2>2, KeepingPushes
<1>9. Asked' = 1..i /\ Served' = {}
  BY <1>2 DEF Asked, Served
<1>10. LeftOut(input, alloc', Served')
  BY <1>9 DEF LeftOut
<1> QED
  BY <1>1, <1>2, <1>7, <1>8, <1>9, <1>10 DEF ChoiceInv

\* The second loop: a pod is placed away from where it was turned away, or left out for good.
LEMMA PlaceChooses == ASSUME ChoiceInv, Place, AllocatorInv' PROVE ChoiceInv'
<1>1. AllocatorInv /\ input \in Inputs /\ BoundIsClaims(input, alloc)
  BY DEF ChoiceInv
<1>2. /\ i \in DOMAIN input.slots /\ input' = input /\ phase = "place"
      /\ phase' = phase /\ i' = i + 1 /\ i \in Nat
      /\ \/ alloc' = alloc /\ (alloc.node[i] = NoNode => Candidates(input, alloc, i) = {})
         \/ /\ alloc.node[i] = NoNode
            /\ \E n \in Candidates(input, alloc, i) : \E m : alloc' = Take(input, alloc, i, n, m)
  BY <1>1, PlaceCases
<1>3. Pushed(input, alloc, DOMAIN input.slots) /\ LeftOut(input, alloc, 1..(i - 1))
  BY <1>2 DEF ChoiceInv, Asked, Served
<1>4. IsInput(input) /\ Typed(input, alloc) /\ Summed(input, alloc)
  BY <1>1, SummedIsLoad
<1>5. Typed(input, alloc')
  BY <1>2 DEF AllocatorInv, PassInv, PassTypeOK, Sound
<1>6. DOMAIN input.slots = 1..Len(input.slots) /\ Len(input.slots) \in Nat
  BY <1>4, InputParts
<1>7. Asked' = DOMAIN input.slots /\ Served' = 1..i /\ phase' # "sticky"
  BY <1>2 DEF Asked, Served
<1>8. /\ BoundIsClaims(input, alloc') /\ Pushed(input, alloc', DOMAIN input.slots)
      /\ LeftOut(input, alloc', 1..i)
  <2>1. CASE alloc' = alloc /\ (alloc.node[i] = NoNode => Candidates(input, alloc, i) = {})
    <3>1. \A s \in 1..i : s = i \/ s \in 1..(i - 1)
      BY <1>2
    <3>2. LeftOut(input, alloc, 1..i)
      BY <1>3, <2>1, <3>1 DEF LeftOut
    <3> QED
      BY <1>1, <1>3, <2>1, <3>2
  <2>2. CASE /\ alloc.node[i] = NoNode
             /\ \E n \in Candidates(input, alloc, i) : \E m :
                   alloc' = Take(input, alloc, i, n, m)
    <3>1. PICK n \in Candidates(input, alloc, i) : \E m : alloc' = Take(input, alloc, i, n, m)
      BY <2>2
    <3>2. PICK m : alloc' = Take(input, alloc, i, n, m)
      BY <3>1
    <3>3. n \in DOMAIN input.nodes /\ n # NoNode
      BY <1>4, InputParts DEF Candidates, Placeable, Keepable
    <3>4. BoundIsClaims(input, alloc')
      BY <1>1, <1>2, <1>4, <2>2, <3>2, <3>3, TakeBinds
    <3>5. \A x \in DOMAIN input.nodes : Emptier(alloc, alloc', x)
      BY <1>2, <1>4, <1>5, <3>2, <3>3, TakeFills
    <3>6. Pushed(input, alloc', DOMAIN input.slots)
      BY <1>1, <1>2, <1>3, <1>4, <2>2, <3>2, PlacingPushes
    <3>7. alloc'.node = [alloc.node EXCEPT ![i] = n]
      BY <3>2 DEF Take
    <3>8. alloc.node \in [DOMAIN input.slots -> DOMAIN input.nodes \cup {NoNode}]
      BY <1>4 DEF Typed
    <3>9. \A s \in DOMAIN input.slots : alloc'.node[s] = NoNode => alloc.node[s] = NoNode
      BY <2>2, <3>7, <3>8
    <3>10. 1..(i - 1) \in SUBSET DOMAIN input.slots /\ 1..i \in SUBSET DOMAIN input.slots
      BY <1>2, <1>6
    <3>11. LeftOut(input, alloc', 1..(i - 1))
      BY <1>1, <1>3, <1>4, <1>5, <3>5, <3>9, <3>10, StillLeftOut
    <3>12. alloc'.node[i] # NoNode
      BY <1>2, <3>3, <3>7, <3>8
    <3>13. \A s \in 1..i : s = i \/ s \in 1..(i - 1)
      BY <1>2
    <3>14. LeftOut(input, alloc', 1..i)
      BY <3>11, <3>12, <3>13 DEF LeftOut
    <3> QED
      BY <3>4, <3>6, <3>14
  <2> QED
    BY <1>2, <2>1, <2>2
<1> QED
  BY <1>1, <1>2, <1>7, <1>8 DEF ChoiceInv

\* Every step of a pass keeps the invariant.
LEMMA StepChooses == ChoiceInv /\ [PassNext]_passVars => ChoiceInv'
<1> SUFFICES ASSUME ChoiceInv, [PassNext]_passVars PROVE ChoiceInv'
  OBVIOUS
<1>1. AllocatorInv /\ AllocatorInv'
  BY StepAllocates DEF ChoiceInv
<1>2. CASE Keep
  BY <1>1, <1>2, KeepChooses
<1>3. CASE Place
  BY <1>1, <1>3, PlaceChooses
<1>4. CASE StartPlacing \/ Finish \/ UNCHANGED passVars
  <2>1. DOMAIN input.slots = 1..Len(input.slots) /\ Len(input.slots) \in Nat
        /\ i \in 1..(Len(input.slots) + 1)
    BY <1>1, InputParts DEF AllocatorInv, PassInv, PassTypeOK
  <2>2. input' = input /\ alloc' = alloc
    BY <1>4 DEF StartPlacing, Finish, passVars
  <2>3. Asked' = Asked /\ Served' = Served /\ (phase' = "sticky" => phase = "sticky")
    <3>1. CASE StartPlacing
      BY <2>1, <3>1 DEF StartPlacing, Asked, Served
    <3>2. CASE Finish
      BY <2>1, <3>2 DEF Finish, Asked, Served
    <3>3. CASE UNCHANGED passVars
      BY <3>3 DEF passVars, Asked, Served
    <3> QED
      BY <1>4, <3>1, <3>2, <3>3
  <2> QED
    BY <1>1, <2>2, <2>3 DEF ChoiceInv
<1> QED
  BY <1>2, <1>3, <1>4 DEF PassNext

\* The invariant holds throughout every pass.
THEOREM ChoiceInvariance == PassSpec => []ChoiceInv
  BY InitChooses, StepChooses, PTL DEF PassSpec

\* A pod that could stay on its node and is not there was pushed out by pods that were there
\* before and stayed, never by a newcomer: not even by the ports a newcomer was given, and
\* not when the pod itself comes to be placed (schedule, bind_ports).
THEOREM RunningPodsAreKept == PassSpec => []RunningPodsWin
<1>1. ChoiceInv => RunningPodsWin
  <2> SUFFICES ASSUME ChoiceInv, phase # "sticky", NEW s \in DOMAIN input.slots,
                      input.slots[s].prev \in Keepable(input),
                      alloc.node[s] # input.slots[s].prev
               PROVE  LET n == input.slots[s].prev
                          kept == {t \in PlacedOn(n) : input.slots[t].prev = n}
                      IN  ~CanStay(input,
                            [load  |-> [m \in {n} |-> [cpu |-> SumFunctionOnSet(Cpus, kept),
                                                       mem |-> SumFunctionOnSet(Mems, kept)]],
                             bound |-> [m \in {n} |-> UNION {Claims(alloc.ports[t]) : t \in kept}]],
                            s)
    BY DEF RunningPodsWin
  <2>1. Pushed(input, alloc, DOMAIN input.slots)
    BY DEF ChoiceInv, Asked
  <2> QED
    BY <2>1 DEF Pushed, HasOnly, PodsKept, PodsOn, PlacedOn, CpuOf, MemOf, Cpus, Mems, ClaimsOf
<1> QED
  BY <1>1, ChoiceInvariance, PTL

\* The pass leaves no pod out that some node would still take: what is Unschedulable when a
\* pass ends fits nowhere on the fleet as the pass leaves it (schedule).
OutMeansNoRoom == phase = "done" =>
    \A s \in DOMAIN input.slots : alloc.node[s] = NoNode => Candidates(input, alloc, s) = {}
THEOREM NobodyIsLeftOut == PassSpec => []OutMeansNoRoom
<1>1. ChoiceInv => OutMeansNoRoom
  BY DEF ChoiceInv, Served, LeftOut, OutMeansNoRoom
<1> QED
  BY <1>1, ChoiceInvariance, PTL

-----------------------------------------------------------------------------
(* A pass fed with its own result.  Its first loop rebuilds the allocation     *)
(* pod by pod, in the order of the slots and not in the order they were placed *)
(* in; its second finds nothing to place.                                      *)

Again(in, a) == [in EXCEPT !.slots = [s \in DOMAIN in.slots |->
                    [in.slots[s] EXCEPT !.prev = a.node[s], !.prevPorts = a.ports[s]]]]

\* The next input differs in where the pods are and in the ports they have.
LEMMA AgainParts ==
    ASSUME NEW in, IsInput(in), NEW a, Typed(in, a)
    PROVE  /\ IsInput(Again(in, a))
           /\ Again(in, a).nodes = in.nodes /\ Again(in, a).exclude = in.exclude
           /\ Again(in, a).fixed = in.fixed
           /\ DOMAIN Again(in, a).slots = DOMAIN in.slots
           /\ Len(Again(in, a).slots) = Len(in.slots)
           /\ \A s \in DOMAIN in.slots :
                /\ Again(in, a).slots[s].cpu = in.slots[s].cpu
                /\ Again(in, a).slots[s].mem = in.slots[s].mem
                /\ Again(in, a).slots[s].specs = in.slots[s].specs
                /\ Again(in, a).slots[s].selector = in.slots[s].selector
                /\ Again(in, a).slots[s].tolerations = in.slots[s].tolerations
                /\ Again(in, a).slots[s].prev = a.node[s]
                /\ Again(in, a).slots[s].prevPorts = a.ports[s]
<1> DEFINE g == Again(in, a)
           next == [s \in DOMAIN in.slots |->
                      [in.slots[s] EXCEPT !.prev = a.node[s], !.prevPorts = a.ports[s]]]
<1>1. /\ in.slots \in Seq(Slot) /\ DOMAIN in.slots = 1..Len(in.slots) /\ Len(in.slots) \in Nat
      /\ \A s \in DOMAIN in.slots : in.slots[s] \in Slot
  BY InputParts
<1>2. g = [slots |-> next, nodes |-> in.nodes, exclude |-> in.exclude, fixed |-> in.fixed]
  <2>1. in = [slots |-> in.slots, nodes |-> in.nodes, exclude |-> in.exclude, fixed |-> in.fixed]
    BY DEF IsInput
  <2>2. g = [in EXCEPT !.slots = next]
    BY DEF Again
  <2> HIDE DEF g, next
  <2>3. PICK p, q, r, t : in = [slots |-> p, nodes |-> q, exclude |-> r, fixed |-> t]
    BY <2>1
  <2>4. g = [slots |-> next, nodes |-> q, exclude |-> r, fixed |-> t]
    BY <2>2, <2>3
  <2> QED
    BY <2>3, <2>4
<1>3. \A s \in DOMAIN in.slots : a.node[s] \in Node \cup {NoNode} /\ a.ports[s] \in Seq(Mapping)
  BY DEF Typed, IsInput
<1>4. ASSUME NEW s \in DOMAIN in.slots
      PROVE  /\ next[s] \in Slot
             /\ next[s].cpu = in.slots[s].cpu /\ next[s].mem = in.slots[s].mem
             /\ next[s].specs = in.slots[s].specs
             /\ next[s].selector = in.slots[s].selector
             /\ next[s].tolerations = in.slots[s].tolerations
             /\ next[s].prev = a.node[s] /\ next[s].prevPorts = a.ports[s]
  BY <1>1, <1>3 DEF Slot
<1>5. next \in [1..Len(in.slots) -> Slot]
  BY <1>1, <1>4
<1> HIDE DEF next
<1>6. next \in Seq(Slot) /\ Len(next) = Len(in.slots) /\ DOMAIN next = DOMAIN in.slots
  BY <1>1, <1>5
<1>7. IsInput(g)
  BY <1>2, <1>6 DEF IsInput
<1> QED
  BY <1>2, <1>4, <1>6, <1>7

DistinctPorts(specs) == \A j, k \in DOMAIN specs : j # k =>
    specs[j].cont # specs[k].cont \/ specs[j].proto # specs[k].proto

\* A spec is given the port it has, if the specs before it were (bind_ports).
LEMMA SameHostAgain ==
    ASSUME NEW specs \in Seq(PortSpec), DistinctPorts(specs),
           NEW used \in SUBSET (HostPort \X Proto), NEW fixed \in SUBSET (HostPort \X Proto),
           NEW m, BindingOK(specs, used, fixed, m),
           NEW k \in DOMAIN specs, NEW h, \A j \in 1..(k - 1) : h[j] = m[j].host
    PROVE  HostsFor(specs[k], m, TakenBefore(used, specs, h, k), fixed) = {m[k].host}
<1> DEFINE x == m[k].host
           t == TakenBefore(used, specs, h, k)
           p == specs[k].proto
<1>1. /\ DOMAIN specs = 1..Len(specs) /\ Len(specs) \in Nat /\ DOMAIN m = DOMAIN specs
      /\ m[k] \in Mapping
  BY DEF BindingOK
<1>2. /\ x \in HostPort /\ m[k].proto = p /\ m[k].cont = specs[k].cont
      /\ IF specs[k].host = AnyHost
         THEN x \in PortLo..PortHi /\ <<x, p>> \notin fixed
         ELSE x = specs[k].host
  BY <1>1 DEF BindingOK, Mapping
<1>3. <<x, p>> \notin used
  <2>1. <<x, p>> \in Claims(m)
    BY <1>1, <1>2 DEF Claims
  <2> QED
    BY <2>1 DEF BindingOK
<1>4. ASSUME NEW j \in 1..(k - 1) PROVE <<h[j], specs[j].proto>> # <<x, p>>
  <2>1. j \in DOMAIN m /\ j # k /\ k \in DOMAIN m /\ h[j] = m[j].host /\ m[j].proto = specs[j].proto
    <3>1. j \in DOMAIN specs /\ j # k
      BY <1>1
    <3> QED
      BY <1>1, <3>1 DEF BindingOK
  <2>2. m[j].host # m[k].host \/ m[j].proto # m[k].proto
    BY <2>1 DEF BindingOK
  <2> QED
    BY <1>2, <2>1, <2>2
<1>5. <<x, p>> \notin t
  BY <1>3, <1>4 DEF TakenBefore
<1> HIDE DEF t
<1>6. CASE specs[k].host = AnyHost
  <2>1. \A j \in DOMAIN m : m[j].cont = specs[k].cont /\ m[j].proto = p <=> j = k
    <3> TAKE j \in DOMAIN m
    <3>1. j \in DOMAIN specs /\ m[j].cont = specs[j].cont /\ m[j].proto = specs[j].proto
      BY <1>1 DEF BindingOK
    <3>2. j # k => specs[j].cont # specs[k].cont \/ specs[j].proto # specs[k].proto
      BY <3>1 DEF DistinctPorts
    <3>3. m[k].proto = p /\ m[k].cont = specs[k].cont
      BY <1>2
    <3> QED
      BY <3>1, <3>2, <3>3
  <2>2. {j \in DOMAIN m : m[j].cont = specs[k].cont /\ m[j].proto = p} = {k}
    BY <1>1, <2>1
  <2>3. PrevHost(m, specs[k]) = {x}
    <3>1. {l \in {k} : \A j \in {k} : j <= l} = {k}
      BY <1>1
    <3> QED
      BY <2>2, <3>1 DEF PrevHost
  <2>4. x \in FreeHosts(p, t, fixed)
    BY <1>2, <1>5, <1>6 DEF FreeHosts
  <2> HIDE DEF x
  <2>5. PrevHost(m, specs[k]) \cap FreeHosts(p, t, fixed) = {x}
    BY <2>3, <2>4
  <2>6. HostsFor(specs[k], m, t, fixed) = {x}
    BY <1>6, <2>5 DEF HostsFor
  <2> QED
    BY <2>6 DEF t, x
<1>7. CASE specs[k].host # AnyHost
  <2>1. HostsFor(specs[k], m, t, fixed) = {specs[k].host} \ {y \in HostPort : <<y, p>> \in t}
    BY <1>7 DEF HostsFor
  <2>2. HostsFor(specs[k], m, t, fixed) = {x}
    BY <1>2, <1>5, <1>7, <2>1
  <2> QED
    BY <2>2 DEF t
<1> QED
  BY <1>6, <1>7

\* A pod asked again gets the very ports it has, if nothing on the node is in their way
\* (bind_ports, its prev_ports).
LEMMA SamePortsAgain ==
    ASSUME NEW specs \in Seq(PortSpec), DistinctPorts(specs),
           NEW used \in SUBSET (HostPort \X Proto), NEW fixed \in SUBSET (HostPort \X Proto),
           NEW m, BindingOK(specs, used, fixed, m)
    PROVE  Bindings(specs, m, used, fixed) = {m}
<1> DEFINE D == DOMAIN specs
           Mapped(h) == [k \in D |-> [host |-> h[k], cont |-> specs[k].cont,
                                      proto |-> specs[k].proto]]
           Chosen(h) == \A k \in D :
               h[k] \in HostsFor(specs[k], m, TakenBefore(used, specs, h, k), fixed)
           g == [k \in D |-> m[k].host]
<1>1. /\ D = 1..Len(specs) /\ Len(specs) \in Nat /\ m \in Seq(Mapping) /\ DOMAIN m = D
      /\ \A k \in D : m[k] \in Mapping
  BY DEF BindingOK
<1>2. g \in [D -> HostPort]
  <2>1. \A k \in D : m[k].host \in HostPort
    BY <1>1 DEF Mapping
  <2> QED
    BY <2>1
<1>3. Chosen(g)
  <2> SUFFICES ASSUME NEW k \in D
               PROVE  g[k] \in HostsFor(specs[k], m, TakenBefore(used, specs, g, k), fixed)
    OBVIOUS
  <2>1. \A j \in 1..(k - 1) : g[j] = m[j].host
    BY <1>1
  <2>2. g[k] = m[k].host
    OBVIOUS
  <2> HIDE DEF g
  <2>3. HostsFor(specs[k], m, TakenBefore(used, specs, g, k), fixed) = {m[k].host}
    BY <2>1, SameHostAgain
  <2> QED
    BY <2>2, <2>3
<1>4. ASSUME NEW h \in [D -> HostPort], Chosen(h) PROVE h = g
  <2> DEFINE Q == {k \in 0..Len(specs) : \A j \in 1..k : h[j] = m[j].host}
  <2>1. 0 \in Q
    BY <1>1
  <2>2. ASSUME NEW k \in 0..Len(specs), k - 1 \in Q, k > 0 PROVE k \in Q
    <3>1. k \in D /\ \A j \in 1..(k - 1) : h[j] = m[j].host
      BY <1>1, <2>2
    <3>2. HostsFor(specs[k], m, TakenBefore(used, specs, h, k), fixed) = {m[k].host}
      BY <3>1, SameHostAgain
    <3>3. h[k] = m[k].host
      BY <1>4, <3>1, <3>2
    <3>4. \A j \in 1..k : j = k \/ j \in 1..(k - 1)
      BY <3>1, <1>1
    <3> QED
      BY <3>1, <3>3, <3>4
  <2> HIDE DEF Q
  <2>3. 0..Len(specs) \subseteq Q
    BY <1>1, <2>1, <2>2, Climb
  <2>4. Len(specs) \in Q
    BY <1>1, <2>3
  <2>5. \A j \in D : h[j] = m[j].host
    BY <1>1, <2>4 DEF Q
  <2> QED
    BY <2>5
<1>5. Mapped(g) = m
  <2>1. \A k \in D : m[k] = [host |-> m[k].host, cont |-> specs[k].cont, proto |-> specs[k].proto]
    <3> TAKE k \in D
    <3>1. m[k].cont = specs[k].cont /\ m[k].proto = specs[k].proto
      BY DEF BindingOK
    <3> QED
      BY <1>1, <3>1 DEF Mapping
  <2>2. m = [k \in D |-> m[k]]
    BY <1>1
  <2>3. \A k \in D : Mapped(g)[k] = m[k]
    BY <2>1
  <2> QED
    BY <2>2, <2>3
<1>6. Bindings(specs, m, used, fixed) = {Mapped(h) : h \in {h \in [D -> HostPort] : Chosen(h)}}
  BY DEF Bindings
<1> HIDE DEF Mapped, Chosen, g
<1> QED
  BY <1>2, <1>3, <1>4, <1>5, <1>6

\* The pods of a node up to the k-th slot, and the allocation that has the first k slots only.
FirstOn(in, a, x, k) == {s \in PodsOn(in, a, x) : s <= k}
Restored(in, a, k) ==
    [load  |-> [x \in DOMAIN in.nodes |->
                  [cpu |-> SumFunctionOnSet(CpuOf(in), FirstOn(in, a, x, k)),
                   mem |-> SumFunctionOnSet(MemOf(in), FirstOn(in, a, x, k))]],
     bound |-> [x \in DOMAIN in.nodes |-> ClaimsOf(a, FirstOn(in, a, x, k))],
     node  |-> [s \in DOMAIN in.slots |-> IF s <= k THEN a.node[s] ELSE NoNode],
     ports |-> [s \in DOMAIN in.slots |-> IF s <= k THEN a.ports[s] ELSE <<>>]]

Settled(in, a) == /\ in \in Inputs /\ Sound(in, a) /\ Summed(in, a) /\ BoundIsClaims(in, a)
                  /\ \A s \in DOMAIN in.slots : DistinctPorts(in.slots[s].specs)

\* What the first loop of the next pass starts from, and what it ends with.
LEMMA RestoredEnds ==
    ASSUME NEW in, NEW a, Settled(in, a)
    PROVE  /\ Restored(in, a, 0) = EmptyAllocation(Again(in, a))
           /\ Restored(in, a, Len(in.slots)) = a
<1>1. /\ IsInput(in) /\ Typed(in, a) /\ Covers(in, a)
      /\ DOMAIN in.slots = 1..Len(in.slots) /\ Len(in.slots) \in Nat
  BY InputsAssumption, InputParts DEF Settled, Sound
<1>2. \A x : FirstOn(in, a, x, 0) = {} /\ FirstOn(in, a, x, Len(in.slots)) = PodsOn(in, a, x)
  BY <1>1 DEF FirstOn, PodsOn
<1>3. ClaimsOf(a, {}) = {}
  BY DEF ClaimsOf
<1>4. \A s \in DOMAIN in.slots : s <= Len(in.slots) /\ ~(s <= 0)
  BY <1>1
<1>5. Restored(in, a, 0) = EmptyAllocation(Again(in, a))
  <2>1. DOMAIN Again(in, a).slots = DOMAIN in.slots /\ Again(in, a).nodes = in.nodes
    BY <1>1, AgainParts
  <2>2. \A x : /\ SumFunctionOnSet(CpuOf(in), FirstOn(in, a, x, 0)) = 0
               /\ SumFunctionOnSet(MemOf(in), FirstOn(in, a, x, 0)) = 0
               /\ ClaimsOf(a, FirstOn(in, a, x, 0)) = {}
    BY <1>2, <1>3, SumEmpty
  <2> QED
    BY <1>4, <2>1, <2>2 DEF Restored, EmptyAllocation
<1>6. Restored(in, a, Len(in.slots)) = a
  <2> DEFINE b == Restored(in, a, Len(in.slots))
  <2>1. b.load = a.load
    <3>1. \A x \in DOMAIN in.nodes : a.load[x] = [cpu |-> a.load[x].cpu, mem |-> a.load[x].mem]
      <4> TAKE x \in DOMAIN in.nodes
      <4>1. a.load[x] \in [cpu : Nat, mem : Nat]
        BY <1>1 DEF Typed
      <4> QED
        BY <4>1
    <3>2. \A x \in DOMAIN in.nodes :
              a.load[x] = [cpu |-> SumFunctionOnSet(CpuOf(in), PodsOn(in, a, x)),
                           mem |-> SumFunctionOnSet(MemOf(in), PodsOn(in, a, x))]
      BY <3>1 DEF Settled, Summed
    <3>3. a.load = [x \in DOMAIN in.nodes |-> a.load[x]]
      BY <1>1 DEF Typed
    <3> QED
      BY <1>2, <3>2, <3>3 DEF Restored
  <2>2. b.bound = a.bound
    <3>1. a.bound = [x \in DOMAIN in.nodes |-> a.bound[x]]
      BY <1>1 DEF Typed
    <3> QED
      BY <1>2, <3>1 DEF Restored, Settled, BoundIsClaims
  <2>3. b.node = a.node /\ b.ports = a.ports
    <3>1. /\ a.node = [s \in DOMAIN in.slots |-> a.node[s]]
          /\ a.ports = [s \in DOMAIN in.slots |-> a.ports[s]]
      BY <1>1 DEF Typed
    <3> QED
      BY <1>4, <3>1 DEF Restored
  <2>4. /\ b = [load |-> b.load, bound |-> b.bound, node |-> b.node, ports |-> b.ports]
        /\ a = [load |-> a.load, bound |-> a.bound, node |-> a.node, ports |-> a.ports]
    BY <1>1 DEF Restored, Typed
  <2> HIDE DEF b
  <2>5. b = a
    BY <2>1, <2>2, <2>3, <2>4
  <2> QED
    BY <2>5 DEF b
<1> QED
  BY <1>5, <1>6

\* The k-th pod has its node's ports again: those before it are not in its way.
LEMMA OwnPortsFree ==
    ASSUME NEW in, NEW a, Settled(in, a), NEW k \in DOMAIN in.slots, a.node[k] # NoNode
    PROVE  Bindings(in.slots[k].specs, a.ports[k], ClaimsOf(a, FirstOn(in, a, a.node[k], k - 1)),
                    in.fixed) = {a.ports[k]}
<1> DEFINE specs == in.slots[k].specs
           m == a.ports[k]
           used == ClaimsOf(a, FirstOn(in, a, a.node[k], k - 1))
<1>1. /\ IsInput(in) /\ Typed(in, a) /\ Exclusive(in, a) /\ AnswersSpecs(in, a)
      /\ DistinctPorts(specs)
  BY InputsAssumption DEF Settled, Sound
<1>2. /\ specs \in Seq(PortSpec) /\ in.fixed \in SUBSET (HostPort \X Proto)
      /\ DOMAIN in.slots = 1..Len(in.slots) /\ Len(in.slots) \in Nat
  BY <1>1, InputParts
<1>3. \A s \in DOMAIN in.slots : Claims(a.ports[s]) \in SUBSET (HostPort \X Proto)
  <2> TAKE s \in DOMAIN in.slots
  <2>1. \A j \in DOMAIN a.ports[s] : a.ports[s][j] \in Mapping
    BY <1>1 DEF Typed
  <2>2. \A j \in DOMAIN a.ports[s] :
            a.ports[s][j].host \in HostPort /\ a.ports[s][j].proto \in Proto
    BY <2>1 DEF Mapping
  <2> QED
    BY <2>2 DEF Claims
<1>4. used \in SUBSET (HostPort \X Proto)
  BY <1>3 DEF ClaimsOf, FirstOn, PodsOn
<1>5. Claims(m) \cap used = {}
  <2>1. \A s \in FirstOn(in, a, a.node[k], k - 1) : Claims(m) \cap Claims(a.ports[s]) = {}
    <3> TAKE s \in FirstOn(in, a, a.node[k], k - 1)
    <3>1. s \in DOMAIN in.slots /\ a.node[s] = a.node[k] /\ s # k
      BY <1>2 DEF FirstOn, PodsOn
    <3> QED
      BY <1>1, <3>1 DEF Exclusive
  <2> QED
    BY <2>1 DEF ClaimsOf
<1>6. /\ m \in Seq(Mapping) /\ Len(m) = Len(specs)
      /\ \A j, l \in DOMAIN m : j # l => m[j].host # m[l].host \/ m[j].proto # m[l].proto
  BY <1>1 DEF Typed, Exclusive, AnswersSpecs
<1>7. \A l \in DOMAIN specs :
          /\ m[l].cont = specs[l].cont /\ m[l].proto = specs[l].proto
          /\ IF specs[l].host = AnyHost
             THEN /\ m[l].host \in PortLo..PortHi
                  /\ <<m[l].host, m[l].proto>> \notin in.fixed
             ELSE m[l].host = specs[l].host
  BY <1>1, Zenon DEF AnswersSpecs
<1>8. DOMAIN m = DOMAIN specs
  BY <1>2, <1>6
<1>9. BindingOK(specs, used, in.fixed, m)
  BY <1>3, <1>5, <1>6, <1>7, <1>8 DEF BindingOK
<1> HIDE DEF used, m, specs
<1>10. \A fixed \in SUBSET (HostPort \X Proto) :
           BindingOK(specs, used, fixed, m) => Bindings(specs, m, used, fixed) = {m}
  BY <1>1, <1>2, <1>4, SamePortsAgain
<1>11. Bindings(specs, m, used, in.fixed) = {m}
  BY <1>2, <1>9, <1>10
<1> QED
  BY <1>11 DEF used, m, specs

\* The first loop of the next pass keeps the k-th pod where the last pass left it, with the
\* ports it gave it; what was left out has no node to stay on.
LEMMA RestoreOne ==
    ASSUME NEW in, NEW a, Settled(in, a), NEW k \in DOMAIN in.slots
    PROVE  StickyStep(Again(in, a), Restored(in, a, k - 1), k) = Restored(in, a, k)
<1> DEFINE g == Again(in, a)
           b == Restored(in, a, k - 1)
           c == Restored(in, a, k)
           First(x, n) == FirstOn(in, a, x, n)
           CpuSum(P) == SumFunctionOnSet(CpuOf(in), P)
           MemSum(P) == SumFunctionOnSet(MemOf(in), P)
<1>1. /\ IsInput(in) /\ Typed(in, a) /\ Covers(in, a) /\ Legal(in, a) /\ Loads(in, a)
  BY InputsAssumption DEF Settled, Sound
<1>2. /\ DOMAIN in.slots = 1..Len(in.slots) /\ Len(in.slots) \in Nat
      /\ \A n \in DOMAIN in.nodes : n # NoNode /\ in.nodes[n].cpu \in Nat /\ in.nodes[n].mem \in Nat
      /\ in.slots[k].cpu \in Nat /\ in.slots[k].mem \in Nat
  BY <1>1, InputParts
<1>3. /\ IsInput(g) /\ g.nodes = in.nodes /\ g.exclude = in.exclude /\ g.fixed = in.fixed
      /\ g.slots[k].cpu = in.slots[k].cpu /\ g.slots[k].mem = in.slots[k].mem
      /\ g.slots[k].specs = in.slots[k].specs /\ g.slots[k].selector = in.slots[k].selector
      /\ g.slots[k].tolerations = in.slots[k].tolerations
      /\ g.slots[k].prev = a.node[k] /\ g.slots[k].prevPorts = a.ports[k]
  BY <1>1, AgainParts
<1>4. /\ a.node \in [DOMAIN in.slots -> DOMAIN in.nodes \cup {NoNode}]
      /\ \A s \in DOMAIN in.slots : s <= k <=> s <= k - 1 \/ s = k
      /\ ~(k <= k - 1)
  BY <1>1, <1>2 DEF Typed
<1>5. \A x : x # a.node[k] => First(x, k) = First(x, k - 1)
  BY <1>4 DEF FirstOn, PodsOn
<1>6. b = [load |-> b.load, bound |-> b.bound, node |-> b.node, ports |-> b.ports]
  BY DEF Restored
<1>7. CASE a.node[k] = NoNode
  <2>1. ~CanStay(g, b, k)
    BY <1>2, <1>3, <1>7 DEF CanStay, Keepable
  <2>2. StickyStep(g, b, k) = b
    BY <2>1 DEF StickyStep
  <2>3. a.ports[k] = <<>>
    BY <1>1, <1>7 DEF Covers
  <2>4. \A x \in DOMAIN in.nodes : First(x, k) = First(x, k - 1)
    BY <1>2, <1>5, <1>7
  <2>5. \A s \in DOMAIN in.slots :
            /\ (IF s <= k THEN a.node[s] ELSE NoNode) = (IF s <= k - 1 THEN a.node[s] ELSE NoNode)
            /\ (IF s <= k THEN a.ports[s] ELSE <<>>) = (IF s <= k - 1 THEN a.ports[s] ELSE <<>>)
    BY <1>4, <1>7, <2>3
  <2>6. b = c
    BY <2>4, <2>5 DEF Restored
  <2> QED
    BY <2>2, <2>6
<1>8. CASE a.node[k] # NoNode
  <2>1. PICK x \in DOMAIN in.nodes : x = a.node[k]
    BY <1>4, <1>8
  <2> DEFINE P == First(x, k - 1)
  <2>2. /\ First(x, k) = P \cup {k} /\ k \notin P
        /\ P \in SUBSET DOMAIN in.slots
        /\ First(x, k) \in SUBSET PodsOn(in, a, x) /\ PodsOn(in, a, x) \in SUBSET DOMAIN in.slots
    BY <1>4, <2>1 DEF FirstOn, PodsOn
  <2>3. /\ IsFiniteSet(P) /\ IsFiniteSet(PodsOn(in, a, x)) /\ IsFiniteSet(First(x, k))
    <3>1. IsFiniteSet(DOMAIN in.slots)
      BY <1>2, FS_Interval
    <3> QED
      BY <2>2, <3>1, FS_Subset
  <2>4. /\ CpuOf(in) \in [DOMAIN in.slots -> Nat] /\ CpuOf(in) \in [DOMAIN in.slots -> Int]
        /\ MemOf(in) \in [DOMAIN in.slots -> Nat] /\ MemOf(in) \in [DOMAIN in.slots -> Int]
        /\ CpuOf(in)[k] = in.slots[k].cpu /\ MemOf(in)[k] = in.slots[k].mem
    <3>1. \A s \in DOMAIN in.slots : in.slots[s].cpu \in Nat /\ in.slots[s].mem \in Nat
      BY <1>1, InputParts
    <3> QED
      BY <3>1 DEF CpuOf, MemOf
  <2> HIDE DEF P
  <2>5. /\ CpuSum(P \cup {k}) = in.slots[k].cpu + CpuSum(P)
        /\ MemSum(P \cup {k}) = in.slots[k].mem + MemSum(P)
    <3>1. \A f \in [DOMAIN in.slots -> Int] :
              SumFunctionOnSet(f, P \cup {k}) = f[k] + SumFunctionOnSet(f, P)
      BY <2>2, <2>3, SumInsert
    <3> QED
      BY <2>4, <3>1
  <2>6. CpuSum(P) \in Int /\ MemSum(P) \in Int
    <3>1. \A f \in [DOMAIN in.slots -> Int] : SumFunctionOnSet(f, P) \in Int
      BY <2>2, <2>3, SumType
    <3> QED
      BY <2>4, <3>1
  <2>7. /\ CpuSum(P \cup {k}) <= CpuSum(PodsOn(in, a, x))
        /\ MemSum(P \cup {k}) <= MemSum(PodsOn(in, a, x))
    <3>1. P \cup {k} \in SUBSET PodsOn(in, a, x)
      BY <2>2
    <3>2. \A f \in [DOMAIN in.slots -> Nat] :
              SumFunctionOnSet(f, P \cup {k}) <= SumFunctionOnSet(f, PodsOn(in, a, x))
      BY <2>2, <2>3, <3>1, SumSubset
    <3> QED
      BY <2>4, <3>2
  <2>8. /\ CpuSum(PodsOn(in, a, x)) = a.load[x].cpu /\ MemSum(PodsOn(in, a, x)) = a.load[x].mem
        /\ a.load[x].cpu <= in.nodes[x].cpu /\ a.load[x].mem <= in.nodes[x].mem
        /\ a.load[x].cpu \in Nat /\ a.load[x].mem \in Nat
    <3>1. a.load[x] \in [cpu : Nat, mem : Nat]
      BY <1>1 DEF Typed
    <3> QED
      BY <1>1, <3>1 DEF Settled, Summed, Loads
  <2>9. b.load[x] = [cpu |-> CpuSum(P), mem |-> MemSum(P)] /\ b.bound[x] = ClaimsOf(a, P)
    BY DEF Restored, P
  <2>10. Fits(g, b, x, g.slots[k])
    <3>1. /\ CpuSum(P) + in.slots[k].cpu <= in.nodes[x].cpu
          /\ MemSum(P) + in.slots[k].mem <= in.nodes[x].mem
      <4>1. CpuSum(P) + in.slots[k].cpu <= in.nodes[x].cpu
        <5>1. PICK c0, c1, c2 : /\ c0 = CpuSum(P) /\ c1 = CpuSum(P \cup {k})
                                /\ c2 = CpuSum(PodsOn(in, a, x))
          OBVIOUS
        <5>2. /\ c0 \in Int /\ c1 = in.slots[k].cpu + c0 /\ c1 <= c2
              /\ c2 \in Nat /\ c2 <= in.nodes[x].cpu
          BY <2>5, <2>6, <2>7, <2>8, <5>1
        <5> HIDE DEF CpuSum
        <5> QED
          BY <1>2, <5>1, <5>2
      <4>2. MemSum(P) + in.slots[k].mem <= in.nodes[x].mem
        <5>1. PICK c0, c1, c2 : /\ c0 = MemSum(P) /\ c1 = MemSum(P \cup {k})
                                /\ c2 = MemSum(PodsOn(in, a, x))
          OBVIOUS
        <5>2. /\ c0 \in Int /\ c1 = in.slots[k].mem + c0 /\ c1 <= c2
              /\ c2 \in Nat /\ c2 <= in.nodes[x].mem
          BY <2>5, <2>6, <2>7, <2>8, <5>1
        <5> HIDE DEF MemSum
        <5> QED
          BY <1>2, <5>1, <5>2
      <4> QED
        BY <4>1, <4>2
    <3> HIDE DEF CpuSum, MemSum
    <3> QED
      BY <1>3, <2>9, <3>1 DEF Fits
  <2>11. BindingsOn(g, b, x, g.slots[k], a.ports[k]) = {a.ports[k]}
    <3>1. Bindings(in.slots[k].specs, a.ports[k], ClaimsOf(a, P), in.fixed) = {a.ports[k]}
      BY <1>8, <2>1, OwnPortsFree DEF P
    <3> QED
      BY <1>3, <2>9, <3>1 DEF BindingsOn
  <2>12. CanStay(g, b, k)
    <3>1. x \in Keepable(g) /\ Matches(in.nodes[x], in.slots[k])
      BY <1>1, <1>3, <1>8, <2>1 DEF Legal, Keepable
    <3>2. Matches(in.nodes[x], g.slots[k])
      BY <1>3, <3>1 DEF Matches
    <3>3. BindingsOn(g, b, x, g.slots[k], a.ports[k]) # {}
      BY <2>11
    <3> HIDE DEF g, b
    <3> QED
      BY <1>3, <2>1, <2>10, <3>1, <3>2, <3>3 DEF CanStay
  <2>13. StickyStep(g, b, k) = Take(g, b, k, x, a.ports[k])
    <3>1. (CHOOSE m \in {a.ports[k]} : TRUE) = a.ports[k]
      OBVIOUS
    <3> HIDE DEF g, b
    <3> QED
      BY <1>3, <2>1, <2>11, <2>12, <3>1 DEF StickyStep
  <2>14. c.load = [b.load EXCEPT ![x] = [cpu |-> b.load[x].cpu + g.slots[k].cpu,
                                         mem |-> b.load[x].mem + g.slots[k].mem]]
    <3>1. \A y \in DOMAIN in.nodes :
              c.load[y] = [cpu |-> CpuSum(First(y, k)), mem |-> MemSum(First(y, k))]
      BY DEF Restored
    <3>2. \A y \in DOMAIN in.nodes : y # x => c.load[y] = b.load[y]
      BY <1>5, <2>1 DEF Restored
    <3>3. c.load[x] = [cpu |-> b.load[x].cpu + g.slots[k].cpu,
                       mem |-> b.load[x].mem + g.slots[k].mem]
      <4>1. c.load[x] = [cpu |-> CpuSum(P \cup {k}), mem |-> MemSum(P \cup {k})]
        BY <2>2, <3>1
      <4>2. /\ CpuSum(P \cup {k}) = b.load[x].cpu + g.slots[k].cpu
            /\ MemSum(P \cup {k}) = b.load[x].mem + g.slots[k].mem
        <5>1. PICK c0, c1, m0, m1 : /\ c0 = CpuSum(P) /\ c1 = CpuSum(P \cup {k})
                                    /\ m0 = MemSum(P) /\ m1 = MemSum(P \cup {k})
          OBVIOUS
        <5>2. /\ c0 \in Int /\ c1 = in.slots[k].cpu + c0
              /\ m0 \in Int /\ m1 = in.slots[k].mem + m0
          BY <2>5, <2>6, <5>1
        <5>3. b.load[x].cpu = c0 /\ b.load[x].mem = m0
          BY <2>9, <5>1
        <5> HIDE DEF CpuSum, MemSum, b, g
        <5> QED
          BY <1>2, <1>3, <5>1, <5>2, <5>3
      <4> QED
        BY <4>1, <4>2
    <3>4. /\ c.load = [y \in DOMAIN in.nodes |-> c.load[y]]
          /\ b.load = [y \in DOMAIN in.nodes |-> b.load[y]]
      BY DEF Restored
    <3> HIDE DEF b, c
    <3> QED
      BY <3>2, <3>3, <3>4
  <2>15. c.bound = [b.bound EXCEPT ![x] = b.bound[x] \cup Claims(a.ports[k])]
    <3>1. \A y \in DOMAIN in.nodes : y # x => c.bound[y] = b.bound[y]
      BY <1>5, <2>1 DEF Restored
    <3>2. c.bound[x] = b.bound[x] \cup Claims(a.ports[k])
      <4>1. c.bound[x] = ClaimsOf(a, P \cup {k})
        BY <2>2 DEF Restored
      <4>2. ClaimsOf(a, P \cup {k}) = ClaimsOf(a, P) \cup Claims(a.ports[k])
        BY DEF ClaimsOf
      <4> QED
        BY <2>9, <4>1, <4>2
    <3>3. /\ c.bound = [y \in DOMAIN in.nodes |-> c.bound[y]]
          /\ b.bound = [y \in DOMAIN in.nodes |-> b.bound[y]]
      BY DEF Restored
    <3> HIDE DEF b, c
    <3> QED
      BY <3>1, <3>2, <3>3
  <2>16. c.node = [b.node EXCEPT ![k] = x] /\ c.ports = [b.ports EXCEPT ![k] = a.ports[k]]
    BY <1>4, <2>1 DEF Restored
  <2>17. c = [load |-> c.load, bound |-> c.bound, node |-> c.node, ports |-> c.ports]
    BY DEF Restored
  <2> HIDE DEF g, b, c
  <2>18. Take(g, b, k, x, a.ports[k]) = c
    BY <2>14, <2>15, <2>16, <2>17 DEF Take
  <2> QED
    BY <2>13, <2>18 DEF g, b, c
<1> QED
  BY <1>7, <1>8

\* Its second loop places nobody.
LEMMA NothingToPlace ==
    ASSUME NEW in, NEW a, Settled(in, a), NEW s \in DOMAIN in.slots,
           a.node[s] = NoNode => Candidates(in, a, s) = {}
    PROVE  PlaceStep(Again(in, a), a, s) = a
<1> DEFINE g == Again(in, a)
<1>1. /\ IsInput(in) /\ Typed(in, a)
  BY InputsAssumption DEF Settled, Sound
<1>2. /\ g.nodes = in.nodes /\ g.exclude = in.exclude /\ g.fixed = in.fixed
      /\ g.slots[s].cpu = in.slots[s].cpu /\ g.slots[s].mem = in.slots[s].mem
      /\ g.slots[s].specs = in.slots[s].specs /\ g.slots[s].selector = in.slots[s].selector
      /\ g.slots[s].tolerations = in.slots[s].tolerations
  BY <1>1, AgainParts
<1> HIDE DEF g
<1>3. Candidates(g, a, s) = Candidates(in, a, s)
  BY <1>2 DEF Candidates, Placeable, Keepable, Matches, Fits, BindingsOn
<1>4. CASE a.node[s] = NoNode
  <2>1. Best(g, a, Candidates(g, a, s)) = {}
    BY <1>3, <1>4 DEF Best
  <2>2. PlaceStep(g, a, s) = a
    BY <2>1 DEF PlaceStep
  <2> QED
    BY <2>2 DEF g
<1>5. CASE a.node[s] # NoNode
  BY <1>5 DEF PlaceStep
<1> QED
  BY <1>4, <1>5

\* A pass fed with its own result returns it (schedule).
LEMMA ScheduleAgain ==
    ASSUME NEW in, NEW a, Settled(in, a), LeftOut(in, a, DOMAIN in.slots)
    PROVE  Schedule(Again(in, a)) = a
<1> DEFINE g == Again(in, a)
           n == Len(in.slots)
<1>1. /\ IsInput(in) /\ Typed(in, a)
  BY InputsAssumption DEF Settled, Sound
<1>2. n \in Nat /\ DOMAIN in.slots = 1..n
  BY <1>1, InputParts
<1>3. IsInput(g) /\ Len(g.slots) = n
  BY <1>1, AgainParts
<1> HIDE DEF g
<1>4. PICK f : Walks(g, f, 2 * n) /\ Schedule(g) = f[2 * n]
  BY <1>3, PassIsWalk
<1> HIDE DEF n
<1>5. \A k \in 0..(2 * n) : f[k] = Decision(g, k, f[k - 1])
  BY <1>4 DEF Walks
<1> DEFINE Q == {k \in 0..(2 * n) : f[k] = IF k <= n THEN Restored(in, a, k) ELSE a}
<1>6. 0 \in Q
  <2>1. f[0] = EmptyAllocation(g)
    BY <1>2, <1>5 DEF Decision
  <2>2. f[0] = Restored(in, a, 0)
    BY <2>1, RestoredEnds DEF g
  <2> QED
    BY <1>2, <2>2
<1>7. Restored(in, a, n) = a
  BY RestoredEnds DEF n
<1>8. ASSUME NEW k \in 0..(2 * n), k - 1 \in Q, k > 0 PROVE k \in Q
  <2>1. CASE k <= n
    <3>1. k \in DOMAIN in.slots /\ f[k - 1] = Restored(in, a, k - 1)
      BY <1>2, <1>8, <2>1
    <3>2. f[k] = StickyStep(g, f[k - 1], k)
      BY <1>3, <1>5, <1>8, <2>1 DEF Decision
    <3>3. StickyStep(g, Restored(in, a, k - 1), k) = Restored(in, a, k)
      BY <3>1, RestoreOne DEF g
    <3> QED
      BY <2>1, <3>1, <3>2, <3>3
  <2>2. CASE ~(k <= n)
    <3>1. k - n \in DOMAIN in.slots /\ f[k - 1] = a
      <4>1. k - n \in DOMAIN in.slots /\ (k - 1 = n \/ ~(k - 1 <= n))
        BY <1>2, <1>8, <2>2
      <4> QED
        BY <1>2, <1>7, <1>8, <4>1
    <3>2. f[k] = PlaceStep(g, f[k - 1], k - n)
      BY <1>2, <1>3, <1>5, <1>8, <2>2 DEF Decision
    <3>3. PlaceStep(g, a, k - n) = a
      BY <3>1, NothingToPlace DEF g, LeftOut
    <3> QED
      BY <2>2, <3>1, <3>2, <3>3
  <2> QED
    BY <2>1, <2>2
<1> HIDE DEF Q
<1>9. 2 * n \in Nat
  BY <1>2
<1>10. 0..(2 * n) \subseteq Q
  BY <1>6, <1>8, <1>9, Climb
<1>11. f[2 * n] = IF 2 * n <= n THEN Restored(in, a, 2 * n) ELSE a
  BY <1>9, <1>10 DEF Q
<1>12. f[2 * n] = a
  <2>1. 2 * n <= n => 2 * n = n
    BY <1>2
  <2> QED
    BY <1>7, <1>11, <2>1
<1> QED
  BY <1>4, <1>12 DEF g

\* Nothing moves and no port changes when the scheduler runs again over what it has just
\* decided, for every fleet and every list of pods that publish each container port once: a
\* heartbeat never makes a kubelet recreate a container (schedule, spec_hash).
THEOREM ReschedulingIsStable == PassSpec => []RescheduleIsStable
<1>1. ChoiceInv => RescheduleIsStable
  <2> SUFFICES ASSUME ChoiceInv, phase = "done", DistinctContainerPorts
               PROVE  Schedule(Again(input, alloc)) = alloc
    BY DEF RescheduleIsStable, Again
  <2>1. AllocatorInv /\ input \in Inputs /\ BoundIsClaims(input, alloc) /\ Sound(input, alloc)
    BY DEF ChoiceInv, AllocatorInv, PassInv
  <2>2. Summed(input, alloc)
    BY <2>1, SummedIsLoad
  <2>3. \A s \in DOMAIN input.slots : DistinctPorts(input.slots[s].specs)
    BY DEF DistinctContainerPorts, DistinctPorts
  <2>4. Settled(input, alloc)
    BY <2>1, <2>2, <2>3 DEF Settled
  <2>5. LeftOut(input, alloc, DOMAIN input.slots)
    BY DEF ChoiceInv, Served
  <2> QED
    BY <2>4, <2>5, ScheduleAgain
<1> QED
  BY <1>1, ChoiceInvariance, PTL

-----------------------------------------------------------------------------
(* Module Cluster: what a reconcile reads.                                     *)

Cell == Node \cup {NoNode}
NodeTabRow == [row : Nat, fresh : BOOLEAN, schedulable : BOOLEAN, labels : SUBSET Labels,
               taints : SUBSET Taints, status : {"Ready", "NotReady", "SchedulingDisabled"},
               cpuUsed : Nat]
PodTabRow == [node : Cell, ports : Seq(Mapping), phase : {"Running", "Pending", "Unschedulable"},
              endpoints : SUBSET (Node \X Mapping), cid : Cell]
Engine == UNION {[D -> ContainerSpec] : D \in SUBSET Pod}
RunOrder == [pod : Pod, spec : ContainerSpec]

DeploymentsOK ==
    /\ deployments \in Seq(Deployment)
    /\ \A c, d \in DOMAIN deployments : deployments[c].name = deployments[d].name => c = d

NodesTabOK(tab) ==
    /\ DOMAIN tab \subseteq Node /\ IsFiniteSet(DOMAIN tab)
    /\ tab \in [DOMAIN tab -> NodeTabRow]
    /\ \A n \in DOMAIN tab : tab[n].cpuUsed <= Cpu[n] /\ tab[n].row \in 1..Cardinality(DOMAIN tab)
    /\ \A m, n \in DOMAIN tab : tab[m].row = tab[n].row => m = n

PodsTabOK(tab, registered) ==
    /\ DOMAIN tab \subseteq Pod
    /\ tab \in [DOMAIN tab -> PodTabRow]
    /\ \A p \in DOMAIN tab : tab[p].node \in registered \cup {NoNode}

\* The slots of some deployments.
SlotListOK(slots, names) ==
    /\ slots \in Seq(Slot)
    /\ \A s \in DOMAIN slots : /\ slots[s].pod[1] \in names
                              /\ slots[s].prev = Row(pods, slots[s].pod).node
    /\ \A s, t \in DOMAIN slots : slots[s].pod = slots[t].pod => s = t

\* Two sequences, one after the other.
LEMMA Concatenation ==
    ASSUME NEW S, NEW f \in Seq(S), NEW g \in Seq(S)
    PROVE  /\ f \o g \in Seq(S) /\ Len(f \o g) = Len(f) + Len(g)
           /\ Len(f) \in Nat /\ Len(g) \in Nat
           /\ \A j \in DOMAIN (f \o g) :
                  \/ j \in DOMAIN f /\ (f \o g)[j] = f[j]
                  \/ j - Len(f) \in DOMAIN g /\ j > Len(f) /\ (f \o g)[j] = g[j - Len(f)]
<1>1. f \o g \in Seq(S) /\ Len(f \o g) = Len(f) + Len(g) /\ Len(f) \in Nat /\ Len(g) \in Nat
  OBVIOUS
<1>2. DOMAIN f = 1..Len(f) /\ DOMAIN g = 1..Len(g) /\ DOMAIN (f \o g) = 1..(Len(f) + Len(g))
  BY <1>1
<1>3. \A j \in 1..(Len(f) + Len(g)) :
          (f \o g)[j] = IF j <= Len(f) THEN f[j] ELSE g[j - Len(f)]
  BY <1>1
<1>4. \A j \in 1..(Len(f) + Len(g)) : \/ j \in 1..Len(f)
                                      \/ j > Len(f) /\ j - Len(f) \in 1..Len(g)
  BY <1>1
<1> QED
  BY <1>1, <1>2, <1>3, <1>4

\* The slots of one deployment.
LEMMA SlotsOfOne ==
    ASSUME NEW dep \in Deployment, NEW registered, PodsTabOK(pods, registered)
    PROVE  SlotListOK(SlotsOf(dep, pods), {dep.name})
<1>1. /\ dep.name \in STRING /\ dep.replicas \in Nat /\ dep.cpu \in Nat /\ dep.mem \in Nat
      /\ dep.specs \in Seq(PortSpec) /\ dep.selector \in SUBSET (STRING \X STRING)
      /\ dep.tolerations \in SUBSET Seq(STRING)
  BY DEF Deployment
<1>2. ASSUME NEW p
      PROVE  Row(pods, p).node \in Node \cup {NoNode} /\ Row(pods, p).ports \in Seq(Mapping)
  <2>1. <<>> \in Seq(Mapping)
    OBVIOUS
  <2>2. \A x \in PodTabRow : x.node \in Node \cup {NoNode} /\ x.ports \in Seq(Mapping)
    BY DEF PodTabRow, Cell
  <2>3. p \in DOMAIN pods => pods[p] \in PodTabRow
    BY DEF PodsTabOK
  <2> QED
    BY <2>1, <2>2, <2>3 DEF Row
<1> DEFINE slots == SlotsOf(dep, pods)
           slot(r) == [pod |-> <<dep.name, r>>, cpu |-> dep.cpu, mem |-> dep.mem,
                       specs |-> dep.specs, selector |-> dep.selector,
                       tolerations |-> dep.tolerations,
                       prev |-> Row(pods, <<dep.name, r>>).node,
                       prevPorts |-> Row(pods, <<dep.name, r>>).ports]
<1>3. slots = [r \in 1..dep.replicas |-> slot(r)]
  BY DEF SlotsOf
<1>4. \A r \in 1..dep.replicas : slot(r) \in Slot
  BY <1>1, <1>2 DEF Slot
<1>5. slots \in Seq(Slot) /\ DOMAIN slots = 1..dep.replicas
  <2>1. slots \in [1..dep.replicas -> Slot]
    BY <1>3, <1>4
  <2> QED
    BY <1>1, <2>1
<1>6. \A r \in DOMAIN slots :
          slots[r].pod = <<dep.name, r>> /\ slots[r].prev = Row(pods, <<dep.name, r>>).node
  BY <1>3, <1>5
<1> HIDE DEF slots
<1>7. ASSUME NEW r \in DOMAIN slots
      PROVE  slots[r].pod[1] \in {dep.name} /\ slots[r].prev = Row(pods, slots[r].pod).node
  <2>1. slots[r].pod = <<dep.name, r>>
    BY <1>6
  <2>2. slots[r].pod[1] = dep.name
    BY <2>1
  <2>3. slots[r].prev = Row(pods, slots[r].pod).node
    BY <1>6, <2>1
  <2> QED
    BY <2>2, <2>3
<1>8. ASSUME NEW r \in DOMAIN slots, NEW t \in DOMAIN slots, slots[r].pod = slots[t].pod
      PROVE  r = t
  <2>1. <<dep.name, r>> = <<dep.name, t>>
    BY <1>6, <1>8
  <2> QED
    BY <2>1
<1>9. SlotListOK(slots, {dep.name})
  BY <1>5, <1>7, <1>8 DEF SlotListOK
<1> QED
  BY <1>9 DEF slots

\* One list of slots after another, of other deployments.
LEMMA SlotListsJoin ==
    ASSUME NEW A, NEW B, A \cap B = {}, NEW f, SlotListOK(f, A), NEW g, SlotListOK(g, B)
    PROVE  SlotListOK(f \o g, A \cup B)
<1>1. f \in Seq(Slot) /\ g \in Seq(Slot)
  BY DEF SlotListOK
<1> DEFINE h == f \o g
<1>2. /\ h \in Seq(Slot) /\ Len(f) \in Nat /\ Len(g) \in Nat
      /\ \A j \in DOMAIN h :
             \/ j \in DOMAIN f /\ h[j] = f[j]
             \/ j - Len(f) \in DOMAIN g /\ j > Len(f) /\ h[j] = g[j - Len(f)]
  BY <1>1, Concatenation
<1>3. DOMAIN h \subseteq Nat
  BY <1>2
<1> HIDE DEF h
<1>4. ASSUME NEW s \in DOMAIN h
      PROVE  h[s].pod[1] \in A \cup B /\ h[s].prev = Row(pods, h[s].pod).node
  BY <1>2 DEF SlotListOK
<1>5. ASSUME NEW s \in DOMAIN h, NEW t \in DOMAIN h, h[s].pod = h[t].pod PROVE s = t
  <2>1. CASE s \in DOMAIN f /\ h[s] = f[s] /\ t \in DOMAIN f /\ h[t] = f[t]
    BY <1>5, <2>1 DEF SlotListOK
  <2>2. CASE /\ s - Len(f) \in DOMAIN g /\ h[s] = g[s - Len(f)]
             /\ t - Len(f) \in DOMAIN g /\ h[t] = g[t - Len(f)]
    <3>1. s - Len(f) = t - Len(f)
      BY <1>5, <2>2 DEF SlotListOK
    <3> QED
      BY <1>2, <1>3, <3>1
  <2>3. CASE s \in DOMAIN f /\ h[s] = f[s] /\ t - Len(f) \in DOMAIN g /\ h[t] = g[t - Len(f)]
    BY <1>5, <2>3 DEF SlotListOK
  <2>4. CASE t \in DOMAIN f /\ h[t] = f[t] /\ s - Len(f) \in DOMAIN g /\ h[s] = g[s - Len(f)]
    BY <1>5, <2>4 DEF SlotListOK
  <2> QED
    BY <1>2, <2>1, <2>2, <2>3, <2>4
<1> QED
  BY <1>2, <1>4, <1>5 DEF SlotListOK, h

Flattens(f, seqs, top) == f = [j \in 1..top |-> IF j = 1 THEN seqs[j] ELSE f[j - 1] \o seqs[j]]

\* Flattening appends one sequence after the other.
LEMMA Flattening ==
    ASSUME NEW seqs, NEW top \in Nat, top > 0, Len(seqs) = top
    PROVE  \E f : Flattens(f, seqs, top) /\ FlattenSeq(seqs) = f[top]
<1> DEFINE Q == {k \in 1..top : \E f : Flattens(f, seqs, k)}
<1>1. 1 \in Q
  <2>1. Flattens([j \in 1..1 |-> seqs[j]], seqs, 1)
    BY DEF Flattens
  <2> QED
    BY <2>1
<1>2. ASSUME NEW k \in 1..top, k - 1 \in Q, k > 1 PROVE k \in Q
  <2>1. PICK f : Flattens(f, seqs, k - 1)
    BY <1>2
  <2> DEFINE h == [j \in 1..k |-> IF j = k THEN f[k - 1] \o seqs[k] ELSE f[j]]
  <2>2. ASSUME NEW j \in 1..k PROVE h[j] = IF j = 1 THEN seqs[j] ELSE h[j - 1] \o seqs[j]
    <3>1. CASE j = k
      <4>1. k - 1 \in 1..k /\ k - 1 # k /\ k # 1
        BY <1>2
      <4> QED
        BY <3>1, <4>1
    <3>2. CASE j # k /\ j > 1
      <4>1. j \in 1..(k - 1) /\ j - 1 \in 1..k /\ j - 1 # k /\ j # 1
        BY <3>2
      <4>2. h[j] = f[j] /\ h[j - 1] = f[j - 1]
        BY <3>2, <4>1
      <4>3. f[j] = f[j - 1] \o seqs[j]
        BY <2>1, <4>1 DEF Flattens
      <4> QED
        BY <4>1, <4>2, <4>3
    <3>3. CASE j = 1
      BY <3>3, <1>2, <2>1 DEF Flattens
    <3> QED
      BY <3>1, <3>2, <3>3
  <2>3. Flattens(h, seqs, k)
    BY <2>2 DEF Flattens
  <2> QED
    BY <2>3
<1> HIDE DEF Q
<1>3. 1..top \subseteq Q
  BY <1>1, <1>2, Climb
<1>4. \E f : Flattens(f, seqs, top)
  BY <1>3 DEF Q
<1>5. FlattenSeq(seqs) = (CHOOSE f : Flattens(f, seqs, top))[top]
  BY DEF FlattenSeq, Flattens
<1> QED
  BY <1>4, <1>5

DeploymentNames == {deployments[d].name : d \in DOMAIN deployments}

\* One slot per replica of every deployment, no pod twice, each with the place its pod has
\* in the Pods tab (the row loop of schedule).
LEMMA SlotsOK ==
    ASSUME DeploymentsOK, NEW registered, PodsTabOK(pods, registered)
    PROVE  SlotListOK(Slots(deployments, pods), DeploymentNames)
<1> DEFINE top == Len(deployments)
           seqs == [d \in DOMAIN deployments |-> SlotsOf(deployments[d], pods)]
           Names(k) == {deployments[d].name : d \in 1..k}
<1>1. top \in Nat /\ DOMAIN deployments = 1..top /\ \A d \in 1..top : deployments[d] \in Deployment
  BY DEF DeploymentsOK
<1>2. \A k \in 1..top : SlotListOK(seqs[k], {deployments[k].name})
  BY <1>1, SlotsOfOne
<1>3. Len(seqs) = top
  BY <1>1
<1>4. Slots(deployments, pods) = FlattenSeq(seqs)
  BY DEF Slots
<1> HIDE DEF seqs
<1>5. CASE top = 0
  <2>1. seqs = <<>>
    BY <1>1, <1>5 DEF seqs
  <2>2. FlattenSeq(seqs) = <<>>
    BY <1>3, <1>5, <2>1 DEF FlattenSeq
  <2>3. <<>> \in Seq(Slot) /\ DOMAIN <<>> = {}
    OBVIOUS
  <2> QED
    BY <1>4, <2>2, <2>3 DEF SlotListOK
<1>6. CASE top > 0
  <2>1. PICK f : Flattens(f, seqs, top) /\ FlattenSeq(seqs) = f[top]
    BY <1>1, <1>3, <1>6, Flattening
  <2>0. \A j \in 1..top : f[j] = IF j = 1 THEN seqs[j] ELSE f[j - 1] \o seqs[j]
    BY <2>1 DEF Flattens
  <2> DEFINE Q == {k \in 1..top : SlotListOK(f[k], Names(k))}
  <2>2. 1 \in Q
    <3>1. f[1] = seqs[1] /\ 1 \in 1..top
      BY <1>1, <1>6, <2>1 DEF Flattens
    <3>2. Names(1) = {deployments[1].name}
      OBVIOUS
    <3> QED
      BY <1>2, <3>1, <3>2
  <2>3. ASSUME NEW k \in 1..top, k - 1 \in Q, k > 1 PROVE k \in Q
    <3>1. f[k] = f[k - 1] \o seqs[k]
      <4>1. k \in 1..top /\ k # 1
        BY <2>3
      <4> QED
        BY <2>0, <4>1
    <3>2. SlotListOK(f[k - 1], Names(k - 1)) /\ SlotListOK(seqs[k], {deployments[k].name})
      BY <1>2, <2>3
    <3>3. Names(k - 1) \cap {deployments[k].name} = {}
      <4>1. \A d \in 1..(k - 1) : d \in DOMAIN deployments /\ k \in DOMAIN deployments /\ d # k
        BY <1>1
      <4> QED
        BY <4>1 DEF DeploymentsOK
    <3>4. Names(k) = Names(k - 1) \cup {deployments[k].name}
      <4>1. 1..k = 1..(k - 1) \cup {k}
        BY <2>3
      <4> QED
        BY <4>1
    <3> HIDE DEF Names
    <3>5. SlotListOK(f[k - 1] \o seqs[k], Names(k - 1) \cup {deployments[k].name})
      BY <3>2, <3>3, SlotListsJoin
    <3> QED
      BY <3>1, <3>4, <3>5
  <2> HIDE DEF Q
  <2>4. 1..top \subseteq Q
    BY <1>1, <2>2, <2>3, Climb
  <2>5. SlotListOK(f[top], Names(top))
    <3>1. top \in 1..top
      BY <1>1, <1>6
    <3> QED
      BY <2>4, <3>1 DEF Q
  <2>6. Names(top) = DeploymentNames
    BY <1>1 DEF DeploymentNames
  <2> HIDE DEF Names
  <2> QED
    BY <1>4, <2>1, <2>5, <2>6
<1> QED
  BY <1>1, <1>5, <1>6

\* The arguments of the pass a reconcile makes.
LEMMA InputOK ==
    ASSUME DeploymentsOK, NEW registered, PodsTabOK(pods, registered),
           NEW tab, NodesTabOK(tab), NEW exclude \in SUBSET Node,
           NEW in, in = PassInput(deployments, pods, LoadNodes(tab), exclude)
    PROVE  /\ IsInput(in) /\ SlotListOK(in.slots, DeploymentNames)
           /\ DOMAIN in.nodes = DOMAIN tab
           /\ \A n \in DOMAIN tab : /\ in.nodes[n].fresh = tab[n].fresh
                                   /\ in.nodes[n].schedulable = tab[n].schedulable
                                   /\ in.nodes[n].cpu = Cpu[n]
<1>1. /\ in = [slots |-> in.slots, nodes |-> in.nodes, exclude |-> in.exclude, fixed |-> in.fixed]
      /\ in.slots = Slots(deployments, pods) /\ in.nodes = LoadNodes(tab)
      /\ in.exclude = exclude /\ in.fixed = FixedAnywhere(deployments)
  BY DEF PassInput
<1>2. SlotListOK(in.slots, DeploymentNames)
  BY <1>1, SlotsOK
<1>3. in.fixed \subseteq HostPort \X Proto
  <2>1. ASSUME NEW d \in DOMAIN deployments, NEW x \in ToSet(deployments[d].specs), x.host # AnyHost
        PROVE  <<x.host, x.proto>> \in HostPort \X Proto
    <3>1. deployments[d].specs \in Seq(PortSpec)
      <4>1. deployments[d] \in Deployment
        BY DEF DeploymentsOK
      <4> QED
        BY <4>1 DEF Deployment
    <3>2. x \in PortSpec
      BY <3>1 DEF ToSet
    <3> QED
      BY <2>1, <3>2 DEF PortSpec
  <2> QED
    BY <1>1, <2>1 DEF FixedAnywhere, FixedPorts
<1>4. ASSUME NEW n \in DOMAIN tab
      PROVE  /\ in.nodes[n] \in NodeRow /\ n \in Node
             /\ in.nodes[n].fresh = tab[n].fresh /\ in.nodes[n].schedulable = tab[n].schedulable
             /\ in.nodes[n].cpu = Cpu[n]
  <2>1. tab[n] \in NodeTabRow /\ n \in Node
    BY DEF NodesTabOK
  <2>2. /\ tab[n].row \in Nat /\ tab[n].fresh \in BOOLEAN /\ tab[n].schedulable \in BOOLEAN
        /\ tab[n].labels \in SUBSET (STRING \X STRING) /\ tab[n].taints \in SUBSET Taint
    BY <2>1, ClusterAssumption DEF NodeTabRow
  <2>3. Cpu[n] \in Nat /\ Mem[n] \in Nat
    BY <2>1, ClusterAssumption
  <2>4. in.nodes[n] = [row |-> tab[n].row, cpu |-> Cpu[n], mem |-> Mem[n],
                       fresh |-> tab[n].fresh, schedulable |-> tab[n].schedulable,
                       labels |-> tab[n].labels, taints |-> tab[n].taints]
    BY <1>1 DEF LoadNodes
  <2> QED
    BY <2>1, <2>2, <2>3, <2>4 DEF NodeRow
<1>5. DOMAIN in.nodes = DOMAIN tab /\ in.nodes = [n \in DOMAIN tab |-> in.nodes[n]]
  BY <1>1 DEF LoadNodes
<1>6. in.nodes \in [DOMAIN in.nodes -> NodeRow] /\ DOMAIN in.nodes \subseteq Node
  BY <1>4, <1>5
<1>7. IsInput(in)
  BY <1>1, <1>2, <1>3, <1>6 DEF IsInput, SlotListOK
<1> QED
  BY <1>2, <1>4, <1>5, <1>7

-----------------------------------------------------------------------------
(* What a reconcile writes and orders.                                         *)

\* The desired pods are the pods of the slots, each with the place and the ports the pass
\* gave its slot, and an image.
LEMMA DesiredOK ==
    ASSUME DeploymentsOK, NEW in, IsInput(in), SlotListOK(in.slots, DeploymentNames),
           NEW a, Sound(in, a), NEW desired, desired = Desired(deployments, in, a)
    PROVE  /\ DOMAIN desired = {in.slots[s].pod : s \in DOMAIN in.slots}
           /\ DOMAIN desired \subseteq Pod
           /\ \A s \in DOMAIN in.slots : /\ desired[in.slots[s].pod].node = a.node[s]
                                       /\ desired[in.slots[s].pod].spec.ports = a.ports[s]
                                       /\ desired[in.slots[s].pod].spec \in ContainerSpec
<1> DEFINE slot(p) == CHOOSE s \in DOMAIN in.slots : in.slots[s].pod = p
           image(name) == deployments[CHOOSE d \in DOMAIN deployments :
                                          deployments[d].name = name].image
<1>1. desired = [p \in {in.slots[s].pod : s \in DOMAIN in.slots} |->
                    [node |-> a.node[slot(p)],
                     spec |-> [image |-> image(p[1]), ports |-> a.ports[slot(p)]]]]
  BY DEF Desired
<1>2. ASSUME NEW s \in DOMAIN in.slots
      PROVE  in.slots[s].pod \in Pod /\ slot(in.slots[s].pod) = s
  <2>1. in.slots[s] \in Slot
    BY InputParts
  <2>2. in.slots[s].pod \in Pod
    BY <2>1 DEF Slot, Pod
  <2> QED
    BY <2>2 DEF SlotListOK
<1>3. ASSUME NEW s \in DOMAIN in.slots PROVE image(in.slots[s].pod[1]) \in STRING
  <2>1. \E d \in DOMAIN deployments : deployments[d].name = in.slots[s].pod[1]
    BY DEF SlotListOK, DeploymentNames
  <2>2. PICK d \in DOMAIN deployments : image(in.slots[s].pod[1]) = deployments[d].image
    BY <2>1
  <2>3. deployments[d] \in Deployment
    BY DEF DeploymentsOK
  <2> QED
    BY <2>2, <2>3 DEF Deployment
<1>4. ASSUME NEW s \in DOMAIN in.slots
      PROVE  /\ desired[in.slots[s].pod].node = a.node[s]
             /\ desired[in.slots[s].pod].spec = [image |-> image(in.slots[s].pod[1]),
                                                 ports |-> a.ports[s]]
             /\ a.ports[s] \in Seq(Mapping)
  <2> DEFINE p == in.slots[s].pod
  <2>1. a.ports[s] \in Seq(Mapping)
    BY DEF Sound, Typed
  <2>2. slot(p) = s
    BY <1>2
  <2> HIDE DEF image, slot
  <2>3. desired[p] = [node |-> a.node[slot(p)],
                      spec |-> [image |-> image(p[1]), ports |-> a.ports[slot(p)]]]
    BY <1>1
  <2>4. desired[p] = [node |-> a.node[s], spec |-> [image |-> image(p[1]), ports |-> a.ports[s]]]
    BY <2>2, <2>3
  <2> QED
    BY <2>1, <2>4
<1>5. DOMAIN desired = {in.slots[s].pod : s \in DOMAIN in.slots}
  BY <1>1
<1> HIDE DEF slot, image
<1>6. \A x \in STRING, y \in Seq(Mapping) : [image |-> x, ports |-> y] \in ContainerSpec
  BY DEF ContainerSpec
<1>7. ASSUME NEW s \in DOMAIN in.slots
      PROVE  /\ desired[in.slots[s].pod].node = a.node[s]
             /\ desired[in.slots[s].pod].spec.ports = a.ports[s]
             /\ desired[in.slots[s].pod].spec \in ContainerSpec
  <2>1. PICK x \in STRING : x = image(in.slots[s].pod[1])
    BY <1>3
  <2>2. desired[in.slots[s].pod].spec = [image |-> x, ports |-> a.ports[s]]
    BY <1>4, <2>1
  <2>3. [image |-> x, ports |-> a.ports[s]] \in ContainerSpec
    BY <1>4, <1>6
  <2>4. [image |-> x, ports |-> a.ports[s]].ports = a.ports[s]
    OBVIOUS
  <2>5. desired[in.slots[s].pod].spec.ports = a.ports[s]
    BY <2>2, <2>4
  <2>6. desired[in.slots[s].pod].spec \in ContainerSpec
    BY <2>2, <2>3
  <2>7. desired[in.slots[s].pod].node = a.node[s]
    BY <1>4
  <2> QED
    BY <2>5, <2>6, <2>7
<1>8. DOMAIN desired \subseteq Pod
  BY <1>2, <1>5
<1> QED
  BY <1>5, <1>7, <1>8

\* The row of a pod: its place and ports are the desired ones, and it stops showing Running
\* on the node it was on only when that node reported without it (pod_rows).
LEMMA PodRowOK ==
    ASSUME NEW registered, PodsTabOK(pods, registered), NEW p,
           NEW d, d.node \in Cell, d.spec.ports \in Seq(Mapping),
           NEW reported \in Engine, NEW reporter \in Cell
    PROVE  LET row == PodRow(p, d, pods, reported, reporter)
           IN  /\ row \in PodTabRow /\ row.node = d.node
               /\ p \in DOMAIN pods /\ pods[p].phase = "Running" /\ row.phase # "Running"
                     /\ pods[p].node = row.node /\ row.node # NoNode => row.node = reporter
<1> SUFFICES ASSUME NEW row, row = PodRow(p, d, pods, reported, reporter)
             PROVE  /\ row \in PodTabRow /\ row.node = d.node
                    /\ p \in DOMAIN pods /\ pods[p].phase = "Running" /\ row.phase # "Running"
                          /\ pods[p].node = row.node /\ row.node # NoNode => row.node = reporter
  OBVIOUS
<1> DEFINE old == IF p \in DOMAIN pods THEN pods[p] ELSE [node |-> NoNode, cid |-> NoNode]
           live == p \in DOMAIN reported
           sameNode == d.node # NoNode /\ old.node = d.node
           cid == IF live THEN reporter ELSE IF sameNode THEN old.cid ELSE NoNode
           shows(phase_, endpoints) == [node |-> d.node, ports |-> d.spec.ports, phase |-> phase_,
                                        endpoints |-> endpoints, cid |-> cid]
<1>1. row = IF d.node = NoNode THEN shows("Unschedulable", {})
            ELSE IF live THEN shows("Running", Endpoints(d.node, reported[p].ports))
            ELSE IF sameNode /\ d.node # reporter THEN shows(old.phase, old.endpoints)
            ELSE shows("Pending", {})
  BY DEF PodRow
<1>2. p \in DOMAIN pods => pods[p] \in PodTabRow
  BY DEF PodsTabOK
<1>3. \A x \in PodTabRow : /\ x.cid \in Cell /\ x.endpoints \in SUBSET (Node \X Mapping)
                          /\ x.phase \in {"Running", "Pending", "Unschedulable"}
  BY DEF PodTabRow
<1>4. cid \in Cell
  BY <1>2, <1>3 DEF Cell
<1>5. sameNode => /\ p \in DOMAIN pods /\ old = pods[p]
                  /\ old.endpoints \in SUBSET (Node \X Mapping)
                  /\ old.phase \in {"Running", "Pending", "Unschedulable"}
  BY <1>2, <1>3
<1>6. live /\ d.node # NoNode => Endpoints(d.node, reported[p].ports) \in SUBSET (Node \X Mapping)
  <2> SUFFICES ASSUME live, d.node # NoNode
               PROVE  Endpoints(d.node, reported[p].ports) \in SUBSET (Node \X Mapping)
    OBVIOUS
  <2>1. reported[p] \in ContainerSpec
    BY DEF Engine
  <2>2. reported[p].ports \in Seq(Mapping)
    BY <2>1 DEF ContainerSpec
  <2>3. \A k \in DOMAIN reported[p].ports : reported[p].ports[k] \in Mapping
    BY <2>2
  <2> QED
    BY <2>3 DEF Endpoints, Cell
<1>7. \A f \in {"Running", "Pending", "Unschedulable"}, e \in SUBSET (Node \X Mapping) :
          /\ shows(f, e) \in PodTabRow /\ shows(f, e).node = d.node /\ shows(f, e).phase = f
  <2> HIDE DEF cid
  <2> QED
    BY <1>4 DEF PodTabRow
<1> HIDE DEF shows, cid
<1>8. row \in PodTabRow /\ row.node = d.node
  BY <1>1, <1>5, <1>6, <1>7
<1>9. ASSUME p \in DOMAIN pods, pods[p].phase = "Running", row.phase # "Running",
             pods[p].node = row.node, row.node # NoNode
      PROVE  row.node = reporter
  <2>1. d.node # NoNode /\ sameNode /\ old = pods[p]
    BY <1>8, <1>9
  <2>2. ~live
    BY <1>1, <1>6, <1>7, <1>9, <2>1
  <2>3. CASE d.node # reporter
    <3>1. row = shows(old.phase, old.endpoints)
      BY <1>1, <2>1, <2>2, <2>3
    <3>2. row.phase = old.phase
      BY <1>5, <1>7, <2>1, <3>1
    <3> QED
      BY <1>9, <2>1, <3>2
  <2> QED
    BY <1>8, <2>3
<1> QED
  BY <1>8, <1>9

\* A list of orders docker can carry out together with the stops: no pod twice, no host
\* port twice, and no pod that is also to stop.
Startable(run, stop) ==
    /\ \A j, k \in DOMAIN run : j # k =>
        /\ run[j].pod # run[k].pod
        /\ Claims(run[j].spec.ports) \cap Claims(run[k].spec.ports) = {}
    /\ \A j \in DOMAIN run : run[j].pod \notin stop

NextOrders(in, desired, n, s, before) ==
    IF s = 0 THEN <<>>
    ELSE IF desired[in.slots[s].pod].node = n
    THEN Append(before, [pod |-> in.slots[s].pod, spec |-> desired[in.slots[s].pod].spec])
    ELSE before
Collects(in, desired, n, f, top) ==
    f = [s \in 0..top |-> NextOrders(in, desired, n, s, f[s - 1])]

\* node_orders appends one order after the other.
LEMMA OrdersAreCollected ==
    ASSUME NEW in, IsInput(in), NEW n,
           NEW result, result.input = in
    PROVE  \E f : /\ Collects(in, result.desired, n, f, Len(in.slots))
                  /\ RunOrders(result, n) = f[Len(in.slots)]
<1> DEFINE top == Len(in.slots)
           desired == result.desired
           Q == {k \in 0..top : \E f : Collects(in, desired, n, f, k)}
<1>1. top \in Nat
  BY InputParts
<1>0. RunOrders(result, n) = (CHOOSE f : Collects(in, desired, n, f, top))[top]
  BY DEF RunOrders, Collects, NextOrders
<1> HIDE DEF desired
<1>2. 0 \in Q
  <2>1. Collects(in, desired, n, [k \in 0..0 |-> <<>>], 0)
    BY DEF Collects, NextOrders
  <2> QED
    BY <1>1, <2>1
<1>3. ASSUME NEW k \in 0..top, k - 1 \in Q, k > 0 PROVE k \in Q
  <2>1. PICK f : Collects(in, desired, n, f, k - 1)
    BY <1>3
  <2> DEFINE h == [j \in 0..k |-> IF j = k THEN NextOrders(in, desired, n, k, f[k - 1]) ELSE f[j]]
  <2>2. ASSUME NEW j \in 0..k PROVE h[j] = NextOrders(in, desired, n, j, h[j - 1])
    <3>1. CASE j = k
      BY <3>1, <1>1, <1>3
    <3>2. CASE j # k /\ j > 0
      <4>1. j \in 0..(k - 1) /\ j - 1 \in 0..k /\ j - 1 # k
        BY <3>2, <1>1
      <4> QED
        BY <3>2, <4>1, <2>1 DEF Collects
    <3>3. CASE j = 0
      BY <3>3, <1>1, <1>3, <2>1 DEF Collects, NextOrders
    <3> QED
      BY <3>1, <3>2, <3>3, <1>1
  <2>3. Collects(in, desired, n, h, k)
    BY <2>2 DEF Collects
  <2> QED
    BY <2>3
<1> HIDE DEF Q
<1>4. 0..top \subseteq Q
  BY <1>1, <1>2, <1>3, Climb
<1>5. \E f : Collects(in, desired, n, f, top)
  BY <1>1, <1>4 DEF Q
<1> QED
  BY <1>0, <1>5 DEF desired

\* The orders collected from the first slots: each is for one of them, none is for two.
Orders(in, a, n, run, top) ==
    /\ run \in Seq(RunOrder)
    /\ \A j \in DOMAIN run : \E s \in 1..top :
           a.node[s] = n /\ run[j].pod = in.slots[s].pod /\ run[j].spec.ports = a.ports[s]
    /\ \A j, k \in DOMAIN run : run[j].pod = run[k].pod => j = k

\* One more order.
LEMMA OrderAppended ==
    ASSUME NEW in, IsInput(in), SlotListOK(in.slots, DeploymentNames), NEW a, NEW n,
           NEW k \in DOMAIN in.slots, NEW run, Orders(in, a, n, run, k - 1),
           a.node[k] = n, NEW order \in RunOrder, order.pod = in.slots[k].pod,
           order.spec.ports = a.ports[k]
    PROVE  Orders(in, a, n, Append(run, order), k)
<1> DEFINE more == Append(run, order)
<1>1. DOMAIN in.slots = 1..Len(in.slots) /\ Len(in.slots) \in Nat
  BY InputParts
<1>2. /\ more \in Seq(RunOrder) /\ Len(run) \in Nat /\ DOMAIN run = 1..Len(run)
      /\ DOMAIN more = 1..(Len(run) + 1)
      /\ \A j \in 1..Len(run) : more[j] = run[j]
      /\ more[Len(run) + 1] = order
  BY DEF Orders
<1> HIDE DEF more
<1>3. \A j \in DOMAIN more : \/ j \in DOMAIN run /\ more[j] = run[j]
                             \/ j = Len(run) + 1 /\ more[j] = order
  <2>1. \A j \in 1..(Len(run) + 1) : j \in 1..Len(run) \/ j = Len(run) + 1
    BY <1>2
  <2> QED
    BY <1>2, <2>1
<1>4. ASSUME NEW j \in DOMAIN run
      PROVE  /\ run[j].pod # order.pod
             /\ \E s \in 1..k : /\ a.node[s] = n /\ run[j].pod = in.slots[s].pod
                                /\ run[j].spec.ports = a.ports[s]
  <2>1. PICK s \in 1..(k - 1) : /\ a.node[s] = n /\ run[j].pod = in.slots[s].pod
                                /\ run[j].spec.ports = a.ports[s]
    BY DEF Orders
  <2>2. s \in DOMAIN in.slots /\ s # k /\ s \in 1..k
    BY <1>1
  <2>3. in.slots[s].pod # in.slots[k].pod
    BY <2>2 DEF SlotListOK
  <2> QED
    BY <2>1, <2>2, <2>3
<1>5. k \in 1..k
  BY <1>1
<1>6. \A j \in DOMAIN more : \E s \in 1..k :
          a.node[s] = n /\ more[j].pod = in.slots[s].pod /\ more[j].spec.ports = a.ports[s]
  BY <1>3, <1>4, <1>5
<1>7. \A j, i_ \in DOMAIN more : more[j].pod = more[i_].pod => j = i_
  BY <1>3, <1>4 DEF Orders
<1> QED
  BY <1>2, <1>6, <1>7 DEF Orders, more

\* A response docker can carry out, in whatever order its containers start (node_orders).
LEMMA OrdersOK ==
    ASSUME DeploymentsOK, NEW in, IsInput(in), SlotListOK(in.slots, DeploymentNames),
           NEW a, Sound(in, a), NEW result, result.input = in,
           result.desired = Desired(deployments, in, a), NEW n \in Node, NEW reported \in Engine
    PROVE  /\ RunOrders(result, n) \in Seq(RunOrder)
           /\ StopOrders(result, reported, n) \subseteq Pod
           /\ Startable(RunOrders(result, n), StopOrders(result, reported, n))
<1> DEFINE top == Len(in.slots)
           desired == result.desired
<1>1. DOMAIN in.slots = 1..top /\ top \in Nat
  BY InputParts
<1>2. PICK f : Collects(in, desired, n, f, top) /\ RunOrders(result, n) = f[top]
  BY OrdersAreCollected
<1>3. /\ DOMAIN desired = {in.slots[s].pod : s \in DOMAIN in.slots}
      /\ DOMAIN desired \subseteq Pod
      /\ \A s \in DOMAIN in.slots : /\ desired[in.slots[s].pod].node = a.node[s]
                                    /\ desired[in.slots[s].pod].spec.ports = a.ports[s]
                                    /\ desired[in.slots[s].pod].spec \in ContainerSpec
  <2>1. PICK d : d = desired
    OBVIOUS
  <2>2. d = Desired(deployments, in, a)
    BY <2>1
  <2> HIDE DEF desired
  <2> QED
    BY <2>1, <2>2, DesiredOK
<1>4. \A s \in 0..top : f[s] = NextOrders(in, desired, n, s, f[s - 1])
  BY <1>2 DEF Collects
<1> DEFINE Q == {k \in 0..top : Orders(in, a, n, f[k], k)}
<1>5. 0 \in Q
  <2>1. f[0] = <<>>
    <3>1. 0 \in 0..top
      BY <1>1
    <3> QED
      BY <1>4, <3>1 DEF NextOrders
  <2>2. <<>> \in Seq(RunOrder) /\ DOMAIN <<>> = {}
    OBVIOUS
  <2>3. Orders(in, a, n, f[0], 0)
    BY <2>1, <2>2 DEF Orders
  <2> QED
    BY <1>1, <2>3
<1>6. ASSUME NEW k \in 0..top, k - 1 \in Q, k > 0 PROVE k \in Q
  <2> DEFINE pod == in.slots[k].pod
  <2>1. k \in DOMAIN in.slots /\ k # 0 /\ Orders(in, a, n, f[k - 1], k - 1)
    BY <1>1, <1>6
  <2>2. CASE a.node[k] = n
    <3>1. f[k] = Append(f[k - 1], [pod |-> pod, spec |-> desired[pod].spec])
      <4>1. desired[pod].node = n
        BY <1>3, <2>1, <2>2
      <4> QED
        BY <1>4, <2>1, <4>1 DEF NextOrders
    <3>2. pod \in Pod /\ desired[pod].spec \in ContainerSpec
      BY <1>3, <2>1
    <3> DEFINE order == [pod |-> pod, spec |-> desired[pod].spec]
    <3>3. order \in RunOrder /\ order.pod = pod /\ order.spec.ports = a.ports[k]
      BY <1>3, <2>1, <3>2 DEF RunOrder
    <3> HIDE DEF order
    <3>4. Orders(in, a, n, Append(f[k - 1], order), k)
      BY <2>1, <2>2, <3>3, OrderAppended
    <3> QED
      BY <3>1, <3>4 DEF order
  <2>3. CASE a.node[k] # n
    <3>1. f[k] = f[k - 1]
      <4>1. desired[pod].node # n
        BY <1>3, <2>1, <2>3
      <4> QED
        BY <1>4, <2>1, <4>1 DEF NextOrders
    <3>2. \A s \in 1..(k - 1) : s \in 1..k
      BY <1>1, <2>1
    <3>3. Orders(in, a, n, f[k - 1], k)
      BY <2>1, <3>2 DEF Orders
    <3> QED
      BY <3>1, <3>3
  <2> QED
    BY <2>2, <2>3
<1> HIDE DEF Q
<1>7. 0..top \subseteq Q
  BY <1>1, <1>5, <1>6, Climb
<1> DEFINE run == RunOrders(result, n)
           stop == StopOrders(result, reported, n)
<1>8. Orders(in, a, n, run, top)
  BY <1>1, <1>2, <1>7 DEF Q
<1>9. /\ stop \subseteq DOMAIN reported
      /\ \A p \in stop : p \notin DOMAIN desired \/ desired[p].node # n
  BY DEF StopOrders
<1>10. DOMAIN reported \subseteq Pod
  BY DEF Engine
<1> HIDE DEF run, stop, desired
<1>11. ASSUME NEW j \in DOMAIN run
       PROVE  run[j].pod \notin stop
  <2>1. PICK s \in 1..top : a.node[s] = n /\ run[j].pod = in.slots[s].pod
    BY <1>8 DEF Orders
  <2>2. run[j].pod \in DOMAIN desired /\ desired[run[j].pod].node = n
    BY <1>1, <1>3, <2>1
  <2> QED
    BY <1>9, <2>2
<1>12. ASSUME NEW j \in DOMAIN run, NEW k \in DOMAIN run, j # k
       PROVE  /\ run[j].pod # run[k].pod
              /\ Claims(run[j].spec.ports) \cap Claims(run[k].spec.ports) = {}
  <2>1. run[j].pod # run[k].pod
    BY <1>8, <1>12 DEF Orders
  <2>2. PICK s \in 1..top : /\ a.node[s] = n /\ run[j].pod = in.slots[s].pod
                            /\ run[j].spec.ports = a.ports[s]
    BY <1>8 DEF Orders
  <2>3. PICK t \in 1..top : /\ a.node[t] = n /\ run[k].pod = in.slots[t].pod
                            /\ run[k].spec.ports = a.ports[t]
    BY <1>8 DEF Orders
  <2>4. Claims(a.ports[s]) \cap Claims(a.ports[t]) = {}
    BY <1>1, <2>1, <2>2, <2>3 DEF Sound, Exclusive
  <2> QED
    BY <2>1, <2>2, <2>3, <2>4
<1>13. Startable(run, stop)
  BY <1>11, <1>12 DEF Startable
<1> QED
  BY <1>8, <1>9, <1>10, <1>13 DEF Orders, run, stop

\* What a reconcile of a registered node tab may do to the rows of the pods: show a running
\* pod that stays where it is as anything else only for its reporter, and move a pod only
\* to a node that is live and open.
CalmUnless(newPods, reporter) == \A p \in DOMAIN pods \cap DOMAIN newPods :
    /\ pods[p].phase = "Running" /\ newPods[p].phase # "Running"
    /\ pods[p].node = newPods[p].node /\ pods[p].node # NoNode
    => pods[p].node = reporter
MovesToOpen(newPods, newNodes) == \A p \in DOMAIN newPods :
    newPods[p].node # NoNode /\ (p \in DOMAIN pods => pods[p].node # newPods[p].node)
    => newNodes[newPods[p].node].fresh /\ newNodes[newPods[p].node].schedulable

\* A row of the Nodes tab with the status and the load of this pass.
LEMMA NodeRowRewritten ==
    ASSUME NEW row \in NodeTabRow, NEW cpu \in Nat,
           NEW new, new = [row EXCEPT !.status = NodeStatus(row), !.cpuUsed = cpu]
    PROVE  /\ new \in NodeTabRow /\ new.cpuUsed = cpu /\ new.row = row.row
           /\ new.fresh = row.fresh /\ new.schedulable = row.schedulable
<1>1. NodeStatus(row) \in {"Ready", "NotReady", "SchedulingDisabled"}
  BY DEF NodeStatus
<1> QED
  BY <1>1 DEF NodeTabRow

\* One reconcile, whoever asked for it: both tabs stay well formed, every pod goes where
\* the pass put it, and the orders of every node are startable (_reconcile, node_orders).
LEMMA ReconcileOK ==
    ASSUME DeploymentsOK, NEW registered, PodsTabOK(pods, registered),
           NEW tab, NodesTabOK(tab), NEW exclude \in SUBSET Node,
           NEW reported \in Engine, NEW reporter \in Cell,
           NEW result, result = Reconcile(tab, reported, reporter, exclude)
    PROVE  /\ NodesTabOK(result.nodes) /\ DOMAIN result.nodes = DOMAIN tab
           /\ PodsTabOK(result.pods, DOMAIN tab)
           /\ CalmUnless(result.pods, reporter)
           /\ MovesToOpen(result.pods, result.nodes)
           /\ \A n \in Node : /\ RunOrders(result, n) \in Seq(RunOrder)
                              /\ StopOrders(result, reported, n) \subseteq Pod
                              /\ Startable(RunOrders(result, n), StopOrders(result, reported, n))
<1>1. PICK in : in = PassInput(deployments, pods, LoadNodes(tab), exclude)
  OBVIOUS
<1>2. PICK a : a = Schedule(in)
  OBVIOUS
<1>3. PICK desired : desired = Desired(deployments, in, a)
  OBVIOUS
<1>4. /\ result.input = in /\ result.desired = desired
      /\ result.pods = [p \in DOMAIN desired |-> PodRow(p, desired[p], pods, reported, reporter)]
      /\ result.nodes = [n \in DOMAIN tab |-> [tab[n] EXCEPT !.status = NodeStatus(tab[n]),
                                                             !.cpuUsed = a.load[n].cpu]]
  BY <1>1, <1>2, <1>3 DEF Reconcile
<1>5. /\ IsInput(in) /\ SlotListOK(in.slots, DeploymentNames) /\ DOMAIN in.nodes = DOMAIN tab
      /\ \A n \in DOMAIN tab : /\ in.nodes[n].fresh = tab[n].fresh
                              /\ in.nodes[n].schedulable = tab[n].schedulable
                              /\ in.nodes[n].cpu = Cpu[n]
  BY <1>1, InputOK
<1>17. IsInput(in) /\ SlotListOK(in.slots, DeploymentNames)
  BY <1>5
<1>6. Sound(in, a)
  BY <1>2, <1>17, ScheduleSound
<1>7. /\ DOMAIN desired = {in.slots[s].pod : s \in DOMAIN in.slots}
      /\ DOMAIN desired \subseteq Pod
      /\ \A s \in DOMAIN in.slots : /\ desired[in.slots[s].pod].node = a.node[s]
                                    /\ desired[in.slots[s].pod].spec.ports = a.ports[s]
                                    /\ desired[in.slots[s].pod].spec \in ContainerSpec
  BY <1>3, <1>17, <1>6, DesiredOK
<1>8. ASSUME NEW n \in DOMAIN tab
      PROVE  /\ result.nodes[n] \in NodeTabRow /\ result.nodes[n].cpuUsed <= Cpu[n]
             /\ result.nodes[n].row = tab[n].row /\ result.nodes[n].fresh = tab[n].fresh
             /\ result.nodes[n].schedulable = tab[n].schedulable
  <2>1. a.load[n].cpu \in Nat /\ a.load[n].cpu <= Cpu[n]
    BY <1>5, <1>6 DEF Sound, Typed, Loads
  <2>2. tab[n] \in NodeTabRow
    BY DEF NodesTabOK
  <2>3. result.nodes[n] = [tab[n] EXCEPT !.status = NodeStatus(tab[n]), !.cpuUsed = a.load[n].cpu]
    BY <1>4
  <2>4. PICK row, cpu : row = tab[n] /\ cpu = a.load[n].cpu
    OBVIOUS
  <2>5. PICK new : new = [row EXCEPT !.status = NodeStatus(row), !.cpuUsed = cpu]
    OBVIOUS
  <2>6. /\ new \in NodeTabRow /\ new.cpuUsed = cpu /\ new.row = row.row
        /\ new.fresh = row.fresh /\ new.schedulable = row.schedulable
    <3>1. row \in NodeTabRow /\ cpu \in Nat
      BY <2>1, <2>2, <2>4
    <3> QED
      BY <2>5, <3>1, NodeRowRewritten, ZenonT(60)
  <2>7. result.nodes[n] = new
    BY <2>3, <2>4, <2>5
  <2> QED
    BY <2>1, <2>4, <2>6, <2>7
<1>9. DOMAIN result.nodes = DOMAIN tab
  BY <1>4
<1>10. NodesTabOK(result.nodes)
  <2>1. result.nodes \in [DOMAIN tab -> NodeTabRow]
    BY <1>4, <1>8
  <2> QED
    BY <1>8, <1>9, <2>1 DEF NodesTabOK
<1>11. ASSUME NEW p \in DOMAIN desired
       PROVE  /\ p \in Pod /\ result.pods[p] \in PodTabRow
              /\ result.pods[p].node \in DOMAIN tab \cup {NoNode}
              /\ p \in DOMAIN pods /\ pods[p].phase = "Running"
                    /\ result.pods[p].phase # "Running" /\ pods[p].node = result.pods[p].node
                    /\ pods[p].node # NoNode => pods[p].node = reporter
              /\ result.pods[p].node # NoNode
                    /\ (p \in DOMAIN pods => pods[p].node # result.pods[p].node)
                 => tab[result.pods[p].node].fresh /\ tab[result.pods[p].node].schedulable
  <2>1. PICK s \in DOMAIN in.slots : in.slots[s].pod = p
    BY <1>7
  <2>2. /\ desired[p].node = a.node[s] /\ desired[p].spec.ports = a.ports[s]
        /\ a.node[s] \in DOMAIN tab \cup {NoNode} /\ a.ports[s] \in Seq(Mapping)
    BY <1>5, <1>6, <1>7, <2>1 DEF Sound, Typed
  <2>3. desired[p].node \in Cell /\ desired[p].spec.ports \in Seq(Mapping)
    BY <2>2 DEF NodesTabOK, Cell
  <2>4. PICK row : row = PodRow(p, desired[p], pods, reported, reporter)
    OBVIOUS
  <2>5. PICK d : d = desired[p]
    OBVIOUS
  <2>6. /\ row \in PodTabRow /\ row.node = desired[p].node
        /\ p \in DOMAIN pods /\ pods[p].phase = "Running" /\ row.phase # "Running"
              /\ pods[p].node = row.node /\ row.node # NoNode => row.node = reporter
    <3>1. row = PodRow(p, d, pods, reported, reporter)
      BY <2>4, <2>5
    <3>2. d.node \in Cell /\ d.spec.ports \in Seq(Mapping)
      BY <2>3, <2>5
    <3>3. /\ row \in PodTabRow /\ row.node = d.node
          /\ p \in DOMAIN pods /\ pods[p].phase = "Running" /\ row.phase # "Running"
                /\ pods[p].node = row.node /\ row.node # NoNode => row.node = reporter
      BY <3>1, <3>2, PodRowOK
    <3> QED
      BY <2>5, <3>3
  <2>7. result.pods[p] = row
    BY <1>4, <2>4
  <2>8. ASSUME a.node[s] # NoNode, p \in DOMAIN pods => pods[p].node # a.node[s]
        PROVE  tab[a.node[s]].fresh /\ tab[a.node[s]].schedulable
    <3>1. in.slots[s].prev = Row(pods, p).node
      BY <1>5, <2>1 DEF SlotListOK
    <3>2. in.slots[s].prev # a.node[s]
      BY <2>8, <3>1 DEF Row
    <3>3. in.nodes[a.node[s]].fresh /\ in.nodes[a.node[s]].schedulable
      BY <1>6, <2>8, <3>2 DEF Sound, Legal
    <3> QED
      BY <1>5, <2>2, <2>8, <3>3
  <2> QED
    BY <1>7, <2>2, <2>6, <2>7, <2>8
<1>12. DOMAIN result.pods = DOMAIN desired
  BY <1>4
<1>13. PodsTabOK(result.pods, DOMAIN tab)
  <2>1. result.pods \in [DOMAIN desired -> PodTabRow]
    BY <1>4, <1>11
  <2> QED
    BY <1>7, <1>11, <1>12, <2>1 DEF PodsTabOK
<1>14. CalmUnless(result.pods, reporter)
  BY <1>11, <1>12 DEF CalmUnless
<1>15. MovesToOpen(result.pods, result.nodes)
  BY <1>8, <1>11, <1>12 DEF MovesToOpen
<1>16. \A n \in Node : /\ RunOrders(result, n) \in Seq(RunOrder)
                       /\ StopOrders(result, reported, n) \subseteq Pod
                       /\ Startable(RunOrders(result, n), StopOrders(result, reported, n))
  <2>1. result.input = in /\ result.desired = Desired(deployments, in, a)
    BY <1>3, <1>4
  <2> QED
    BY <2>1, <1>17, <1>6, OrdersOK
<1> QED
  BY <1>9, <1>10, <1>13, <1>14, <1>15, <1>16

-----------------------------------------------------------------------------
(* Module Cluster: the invariant.  A kubelet carries its orders for many steps *)
(* while the tabs they came from change; that docker can still carry them out  *)
(* is kept because every response was startable as a whole.                    *)

KubeletState == [pc : {"idle", "sent", "work", "down"}, seen : Engine, run : Seq(RunOrder),
                 stop : SUBSET Pod, names : SUBSET Pod]
LoopOK(k) ==
    /\ k \in KubeletState
    /\ \A j \in DOMAIN k.run : k.run[j].pod \in k.names
    /\ k.stop \subseteq k.names
    /\ Startable(k.run, k.stop)

WorkbookOK == DeploymentsOK /\ NodesTabOK(nodes) /\ PodsTabOK(pods, DOMAIN nodes)
MachinesOK == /\ docker \in [Node -> Engine] /\ kubelet \in [Node -> KubeletState]
              /\ \A n \in Node : LoopOK(kubelet[n])
LateOK == late \subseteq [node : Node, seen : Engine]
ClusterInv == WorkbookOK /\ MachinesOK /\ LateOK

\* Engines: started, stopped, collected and empty ones.
LEMMA Engines ==
    /\ None \in Engine
    /\ \A e \in Engine : DOMAIN e \subseteq Pod /\ \A p \in DOMAIN e : e[p] \in ContainerSpec
    /\ \A e \in Engine, p \in Pod, spec \in ContainerSpec : With(e, p, spec) \in Engine
    /\ \A e \in Engine : \A p : Without(e, p) \in Engine
    /\ \A e \in Engine : \A D : [q \in DOMAIN e \cap D |-> e[q]] \in Engine
<1>1. \A D \in SUBSET Pod : \A e \in [D -> ContainerSpec] : e \in Engine
  BY DEF Engine
<1>2. \A e \in Engine : DOMAIN e \in SUBSET Pod /\ \A p \in DOMAIN e : e[p] \in ContainerSpec
  BY DEF Engine
<1>3. None \in Engine
  <2>1. None \in [{} -> ContainerSpec] /\ {} \in SUBSET Pod
    BY DEF None
  <2> QED
    BY <1>1, <2>1
<1>4. ASSUME NEW e \in Engine, NEW p \in Pod, NEW spec \in ContainerSpec
      PROVE  With(e, p, spec) \in Engine
  <2>1. /\ With(e, p, spec) \in [DOMAIN e \cup {p} -> ContainerSpec]
        /\ DOMAIN e \cup {p} \in SUBSET Pod
    BY <1>2 DEF With
  <2> QED
    BY <1>1, <2>1
<1>5. ASSUME NEW e \in Engine, NEW p PROVE Without(e, p) \in Engine
  <2>1. Without(e, p) \in [DOMAIN e \ {p} -> ContainerSpec] /\ DOMAIN e \ {p} \in SUBSET Pod
    BY <1>2 DEF Without
  <2> QED
    BY <1>1, <2>1
<1>6. ASSUME NEW e \in Engine, NEW D PROVE [q \in DOMAIN e \cap D |-> e[q]] \in Engine
  <2>1. /\ [q \in DOMAIN e \cap D |-> e[q]] \in [DOMAIN e \cap D -> ContainerSpec]
        /\ DOMAIN e \cap D \in SUBSET Pod
    BY <1>2
  <2> QED
    BY <1>1, <2>1
<1> QED
  BY <1>2, <1>3, <1>4, <1>5, <1>6

\* The fields of a kubelet's state.
LEMMA LoopParts ==
    ASSUME NEW k, LoopOK(k)
    PROVE  /\ k \in KubeletState /\ k.pc \in {"idle", "sent", "work", "down"}
           /\ k.seen \in Engine /\ k.run \in Seq(RunOrder) /\ k.stop \in SUBSET Pod
           /\ k.names \in SUBSET Pod
  BY DEF LoopOK, KubeletState

\* A kubelet with nothing to do.
LEMMA IdleOK ==
    ASSUME NEW pc \in {"idle", "sent", "work", "down"}, NEW seen \in Engine
    PROVE  /\ LoopOK(Idle) /\ LoopOK([Idle EXCEPT !.pc = pc])
           /\ LoopOK([Idle EXCEPT !.pc = pc, !.seen = seen])
<1>1. <<>> \in Seq(RunOrder) /\ DOMAIN <<>> = {}
  OBVIOUS
<1>2. ASSUME NEW k \in KubeletState, k.run = <<>>, k.stop = {} PROVE LoopOK(k)
  BY <1>1, <1>2 DEF LoopOK, Startable
<1>3. ASSUME NEW k \in KubeletState, k.run = <<>>, k.stop = {}
      PROVE  LoopOK([k EXCEPT !.pc = pc]) /\ LoopOK([k EXCEPT !.pc = pc, !.seen = seen])
  <2> DEFINE x == [k EXCEPT !.pc = pc]
             y == [k EXCEPT !.pc = pc, !.seen = seen]
  <2>1. x \in KubeletState /\ x.run = <<>> /\ x.stop = {}
    BY <1>3 DEF KubeletState
  <2>2. y \in KubeletState /\ y.run = <<>> /\ y.stop = {}
    BY <1>3 DEF KubeletState
  <2> HIDE DEF x, y
  <2>3. LoopOK(x) /\ LoopOK(y)
    BY <1>2, <2>1, <2>2
  <2> QED
    BY <2>3 DEF x, y
<1>4. Idle \in KubeletState /\ Idle.run = <<>> /\ Idle.stop = {}
  BY <1>1, Engines DEF Idle, KubeletState
<1> QED
  BY <1>2, <1>3, <1>4

\* A kubelet one order further.
LEMMA OrderDone ==
    ASSUME NEW k, LoopOK(k), k.run # <<>>
    PROVE  Head(k.run) \in RunOrder /\ LoopOK([k EXCEPT !.run = Tail(k.run)])
<1> DEFINE run == k.run
           rest == Tail(run)
           next == [k EXCEPT !.run = rest]
<1>1. run \in Seq(RunOrder) /\ run # <<>>
  BY LoopParts
<1>2. /\ Head(run) \in RunOrder /\ rest \in Seq(RunOrder) /\ Len(run) \in Nat
      /\ DOMAIN rest = 1..(Len(run) - 1) /\ DOMAIN run = 1..Len(run)
      /\ \A j \in 1..(Len(run) - 1) : rest[j] = run[j + 1]
  BY <1>1
<1>3. \A j \in DOMAIN rest : j + 1 \in DOMAIN run /\ rest[j] = run[j + 1] /\ j \in Nat
  BY <1>2
<1> HIDE DEF rest
<1>4. /\ next \in KubeletState /\ next.run = rest /\ next.stop = k.stop
      /\ next.names = k.names
  BY <1>2 DEF LoopOK, KubeletState
<1>5. \A j, l \in DOMAIN rest : j # l => j + 1 # l + 1
  BY <1>3
<1>6. Startable(rest, k.stop)
  <2>1. Startable(run, k.stop)
    BY DEF LoopOK
  <2>2. ASSUME NEW j \in DOMAIN rest, NEW l \in DOMAIN rest, j # l
        PROVE  /\ rest[j].pod # rest[l].pod
               /\ Claims(rest[j].spec.ports) \cap Claims(rest[l].spec.ports) = {}
    <3>1. j + 1 \in DOMAIN run /\ l + 1 \in DOMAIN run /\ j + 1 # l + 1
      BY <1>3, <1>5, <2>2
    <3>2. rest[j] = run[j + 1] /\ rest[l] = run[l + 1]
      BY <1>3
    <3> HIDE DEF run
    <3> QED
      BY <2>1, <3>1, <3>2 DEF Startable
  <2>3. ASSUME NEW j \in DOMAIN rest PROVE rest[j].pod \notin k.stop
    BY <1>3, <2>1 DEF Startable
  <2> QED
    BY <2>2, <2>3 DEF Startable
<1>7. \A j \in DOMAIN rest : rest[j].pod \in k.names
  BY <1>3 DEF LoopOK
<1> HIDE DEF next
<1>8. LoopOK(next)
  BY <1>4, <1>6, <1>7 DEF LoopOK
<1> QED
  BY <1>2, <1>8 DEF next, rest

\* A kubelet that has stopped one pod.
LEMMA StopDone ==
    ASSUME NEW k, LoopOK(k), NEW p
    PROVE  LoopOK([k EXCEPT !.stop = k.stop \ {p}])
<1> DEFINE next == [k EXCEPT !.stop = k.stop \ {p}]
<1>1. /\ next \in KubeletState /\ next.run = k.run /\ next.stop = k.stop \ {p}
      /\ next.names = k.names
  BY DEF LoopOK, KubeletState
<1> HIDE DEF next
<1>2. LoopOK(next)
  BY <1>1 DEF LoopOK, Startable
<1> QED
  BY <1>2 DEF next

\* A kubelet that goes on with what it has.
LEMMA GoesOn ==
    ASSUME NEW k, LoopOK(k), NEW pc \in {"idle", "sent", "work", "down"}
    PROVE  LoopOK([k EXCEPT !.pc = pc])
<1> DEFINE next == [k EXCEPT !.pc = pc]
<1>1. next \in KubeletState /\ next.run = k.run /\ next.stop = k.stop /\ next.names = k.names
  BY DEF LoopOK, KubeletState
<1> HIDE DEF next
<1>2. LoopOK(next)
  BY <1>1 DEF LoopOK
<1> QED
  BY <1>2 DEF next

\* A kubelet with a response.
LEMMA OrdersTaken ==
    ASSUME NEW seen \in Engine, NEW run \in Seq(RunOrder), NEW stop \in SUBSET Pod,
           Startable(run, stop), NEW k,
           k = [pc |-> "work", seen |-> seen, run |-> run, stop |-> stop,
                names |-> {run[j].pod : j \in DOMAIN run} \cup stop]
    PROVE  LoopOK(k)
<1>1. \A j \in DOMAIN run : run[j].pod \in Pod
  <2>1. \A j \in DOMAIN run : run[j] \in RunOrder
    OBVIOUS
  <2> QED
    BY <2>1 DEF RunOrder
<1>2. {run[j].pod : j \in DOMAIN run} \cup stop \in SUBSET Pod
  BY <1>1
<1>3. k \in KubeletState
  BY <1>2 DEF KubeletState
<1> QED
  BY <1>3 DEF LoopOK

\* One machine at a time: whatever a step does to it.
LEMMA MachineStep ==
    ASSUME MachinesOK, NEW n \in Node, NEW k, LoopOK(k), NEW e \in Engine,
           kubelet' = kubelet \/ kubelet' = [kubelet EXCEPT ![n] = k],
           docker' = docker \/ docker' = [docker EXCEPT ![n] = e]
    PROVE  MachinesOK'
<1>1. k \in KubeletState
  BY LoopParts
<1>2. docker' \in [Node -> Engine]
  BY DEF MachinesOK
<1>3. kubelet' \in [Node -> KubeletState]
  BY <1>1 DEF MachinesOK
<1>4. ASSUME NEW m \in Node PROVE LoopOK(kubelet'[m])
  <2>1. kubelet'[m] = kubelet[m] \/ kubelet'[m] = k
    BY DEF MachinesOK
  <2>2. LoopOK(kubelet[m])
    BY DEF MachinesOK
  <2> QED
    BY <2>1, <2>2
<1> QED
  BY <1>2, <1>3, <1>4 DEF MachinesOK

\* A change to one row of the Nodes tab that leaves its place and its load alone.
LEMMA NodeEdited ==
    ASSUME NodesTabOK(nodes), NEW n \in DOMAIN nodes, NEW row \in NodeTabRow,
           row.row = nodes[n].row, row.cpuUsed = nodes[n].cpuUsed,
           NEW tab, tab = [nodes EXCEPT ![n] = row]
    PROVE  NodesTabOK(tab) /\ DOMAIN tab = DOMAIN nodes
<1>1. DOMAIN tab = DOMAIN nodes /\ \A m \in DOMAIN nodes : tab[m] = IF m = n THEN row ELSE nodes[m]
  BY DEF NodesTabOK
<1>2. tab \in [DOMAIN nodes -> NodeTabRow]
  BY DEF NodesTabOK
<1>3. \A m \in DOMAIN nodes : tab[m].row = nodes[m].row /\ tab[m].cpuUsed = nodes[m].cpuUsed
  BY <1>1
<1> QED
  BY <1>1, <1>2, <1>3 DEF NodesTabOK

\* The fields commands and the clock change.
LEMMA NodeFields ==
    ASSUME NodesTabOK(nodes), NEW n \in DOMAIN nodes, NEW b \in BOOLEAN,
           NEW l \in SUBSET Labels, NEW t \in SUBSET Taints
    PROVE  /\ NodesTabOK([nodes EXCEPT ![n].fresh = b])
           /\ NodesTabOK([nodes EXCEPT ![n].schedulable = b])
           /\ NodesTabOK([nodes EXCEPT ![n].labels = l])
           /\ NodesTabOK([nodes EXCEPT ![n].taints = t])
<1>1. nodes[n] \in NodeTabRow
  BY DEF NodesTabOK
<1>2. \A row \in NodeTabRow : row.row = nodes[n].row /\ row.cpuUsed = nodes[n].cpuUsed
          => NodesTabOK([nodes EXCEPT ![n] = row])
  BY NodeEdited
<1>3. /\ [nodes[n] EXCEPT !.fresh = b] \in NodeTabRow
      /\ [nodes[n] EXCEPT !.fresh = b].row = nodes[n].row
      /\ [nodes[n] EXCEPT !.fresh = b].cpuUsed = nodes[n].cpuUsed
  BY <1>1 DEF NodeTabRow
<1>4. /\ [nodes[n] EXCEPT !.schedulable = b] \in NodeTabRow
      /\ [nodes[n] EXCEPT !.schedulable = b].row = nodes[n].row
      /\ [nodes[n] EXCEPT !.schedulable = b].cpuUsed = nodes[n].cpuUsed
  BY <1>1 DEF NodeTabRow
<1>5. /\ [nodes[n] EXCEPT !.labels = l] \in NodeTabRow
      /\ [nodes[n] EXCEPT !.labels = l].row = nodes[n].row
      /\ [nodes[n] EXCEPT !.labels = l].cpuUsed = nodes[n].cpuUsed
  BY <1>1 DEF NodeTabRow
<1>6. /\ [nodes[n] EXCEPT !.taints = t] \in NodeTabRow
      /\ [nodes[n] EXCEPT !.taints = t].row = nodes[n].row
      /\ [nodes[n] EXCEPT !.taints = t].cpuUsed = nodes[n].cpuUsed
  BY <1>1 DEF NodeTabRow
<1> QED
  BY <1>2, <1>3, <1>4, <1>5, <1>6

\* A heartbeat registers its node or makes it fresh (heartbeat, the Nodes row).
LEMMA HeardFromOK ==
    ASSUME NodesTabOK(nodes), NEW n \in Node, NEW tab, tab = HeardFrom(n)
    PROVE  NodesTabOK(tab) /\ DOMAIN tab = DOMAIN nodes \cup {n}
<1>1. CASE n \in DOMAIN nodes
  <2>1. tab = [nodes EXCEPT ![n].fresh = TRUE] /\ TRUE \in BOOLEAN
    BY <1>1 DEF HeardFrom
  <2>2. {} \in SUBSET Labels /\ {} \in SUBSET Taints
    OBVIOUS
  <2>3. NodesTabOK(tab)
    BY <1>1, <2>1, <2>2, NodeFields
  <2>4. DOMAIN tab = DOMAIN nodes
    BY <1>1, <2>1
  <2> QED
    BY <1>1, <2>3, <2>4
<1>2. CASE n \notin DOMAIN nodes
  <2> DEFINE D == DOMAIN nodes
  <2>1. IsFiniteSet(D) /\ D \subseteq Node
    BY DEF NodesTabOK
  <2>2. /\ Cardinality(D) \in Nat /\ IsFiniteSet(D \cup {n})
        /\ Cardinality(D \cup {n}) = Cardinality(D) + 1
    BY <1>2, <2>1, FS_CardinalityType, FS_AddElement
  <2>3. PICK new : new = NewNode(Cardinality(D) + 1)
    OBVIOUS
  <2>4. /\ new \in NodeTabRow /\ new.row = Cardinality(D) + 1 /\ new.cpuUsed = 0
    BY <2>2, <2>3 DEF NewNode, NodeTabRow
  <2>5. tab = With(nodes, n, new)
    BY <1>2, <2>3 DEF HeardFrom
  <2>6. /\ DOMAIN tab = D \cup {n}
        /\ \A m \in D \cup {n} : tab[m] = IF m = n THEN new ELSE nodes[m]
    BY <2>5 DEF With
  <2>7. ASSUME NEW m \in D PROVE nodes[m] \in NodeTabRow /\ nodes[m].row \in 1..Cardinality(D)
                               /\ nodes[m].cpuUsed <= Cpu[m]
    BY DEF NodesTabOK
  <2>8. 0 <= Cpu[n]
    BY ClusterAssumption
  <2>9. tab \in [D \cup {n} -> NodeTabRow]
    <3>1. \A m \in D \cup {n} : (IF m = n THEN new ELSE nodes[m]) \in NodeTabRow
      BY <2>4, <2>7
    <3>2. tab = [m \in D \cup {n} |-> IF m = n THEN new ELSE nodes[m]]
      BY <2>5 DEF With
    <3> QED
      BY <3>1, <3>2
  <2>10. ASSUME NEW m \in D \cup {n}
         PROVE  tab[m].cpuUsed <= Cpu[m] /\ tab[m].row \in 1..(Cardinality(D) + 1)
    <3>1. CASE m = n
      BY <2>2, <2>4, <2>6, <2>8, <3>1
    <3>2. CASE m # n
      <4>1. m \in D /\ tab[m] = nodes[m]
        BY <2>6, <3>2
      <4>2. nodes[m].row \in 1..(Cardinality(D) + 1)
        BY <2>2, <2>7, <4>1
      <4> QED
        BY <2>7, <4>1, <4>2
    <3> QED
      BY <3>1, <3>2
  <2>11. ASSUME NEW l \in D \cup {n}, NEW m \in D \cup {n}, tab[l].row = tab[m].row
         PROVE  l = m
    <3>1. \A x \in D : tab[x] = nodes[x] /\ nodes[x].row \in 1..Cardinality(D)
      BY <1>2, <2>6, <2>7
    <3>2. tab[n].row = Cardinality(D) + 1
      BY <2>4, <2>6
    <3>3. \A x \in D : tab[x].row # tab[n].row
      BY <2>2, <3>1, <3>2
    <3>4. l \in D /\ m \in D => l = m
      BY <2>11, <3>1 DEF NodesTabOK
    <3> QED
      BY <2>11, <3>3, <3>4
  <2> HIDE DEF D
  <2>12. NodesTabOK(tab)
    <3>1. D \cup {n} \subseteq Node
      BY <2>1
    <3> QED
      BY <2>2, <2>6, <2>9, <2>10, <2>11, <3>1 DEF NodesTabOK
  <2> QED
    BY <2>6, <2>12 DEF D
<1> QED
  BY <1>1, <1>2

\* What NoFlapping and CordonedGainsNothing say of a step.
Calm == \A p \in DOMAIN pods \cap DOMAIN pods' :
    /\ pods[p].phase = "Running" /\ pods'[p].phase # "Running"
    /\ pods[p].node = pods'[p].node /\ pods[p].node # NoNode
    => ReportHandled(pods[p].node)
MovesLegally == \A p \in DOMAIN pods' :
    LET n == pods'[p].node IN
    n # NoNode /\ (p \in DOMAIN pods => pods[p].node # n)
    => nodes'[n].fresh /\ nodes'[n].schedulable
StepOK == ClusterInv' /\ Calm /\ MovesLegally

\* A step that leaves the Pods tab alone moves no pod.
LEMMA PodsUntouched == ASSUME pods' = pods PROVE Calm /\ MovesLegally
  BY DEF Calm, MovesLegally

\* A step that leaves the workbook alone keeps it well formed.
LEMMA WorkbookUntouched ==
    ASSUME WorkbookOK, UNCHANGED workbook
    PROVE  WorkbookOK' /\ Calm /\ MovesLegally
  BY PodsUntouched DEF WorkbookOK, workbook, DeploymentsOK, NodesTabOK, PodsTabOK

\* A step that leaves the machines alone.
LEMMA MachinesUntouched == ASSUME MachinesOK, UNCHANGED machines PROVE MachinesOK'
  BY DEF MachinesOK, machines

\* A step that makes a reconcile, for a kubelet's report or for nobody's.
LEMMA WorkbookStep ==
    ASSUME WorkbookOK, NEW tab, NodesTabOK(tab), NEW exclude \in SUBSET Node,
           NEW reported \in Engine, NEW reporter \in Cell,
           reporter = NoNode \/ ReportHandled(reporter),
           NEW result, result = Reconcile(tab, reported, reporter, exclude),
           deployments' = deployments, nodes' = result.nodes, pods' = result.pods
    PROVE  WorkbookOK' /\ Calm /\ MovesLegally
<1>1. DeploymentsOK /\ PodsTabOK(pods, DOMAIN nodes)
  BY DEF WorkbookOK
<1>2. /\ NodesTabOK(result.nodes) /\ DOMAIN result.nodes = DOMAIN tab
      /\ PodsTabOK(result.pods, DOMAIN tab)
      /\ CalmUnless(result.pods, reporter)
      /\ MovesToOpen(result.pods, result.nodes)
  BY <1>1, ReconcileOK
<1>3. DeploymentsOK'
  BY <1>1 DEF DeploymentsOK
<1>4. NodesTabOK(nodes)' /\ PodsTabOK(pods, DOMAIN nodes)'
  BY <1>2 DEF NodesTabOK, PodsTabOK
<1>5. Calm
  BY <1>2 DEF CalmUnless, Calm
<1>6. MovesLegally
  BY <1>2 DEF MovesToOpen, MovesLegally
<1> QED
  BY <1>3, <1>4, <1>5, <1>6 DEF WorkbookOK

\* A control action that reschedules.
LEMMA RescheduleStep ==
    ASSUME ClusterInv, NEW tab, NodesTabOK(tab), NEW exclude \in SUBSET Node,
           Reschedule(tab, exclude), UNCHANGED <<deployments, machines, late>>
    PROVE  StepOK
<1>1. PICK result : result = Reconcile(tab, None, NoNode, exclude)
  OBVIOUS
<1>2. nodes' = result.nodes /\ pods' = result.pods /\ deployments' = deployments
  BY <1>1 DEF Reschedule
<1>3. WorkbookOK /\ None \in Engine /\ NoNode \in Cell
  BY Engines DEF ClusterInv, Cell
<1>4. WorkbookOK' /\ Calm /\ MovesLegally
  BY <1>1, <1>2, <1>3, WorkbookStep
<1>5. MachinesOK' /\ LateOK'
  BY MachinesUntouched DEF ClusterInv, LateOK
<1> QED
  BY <1>4, <1>5 DEF StepOK, ClusterInv

\* The steps of a kubelet's loop.
LEMMA LoopSteps == ASSUME ClusterInv, NEW n \in Node, Loop(n) PROVE StepOK
<1>1. WorkbookOK /\ MachinesOK /\ LateOK
  BY DEF ClusterInv
<1>2. /\ LoopOK(kubelet[n]) /\ kubelet[n].seen \in Engine /\ docker[n] \in Engine
      /\ kubelet[n].pc \in {"idle", "sent", "work", "down"}
  BY <1>1, LoopParts DEF MachinesOK
<1>3. CASE Report(n)
  <2>1. PICK k : k = [Idle EXCEPT !.pc = "sent", !.seen = docker[n]]
    OBVIOUS
  <2>2. LoopOK(k)
    BY <1>2, <2>1, IdleOK
  <2>3. kubelet' = [kubelet EXCEPT ![n] = k] /\ docker' = docker
    BY <1>3, <2>1 DEF Report
  <2>4. MachinesOK'
    BY <1>1, <1>2, <2>2, <2>3, MachineStep
  <2>5. UNCHANGED workbook /\ LateOK'
    BY <1>1, <1>3 DEF Report, LateOK
  <2> QED
    BY <1>1, <2>4, <2>5, WorkbookUntouched DEF StepOK, ClusterInv
<1>4. CASE Heartbeat(n)
  <2>1. PICK seen : seen = kubelet[n].seen
    OBVIOUS
  <2>2. PICK tab : tab = HeardFrom(n)
    OBVIOUS
  <2>3. PICK result : result = Reconcile(tab, seen, n, {})
    OBVIOUS
  <2>4. PICK run, stop : run = RunOrders(result, n) /\ stop = StopOrders(result, seen, n)
    OBVIOUS
  <2>5. PICK k : k = [pc |-> "work", seen |-> seen, run |-> run, stop |-> stop,
                      names |-> {run[j].pod : j \in DOMAIN run} \cup stop]
    OBVIOUS
  <2>6. /\ kubelet[n].pc = "sent" /\ nodes' = result.nodes /\ pods' = result.pods
        /\ kubelet' = [kubelet EXCEPT ![n] = k]
        /\ deployments' = deployments /\ docker' = docker /\ late' = late
    BY <1>4, <2>1, <2>2, <2>3, <2>4, <2>5 DEF Heartbeat
  <2>7. DeploymentsOK /\ NodesTabOK(nodes) /\ PodsTabOK(pods, DOMAIN nodes)
    BY <1>1 DEF WorkbookOK
  <2>8. NodesTabOK(tab) /\ seen \in Engine /\ n \in Cell /\ {} \in SUBSET Node
    BY <1>2, <2>1, <2>2, <2>7, HeardFromOK DEF Cell
  <2>9. ReportHandled(n)
    <3>1. kubelet'[n].pc = "work"
      BY <1>1, <2>5, <2>6 DEF MachinesOK
    <3> QED
      BY <2>6, <3>1 DEF ReportHandled
  <2>10. WorkbookOK' /\ Calm /\ MovesLegally
    BY <1>1, <2>3, <2>6, <2>8, <2>9, WorkbookStep
  <2>11. run \in Seq(RunOrder) /\ stop \in SUBSET Pod /\ Startable(run, stop)
    BY <2>3, <2>4, <2>7, <2>8, ReconcileOK
  <2>12. LoopOK(k)
    BY <2>5, <2>8, <2>11, OrdersTaken
  <2>13. MachinesOK'
    BY <1>1, <1>2, <2>6, <2>12, MachineStep
  <2>14. LateOK'
    BY <1>1, <2>6 DEF LateOK
  <2> QED
    BY <2>10, <2>13, <2>14 DEF StepOK, ClusterInv
<1>5. CASE Start(n)
  <2>1. PICK order : order = Head(kubelet[n].run)
    OBVIOUS
  <2>2. PICK engine : engine = AfterSpecCheck(n, order)
    OBVIOUS
  <2>3. PICK k : k = [kubelet[n] EXCEPT !.run = Tail(kubelet[n].run)]
    OBVIOUS
  <2>4. order \in RunOrder /\ LoopOK(k)
    BY <1>2, <1>5, <2>1, <2>3, OrderDone DEF Start
  <2>5. engine \in Engine
    BY <1>2, <2>2, Engines DEF AfterSpecCheck
  <2>6. order.pod \in Pod /\ order.spec \in ContainerSpec
    BY <2>4 DEF RunOrder
  <2>7. PICK e : e = IF order.pod \notin DOMAIN engine /\ PortsFree(engine, order)
                     THEN With(engine, order.pod, order.spec) ELSE engine
    OBVIOUS
  <2>8. e \in Engine
    BY <2>5, <2>6, <2>7, Engines
  <2>9. /\ docker' = [docker EXCEPT ![n] = e] /\ kubelet' = [kubelet EXCEPT ![n] = k]
        /\ UNCHANGED workbook /\ late' = late
    BY <1>5, <2>1, <2>2, <2>3, <2>7 DEF Start
  <2>10. MachinesOK' /\ LateOK'
    BY <1>1, <2>4, <2>8, <2>9, MachineStep DEF LateOK
  <2> QED
    BY <1>1, <2>9, <2>10, WorkbookUntouched DEF StepOK, ClusterInv
<1>6. CASE Stop(n)
  <2>1. PICK p \in kubelet[n].stop :
            /\ docker' = [docker EXCEPT ![n] = Without(docker[n], p)]
            /\ kubelet' = [kubelet EXCEPT ![n].stop = kubelet[n].stop \ {p}]
    BY <1>6 DEF Stop
  <2>2. PICK k : k = [kubelet[n] EXCEPT !.stop = kubelet[n].stop \ {p}]
    OBVIOUS
  <2>3. LoopOK(k) /\ Without(docker[n], p) \in Engine
    BY <1>2, <2>2, StopDone, Engines
  <2>4. kubelet' = [kubelet EXCEPT ![n] = k] /\ UNCHANGED workbook /\ late' = late
    BY <1>6, <2>1, <2>2 DEF Stop
  <2>5. MachinesOK' /\ LateOK'
    BY <1>1, <2>1, <2>3, <2>4, MachineStep DEF LateOK
  <2> QED
    BY <1>1, <2>4, <2>5, WorkbookUntouched DEF StepOK, ClusterInv
<1>7. CASE CollectGarbage(n)
  <2>1. PICK e : e = [p \in DOMAIN docker[n] \cap kubelet[n].names |-> docker[n][p]]
    OBVIOUS
  <2>2. e \in Engine
    BY <1>2, <2>1, Engines
  <2>3. LoopOK(Idle)
    BY <1>2, IdleOK
  <2>4. /\ docker' = [docker EXCEPT ![n] = e] /\ kubelet' = [kubelet EXCEPT ![n] = Idle]
        /\ UNCHANGED workbook /\ late' = late
    BY <1>7, <2>1 DEF CollectGarbage
  <2>5. MachinesOK' /\ LateOK'
    BY <1>1, <2>2, <2>3, <2>4, MachineStep DEF LateOK
  <2> QED
    BY <1>1, <2>4, <2>5, WorkbookUntouched DEF StepOK, ClusterInv
<1> QED
  BY <1>3, <1>4, <1>5, <1>6, <1>7 DEF Loop

\* Time and faults.
LEMMA TroubleSteps == ASSUME ClusterInv, NEW n \in Node, Trouble(n) PROVE StepOK
<1>1. WorkbookOK /\ MachinesOK /\ LateOK
  BY DEF ClusterInv
<1>2. /\ LoopOK(kubelet[n]) /\ kubelet[n].seen \in Engine /\ docker[n] \in Engine
      /\ kubelet[n].pc \in {"idle", "sent", "work", "down"}
  BY <1>1, LoopParts DEF MachinesOK
<1>3. CASE Expire(n) \/ SlowLoop(n)
  <2>1. /\ n \in DOMAIN nodes /\ nodes' = [nodes EXCEPT ![n].fresh = FALSE]
        /\ UNCHANGED <<deployments, pods, machines, late>>
    BY <1>3 DEF Expire, SlowLoop
  <2>2. DeploymentsOK /\ NodesTabOK(nodes) /\ PodsTabOK(pods, DOMAIN nodes)
    BY <1>1 DEF WorkbookOK
  <2>3. {} \in SUBSET Labels /\ {} \in SUBSET Taints /\ FALSE \in BOOLEAN
    OBVIOUS
  <2>4. PICK tab : tab = [nodes EXCEPT ![n].fresh = FALSE]
    OBVIOUS
  <2>5. NodesTabOK(tab) /\ DOMAIN tab = DOMAIN nodes
    BY <2>1, <2>2, <2>3, <2>4, NodeFields
  <2>6. WorkbookOK'
    <3>1. NodesTabOK(nodes)' /\ PodsTabOK(pods, DOMAIN nodes)'
      BY <2>1, <2>2, <2>4, <2>5 DEF NodesTabOK, PodsTabOK
    <3>2. DeploymentsOK'
      BY <2>1, <2>2 DEF DeploymentsOK
    <3> QED
      BY <3>1, <3>2 DEF WorkbookOK
  <2>7. MachinesOK' /\ LateOK'
    BY <1>1, <2>1, MachinesUntouched DEF LateOK
  <2> QED
    BY <2>1, <2>6, <2>7, PodsUntouched DEF StepOK, ClusterInv
<1>4. CASE HeartbeatFails(n)
  <2>1. PICK k : k = [kubelet[n] EXCEPT !.pc = "work"]
    OBVIOUS
  <2>2. LoopOK(k)
    BY <1>2, <2>1, GoesOn
  <2>3. /\ kubelet' = [kubelet EXCEPT ![n] = k] /\ docker' = docker /\ UNCHANGED workbook
        /\ late' \in {late, late \cup {[node |-> n, seen |-> kubelet[n].seen]}}
    BY <1>4, <2>1 DEF HeartbeatFails
  <2>4. MachinesOK'
    BY <1>1, <1>2, <2>2, <2>3, MachineStep
  <2>5. LateOK'
    BY <1>1, <1>2, <2>3 DEF LateOK
  <2> QED
    BY <1>1, <2>3, <2>4, <2>5, WorkbookUntouched DEF StepOK, ClusterInv
<1>5. CASE StartFails(n)
  <2>1. PICK order : order = Head(kubelet[n].run)
    OBVIOUS
  <2>2. PICK e : e = AfterSpecCheck(n, order)
    OBVIOUS
  <2>3. PICK k : k = [kubelet[n] EXCEPT !.run = Tail(kubelet[n].run)]
    OBVIOUS
  <2>4. LoopOK(k)
    BY <1>2, <1>5, <2>3, OrderDone DEF StartFails
  <2>5. e \in Engine
    BY <1>2, <2>2, Engines DEF AfterSpecCheck
  <2>6. /\ docker' = [docker EXCEPT ![n] = e] /\ kubelet' = [kubelet EXCEPT ![n] = k]
        /\ UNCHANGED workbook /\ late' = late
    BY <1>5, <2>1, <2>2, <2>3 DEF StartFails
  <2>7. MachinesOK' /\ LateOK'
    BY <1>1, <2>4, <2>5, <2>6, MachineStep DEF LateOK
  <2> QED
    BY <1>1, <2>6, <2>7, WorkbookUntouched DEF StepOK, ClusterInv
<1>6. CASE ContainerExits(n)
  <2>1. PICK p \in DOMAIN docker[n] : docker' = [docker EXCEPT ![n] = Without(docker[n], p)]
    BY <1>6 DEF ContainerExits
  <2>2. Without(docker[n], p) \in Engine
    BY <1>2, Engines
  <2>3. kubelet' = kubelet /\ UNCHANGED workbook /\ late' = late
    BY <1>6 DEF ContainerExits
  <2>4. MachinesOK' /\ LateOK'
    BY <1>1, <1>2, <2>1, <2>2, <2>3, MachineStep DEF LateOK
  <2> QED
    BY <1>1, <2>3, <2>4, WorkbookUntouched DEF StepOK, ClusterInv
<1>7. CASE KubeletStops(n) \/ NodeFails(n) \/ KubeletStarts(n)
  <2>1. PICK k, m : k = [Idle EXCEPT !.pc = "down"] /\ m = Idle
    OBVIOUS
  <2>2. LoopOK(k) /\ LoopOK(m) /\ None \in Engine
    BY <1>2, <2>1, IdleOK, Engines
  <2>3. /\ kubelet' = [kubelet EXCEPT ![n] = k] \/ kubelet' = [kubelet EXCEPT ![n] = m]
        /\ docker' = docker \/ docker' = [docker EXCEPT ![n] = None]
        /\ UNCHANGED workbook
    BY <1>7, <2>1 DEF KubeletStops, NodeFails, KubeletStarts
  <2>4. MachinesOK'
    BY <1>1, <2>2, <2>3, MachineStep
  <2>5. late' = late \/ late' = late \cup {[node |-> n, seen |-> kubelet[n].seen]}
    BY <1>7 DEF KubeletStops, NodeFails, KubeletStarts
  <2>6. LateOK'
    BY <1>1, <1>2, <2>5 DEF LateOK
  <2> QED
    BY <1>1, <2>3, <2>4, <2>6, WorkbookUntouched DEF StepOK, ClusterInv
<1> QED
  BY <1>3, <1>4, <1>5, <1>6, <1>7 DEF Trouble

\* A heartbeat nobody waits for any more is handled like any other.
LEMMA LateSteps == ASSUME ClusterInv, LateHeartbeat PROVE StepOK
<1>1. WorkbookOK /\ MachinesOK /\ LateOK
  BY DEF ClusterInv
<1>2. PICK h \in late :
          /\ nodes' = Reconcile(HeardFrom(h.node), h.seen, h.node, {}).nodes
          /\ pods' = Reconcile(HeardFrom(h.node), h.seen, h.node, {}).pods
          /\ late' = late \ {h}
          /\ UNCHANGED <<deployments, machines, events>>
  BY DEF LateHeartbeat
<1>3. h.node \in Node /\ h.seen \in Engine
  BY <1>1 DEF LateOK
<1>4. PICK tab : tab = HeardFrom(h.node)
  OBVIOUS
<1>5. NodesTabOK(tab) /\ h.node \in Cell /\ {} \in SUBSET Node
  BY <1>1, <1>3, <1>4, HeardFromOK DEF WorkbookOK, Cell
<1>6. PICK result : result = Reconcile(tab, h.seen, h.node, {})
  OBVIOUS
<1>7. ReportHandled(h.node)
  BY <1>2 DEF ReportHandled
<1>8. nodes' = result.nodes /\ pods' = result.pods /\ deployments' = deployments
  BY <1>2, <1>4, <1>6
<1>9. WorkbookOK' /\ Calm /\ MovesLegally
  BY <1>1, <1>3, <1>5, <1>6, <1>7, <1>8, WorkbookStep
<1>10. MachinesOK' /\ LateOK'
  BY <1>1, <1>2, MachinesUntouched DEF LateOK
<1> QED
  BY <1>9, <1>10 DEF StepOK, ClusterInv

\* Commands that change the Deployments tab keep its names apart (apply, scale, delete).
LEMMA DeploymentsEdited ==
    ASSUME DeploymentsOK, NEW deps,
           \/ \E m \in Manifests :
                 deps = IF RowOf(m.name) = {} THEN Append(deployments, m)
                        ELSE [d \in DOMAIN deployments |->
                                 IF d \in RowOf(m.name) THEN m ELSE deployments[d]]
           \/ \E d \in DOMAIN deployments, r \in Replicas :
                 deps = [deployments EXCEPT ![d].replicas = r]
           \/ \E d \in DOMAIN deployments : deps = RemoveAt(deployments, d)
    PROVE  /\ deps \in Seq(Deployment)
           /\ \A c, d \in DOMAIN deps : deps[c].name = deps[d].name => c = d
<1> DEFINE top == Len(deployments)
<1>1. /\ deployments \in Seq(Deployment) /\ top \in Nat /\ DOMAIN deployments = 1..top
      /\ Len(deployments) = top
      /\ \A d \in 1..top : deployments[d] \in Deployment
      /\ \A c, d \in 1..top : deployments[c].name = deployments[d].name => c = d
  BY DEF DeploymentsOK
<1> HIDE DEF top
<1>2. CASE \E m \in Manifests :
               deps = IF RowOf(m.name) = {} THEN Append(deployments, m)
                      ELSE [d \in DOMAIN deployments |->
                               IF d \in RowOf(m.name) THEN m ELSE deployments[d]]
  <2>1. PICK m \in Manifests :
            deps = IF RowOf(m.name) = {} THEN Append(deployments, m)
                   ELSE [d \in DOMAIN deployments |->
                            IF d \in RowOf(m.name) THEN m ELSE deployments[d]]
    BY <1>2
  <2>2. m \in Deployment
    BY ClusterAssumption
  <2>3. CASE RowOf(m.name) = {}
    <3>1. deps = Append(deployments, m)
      BY <2>1, <2>3
    <3>2. /\ deps \in Seq(Deployment) /\ DOMAIN deps = 1..(top + 1)
          /\ \A d \in 1..top : deps[d] = deployments[d]
          /\ deps[top + 1] = m
      <4>1. Append(deployments, m) \in Seq(Deployment) /\ Len(Append(deployments, m)) = top + 1
        BY <1>1, <2>2
      <4>2. /\ \A d \in 1..top : Append(deployments, m)[d] = deployments[d]
            /\ Append(deployments, m)[top + 1] = m
        BY <1>1, <2>2
      <4>3. DOMAIN Append(deployments, m) = 1..(top + 1)
        BY <4>1
      <4> QED
        BY <3>1, <4>1, <4>2, <4>3
    <3>3. \A d \in 1..top : deps[d].name # m.name
      BY <1>1, <2>3, <3>2 DEF RowOf
    <3>4. \A d \in 1..(top + 1) : d \in 1..top \/ d = top + 1
      BY <1>1
    <3> QED
      BY <1>1, <3>2, <3>3, <3>4
  <2>4. CASE RowOf(m.name) # {}
    <3>1. deps = [d \in 1..top |-> IF d \in RowOf(m.name) THEN m ELSE deployments[d]]
      BY <1>1, <2>1, <2>4
    <3>2. deps \in [1..top -> Deployment]
      BY <1>1, <2>2, <3>1
    <3>3. deps \in Seq(Deployment) /\ DOMAIN deps = 1..top
      BY <1>1, <3>2
    <3>4. \A d \in 1..top : deps[d].name = deployments[d].name
      BY <1>1, <3>1 DEF RowOf
    <3> QED
      BY <1>1, <3>3, <3>4
  <2> QED
    BY <2>3, <2>4
<1>3. CASE \E d \in DOMAIN deployments, r \in Replicas :
               deps = [deployments EXCEPT ![d].replicas = r]
  <2>1. PICK d \in DOMAIN deployments, r \in Replicas :
            deps = [deployments EXCEPT ![d].replicas = r]
    BY <1>3
  <2>2. PICK dep : dep = [deployments[d] EXCEPT !.replicas = r]
    OBVIOUS
  <2>3. dep \in Deployment /\ dep.name = deployments[d].name
    <3>1. deployments[d] \in Deployment /\ r \in Nat
      BY <1>1, ClusterAssumption
    <3> QED
      BY <2>2, <3>1 DEF Deployment
  <2>4. deps = [deployments EXCEPT ![d] = dep]
    BY <2>1, <2>2
  <2>5. deps \in Seq(Deployment) /\ DOMAIN deps = 1..top
    BY <1>1, <2>3, <2>4
  <2>6. \A c \in 1..top : deps[c].name = deployments[c].name
    BY <1>1, <2>3, <2>4
  <2> QED
    BY <1>1, <2>5, <2>6
<1>4. CASE \E d \in DOMAIN deployments : deps = RemoveAt(deployments, d)
  <2>1. PICK d \in DOMAIN deployments : deps = RemoveAt(deployments, d)
    BY <1>4
  <2> DEFINE low == SubSeq(deployments, 1, d - 1)
             high == SubSeq(deployments, d + 1, top)
  <2>0. d \in 1..top /\ d - 1 \in Nat /\ d + 1 \in Nat
    BY <1>1
  <2>2. /\ low \in Seq(Deployment) /\ DOMAIN low = 1..(d - 1) /\ Len(low) = d - 1
        /\ \A c \in 1..(d - 1) : low[c] = deployments[c]
    BY <1>1, <2>0
  <2>3. /\ high \in Seq(Deployment) /\ DOMAIN high = 1..(top - d)
        /\ \A c \in 1..(top - d) : high[c] = deployments[c + d]
    BY <1>1, <2>0
  <2>4. deps = low \o high
    BY <1>1, <2>1 DEF RemoveAt
  <2> HIDE DEF low, high
  <2>5. /\ deps \in Seq(Deployment)
        /\ \A j \in DOMAIN deps :
               \/ j \in DOMAIN low /\ deps[j] = low[j]
               \/ j - Len(low) \in DOMAIN high /\ j > Len(low) /\ deps[j] = high[j - Len(low)]
    BY <2>2, <2>3, <2>4, Concatenation
  <2>6. ASSUME NEW j \in DOMAIN deps
        PROVE  /\ j \in Nat
               /\ \/ j < d /\ j \in 1..top /\ deps[j] = deployments[j]
                  \/ j >= d /\ j + 1 \in 1..top /\ deps[j] = deployments[j + 1]
    <3>1. j \in Nat /\ d \in Nat
      BY <1>1, <2>5
    <3>2. CASE j \in DOMAIN low /\ deps[j] = low[j]
      <4>1. j \in 1..(d - 1)
        BY <2>2, <3>2
      <4> QED
        BY <1>1, <2>0, <2>2, <3>1, <3>2, <4>1
    <3>3. CASE /\ j - Len(low) \in DOMAIN high /\ j > Len(low)
               /\ deps[j] = high[j - Len(low)]
      <4>1. j - (d - 1) \in 1..(top - d) /\ deps[j] = deployments[(j - (d - 1)) + d]
        BY <2>2, <2>3, <3>3
      <4>2. (j - (d - 1)) + d = j + 1 /\ j >= d /\ j + 1 \in 1..top
        BY <1>1, <2>0, <3>1, <4>1
      <4> QED
        BY <3>1, <4>1, <4>2
    <3> QED
      BY <2>5, <3>2, <3>3
  <2>7. ASSUME NEW j \in DOMAIN deps, NEW k \in DOMAIN deps, deps[j].name = deps[k].name
        PROVE  j = k
    <3>1. j \in Nat /\ k \in Nat /\ d \in Nat
      BY <1>1, <2>6
    <3>2. CASE j < d /\ j \in 1..top /\ deps[j] = deployments[j]
      <4>1. CASE k < d /\ k \in 1..top /\ deps[k] = deployments[k]
        BY <1>1, <2>7, <3>2, <4>1
      <4>2. CASE k >= d /\ k + 1 \in 1..top /\ deps[k] = deployments[k + 1]
        <5>1. j = k + 1
          BY <1>1, <2>7, <3>2, <4>2
        <5> QED
          BY <3>1, <3>2, <4>2, <5>1
      <4> QED
        BY <2>6, <4>1, <4>2
    <3>3. CASE j >= d /\ j + 1 \in 1..top /\ deps[j] = deployments[j + 1]
      <4>1. CASE k < d /\ k \in 1..top /\ deps[k] = deployments[k]
        <5>1. j + 1 = k
          BY <1>1, <2>7, <3>3, <4>1
        <5> QED
          BY <3>1, <3>3, <4>1, <5>1
      <4>2. CASE k >= d /\ k + 1 \in 1..top /\ deps[k] = deployments[k + 1]
        <5>1. j + 1 = k + 1
          BY <1>1, <2>7, <3>3, <4>2
        <5> QED
          BY <3>1, <5>1
      <4> QED
        BY <2>6, <4>1, <4>2
    <3> QED
      BY <2>6, <3>2, <3>3
  <2> QED
    BY <2>5, <2>7
<1> QED
  BY <1>2, <1>3, <1>4

\* Operator commands.
LEMMA OperatorSteps == ASSUME ClusterInv, Operator PROVE StepOK
<1>1. WorkbookOK /\ MachinesOK /\ LateOK
  BY DEF ClusterInv
<1>2. DeploymentsOK /\ NodesTabOK(nodes) /\ PodsTabOK(pods, DOMAIN nodes)
  BY <1>1 DEF WorkbookOK
<1>3. \A n \in DOMAIN nodes : /\ n \in Node /\ nodes[n].labels \in SUBSET Labels
                              /\ nodes[n].taints \in SUBSET Taints
  BY <1>2 DEF NodesTabOK, NodeTabRow
<1>4. CASE Apply \/ Scale \/ Delete
  <2>1. PICK deps : deps = deployments'
    OBVIOUS
  <2>2. /\ deps \in Seq(Deployment)
        /\ \A c, d \in DOMAIN deps : deps[c].name = deps[d].name => c = d
    <3>1. \/ \E m \in Manifests :
                deps = IF RowOf(m.name) = {} THEN Append(deployments, m)
                       ELSE [d \in DOMAIN deployments |->
                                IF d \in RowOf(m.name) THEN m ELSE deployments[d]]
          \/ \E d \in DOMAIN deployments, r \in Replicas :
                deps = [deployments EXCEPT ![d].replicas = r]
          \/ \E d \in DOMAIN deployments : deps = RemoveAt(deployments, d)
      BY <1>4, <2>1 DEF Apply, Scale, Delete
    <3> QED
      BY <1>2, <3>1, DeploymentsEdited
  <2>3. DeploymentsOK'
    BY <2>1, <2>2 DEF DeploymentsOK
  <2>4. UNCHANGED <<nodes, pods, machines, late>>
    BY <1>4 DEF Apply, Scale, Delete
  <2>5. NodesTabOK(nodes)' /\ PodsTabOK(pods, DOMAIN nodes)'
    BY <1>2, <2>4 DEF NodesTabOK, PodsTabOK
  <2>6. MachinesOK' /\ LateOK'
    BY <1>1, <2>4, MachinesUntouched DEF LateOK
  <2> QED
    BY <2>3, <2>4, <2>5, <2>6, PodsUntouched DEF StepOK, ClusterInv, WorkbookOK
<1>5. CASE Cordon \/ Uncordon \/ Drain
  <2>0. {} \in SUBSET Node /\ \A n \in DOMAIN nodes : {n} \in SUBSET Node
    BY <1>3
  <2>1. PICK n \in DOMAIN nodes, b \in BOOLEAN, exclude \in SUBSET Node :
            Reschedule([nodes EXCEPT ![n].schedulable = b], exclude)
    BY <1>5, <2>0 DEF Cordon, Uncordon, Drain
  <2>2. {} \in SUBSET Labels /\ {} \in SUBSET Taints
    OBVIOUS
  <2>3. PICK tab : tab = [nodes EXCEPT ![n].schedulable = b]
    OBVIOUS
  <2>4. NodesTabOK(tab)
    BY <1>2, <2>2, <2>3, NodeFields
  <2>5. Reschedule(tab, exclude)
    BY <2>1, <2>3
  <2>6. UNCHANGED <<deployments, machines, late>>
    BY <1>5 DEF Cordon, Uncordon, Drain
  <2> QED
    BY <2>4, <2>5, <2>6, RescheduleStep
<1>6. CASE LabelNode
  <2>1. PICK n \in DOMAIN nodes, l \in Labels :
            \/ Reschedule([nodes EXCEPT ![n].labels =
                   {x \in nodes[n].labels : x[1] # l[1]} \cup {l}], {})
            \/ Reschedule([nodes EXCEPT ![n].labels = {x \in nodes[n].labels : x[1] # l[1]}], {})
    BY <1>6 DEF LabelNode
  <2>2. PICK ls \in SUBSET Labels : Reschedule([nodes EXCEPT ![n].labels = ls], {})
    BY <1>3, <2>1
  <2>3. {} \in SUBSET Node /\ {} \in SUBSET Taints /\ TRUE \in BOOLEAN
    OBVIOUS
  <2>4. PICK tab : tab = [nodes EXCEPT ![n].labels = ls]
    OBVIOUS
  <2>5. NodesTabOK(tab)
    BY <1>2, <2>3, <2>4, NodeFields
  <2>6. Reschedule(tab, {})
    BY <2>2, <2>4
  <2>7. UNCHANGED <<deployments, machines, late>>
    BY <1>6 DEF LabelNode
  <2> QED
    BY <2>3, <2>5, <2>6, <2>7, RescheduleStep
<1>7. CASE TaintNode
  <2>1. PICK n \in DOMAIN nodes, t \in Taints :
            \/ Reschedule([nodes EXCEPT ![n].taints =
                   {x \in nodes[n].taints : x.key # t.key} \cup {t}], {})
            \/ Reschedule([nodes EXCEPT ![n].taints = {x \in nodes[n].taints : x.key # t.key}], {})
    BY <1>7 DEF TaintNode
  <2>2. PICK ts \in SUBSET Taints : Reschedule([nodes EXCEPT ![n].taints = ts], {})
    BY <1>3, <2>1
  <2>3. {} \in SUBSET Node /\ {} \in SUBSET Labels /\ TRUE \in BOOLEAN
    OBVIOUS
  <2>4. PICK tab : tab = [nodes EXCEPT ![n].taints = ts]
    OBVIOUS
  <2>5. NodesTabOK(tab)
    BY <1>2, <2>3, <2>4, NodeFields
  <2>6. Reschedule(tab, {})
    BY <2>2, <2>4
  <2>7. UNCHANGED <<deployments, machines, late>>
    BY <1>7 DEF TaintNode
  <2> QED
    BY <2>3, <2>5, <2>6, <2>7, RescheduleStep
<1>8. CASE Migrate
  <2>1. PICK p \in DOMAIN pods, target \in DOMAIN nodes :
            /\ nodes[target].fresh /\ nodes[target].schedulable
            /\ pods' = [pods EXCEPT ![p].node = target]
    BY <1>8 DEF Migrate
  <2>2. UNCHANGED <<deployments, nodes, machines, late>>
    BY <1>8 DEF Migrate
  <2>3. PICK row : row = [pods[p] EXCEPT !.node = target]
    OBVIOUS
  <2>4. row \in PodTabRow /\ row.node = target /\ row.phase = pods[p].phase
    <3>1. pods[p] \in PodTabRow /\ target \in Cell
      BY <1>2, <1>3 DEF PodsTabOK, Cell
    <3> QED
      BY <2>3, <3>1 DEF PodTabRow
  <2>5. /\ DOMAIN pods' = DOMAIN pods
        /\ \A q \in DOMAIN pods : pods'[q] = IF q = p THEN row ELSE pods[q]
    BY <1>2, <2>1, <2>3 DEF PodsTabOK
  <2>6. pods' \in [DOMAIN pods -> PodTabRow]
    <3>1. pods' = [pods EXCEPT ![p] = row]
      BY <2>1, <2>3
    <3> QED
      BY <1>2, <2>4, <3>1 DEF PodsTabOK
  <2>7. PodsTabOK(pods, DOMAIN nodes)'
    BY <1>2, <2>2, <2>4, <2>5, <2>6 DEF PodsTabOK
  <2>8. DeploymentsOK' /\ NodesTabOK(nodes)'
    BY <1>2, <2>2 DEF DeploymentsOK, NodesTabOK
  <2>9. Calm
    BY <2>4, <2>5 DEF Calm
  <2>10. MovesLegally
    BY <2>1, <2>2, <2>4, <2>5 DEF MovesLegally
  <2>11. MachinesOK' /\ LateOK'
    BY <1>1, <2>2, MachinesUntouched DEF LateOK
  <2> QED
    BY <2>7, <2>8, <2>9, <2>10, <2>11 DEF StepOK, ClusterInv, WorkbookOK
<1> QED
  BY <1>4, <1>5, <1>6, <1>7, <1>8 DEF Operator

\* Every step keeps the invariant, and does what NoFlapping and CordonedGainsNothing say.
LEMMA ClusterSteps ==
    ClusterInv /\ [Next]_vars => ClusterInv' /\ ((Calm /\ MovesLegally) \/ UNCHANGED vars)
<1>1. ClusterInv /\ Next => StepOK
  BY LoopSteps, TroubleSteps, LateSteps, OperatorSteps DEF Next
<1>2. ClusterInv /\ UNCHANGED vars => ClusterInv'
  <2>1. UNCHANGED vars => UNCHANGED <<workbook, machines, late>>
    BY DEF vars, workbook, machines
  <2> QED
    BY <2>1, WorkbookUntouched, MachinesUntouched DEF ClusterInv, LateOK
<1> QED
  BY <1>1, <1>2 DEF StepOK

\* The cluster before its first kubelet registers.
LEMMA InitialCluster == Init => ClusterInv
<1> SUFFICES ASSUME Init PROVE ClusterInv
  OBVIOUS
<1>1. /\ deployments = Initial /\ nodes = None /\ pods = None /\ late = {}
      /\ docker = [n \in Node |-> None] /\ kubelet = [n \in Node |-> Idle]
  BY DEF Init
<1>2. DOMAIN None = {} /\ None \in Engine /\ LoopOK(Idle) /\ Idle \in KubeletState
  <2>1. None \in Engine
    BY Engines
  <2>2. LoopOK(Idle)
    BY <2>1, IdleOK
  <2> QED
    BY <2>1, <2>2 DEF None, LoopOK
<1>3. DeploymentsOK
  BY <1>1, ClusterAssumption DEF DeploymentsOK
<1>4. NodesTabOK(nodes) /\ PodsTabOK(pods, DOMAIN nodes)
  <2>1. None \in [{} -> NodeTabRow] /\ None \in [{} -> PodTabRow]
    BY DEF None
  <2>2. IsFiniteSet({})
    BY FS_EmptySet
  <2> QED
    BY <1>1, <1>2, <2>1, <2>2 DEF NodesTabOK, PodsTabOK
<1>5. MachinesOK /\ LateOK
  BY <1>1, <1>2 DEF MachinesOK, LateOK
<1> QED
  BY <1>3, <1>4, <1>5 DEF ClusterInv, WorkbookOK

\* Whatever kubelets, operators, faults and late heartbeats do, in whatever order.
THEOREM ClusterInvariance == Spec => []ClusterInv
  BY InitialCluster, ClusterSteps, PTL DEF Spec

\* The invariant says all the type invariant says.
LEMMA InvariantTypes == ClusterInv => TypeOK
<1> SUFFICES ASSUME ClusterInv PROVE TypeOK
  OBVIOUS
<1>1. WorkbookOK /\ MachinesOK /\ LateOK
  BY DEF ClusterInv
<1>2. NodesTabOK(nodes) /\ PodsTabOK(pods, DOMAIN nodes)
  BY <1>1 DEF WorkbookOK
<1>3. ASSUME NEW n \in DOMAIN nodes
      PROVE  /\ nodes[n].fresh \in BOOLEAN /\ nodes[n].schedulable \in BOOLEAN
             /\ nodes[n].labels \subseteq Labels /\ nodes[n].taints \subseteq Taints
             /\ nodes[n].status \in {"Ready", "NotReady", "SchedulingDisabled"}
             /\ nodes[n].cpuUsed \in 0..Cpu[n]
             /\ \A m \in DOMAIN nodes \ {n} : nodes[m].row # nodes[n].row
  <2>1. nodes[n] \in NodeTabRow /\ nodes[n].cpuUsed <= Cpu[n] /\ n \in Node
    BY <1>2 DEF NodesTabOK
  <2>2. Cpu[n] \in Nat
    BY <2>1, ClusterAssumption
  <2>3. \A m \in DOMAIN nodes \ {n} : nodes[m].row # nodes[n].row
    BY <1>2 DEF NodesTabOK
  <2> QED
    BY <2>1, <2>2, <2>3 DEF NodeTabRow
<1>4. ASSUME NEW p \in DOMAIN pods
      PROVE  /\ pods[p].node \in DOMAIN nodes \cup {NoNode}
             /\ pods[p].phase \in {"Running", "Pending", "Unschedulable"}
             /\ pods[p].cid \in Node \cup {NoNode}
             /\ pods[p].ports \in Seq(Mapping)
             /\ pods[p].endpoints \subseteq Node \X Mapping
  <2>1. pods[p] \in PodTabRow /\ pods[p].node \in DOMAIN nodes \cup {NoNode}
    BY <1>2 DEF PodsTabOK
  <2> QED
    BY <2>1 DEF PodTabRow, Cell
<1>5. \A e \in Engine : IsEngine(e)
  BY Engines DEF IsEngine
<1>6. ASSUME NEW n \in Node
      PROVE  /\ IsEngine(docker[n]) /\ IsEngine(kubelet[n].seen)
             /\ kubelet[n].pc \in {"idle", "sent", "work", "down"}
             /\ \A k \in DOMAIN kubelet[n].run : kubelet[n].run[k].pod \in kubelet[n].names
             /\ kubelet[n].stop \subseteq kubelet[n].names
  <2>1. docker[n] \in Engine /\ LoopOK(kubelet[n])
    BY <1>1 DEF MachinesOK
  <2> QED
    BY <1>5, <2>1, LoopParts DEF LoopOK
<1>7. \A h \in late : h.node \in Node /\ IsEngine(h.seen)
  BY <1>1, <1>5 DEF LateOK
<1>8. DOMAIN nodes \subseteq Node /\ DOMAIN pods \subseteq Pod
  BY <1>2 DEF NodesTabOK, PodsTabOK
<1> QED
  BY <1>3, <1>4, <1>6, <1>7, <1>8 DEF TypeOK

\* Every tab, engine and kubelet always holds what its readers expect: no node is promised
\* more than it reported, no pod is assigned to an unregistered node, a response names
\* every pod it gives orders for.
THEOREM ClusterTypes == Spec => []TypeOK
  BY ClusterInvariance, InvariantTypes, PTL

\* For any fleet, workload and port range, docker can carry out every response together
\* with its stops, whatever was lost, late or restarted before it (node_orders, schedule).
THEOREM ResponsesAreStartable == Spec => []OrdersStartable
<1>1. ClusterInv => OrdersStartable
  BY DEF ClusterInv, MachinesOK, LoopOK, Startable, OrdersStartable
<1> QED
  BY <1>1, ClusterInvariance, PTL

\* A running pod that stays on its node is shown as anything else only by a report of its
\* own kubelet (pod_rows): not by another node's heartbeat, a late one of another node, a
\* cordon, a drain, a label, a taint or a migrate.
THEOREM NobodyElseFlaps == Spec => NoFlapping
<1>1. ClusterInv /\ [Next]_vars => [Calm]_vars
  BY ClusterSteps
<1> QED
  BY <1>1, ClusterInvariance, PTL DEF Spec, NoFlapping, Calm

\* Whatever is done to the cluster, a pod only ever moves to a node that is live and open
\* at that moment (the two loops of schedule, and the check of migrate).
THEOREM OnlyOpenNodesGain == Spec => CordonedGainsNothing
<1>1. ClusterInv /\ [Next]_vars => [MovesLegally]_vars
  BY ClusterSteps
<1> QED
  BY <1>1, ClusterInvariance, PTL DEF Spec, CordonedGainsNothing, MovesLegally
=============================================================================
