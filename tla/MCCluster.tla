----------------------------- MODULE MCCluster -----------------------------
(***************************************************************************)
(* Two nodes and two deployments of one replica, both publishing a port of *)
(* a two-port range; b is the bigger one, so the two share a node or not   *)
(* depending on what the operator asks for.                                *)
(***************************************************************************)
EXTENDS Cluster

CONSTANTS n1, n2

MCPorts == 1..2
Spec80 == [host |-> AnyHost, cont |-> 80, proto |-> "tcp"]
Fixed80 == [host |-> 1, cont |-> 80, proto |-> "tcp"]

Dep(name, image, replicas, cpu, specs) ==
    [name |-> name, image |-> image, replicas |-> replicas, cpu |-> cpu, mem |-> 1,
     specs |-> specs, selector |-> {}, tolerations |-> {}]

MCCpu == n1 :> 3 @@ n2 :> 2
MCMem == n1 :> 2 @@ n2 :> 2
OneDep == <<Dep("a", "v1", 1, 1, <<Spec80>>)>>
TwoDeps == <<Dep("a", "v1", 1, 1, <<>>), Dep("b", "v1", 1, 2, <<Spec80>>)>>
\* A new image for a, which now publishes a port; a b that asks for port 1; a b that
\* selects a label.
MCManifests ==
    {Dep("a", "v2", 1, 1, <<Spec80>>), Dep("b", "v1", 1, 1, <<Fixed80>>),
     [Dep("b", "v1", 1, 2, <<Spec80>>) EXCEPT !.selector = {<<"disk", "ssd">>}]}
MCTaints == {[key |-> "gpu", value |-> "true", effect |-> "NoSchedule"]}
Commands == {"apply", "scale", "delete", "cordon", "uncordon", "drain", "migrate", "label", "taint"}
Faults == {"slow", "heartbeat", "start", "exit", "kubelet", "node"}
\* Any two commands or faults, in any order; and one lost heartbeat.
TwoEvents == [k \in Commands \cup Faults |-> 2]
OneLostHeartbeat == [k \in {"heartbeat"} |-> 1]
MCLabels == {<<"disk", "ssd">>}
=============================================================================
