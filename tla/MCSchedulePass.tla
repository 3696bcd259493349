-------------------------- MODULE MCSchedulePass --------------------------
(***************************************************************************)
(* Inputs for TLC: two deployments (two replicas and one), two nodes in    *)
(* every combination of live, stale, cordoned, drained and tainted, and    *)
(* every Pods tab those replicas can have left behind, including the ones  *)
(* only a migrate or an edit of the deployment produces.                   *)
(***************************************************************************)
EXTENDS SchedulePass

CONSTANTS n1, n2

MCPorts == 1..3
AutoSpec(cont) == [host |-> AnyHost, cont |-> cont, proto |-> "tcp"]
FixedSpec(host, cont) == [host |-> host, cont |-> cont, proto |-> "tcp"]

SpecChoices == {<<>>, <<AutoSpec(80)>>, <<FixedSpec(2, 80)>>, <<AutoSpec(80), FixedSpec(3, 81)>>}

Dep(name, replicas, cpu, specs, tolerations) ==
    [name |-> name, replicas |-> replicas, cpu |-> cpu, mem |-> 1, specs |-> specs,
     selector |-> {<<"disk", "ssd">>}, tolerations |-> tolerations]

Deployments ==
    {<<Dep("a", 2, 1, sa, {}), Dep("b", 1, cb, sb, {<<"gpu">>})>> :
        sa \in SpecChoices, sb \in SpecChoices, cb \in {1, 2}}

OldPorts == {<<>>, <<[host |-> 1, cont |-> 80, proto |-> "tcp"]>>,
                   <<[host |-> 2, cont |-> 80, proto |-> "tcp"]>>}
PodRows == [node : {n1}, ports : OldPorts] \cup [node : {n2}, ports : OldPorts \ {<<>>}]
           \cup {[node |-> NoNode, ports |-> <<>>]}
Pods == {<<"a", 1>>, <<"a", 2>>, <<"b", 1>>}

NodeTaints == {[key |-> "gpu", value |-> "true", effect |-> "NoSchedule"]}
NodeIn(row, cpu, mem, fresh, schedulable, taints) ==
    [row |-> row, cpu |-> cpu, mem |-> mem, fresh |-> fresh, schedulable |-> schedulable,
     labels |-> {<<"disk", "ssd">>, <<"zone", "x">>}, taints |-> taints]

\* Ready, cordoned, tainted or stale; a drained node is a cordoned one that is excluded.
Fleets ==
    {[nodes |-> (n1 :> a @@ n2 :> NodeIn(2, 2, 2, TRUE, TRUE, {})), exclude |-> x] :
        a \in {NodeIn(1, 3, 2, TRUE, TRUE, {}), NodeIn(1, 2, 2, TRUE, TRUE, NodeTaints),
               NodeIn(1, 2, 2, FALSE, TRUE, {})},
        x \in {{}}}
    \cup {[nodes |-> (n1 :> NodeIn(1, 2, 2, TRUE, FALSE, {}) @@ n2 :> NodeIn(2, 2, 2, TRUE, TRUE, {})),
           exclude |-> x] : x \in {{}, {n1}}}

MCInputs ==
    {PassInput(d, e, f.nodes, f.exclude) : d \in Deployments, e \in [Pods -> PodRows], f \in Fleets}
=============================================================================
