-------------------------------- MODULE Mesh --------------------------------
(***************************************************************************)
(* Sheetmesh (sheetmesh.py): clusters that share nothing but a Mesh sheet. *)
(* Each has an agent that appends its free cpu to the Members tab and      *)
(* applies to its own cluster what the Assignments tab addresses to it;    *)
(* planners read the Members tab and rewrite the Assignments tab.  Every   *)
(* call to the Sheets API or to an apiserver is a step of its own.         *)
(*                                                                         *)
(* A cluster is one node and a Deployments tab; which of its replicas its  *)
(* scheduler has placed shows in the cpu_used of its Nodes tab.            *)
(***************************************************************************)
EXTENDS Integers, FiniteSets, Functions

CONSTANTS
    Member,         \* clusters
    Owned,          \* the clusters the provisioner brings up
    Deploy,         \* deployments
    Cpu,            \* cpu of one replica, by deployment
    Capacity,       \* cpu of a cluster's node
    Local,          \* replicas, by deployment, of the other clusters before the mesh
    Before,         \* members by name: <<m, n>> when m sorts before n
    Sizes,          \* bound: the replicas a stretch may ask for
    Window,         \* rows of the Members tab that are read (5000 cells less the header)
    MaxStretches,   \* bound: stretch commands
    MaxTroubles     \* bound: failures, cordons, restarts, silences

ASSUME MeshAssumption == /\ IsFiniteSet(Member) /\ IsFiniteSet(Deploy) /\ Deploy # {}
                         /\ Owned \subseteq Member
                         /\ Cpu \in [Deploy -> Nat \ {0}] /\ Capacity \in [Member -> Nat]
                         /\ Local \in [Deploy -> Nat]
                         /\ Sizes \subseteq Nat /\ MaxStretches \in Nat
                         /\ Window \in Nat /\ MaxTroubles \in Nat

\* The cpu that a column of replicas asks for.
Load(column) == SumFunctionOnSet([d \in Deploy |-> column[d] * Cpu[d]], Deploy)

\* What a cluster ran before the mesh was there, it had room for.
ASSUME LocalAssumption == \A m \in Member \ Owned : Load(Local) <= Capacity[m]

VARIABLES
    deps,           \* per cluster, the replicas column of its Deployments tab; 0: no row
    used,           \* per cluster, the cpu_used cell of its node
    open,           \* per cluster, its node is Ready and schedulable
    newest,         \* per cluster, its newest row in Members that a reader sees
    rows,           \* length of the Members tab, up to Window
    assignments,    \* the Assignments tab: <<deployment, member>> -> replicas
    agent,          \* per cluster, the loop of its agent and what it has read
    up, running,    \* the provisioner runs; the clusters it knows it has brought up
    planner,        \* the stretch commands, in the order they begin
    calm,           \* history: every stretch began on a settled mesh
    stretches, troubles

Planner == 1..MaxStretches
clusters == <<deps, used, open>>
provisioner == <<up, running>>
vars == <<clusters, newest, rows, assignments, agent, provisioner, planner, calm, stretches,
          troubles>>

NoRows == [r \in {} |-> 0]
Idle == [pc |-> "idle", deploy |-> CHOOSE d \in Deploy : TRUE, plan |-> NoRows, others |-> NoRows]
Resting == [pc |-> "publish", free |-> 0, mine |-> NoRows]
Of(m, tab) == {r \in DOMAIN tab : r[2] = m}
Rows(keys, tab) == [r \in keys |-> tab[r]]

Init ==
    /\ deps = [m \in Member |-> [d \in Deploy |-> IF m \in Owned THEN 0 ELSE Local[d]]]
    /\ used = [m \in Member |-> 0]
    /\ open = [m \in Member |-> TRUE]
    /\ newest = [m \in Member |-> [free |-> 0, fresh |-> FALSE]]
    /\ rows = 0
    /\ assignments = NoRows
    /\ agent = [m \in Member |-> Resting]
    /\ up = TRUE
    /\ running = {}
    /\ planner = [p \in Planner |-> Idle]
    /\ calm = TRUE
    /\ stretches = 0
    /\ troubles = 0

-----------------------------------------------------------------------------
(* The clusters.                                                               *)

Demand(m) == Load(deps[m])

Trouble == troubles < MaxTroubles /\ troubles' = troubles + 1

\* A heartbeat of the cluster's kubelet: its scheduler places what fits.
Reconcile(m) ==
    /\ \E u \in 0..Capacity[m] :
        /\ IF Demand(m) <= Capacity[m] THEN u = Demand(m)
           ELSE \E d \in Deploy : deps[m][d] > 0 /\ u + Cpu[d] > Capacity[m]
        /\ u # used[m]
        /\ used' = [used EXCEPT ![m] = u]
    /\ UNCHANGED <<deps, open, newest, rows, assignments, agent, provisioner, planner, calm,
                   stretches, troubles>>

\* The operator of a cluster cordons its node, or opens it again.
Cordon(m) ==
    /\ Trouble
    /\ open' = [open EXCEPT ![m] = ~open[m]]
    /\ UNCHANGED <<deps, used, newest, rows, assignments, agent, provisioner, planner, calm,
                   stretches>>

\* A plausible slip: the cpu of the node, whatever runs on it.
FreeCpuTotal(m) == IF open[m] THEN Capacity[m] ELSE 0

FreeCpu(m) == IF open[m] THEN Capacity[m] - used[m] ELSE 0

-----------------------------------------------------------------------------
(* Agents.                                                                     *)

Served(m) == m \in Owned => m \in running

\* Read the cluster's Nodes ...
Inspect(m) ==
    /\ Served(m) /\ agent[m].pc = "publish"
    /\ agent' = [agent EXCEPT ![m].pc = "append", ![m].free = FreeCpu(m)]
    /\ UNCHANGED <<clusters, newest, rows, assignments, provisioner, planner, calm, stretches,
                   troubles>>

\* ... and append a row to Members.  Readers see no more than the first Window rows of the tab.
Publish(m) ==
    /\ agent[m].pc = "append"
    /\ IF rows < Window
       THEN /\ rows' = rows + 1
            /\ newest' = [newest EXCEPT ![m] = [free |-> agent[m].free, fresh |-> TRUE]]
       ELSE UNCHANGED <<rows, newest>>
    /\ agent' = [agent EXCEPT ![m].pc = "read", ![m].free = 0]
    /\ UNCHANGED <<clusters, assignments, provisioner, planner, calm, stretches, troubles>>

\* Read the assignments addressed to this member; with none there is nothing to apply.
ReadAssignments(m) ==
    LET mine == Rows(Of(m, assignments), assignments)
    IN  /\ agent[m].pc = "read"
        /\ agent' = [agent EXCEPT ![m] = IF mine = NoRows THEN Resting
                                         ELSE [Resting EXCEPT !.pc = "apply", !.mine = mine]]
        /\ UNCHANGED <<clusters, newest, rows, assignments, provisioner, planner, calm,
                       stretches, troubles>>

\* A plausible slip: a deployment the cluster has already is left alone.
UpsertNew(tab, m, mine) ==
    [d \in Deploy |-> IF <<d, m>> \in DOMAIN mine /\ tab[d] = 0 THEN mine[<<d, m>>] ELSE tab[d]]

\* The apiserver's upsert: rows the request does not name stay as they are.
Upsert(tab, m, mine) ==
    [d \in Deploy |-> IF <<d, m>> \in DOMAIN mine THEN mine[<<d, m>>] ELSE tab[d]]

ApplyMine(m) ==
    /\ agent[m].pc = "apply"
    /\ deps' = [deps EXCEPT ![m] = Upsert(deps[m], m, agent[m].mine)]
    /\ agent' = [agent EXCEPT ![m] = Resting]
    /\ UNCHANGED <<used, open, newest, rows, assignments, provisioner, planner, calm,
                   stretches, troubles>>

\* A call of the provisioner's round for a cluster fails: it goes on to the next round.
RoundFails(m) ==
    /\ m \in Owned /\ agent[m] # Resting /\ Trouble
    /\ agent' = [agent EXCEPT ![m] = Resting]
    /\ UNCHANGED <<clusters, newest, rows, assignments, provisioner, planner, calm, stretches>>

\* A call of any other agent fails: nothing catches it and the process ends.
AgentEnds(m) ==
    /\ m \notin Owned /\ agent[m].pc # "ended" /\ Trouble
    /\ agent' = [agent EXCEPT ![m] = [Resting EXCEPT !.pc = "ended"]]
    /\ UNCHANGED <<clusters, newest, rows, assignments, provisioner, planner, calm, stretches>>

\* Its operator may start it again.
AgentStarts(m) ==
    /\ agent[m].pc = "ended"
    /\ agent' = [agent EXCEPT ![m] = Resting]
    /\ UNCHANGED <<clusters, newest, rows, assignments, provisioner, planner, calm, stretches,
                   troubles>>

\* MEMBER_TTL passes without a row that readers see.
GoStale(m) ==
    /\ newest[m].fresh
    /\ Trouble
    /\ newest' = [newest EXCEPT ![m].fresh = FALSE]
    /\ UNCHANGED <<clusters, rows, assignments, agent, provisioner, planner, calm, stretches>>

-----------------------------------------------------------------------------
(* The provisioner.                                                            *)

\* Seed the cluster's workbook, whatever it held before, and start its apiserver.
BringUp(m) ==
    /\ up /\ m \in Owned \ running
    /\ running' = running \cup {m}
    /\ deps' = [deps EXCEPT ![m] = [d \in Deploy |-> 0]]
    /\ used' = [used EXCEPT ![m] = 0]
    /\ open' = [open EXCEPT ![m] = TRUE]
    /\ UNCHANGED <<up, newest, rows, assignments, agent, planner, calm, stretches, troubles>>

\* The provisioner dies, also of a failed call outside its rounds, and its rounds with it ...
ProvisionerEnds ==
    /\ up /\ Trouble
    /\ up' = FALSE
    /\ running' = {}
    /\ agent' = [m \in Member |-> IF m \in Owned THEN Resting ELSE agent[m]]
    /\ UNCHANGED <<clusters, newest, rows, assignments, planner, calm, stretches>>

\* ... and has forgotten everything when its operator starts it again.
ProvisionerStarts ==
    /\ ~up /\ up' = TRUE
    /\ UNCHANGED <<clusters, running, newest, rows, assignments, agent, planner, calm, stretches,
                   troubles>>

-----------------------------------------------------------------------------
(* Planners.                                                                   *)

\* The members a plan turns to before m: home, and those with more free cpu.
Earlier(m, fresh, home) ==
    {n \in fresh \ {m} : m # home /\ \/ n = home
                                     \/ newest[n].free > newest[m].free
                                     \/ newest[n].free = newest[m].free /\ <<n, m>> \in Before}

FitsOn(m, d) == newest[m].free \div Cpu[d]

\* plan_stretch: each member in turn takes what fits of what is left.
Plan(d, replicas, home) ==
    LET fresh == {m \in Member : newest[m].fresh}
        fits == [m \in Member |-> FitsOn(m, d)]
        left(m) == replicas - SumFunctionOnSet(fits, Earlier(m, fresh, home))
        share(m) == IF left(m) < fits[m] THEN left(m) ELSE fits[m]
    IN  [r \in {<<d, m>> : m \in {x \in fresh : share(x) > 0}} |-> share(r[2])]

\* What a planner would have to wait for, and does not: nothing is on its way between the
\* Assignments tab, the clusters and the Members tab.
Settled ==
    /\ \A p \in Planner : planner[p].pc = "idle"
    /\ \A r \in DOMAIN assignments : deps[r[2]][r[1]] = assignments[r]
    /\ \A m \in Member : /\ agent[m].mine = NoRows
                         /\ used[m] = Demand(m)
                         /\ newest[m].fresh => newest[m].free = FreeCpu(m)

\* Read the Members tab and make the plan.
ReadMembers(p) ==
    /\ p = stretches + 1 /\ stretches' = p
    /\ \E d \in Deploy, replicas \in Sizes, home \in Member :
        planner' = [planner EXCEPT ![p] = [Idle EXCEPT !.pc = "others", !.deploy = d,
                                                       !.plan = Plan(d, replicas, home)]]
    /\ calm' = (calm /\ Settled)
    /\ UNCHANGED <<clusters, newest, rows, assignments, agent, provisioner, troubles>>

\* A plausible slip: the old shares of the deployment are written back too.
ReadAllRows(p) ==
    /\ planner[p].pc = "others"
    /\ planner' = [planner EXCEPT ![p].pc = "clear", ![p].others = assignments]
    /\ UNCHANGED <<clusters, newest, rows, assignments, agent, provisioner, calm, stretches,
                   troubles>>

\* Read the rows of all other deployments, which are going to be written back.
ReadOthers(p) ==
    /\ planner[p].pc = "others"
    /\ planner' = [planner EXCEPT ![p].pc = "clear",
           ![p].others = Rows({r \in DOMAIN assignments : r[1] # planner[p].deploy}, assignments)]
    /\ UNCHANGED <<clusters, newest, rows, assignments, agent, provisioner, calm, stretches,
                   troubles>>

Clear(p) ==
    /\ planner[p].pc = "clear"
    /\ assignments' = NoRows
    /\ planner' = [planner EXCEPT ![p].pc = "update"]
    /\ UNCHANGED <<clusters, newest, rows, agent, provisioner, calm, stretches, troubles>>

Update(p) ==
    LET all == DOMAIN planner[p].others \cup DOMAIN planner[p].plan
    IN  /\ planner[p].pc = "update"
        /\ assignments' = [r \in all |-> IF r \in DOMAIN planner[p].plan THEN planner[p].plan[r]
                                                                        ELSE planner[p].others[r]]
        /\ planner' = [planner EXCEPT ![p] = Idle]
        /\ UNCHANGED <<clusters, newest, rows, agent, provisioner, calm, stretches, troubles>>

\* The command fails or is killed; what it has cleared stays cleared.
PlannerFails(p) ==
    /\ planner[p].pc # "idle"
    /\ Trouble
    /\ planner' = [planner EXCEPT ![p] = Idle]
    /\ UNCHANGED <<clusters, newest, rows, assignments, agent, provisioner, calm, stretches>>

Agent(m) == Inspect(m) \/ Publish(m) \/ ReadAssignments(m) \/ ApplyMine(m)
Stretch(p) == ReadOthers(p) \/ Clear(p) \/ Update(p)

Next == \/ \E m \in Member : \/ Agent(m) \/ Reconcile(m) \/ Cordon(m) \/ GoStale(m)
                             \/ RoundFails(m) \/ AgentEnds(m) \/ AgentStarts(m) \/ BringUp(m)
        \/ ProvisionerEnds \/ ProvisionerStarts
        \/ \E p \in Planner : ReadMembers(p) \/ Stretch(p) \/ PlannerFails(p)

Spec == Init /\ [][Next]_vars

\* Agents and a provisioner that runs loop on, a command that has begun goes on; nobody owes
\* it to an agent or a provisioner that has ended to start it again.
FairSpec == /\ Spec
            /\ \A m \in Member : WF_vars(Agent(m)) /\ WF_vars(BringUp(m))
            /\ \A p \in Planner : WF_vars(Stretch(p))

-----------------------------------------------------------------------------
(* Properties.                                                                 *)

TableOK(tab) == /\ DOMAIN tab \subseteq Deploy \X Member
                /\ \A r \in DOMAIN tab : tab[r] \in Nat \ {0}

\* Tabs and commands are well-formed; no command or round leaves anything to the next, and
\* a plan concerns the deployment it was made for alone.
TypeOK ==
    /\ \A m \in Member : \A d \in Deploy : deps[m][d] \in Nat
    /\ \A m \in Member : {used[m], newest[m].free, agent[m].free} \subseteq 0..Capacity[m]
    /\ TableOK(assignments) /\ running \subseteq Owned /\ (running # {} => up)
    /\ \A m \in Member : /\ TableOK(agent[m].mine)
                         /\ agent[m].pc = "apply" <=> agent[m].mine # NoRows
    /\ \A p \in Planner : /\ planner[p].pc = "idle" => planner[p] = Idle
                          /\ TableOK(planner[p].plan) /\ TableOK(planner[p].others)
                          /\ \A r \in DOMAIN planner[p].plan : r[1] = planner[p].deploy
                          /\ \A r \in DOMAIN planner[p].others : r[1] # planner[p].deploy

\* As long as stretches begin on a settled mesh, no cluster is ever asked to run more than
\* its node holds: not even when one deployment is stretched again and again, moving
\* between members that keep the replicas they are no longer assigned, nor with agents
\* that apply late, rows that go stale or a cluster that is seeded anew meanwhile.
NoOvercommit == calm => \A m \in Member : Demand(m) <= Capacity[m]

\* Whoever applies the shares of m still runs.
Attended(m) == IF m \in Owned THEN up ELSE agent[m].pc # "ended"

\* Once the commands and troubles are over, whatever overlapped or failed, every cluster
\* whose agent or provisioner still runs, or was started again, comes to run for good the
\* share the Assignments tab gives it.
SplitReached == <>[](\A r \in DOMAIN assignments :
    Attended(r[2]) => deps[r[2]][r[1]] = assignments[r])
=============================================================================
