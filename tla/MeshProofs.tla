----------------------------- MODULE MeshProofs -----------------------------
(***************************************************************************)
(* Proofs about module Mesh for any members, deployments, capacities and   *)
(* number of stretches and troubles: the type invariant, and that          *)
(* stretches which begin on a settled mesh overcommit no cluster.          *)
(***************************************************************************)
EXTENDS Mesh, Recursion

Table == UNION {[K -> Nat \ {0}] : K \in SUBSET (Deploy \X Member)}
Resource == [free : Nat, fresh : BOOLEAN]
AgentState == [pc : {"publish", "append", "read", "apply", "ended"}, free : Nat, mine : Table]
PlannerState == [pc : {"idle", "others", "clear", "update"}, deploy : Deploy,
                 plan : Table, others : Table]

Clusters ==
    /\ deps \in [Member -> [Deploy -> Nat]]
    /\ used \in [Member -> Nat] /\ \A m \in Member : used[m] <= Capacity[m]
    /\ open \in [Member -> BOOLEAN]
    /\ newest \in [Member -> Resource] /\ \A m \in Member : newest[m].free <= Capacity[m]
Commands ==
    /\ assignments \in Table /\ running \in SUBSET Owned /\ up \in BOOLEAN /\ (running # {} => up)
    /\ agent \in [Member -> AgentState] /\ \A m \in Member : agent[m].free <= Capacity[m]
    /\ \A m \in Member : agent[m].pc = "apply" <=> agent[m].mine # NoRows
    /\ planner \in [Planner -> PlannerState]
    /\ \A p \in Planner : /\ planner[p].pc = "idle" => planner[p] = Idle
                          /\ \A r \in DOMAIN planner[p].plan : r[1] = planner[p].deploy
                          /\ \A r \in DOMAIN planner[p].others : r[1] # planner[p].deploy
    /\ calm \in BOOLEAN /\ stretches \in Nat
TInv == Clusters /\ Commands

\* No rows are a table, and so is a part of one.
LEMMA Tables ==
    /\ NoRows \in Table /\ DOMAIN NoRows = {}
    /\ \A tab \in Table : /\ DOMAIN tab \subseteq Deploy \X Member
                          /\ \A r \in DOMAIN tab : tab[r] \in Nat \ {0}
    /\ \A tab \in Table : \A keys : keys \subseteq DOMAIN tab => Rows(keys, tab) \in Table
    /\ Idle \in PlannerState /\ Resting \in AgentState
<1>1. NoRows \in [{} -> Nat \ {0}]
  BY DEF NoRows
<1>2. NoRows \in Table /\ DOMAIN NoRows = {}
  BY <1>1 DEF Table
<1>3. \A tab \in Table : \A keys : keys \subseteq DOMAIN tab => Rows(keys, tab) \in Table
  <2> SUFFICES ASSUME NEW tab \in Table, NEW keys, keys \subseteq DOMAIN tab
               PROVE  Rows(keys, tab) \in Table
    OBVIOUS
  <2>1. PICK K \in SUBSET (Deploy \X Member) : tab \in [K -> Nat \ {0}]
    BY DEF Table
  <2>2. Rows(keys, tab) \in [keys -> Nat \ {0}] /\ keys \in SUBSET (Deploy \X Member)
    BY <2>1 DEF Rows
  <2> QED
    BY <2>2 DEF Table
<1>4. \A tab \in Table : /\ DOMAIN tab \subseteq Deploy \X Member
                         /\ \A r \in DOMAIN tab : tab[r] \in Nat \ {0}
  BY DEF Table
<1>5. Idle \in PlannerState /\ Resting \in AgentState
  BY <1>2, MeshAssumption DEF Idle, Resting, PlannerState, AgentState
<1> QED
  BY <1>2, <1>3, <1>4, <1>5

\* An agent between two rounds holds nothing.
LEMMA AtRest ==
    ASSUME Clusters, NEW m \in Member
    PROVE  /\ Resting.pc = "publish" /\ Resting.free = 0 /\ Resting.mine = NoRows
           /\ 0 <= Capacity[m]
BY MeshAssumption DEF Resting

\* The load of a column of replicas is a number, and no smaller than that of a smaller one.
LEMMA Loads ==
    /\ \A f \in [Deploy -> Nat] : Load(f) \in Int
    /\ \A f, g \in [Deploy -> Nat] : (\A d \in Deploy : f[d] <= g[d]) => Load(f) <= Load(g)
    /\ \A f, g \in [Deploy -> Nat], d \in Deploy :
           (\A x \in Deploy \ {d} : f[x] = g[x]) => Load(g) = Load(f) + (g[d] - f[d]) * Cpu[d]
    /\ Load([d \in Deploy |-> 0]) = 0
<1> DEFINE CpuOf(f) == [d \in Deploy |-> f[d] * Cpu[d]]
<1>1. IsFiniteSet(Deploy) /\ \A d \in Deploy : Cpu[d] \in Nat \ {0}
  BY MeshAssumption
<1>2. \A f \in [Deploy -> Nat] : CpuOf(f) \in [Deploy -> Int]
  BY <1>1
<1>3. ASSUME NEW f \in [Deploy -> Nat] PROVE Load(f) \in Int
  BY <1>1, <1>2, SumType DEF Load
<1>4. ASSUME NEW f \in [Deploy -> Nat], NEW g \in [Deploy -> Nat], \A d \in Deploy : f[d] <= g[d]
      PROVE  Load(f) <= Load(g)
  <2>1. \A d \in Deploy : CpuOf(f)[d] <= CpuOf(g)[d]
    <3> TAKE d \in Deploy
    <3>1. f[d] \in Nat /\ g[d] \in Nat /\ f[d] <= g[d] /\ Cpu[d] \in Nat
      BY <1>1, <1>4
    <3>2. f[d] * Cpu[d] <= g[d] * Cpu[d]
      BY <3>1
    <3> QED
      BY <3>2
  <2>2. CpuOf(f) \in [Deploy -> Int] /\ CpuOf(g) \in [Deploy -> Int]
    BY <1>2
  <2> HIDE DEF CpuOf
  <2>3. SumFunctionOnSet(CpuOf(f), Deploy) <= SumFunctionOnSet(CpuOf(g), Deploy)
    BY <1>1, <2>1, <2>2, SumMonotone
  <2> QED
    BY <2>3 DEF Load, CpuOf
<1>5. ASSUME NEW f \in [Deploy -> Nat], NEW g \in [Deploy -> Nat], NEW d \in Deploy,
             \A x \in Deploy \ {d} : f[x] = g[x]
      PROVE  Load(g) = Load(f) + (g[d] - f[d]) * Cpu[d]
  <2>1. \A x \in Deploy \ {d} : CpuOf(f)[x] = CpuOf(g)[x]
    BY <1>5
  <2>2. CpuOf(f) \in [Deploy -> Int] /\ CpuOf(g) \in [Deploy -> Int]
    BY <1>2
  <2>3. CpuOf(g)[d] - CpuOf(f)[d] = (g[d] - f[d]) * Cpu[d]
    <3>1. f[d] \in Nat /\ g[d] \in Nat /\ Cpu[d] \in Nat
      BY <1>1
    <3>2. g[d] * Cpu[d] - f[d] * Cpu[d] = (g[d] - f[d]) * Cpu[d]
      BY <3>1
    <3> QED
      BY <3>2
  <2> HIDE DEF CpuOf
  <2>4. SumFunctionOnSet(CpuOf(g), Deploy)
          = SumFunctionOnSet(CpuOf(f), Deploy) + (CpuOf(g)[d] - CpuOf(f)[d])
    BY <1>1, <2>1, <2>2, SumChange
  <2> QED
    BY <2>3, <2>4 DEF Load, CpuOf
<1>6. Load([d \in Deploy |-> 0]) = 0
  <2> DEFINE zero == [d \in Deploy |-> 0]
             Q == {T \in SUBSET Deploy : SumFunctionOnSet(CpuOf(zero), T) = 0}
  <2>1. CpuOf(zero) \in [Deploy -> Int] /\ \A d \in Deploy : CpuOf(zero)[d] = 0
    BY <1>1
  <2> HIDE DEF CpuOf, zero
  <2>2. ASSUME NEW T \in SUBSET Deploy, \A U \in SUBSET T : U # T => U \in Q PROVE T \in Q
    <3>1. CASE T = {}
      BY <3>1, SumEmpty
    <3>2. CASE T # {}
      <4>1. PICK x \in T : TRUE
        BY <3>2
      <4> DEFINE U == T \ {x}
      <4>2. U \in Q /\ U \in SUBSET Deploy /\ x \in Deploy \ U /\ U \cup {x} = T /\ IsFiniteSet(U)
        BY <1>1, <2>2, <4>1, FS_Subset
      <4> HIDE DEF U
      <4>3. SumFunctionOnSet(CpuOf(zero), T) = CpuOf(zero)[x] + SumFunctionOnSet(CpuOf(zero), U)
        BY <2>1, <4>2, SumInsert
      <4> QED
        BY <2>1, <4>2, <4>3
    <3> QED
      BY <3>1, <3>2
  <2> HIDE DEF Q
  <2>3. SUBSET Deploy \subseteq Q
    BY <1>1, <2>2, SetInduction
  <2> QED
    BY <2>3 DEF Q, Load, CpuOf, zero
<1> QED
  BY <1>3, <1>4, <1>5, <1>6

\* A plan gives no member more than fits into the free cpu it has published.
LEMMA PlanFits ==
    ASSUME Clusters, NEW d \in Deploy, NEW replicas \in Nat, NEW home \in Member
    PROVE  /\ Plan(d, replicas, home) \in Table
           /\ \A r \in DOMAIN Plan(d, replicas, home) :
                 /\ r[1] = d /\ newest[r[2]].fresh
                 /\ Plan(d, replicas, home)[r] * Cpu[d] <= newest[r[2]].free
<1> DEFINE fresh == {m \in Member : newest[m].fresh}
           fits == [m \in Member |-> FitsOn(m, d)]
           left(m) == replicas - SumFunctionOnSet(fits, Earlier(m, fresh, home))
           share(m) == IF left(m) < fits[m] THEN left(m) ELSE fits[m]
           keys == {<<d, m>> : m \in {x \in fresh : share(x) > 0}}
           plan == [r \in keys |-> share(r[2])]
<1>1. ASSUME NEW m \in Member
      PROVE  fits[m] \in Nat /\ fits[m] * Cpu[d] <= newest[m].free
  <2>1. newest[m].free \in Nat /\ Cpu[d] \in Nat \ {0}
    BY MeshAssumption DEF Clusters, Resource
  <2>2. \A a \in Nat, b \in Nat \ {0} : a \div b \in Nat /\ (a \div b) * b <= a
    BY Z3
  <2> QED
    BY <2>1, <2>2 DEF FitsOn
<1>2. ASSUME NEW m \in Member PROVE left(m) \in Int
  <2>1. fits \in [Member -> Int]
    BY <1>1
  <2>2. Earlier(m, fresh, home) \in SUBSET Member /\ IsFiniteSet(Earlier(m, fresh, home))
    BY MeshAssumption, FS_Subset DEF Earlier
  <2> HIDE DEF fits, fresh
  <2> QED
    BY <2>1, <2>2, SumType
<1>3. ASSUME NEW m \in Member, share(m) > 0
      PROVE  share(m) \in Nat \ {0} /\ share(m) * Cpu[d] <= newest[m].free
  <2>1. share(m) \in Nat \ {0} /\ share(m) <= fits[m]
    BY <1>1, <1>2, <1>3
  <2>2. Cpu[d] \in Nat /\ newest[m].free \in Nat
    BY MeshAssumption DEF Clusters, Resource
  <2> HIDE DEF share, fits
  <2>3. share(m) * Cpu[d] <= fits[m] * Cpu[d]
    BY <1>1, <2>1, <2>2
  <2> QED
    BY <1>1, <2>1, <2>2, <2>3
<1>4. Plan(d, replicas, home) = plan
  BY DEF Plan
<1> HIDE DEF share, left, fits
<1>5. plan \in [keys -> Nat \ {0}] /\ keys \in SUBSET (Deploy \X Member)
  BY <1>3
<1>6. plan \in Table
  BY <1>5 DEF Table
<1> QED
  BY <1>3, <1>4, <1>6

\* Every step of the agents, the stretches, the provisioner and the hubs leaves the tabs,
\* the clusters and the calls in progress well-formed.
LEMMA TypesPreserved == TInv /\ [Next]_vars => TInv'
<1> SUFFICES ASSUME TInv, [Next]_vars PROVE TInv'
  OBVIOUS
<1> USE MeshAssumption, Tables
<1> USE DEF TInv
\* What a step may do to one agent.
<1>0. ASSUME NEW m \in Member, NEW new \in AgentState, agent' = [agent EXCEPT ![m] = new],
             new.free <= Capacity[m], new.pc = "apply" <=> new.mine # NoRows,
             UNCHANGED <<assignments, up, running, planner, calm, stretches>>
      PROVE  Commands'
  <2>1. \A n \in Member : agent'[n] = IF n = m THEN new ELSE agent[n]
    BY <1>0 DEF Commands
  <2> QED
    BY <1>0, <2>1 DEF Commands
<1>1. ASSUME NEW m \in Member, Inspect(m) \/ Publish(m) PROVE TInv'
  <2>1. FreeCpu(m) \in Nat /\ FreeCpu(m) <= Capacity[m]
    BY DEF FreeCpu, Clusters
  <2>2. Clusters'
    <3>1. CASE newest' = newest
      BY <1>1, <3>1 DEF Inspect, Publish, Clusters, clusters
    <3>2. CASE newest' = [newest EXCEPT ![m] = [free |-> agent[m].free, fresh |-> TRUE]]
      <4>1. [free |-> agent[m].free, fresh |-> TRUE] \in Resource
        BY DEF Resource, Commands, AgentState
      <4>2. newest' \in [Member -> Resource]
        BY <3>2, <4>1 DEF Clusters
      <4>3. \A n \in Member : newest'[n].free <= Capacity[n]
        BY <3>2 DEF Clusters, Commands
      <4> QED
        BY <1>1, <4>2, <4>3 DEF Inspect, Publish, Clusters, clusters
    <3> QED
      BY <1>1, <3>1, <3>2 DEF Inspect, Publish
  <2>3. UNCHANGED <<assignments, up, running, planner, calm, stretches>> /\ agent[m].pc # "apply"
    BY <1>1 DEF Inspect, Publish, provisioner
  <2>4. CASE Inspect(m)
    <3> DEFINE new == [agent[m] EXCEPT !.pc = "append", !.free = FreeCpu(m)]
    <3>1. /\ new \in AgentState /\ new.pc = "append" /\ new.mine = agent[m].mine
          /\ new.free = FreeCpu(m) /\ agent' = [agent EXCEPT ![m] = new]
      BY <2>1, <2>4 DEF Inspect, Commands, AgentState
    <3> HIDE DEF new
    <3> QED
      BY <1>0, <2>1, <2>2, <2>3, <3>1 DEF Commands
  <2>5. CASE Publish(m)
    <3> DEFINE new == [agent[m] EXCEPT !.pc = "read", !.free = 0]
    <3>1. /\ new \in AgentState /\ new.pc = "read" /\ new.mine = agent[m].mine
          /\ new.free = 0 /\ agent' = [agent EXCEPT ![m] = new]
      BY <2>5 DEF Publish, Commands, AgentState
    <3> HIDE DEF new
    <3> QED
      BY <1>0, <2>2, <2>3, <3>1 DEF Commands
  <2> QED
    BY <1>1, <2>4, <2>5
<1>2. ASSUME NEW m \in Member, ReadAssignments(m) PROVE TInv'
  <2>1. Rows(Of(m, assignments), assignments) \in Table
    BY DEF Of, Commands
  <2> DEFINE mine == Rows(Of(m, assignments), assignments)
             order == [Resting EXCEPT !.pc = "apply", !.mine = mine]
  <2>2. /\ order \in AgentState /\ order.pc = "apply" /\ order.mine = mine /\ order.free = 0
    BY <2>1 DEF Resting, AgentState
  <2>3. /\ agent' = [agent EXCEPT ![m] = IF mine = NoRows THEN Resting ELSE order]
        /\ UNCHANGED <<assignments, up, running, planner, calm, stretches>>
    BY <1>2 DEF ReadAssignments, provisioner
  <2> HIDE DEF order
  <2>4. CASE mine = NoRows
    <3>1. /\ Resting \in AgentState /\ Resting.free <= Capacity[m]
          /\ (Resting.pc = "apply" <=> Resting.mine # NoRows)
      BY AtRest
    <3>2. agent' = [agent EXCEPT ![m] = Resting]
      BY <2>3, <2>4
    <3>3. Commands'
      BY <1>0, <2>3, <3>1, <3>2
    <3> QED
      BY <1>2, <3>3 DEF ReadAssignments, Clusters, clusters
  <2>5. CASE mine # NoRows
    <3>1. order \in AgentState /\ order.free <= Capacity[m]
          /\ (order.pc = "apply" <=> order.mine # NoRows)
      BY <2>2, <2>5
    <3>2. agent' = [agent EXCEPT ![m] = order]
      BY <2>3, <2>5
    <3>3. Commands'
      BY <1>0, <2>3, <3>1, <3>2
    <3> QED
      BY <1>2, <3>3 DEF ReadAssignments, Clusters, clusters
  <2> QED
    BY <2>4, <2>5
<1>3. ASSUME NEW m \in Member, ApplyMine(m) PROVE TInv'
  <2>1. agent[m].mine \in Table /\ deps[m] \in [Deploy -> Nat]
    BY DEF Clusters, Commands, AgentState
  <2>2. Upsert(deps[m], m, agent[m].mine) \in [Deploy -> Nat]
    BY <2>1 DEF Upsert
  <2>3. Clusters'
    BY <1>3, <2>2 DEF ApplyMine, Clusters
  <2>4. Commands'
    <3>1. Resting.free <= Capacity[m] /\ (Resting.pc = "apply" <=> Resting.mine # NoRows)
      BY AtRest
    <3>2. /\ agent' = [agent EXCEPT ![m] = Resting]
          /\ UNCHANGED <<assignments, up, running, planner, calm, stretches>>
      BY <1>3 DEF ApplyMine, provisioner
    <3> QED
      BY <1>0, <3>1, <3>2
  <2> QED
    BY <2>3, <2>4
<1>4. ASSUME NEW m \in Member, Reconcile(m) \/ Cordon(m) \/ GoStale(m) \/ BringUp(m) PROVE TInv'
  <2>1. Clusters'
    <3>1. CASE Reconcile(m)
      <4>1. PICK u \in 0..Capacity[m] : used' = [used EXCEPT ![m] = u]
        BY <3>1 DEF Reconcile
      <4>2. u \in Nat /\ u <= Capacity[m]
        OBVIOUS
      <4> QED
        BY <3>1, <4>1, <4>2 DEF Reconcile, Clusters
    <3>2. CASE Cordon(m)
      BY <3>2 DEF Cordon, Clusters
    <3>3. CASE GoStale(m)
      <4>1. /\ newest' \in [Member -> Resource]
            /\ \A n \in Member : newest'[n].free = newest[n].free
        BY <3>3 DEF GoStale, Clusters, Resource
      <4> QED
        BY <3>3, <4>1 DEF GoStale, Clusters, clusters
    <3>4. CASE BringUp(m)
      BY <3>4 DEF BringUp, Clusters
    <3> QED
      BY <1>4, <3>1, <3>2, <3>3, <3>4
  <2>2. Commands'
    BY <1>4 DEF Reconcile, Cordon, GoStale, BringUp, Commands, clusters, provisioner
  <2> QED
    BY <2>1, <2>2
<1>5. ASSUME NEW m \in Member, RoundFails(m) \/ AgentEnds(m) \/ AgentStarts(m) PROVE TInv'
  <2>1. Clusters'
    BY <1>5 DEF RoundFails, AgentEnds, AgentStarts, Clusters, clusters
  <2>2. UNCHANGED <<assignments, up, running, planner, calm, stretches>>
    BY <1>5 DEF RoundFails, AgentEnds, AgentStarts, provisioner
  <2> DEFINE ended == [Resting EXCEPT !.pc = "ended"]
  <2>3. ended \in AgentState /\ ended.pc = "ended" /\ ended.mine = NoRows /\ ended.free = 0
    BY DEF Resting, AgentState
  <2>4. agent' = [agent EXCEPT ![m] = Resting] \/ agent' = [agent EXCEPT ![m] = ended]
    BY <1>5 DEF RoundFails, AgentEnds, AgentStarts
  <2> HIDE DEF ended
  <2>5. Commands'
    BY <1>0, AtRest, <2>2, <2>3, <2>4
  <2> QED
    BY <2>1, <2>5
<1>6. CASE ProvisionerEnds \/ ProvisionerStarts
  <2>1. Clusters'
    BY <1>6 DEF ProvisionerEnds, ProvisionerStarts, Clusters, clusters
  <2>2. CASE ProvisionerEnds
    <3>1. \A m \in Member : agent'[m] \in {Resting, agent[m]}
      BY <2>2 DEF ProvisionerEnds
    <3>2. agent' \in [Member -> AgentState] /\ \A m \in Member :
              agent'[m].free <= Capacity[m] /\ (agent'[m].pc = "apply" <=> agent'[m].mine # NoRows)
      BY AtRest, <2>2, <3>1 DEF ProvisionerEnds, Commands
    <3> QED
      BY <2>1, <2>2, <3>2 DEF ProvisionerEnds, Commands
  <2>3. CASE ProvisionerStarts
    BY <2>1, <2>3 DEF ProvisionerStarts, Commands
  <2> QED
    BY <1>6, <2>2, <2>3
<1>7. ASSUME NEW p \in Planner, NEW new \in PlannerState,
             planner' = [planner EXCEPT ![p] = new],
             new.pc = "idle" => new = Idle,
             \A r \in DOMAIN new.plan : r[1] = new.deploy,
             \A r \in DOMAIN new.others : r[1] # new.deploy,
             UNCHANGED <<clusters, newest, agent, up, running>>,
             assignments' \in Table, calm' \in BOOLEAN, stretches' \in Nat
      PROVE  TInv'
  <2>1. Clusters'
    BY <1>7 DEF Clusters, clusters
  <2>2. \A q \in Planner : planner'[q] = IF q = p THEN new ELSE planner[q]
    BY <1>7 DEF Commands
  <2>3. Commands'
    BY <1>7, <2>2 DEF Commands
  <2> QED
    BY <2>1, <2>3
<1>8. ASSUME NEW p \in Planner
      PROVE  /\ planner[p] \in PlannerState
             /\ \A r \in DOMAIN planner[p].plan : r[1] = planner[p].deploy
             /\ \A r \in DOMAIN planner[p].others : r[1] # planner[p].deploy
             /\ assignments \in Table /\ calm \in BOOLEAN /\ stretches \in Nat
  BY DEF Commands
<1>9. ASSUME NEW p \in Planner, ReadMembers(p) PROVE TInv'
  <2>1. PICK d \in Deploy, replicas \in Sizes, home \in Member :
          planner' = [planner EXCEPT ![p] = [Idle EXCEPT !.pc = "others", !.deploy = d,
                                                         !.plan = Plan(d, replicas, home)]]
    BY <1>9 DEF ReadMembers
  <2> DEFINE plan == Plan(d, replicas, home)
             new == [Idle EXCEPT !.pc = "others", !.deploy = d, !.plan = plan]
  <2>2. plan \in Table /\ \A r \in DOMAIN plan : r[1] = d
    BY PlanFits
  <2> HIDE DEF plan
  <2>3. /\ new \in PlannerState /\ new.pc = "others" /\ new.deploy = d
        /\ new.plan = plan /\ new.others = NoRows
    BY <2>2 DEF Idle, PlannerState
  <2> HIDE DEF new
  <2>4. /\ UNCHANGED <<clusters, newest, agent, up, running>>
        /\ assignments' \in Table /\ calm' \in BOOLEAN /\ stretches' \in Nat
    BY <1>8, <1>9 DEF ReadMembers, Planner, provisioner
  <2>5. planner' = [planner EXCEPT ![p] = new]
    BY <2>1 DEF new, plan
  <2> QED
    BY <1>7, <2>2, <2>3, <2>4, <2>5
<1>10. ASSUME NEW p \in Planner, ReadOthers(p) PROVE TInv'
  <2> DEFINE others == Rows({r \in DOMAIN assignments : r[1] # planner[p].deploy}, assignments)
             new == [planner[p] EXCEPT !.pc = "clear", !.others = others]
  <2>1. others \in Table /\ \A r \in DOMAIN others : r[1] # planner[p].deploy
    <3>1. others \in Table
      BY <1>8
    <3> QED
      BY <3>1 DEF Rows
  <2> HIDE DEF others
  <2>2. /\ new \in PlannerState /\ new.pc = "clear" /\ new.deploy = planner[p].deploy
        /\ new.plan = planner[p].plan /\ new.others = others
    BY <1>8, <2>1 DEF PlannerState
  <2>3. /\ planner' = [planner EXCEPT ![p] = new]
        /\ UNCHANGED <<clusters, newest, assignments, agent, up, running, calm, stretches>>
    BY <1>10 DEF ReadOthers, others, provisioner
  <2> HIDE DEF new
  <2> QED
    BY <1>7, <1>8, <2>1, <2>2, <2>3
<1>11. ASSUME NEW p \in Planner, Clear(p) PROVE TInv'
  <2> DEFINE new == [planner[p] EXCEPT !.pc = "update"]
  <2>1. /\ new \in PlannerState /\ new.pc = "update" /\ new.deploy = planner[p].deploy
        /\ new.plan = planner[p].plan /\ new.others = planner[p].others
    BY <1>8 DEF PlannerState
  <2>2. /\ planner' = [planner EXCEPT ![p] = new] /\ assignments' = NoRows
        /\ UNCHANGED <<clusters, newest, agent, up, running, calm, stretches>>
    BY <1>11 DEF Clear, provisioner
  <2> HIDE DEF new
  <2> QED
    BY <1>7, <1>8, <2>1, <2>2
<1>12. Idle.pc = "idle" /\ Idle.plan = NoRows /\ Idle.others = NoRows
  BY DEF Idle
<1>13. ASSUME NEW p \in Planner, Update(p) PROVE TInv'
  <2> DEFINE plan == planner[p].plan
             others == planner[p].others
  <2>1. plan \in Table /\ others \in Table
    BY <1>8 DEF PlannerState
  <2> HIDE DEF plan, others
  <2>2. [r \in DOMAIN others \cup DOMAIN plan |->
            IF r \in DOMAIN plan THEN plan[r] ELSE others[r]]
        \in [DOMAIN others \cup DOMAIN plan -> Nat \ {0}]
    BY <2>1
  <2>3. assignments' \in Table
    BY <1>13, <2>1, <2>2 DEF Update, Table, plan, others
  <2>4. /\ planner' = [planner EXCEPT ![p] = Idle]
        /\ UNCHANGED <<clusters, newest, agent, up, running, calm, stretches>>
    BY <1>13 DEF Update, provisioner
  <2> QED
    BY <1>7, <1>8, <1>12, <2>3, <2>4
<1>14. ASSUME NEW p \in Planner, PlannerFails(p) PROVE TInv'
  BY <1>7, <1>8, <1>12, <1>14 DEF PlannerFails, provisioner
<1>15. CASE UNCHANGED vars
  BY <1>15 DEF vars, clusters, provisioner, Clusters, Commands
<1> QED
  BY <1>1, <1>2, <1>3, <1>4, <1>5, <1>6, <1>9, <1>10, <1>11, <1>13, <1>14, <1>15
  DEF Next, Agent, Stretch

\* In every reachable state they are well-formed.
THEOREM TypesHold == Spec => []TInv
<1>1. Init => TInv
  <2> SUFFICES ASSUME Init PROVE TInv
    OBVIOUS
  <2>1. Clusters
    BY MeshAssumption DEF Init, Clusters, Resource
  <2>2. Commands
    <3>1. /\ agent = [m \in Member |-> Resting] /\ planner = [p \in Planner |-> Idle]
          /\ assignments = NoRows /\ running = {} /\ up = TRUE /\ calm = TRUE /\ stretches = 0
      BY DEF Init
    <3>2. Idle.pc = "idle" /\ Idle.plan = NoRows /\ Idle.others = NoRows
      BY DEF Idle
    <3>3. \A m \in Member : agent[m].free <= Capacity[m] /\ agent[m].pc = "publish"
                             /\ agent[m].mine = NoRows
      BY <2>1, <3>1, AtRest
    <3> QED
      BY <3>1, <3>2, <3>3, Tables DEF Commands
  <2> QED
    BY <2>1, <2>2 DEF TInv
<1> QED
  BY <1>1, TypesPreserved, PTL DEF Spec

\* However calls overlap, fail or come late, tabs and commands stay well-formed.
THEOREM TypeCorrect == Spec => []TypeOK
<1>1. TInv => TypeOK
  BY Tables DEF TInv, Clusters, Commands, TypeOK, TableOK, AgentState, PlannerState, Resource
<1> QED
  BY <1>1, TypesHold, PTL

-----------------------------------------------------------------------------
(* What was promised.  Replicas are only ever copied: from a plan into the     *)
(* Assignments tab, from there into an agent's order or another planner's copy *)
(* of the tab, from the order into the Deployments tab, where they replace     *)
(* what was there.  So no cluster is ever asked for more than the largest      *)
(* number that is anywhere for a deployment; it is enough that these fit.      *)

Within(tab, P) == \A r \in DOMAIN tab : tab[r] <= P[r[2]][r[1]]
Bounds(P) ==
    /\ \A m \in Member : \A d \in Deploy : deps[m][d] <= P[m][d]
    /\ Within(assignments, P)
    /\ \A m \in Member : Within(agent[m].mine, P)
    /\ \A p \in Planner : Within(planner[p].plan, P) /\ Within(planner[p].others, P)
Promises == {P \in [Member -> [Deploy -> Nat]] : \A m \in Member : Load(P[m]) <= Capacity[m]}
Promised == calm => \E P \in Promises : Bounds(P)

\* Only a plan brings in new numbers: every other step keeps what the old ones were within.
LEMMA BoundsKept ==
    ASSUME TInv, NEW P \in [Member -> [Deploy -> Nat]], Bounds(P), [Next]_vars,
           \A p \in Planner : ~ReadMembers(p)
    PROVE  Bounds(P)'
<1> DEFINE Tabs == \A m \in Member : \A d \in Deploy : deps[m][d] <= P[m][d]
           Lists == Within(assignments, P)
           Orders == \A m \in Member : Within(agent[m].mine, P)
           Plans == \A p \in Planner : Within(planner[p].plan, P) /\ Within(planner[p].others, P)
<1>1. Tabs /\ Lists /\ Orders /\ Plans
  BY DEF Bounds
<1>2. Within(NoRows, P) /\ Idle.plan = NoRows /\ Idle.others = NoRows /\ Resting.mine = NoRows
  BY Tables DEF Within, Idle, Resting
<1>3. \A tab \in Table : \A keys :
          Within(tab, P) /\ keys \subseteq DOMAIN tab => Within(Rows(keys, tab), P)
  BY DEF Within, Rows
<1>4. Tabs'
  <2>1. CASE deps' = deps
    BY <1>1, <2>1
  <2>2. ASSUME NEW m \in Member, ApplyMine(m) PROVE Tabs'
    <3>1. \A d \in Deploy : Upsert(deps[m], m, agent[m].mine)[d] <= P[m][d]
      BY <1>1 DEF Upsert, Within
    <3> QED
      BY <1>1, <2>2, <3>1 DEF ApplyMine, TInv, Clusters
  <2>3. ASSUME NEW m \in Member, BringUp(m) PROVE Tabs'
    <3>1. \A n \in Member : \A d \in Deploy : deps'[n][d] = IF n = m THEN 0 ELSE deps[n][d]
      BY <2>3 DEF BringUp, TInv, Clusters
    <3>2. \A n \in Member : \A d \in Deploy : P[n][d] \in Nat
      OBVIOUS
    <3> QED
      BY <1>1, <3>1, <3>2
  <2> QED
    BY <2>1, <2>2, <2>3
    DEF Next, Agent, Stretch, Inspect, Publish, ReadAssignments, Reconcile, Cordon,
        RoundFails, AgentEnds, AgentStarts, GoStale,
        ProvisionerEnds, ProvisionerStarts, ReadOthers, Clear, Update, PlannerFails, clusters,
        vars
<1>5. Lists'
  <2>1. CASE assignments' = assignments
    BY <1>1, <2>1
  <2>2. CASE assignments' = NoRows
    BY <1>2, <2>2
  <2>3. ASSUME NEW p \in Planner, Update(p) PROVE Lists'
    BY <1>1, <2>3 DEF Update, Within
  <2> QED
    BY <2>1, <2>2, <2>3
    DEF Next, Agent, Stretch, Inspect, Publish, ReadAssignments, ApplyMine, Reconcile, Cordon,
        RoundFails, AgentEnds, AgentStarts,
        GoStale, BringUp, ProvisionerEnds, ProvisionerStarts, ReadOthers, Clear, PlannerFails,
        vars
<1>6. Orders'
  <2>1. CASE agent' = agent
    BY <1>1, <2>1
  <2>3. ASSUME NEW m \in Member, Inspect(m) \/ Publish(m) PROVE Orders'
    <3>1. \A n \in Member : agent'[n].mine = agent[n].mine
      BY <2>3 DEF Inspect, Publish, TInv, Commands, AgentState
    <3> QED
      BY <1>1, <3>1
  <2>4. ASSUME NEW m \in Member, ReadAssignments(m) PROVE Orders'
    <3>1. Within(Rows(Of(m, assignments), assignments), P)
      BY <1>1, <1>3 DEF Of, TInv, Commands
    <3> QED
      BY <1>1, <1>2, <2>4, <3>1 DEF ReadAssignments, TInv, Commands
  <2>5. ASSUME NEW m \in Member, ApplyMine(m) \/ RoundFails(m) \/ AgentEnds(m) \/ AgentStarts(m)
        PROVE Orders'
    BY <1>1, <1>2, <2>5 DEF ApplyMine, RoundFails, AgentEnds, AgentStarts, Resting, TInv, Commands
  <2>6. CASE ProvisionerEnds
    BY <1>1, <1>2, <2>6 DEF ProvisionerEnds
  <2>7. CASE ProvisionerStarts
    BY <2>1, <2>7 DEF ProvisionerStarts
  <2> QED
    BY <2>1, <2>3, <2>4, <2>5, <2>6, <2>7
    DEF Next, Agent, Stretch, Reconcile, Cordon, GoStale, BringUp, ReadOthers, Clear, Update,
        PlannerFails, vars
<1>7. Plans'
  <2>1. CASE planner' = planner
    BY <1>1, <2>1
  <2>2. ASSUME NEW p \in Planner, ReadOthers(p) PROVE Plans'
    <3>1. Within(Rows({r \in DOMAIN assignments : r[1] # planner[p].deploy}, assignments), P)
      BY <1>1, <1>3 DEF TInv, Commands
    <3> QED
      BY <1>1, <2>2, <3>1 DEF ReadOthers, TInv, Commands, PlannerState
  <2>3. ASSUME NEW p \in Planner, Clear(p) PROVE Plans'
    BY <1>1, <2>3 DEF Clear, TInv, Commands, PlannerState
  <2>4. ASSUME NEW p \in Planner, Update(p) \/ PlannerFails(p) PROVE Plans'
    BY <1>1, <1>2, <2>4 DEF Update, PlannerFails, TInv, Commands
  <2> QED
    BY <2>1, <2>2, <2>3, <2>4
    DEF Next, Agent, Stretch, Inspect, Publish, ReadAssignments, ApplyMine, Reconcile, Cordon,
        RoundFails, AgentEnds, AgentStarts,
        GoStale, BringUp, ProvisionerEnds, ProvisionerStarts, vars
<1> QED
  BY <1>4, <1>5, <1>6, <1>7 DEF Bounds

\* On a settled mesh the published free cpu is what the promises leave: a plan fits.
LEMMA SettledPromise ==
    ASSUME TInv, Settled, NEW p \in Planner, ReadMembers(p)
    PROVE  \E P \in Promises : Bounds(P)'
<1>1. PICK d \in Deploy, replicas \in Sizes, home \in Member :
          planner' = [planner EXCEPT ![p] = [Idle EXCEPT !.pc = "others", !.deploy = d,
                                                         !.plan = Plan(d, replicas, home)]]
  BY DEF ReadMembers
<1> DEFINE plan == Plan(d, replicas, home)
           new == [Idle EXCEPT !.pc = "others", !.deploy = d, !.plan = plan]
           share(x, m) == IF <<x, m>> \in DOMAIN plan THEN plan[<<x, m>>] ELSE 0
<1>2. /\ plan \in Table
      /\ \A r \in DOMAIN plan : /\ r[1] = d /\ newest[r[2]].fresh
                                /\ plan[r] * Cpu[d] <= newest[r[2]].free
  BY MeshAssumption, PlanFits DEF TInv
<1>3. new.plan = plan /\ new.others = NoRows
  BY DEF Idle
<1>4. planner' = [planner EXCEPT ![p] = new]
  BY <1>1
<1> HIDE DEF plan, new
<1>5. \A x \in Deploy, m \in Member : share(x, m) \in Nat /\ (x # d => share(x, m) = 0)
  BY <1>2, Tables
<1>6. \A m \in Member : \A x \in Deploy : deps[m][x] \in Nat
  BY DEF TInv, Clusters
<1>7. PICK P \in [Member -> [Deploy -> Nat]] :
          \A m \in Member : \A x \in Deploy : P[m][x] = deps[m][x] + share(x, m)
  <2>1. [m \in Member |-> [x \in Deploy |-> deps[m][x] + share(x, m)]]
          \in [Member -> [Deploy -> Nat]]
    BY <1>5, <1>6
  <2> HIDE DEF share
  <2> QED
    BY <2>1
<1>8. ASSUME NEW m \in Member PROVE Load(P[m]) <= Capacity[m]
  <2>1. Load(P[m]) = Load(deps[m]) + (P[m][d] - deps[m][d]) * Cpu[d]
    <3>1. P[m] \in [Deploy -> Nat] /\ deps[m] \in [Deploy -> Nat]
      BY <1>7 DEF TInv, Clusters
    <3>2. \A x \in Deploy \ {d} : deps[m][x] = P[m][x]
      <4> HIDE DEF share
      <4> QED
        BY <1>5, <1>6, <1>7
    <3> QED
      BY <3>1, <3>2, Loads
  <2>2. P[m][d] - deps[m][d] = share(d, m)
    BY <1>5, <1>6, <1>7
  <2>3. /\ Load(deps[m]) = used[m] /\ used[m] \in Nat /\ used[m] <= Capacity[m]
        /\ Capacity[m] \in Nat /\ Cpu[d] \in Nat
    BY MeshAssumption DEF Settled, Demand, TInv, Clusters
  <2>4. share(d, m) * Cpu[d] <= Capacity[m] - used[m]
    <3>1. CASE <<d, m>> \in DOMAIN plan
      <4>1. newest[m].fresh /\ plan[<<d, m>>] * Cpu[d] <= newest[m].free
        BY <1>2, <3>1
      <4>2. newest[m].free <= Capacity[m] - used[m]
        BY <2>3, <4>1 DEF Settled, FreeCpu
      <4>3. newest[m].free \in Nat /\ plan[<<d, m>>] \in Nat
        BY <1>2, <3>1, Tables DEF TInv, Clusters, Resource
      <4> QED
        BY <2>3, <3>1, <4>1, <4>2, <4>3
    <3>2. CASE <<d, m>> \notin DOMAIN plan
      <4>1. 0 * Cpu[d] = 0
        BY <2>3
      <4> QED
        BY <2>3, <3>2, <4>1
    <3> QED
      BY <3>1, <3>2
  <2>5. share(d, m) \in Nat
    BY <1>5
  <2> HIDE DEF share
  <2>6. share(d, m) * Cpu[d] \in Int
    BY <2>3, <2>5
  <2> QED
    BY <2>1, <2>2, <2>3, <2>4, <2>6
<1>9. \A r \in DOMAIN plan : plan[r] <= P[r[2]][r[1]]
  <2> TAKE r \in DOMAIN plan
  <2>1. r = <<r[1], r[2]>> /\ r[1] \in Deploy /\ r[2] \in Member /\ plan[r] \in Nat
    BY <1>2, Tables
  <2>2. share(r[1], r[2]) = plan[r]
    BY <2>1
  <2> QED
    BY <1>6, <1>7, <2>1, <2>2
<1>10. \A m \in Member : \A x \in Deploy : deps[m][x] <= P[m][x]
  <2> HIDE DEF share
  <2> QED
    BY <1>5, <1>6, <1>7
<1>11. /\ \A r \in DOMAIN assignments : /\ r[1] \in Deploy /\ r[2] \in Member
                                        /\ assignments[r] = deps[r[2]][r[1]]
       /\ \A m \in Member : agent[m].mine = NoRows
       /\ \A q \in Planner : planner[q] = Idle
  BY Tables DEF Settled, TInv, Commands
<1>12. Within(NoRows, P) /\ Within(plan, P) /\ Within(assignments, P)
  BY <1>9, <1>10, <1>11, Tables DEF Within
<1>13. \A q \in Planner : /\ planner'[q].plan \in {plan, NoRows}
                          /\ planner'[q].others = NoRows
  <2>1. \A q \in Planner : planner'[q] = IF q = p THEN new ELSE Idle
    BY <1>4, <1>11 DEF TInv, Commands
  <2>2. Idle.plan = NoRows /\ Idle.others = NoRows
    BY DEF Idle
  <2> QED
    BY <1>3, <2>1, <2>2
<1>14. UNCHANGED <<deps, assignments, agent>>
  BY DEF ReadMembers, clusters
<1>15. Bounds(P)'
  BY <1>10, <1>11, <1>12, <1>13, <1>14 DEF Bounds, Within
<1> QED
  BY <1>7, <1>8, <1>15 DEF Promises

\* For any members, deployments, capacities, and however many stretches, failures and
\* restarts: while stretches begin on a settled mesh, no cluster is asked to run more than
\* its node holds.
THEOREM NeverOvercommitted == Spec => []NoOvercommit
<1>1. ASSUME Init PROVE Promised
  <2>1. deps \in [Member -> [Deploy -> Nat]]
    BY <1>1, MeshAssumption DEF Init
  <2>2. \A m \in Member : Load(deps[m]) <= Capacity[m]
    <3> TAKE m \in Member
    <3>1. CASE m \in Owned
      <4>1. deps[m] = [d \in Deploy |-> 0]
        BY <1>1, <3>1 DEF Init
      <4> QED
        BY <4>1, Loads, MeshAssumption
    <3>2. CASE m \notin Owned
      <4>1. deps[m] = [d \in Deploy |-> Local[d]] /\ [d \in Deploy |-> Local[d]] = Local
        BY <1>1, <3>2, MeshAssumption DEF Init
      <4> QED
        BY <3>2, <4>1, LocalAssumption
    <3> QED
      BY <3>1, <3>2
  <2>4. Bounds(deps)
    <3>1. \A m \in Member : \A d \in Deploy : deps[m][d] <= deps[m][d]
      BY <2>1
    <3>2. /\ assignments = NoRows /\ \A m \in Member : agent[m].mine = NoRows
          /\ \A p \in Planner : planner[p].plan = NoRows /\ planner[p].others = NoRows
      BY <1>1 DEF Init, Idle, Resting
    <3> QED
      BY <3>1, <3>2, Tables DEF Bounds, Within
  <2> QED
    BY <2>1, <2>2, <2>4 DEF Promised, Promises
<1>2. ASSUME TInv, Promised, [Next]_vars PROVE Promised'
  <2> SUFFICES ASSUME calm' PROVE \E P \in Promises : Bounds(P)'
    BY DEF Promised, Promises
  <2>1. CASE \E p \in Planner : ReadMembers(p)
    BY <1>2, <2>1, SettledPromise DEF ReadMembers
  <2>2. CASE \A p \in Planner : ~ReadMembers(p)
    <3>1. calm
      BY <1>2, <2>2
      DEF Next, Agent, Stretch, Inspect, Publish, ReadAssignments, ApplyMine, Reconcile, Cordon,
          RoundFails, AgentEnds, AgentStarts, GoStale, BringUp, ProvisionerEnds,
          ProvisionerStarts, ReadOthers, Clear, Update, PlannerFails, vars
    <3>2. PICK P \in Promises : Bounds(P)
      BY <1>2, <3>1 DEF Promised
    <3> QED
      BY <1>2, <2>2, <3>2, BoundsKept DEF Promises
  <2> QED
    BY <2>1, <2>2
<1>3. ASSUME TInv, Promised PROVE NoOvercommit
  <2> SUFFICES ASSUME calm, NEW m \in Member PROVE Load(deps[m]) <= Capacity[m]
    BY DEF NoOvercommit, Demand
  <2>1. PICK P \in Promises : Bounds(P)
    BY <1>3 DEF Promised
  <2>2. P[m] \in [Deploy -> Nat] /\ Load(P[m]) <= Capacity[m] /\ Capacity[m] \in Nat
    BY MeshAssumption DEF Promises
  <2>3. deps[m] \in [Deploy -> Nat] /\ \A d \in Deploy : deps[m][d] <= P[m][d]
    BY <1>3, <2>1 DEF TInv, Clusters, Bounds
  <2>4. Load(deps[m]) <= Load(P[m]) /\ Load(deps[m]) \in Int /\ Load(P[m]) \in Int
    BY <2>2, <2>3, Loads
  <2> QED
    BY <2>2, <2>4
<1> QED
  BY <1>1, <1>2, <1>3, TypesHold, TypesPreserved, PTL DEF Spec
=============================================================================
