---------------------------- MODULE BridgeProofs ----------------------------
(***************************************************************************)
(* Proofs about module Bridge for any clusters, deployments, numbers of    *)
(* commands and of faults: the type invariant, that no deployment is left  *)
(* without a home, and that a migrate that waits opens no gap in serving.  *)
(***************************************************************************)
EXTENDS Bridge, FiniteSetTheorems, TLAPS

MigrationState ==
    [pc : {"idle", "apply", "wait", "delete", "watch", "restore", "remove"},
     name : Name \cup {""}, src : Side \cup {""}, dst : Side \cup {""}, replicas : 0..MaxReplicas,
     wait : BOOLEAN, watch : BOOLEAN]

\* The clusters' tabs and containers ...
ClustersOK ==
    /\ deployments = [s \in Side |-> deployments[s]] /\ rows = [s \in Side |-> rows[s]]
    /\ serving \in [Side -> SUBSET Pod] /\ condemned \in [Side -> SUBSET Pod]
    /\ \A s \in Side : /\ IsTab(deployments[s])
                       /\ DOMAIN rows[s] \subseteq Pod
                       /\ \A p \in DOMAIN rows[s] : rows[s][p] \in {"Running", "Pending"}
                       /\ condemned[s] \subseteq serving[s]
    /\ late \subseteq Side \X Pod \X BOOLEAN
GapsOK == gaps \subseteq Side \X Pod

\* ... and the commands in progress.
MigrationOK ==
    /\ migration \in [Migrator -> MigrationState]
    /\ \A i \in Migrator :
        migration[i].pc # "idle" => /\ migration[i].name \in Name
                                    /\ migration[i].src \in Side /\ migration[i].dst \in Side
                                    /\ migration[i].src # migration[i].dst
SyncOK ==
    /\ sync = [pc |-> sync.pc, tab |-> sync.tab, toLocal |-> sync.toLocal, toPeer |-> sync.toPeer]
    /\ sync.pc \in {"idle", "peer", "toLocal", "toPeer", "dead"}
    /\ IsTab(sync.tab) /\ IsTab(sync.toLocal) /\ IsTab(sync.toPeer)
Task(task) ==
    /\ task = [pc |-> task.pc, toLocal |-> task.toLocal, toPeer |-> task.toPeer]
    /\ task.pc \in {"idle", "toLocal", "toPeer"}
    /\ IsTab(task.toLocal) /\ IsTab(task.toPeer)
OrderOK == order = [i \in Operator |-> order[i]] /\ \A i \in Operator : Task(order[i])
CommandsOK == MigrationOK /\ SyncOK /\ OrderOK
TInv == ClustersOK /\ GapsOK /\ CommandsOK

\* What is done to tabs: the rows that come and go.
LEMMA TabsOK ==
    /\ IsTab(<<>>)
    /\ \A tab, n, r : IsTab(tab) /\ n \in Name /\ r \in 0..MaxReplicas =>
           IsTab(Upsert(tab, n, r)) /\ DOMAIN Upsert(tab, n, r) = DOMAIN tab \cup {n}
    /\ \A tab, n : IsTab(tab) => IsTab(Drop(tab, n)) /\ DOMAIN Drop(tab, n) = DOMAIN tab \ {n}
    /\ \A f, g : IsTab(f) /\ IsTab(g) =>
           IsTab(ApplyAll(f, g)) /\ DOMAIN ApplyAll(f, g) = DOMAIN f \cup DOMAIN g
    /\ \A f, g : IsTab(f) => IsTab(Missing(f, g))
<1>1. IsTab(<<>>)
  BY DEF IsTab
<1>2. ASSUME NEW tab, NEW n \in Name, NEW r \in 0..MaxReplicas, IsTab(tab)
      PROVE  IsTab(Upsert(tab, n, r)) /\ DOMAIN Upsert(tab, n, r) = DOMAIN tab \cup {n}
  BY <1>2 DEF IsTab, Upsert, ApplyAll
<1>3. ASSUME NEW tab, NEW n, IsTab(tab)
      PROVE  IsTab(Drop(tab, n)) /\ DOMAIN Drop(tab, n) = DOMAIN tab \ {n}
  BY <1>3 DEF IsTab, Drop
<1>4. ASSUME NEW f, NEW g, IsTab(f), IsTab(g)
      PROVE  IsTab(ApplyAll(f, g)) /\ DOMAIN ApplyAll(f, g) = DOMAIN f \cup DOMAIN g
  BY <1>4 DEF IsTab, ApplyAll
<1>5. ASSUME NEW f, NEW g, IsTab(f) PROVE IsTab(Missing(f, g))
  BY <1>5 DEF IsTab, Missing
<1> QED
  BY <1>1, <1>2, <1>3, <1>4, <1>5

\* A step that writes one Deployments tab keeps the clusters well-formed.
LEMMA WriteOK ==
    ASSUME NEW s \in Side, NEW tab, IsTab(tab), ClustersOK, UNCHANGED cluster,
           deployments' = [deployments EXCEPT ![s] = tab]
    PROVE  ClustersOK'
BY DEF ClustersOK, cluster

\* Every step keeps the clusters well-formed ...
LEMMA ClustersPreserved == TInv /\ [Next]_vars => ClustersOK'
<1> SUFFICES ASSUME TInv, [Next]_vars PROVE ClustersOK'
  OBVIOUS
<1> USE DEF TInv
<1>1. \A s \in Side : PodsOf(deployments[s]) \subseteq Pod
  BY DEF PodsOf
<1> DEFINE Tab(f) == DOMAIN f \subseteq Pod /\ \A p \in DOMAIN f : f[p] \in {"Running", "Pending"}
<1>14. rows = [s \in Side |-> rows[s]] /\ \A s \in Side : Tab(rows[s])
  BY DEF ClustersOK
<1>0. ASSUME NEW side \in Side, NEW p, NEW running
      PROVE  Tab(Rebuilt(side, p, running))
  BY <1>1, <1>14 DEF Rebuilt, Wanted
<1>15. ASSUME NEW side \in Side, NEW f, Tab(f), rows' = [rows EXCEPT ![side] = f]
       PROVE  rows' = [s \in Side |-> rows'[s]] /\ \A s \in Side : Tab(rows'[s])
  <2> HIDE DEF Tab
  <2> QED
    BY <1>14, <1>15
<1> HIDE DEF Tab
<1>2. ASSUME NEW side \in Side, NEW p \in Pod, Heartbeat(side, p) PROVE ClustersOK'
  <2>1. Undesired(side, p) \subseteq serving[side]
    BY DEF Undesired
  <2>2. Tab(Rebuilt(side, p, p \in Runs(side)))
    BY <1>0
  <2>3. condemned' \in [Side -> SUBSET Pod]
    BY <1>2, <2>1 DEF Heartbeat, ClustersOK
  <2>4. \A s \in Side : condemned'[s] \subseteq serving'[s]
    BY <1>2, <2>1 DEF Heartbeat, ClustersOK
  <2>5. rows' = [s \in Side |-> rows'[s]] /\ \A s \in Side : Tab(rows'[s])
    BY <1>2, <2>2, <1>15 DEF Heartbeat
  <2> QED
    BY <1>2, <2>3, <2>4, <2>5 DEF Heartbeat, ClustersOK, Tab
<1>12. ASSUME NEW side \in Side, NEW p \in Pod, HeartbeatFails(side, p) PROVE ClustersOK'
  <2>1. condemned' \in [Side -> SUBSET Pod]
    BY <1>12 DEF HeartbeatFails, ClustersOK
  <2>2. \A s \in Side : condemned'[s] \subseteq serving'[s]
    BY <1>12 DEF HeartbeatFails, ClustersOK
  <2>3. late' = late \cup {<<side, p, p \in Runs(side)>>}
    BY <1>12 DEF HeartbeatFails
  <2>4. PICK running \in BOOLEAN : late' = late \cup {<<side, p, running>>}
    <3>1. CASE p \in Runs(side)
      <4>1. (p \in Runs(side)) = TRUE
        BY <3>1
      <4> QED
        BY <2>3, <4>1, Zenon
    <3>2. CASE p \notin Runs(side)
      <4>1. (p \in Runs(side)) = FALSE
        BY <3>2
      <4> QED
        BY <2>3, <4>1, Zenon
    <3> QED
      BY <3>1, <3>2
  <2>5. late' \subseteq Side \X Pod \X BOOLEAN
    BY <2>4 DEF ClustersOK
  <2> QED
    BY <1>12, <2>1, <2>2, <2>5 DEF HeartbeatFails, ClustersOK
<1>13. ASSUME NEW side \in Side, NEW p \in Pod, NEW running \in BOOLEAN,
              LateHeartbeat(side, p, running)
       PROVE  ClustersOK'
  <2>1. rows' = [s \in Side |-> rows'[s]] /\ \A s \in Side : Tab(rows'[s])
    BY <1>13, <1>0, <1>15 DEF LateHeartbeat
  <2> QED
    BY <1>13, <2>1 DEF LateHeartbeat, ClustersOK, Tab
<1>3. ASSUME NEW side \in Side, NEW p \in Pod, StopPod(side, p) \/ StartPod(side, p)
      PROVE  ClustersOK'
  BY <1>3 DEF StopPod, StartPod, ClustersOK
<1>4. CASE PodDies
  BY <1>4 DEF PodDies, ClustersOK
<1>5. CASE Apply
  <2>1. PICK side \in Side, n \in Name, r \in 0..MaxReplicas :
            deployments' = [deployments EXCEPT ![side] = Upsert(@, n, r)]
    BY <1>5 DEF Apply
  <2>2. IsTab(Upsert(deployments[side], n, r))
    BY TabsOK DEF ClustersOK
  <2>3. deployments' = [deployments EXCEPT ![side] = Upsert(deployments[side], n, r)]
    BY <2>1 DEF ClustersOK
  <2> QED
    BY <1>5, <2>2, <2>3, WriteOK DEF Apply
<1>6. CASE Rename
  <2>1. PICK side \in Side : \E old \in DOMAIN deployments[side], new \in Name :
            deployments' = [deployments EXCEPT ![side] =
                                Upsert(Drop(@, old), new, deployments[side][old])]
    BY <1>6 DEF Rename
  <2>2. PICK old \in DOMAIN deployments[side], new \in Name :
            deployments' = [deployments EXCEPT ![side] =
                                Upsert(Drop(@, old), new, deployments[side][old])]
    BY <2>1
  <2>3. IsTab(deployments[side])
    BY DEF ClustersOK
  <2>4. IsTab(Drop(deployments[side], old)) /\ deployments[side][old] \in 0..MaxReplicas
    BY <2>3, TabsOK DEF IsTab
  <2>5. IsTab(Upsert(Drop(deployments[side], old), new, deployments[side][old]))
    BY <2>4, TabsOK
  <2> QED
    BY <1>6, <2>2, <2>5, WriteOK DEF Rename, ClustersOK
<1>7. ASSUME NEW i \in Migrator, MigrateApply(i) \/ MigrateRestore(i) PROVE ClustersOK'
  <2> DEFINE m == migration[i]
  <2>1. m.name \in Name /\ m.replicas \in 0..MaxReplicas
    BY <1>7 DEF MigrateApply, MigrateRestore, CommandsOK, MigrationOK, MigrationState
  <2>2. PICK side \in Side :
            deployments' = [deployments EXCEPT ![side] = Upsert(@, m.name, m.replicas)]
    BY <1>7 DEF MigrateApply, MigrateRestore, CommandsOK, MigrationOK
  <2>3. IsTab(Upsert(deployments[side], m.name, m.replicas))
    BY <2>1, TabsOK DEF ClustersOK
  <2> QED
    BY <1>7, <2>2, <2>3, WriteOK DEF MigrateApply, MigrateRestore, Rest
<1>8. ASSUME NEW i \in Migrator, MigrateDelete(i) \/ MigrateRemove(i) PROVE ClustersOK'
  <2>1. PICK side \in Side :
            deployments' = [deployments EXCEPT ![side] = Drop(@, migration[i].name)]
    BY <1>8 DEF MigrateDelete, MigrateRemove, CommandsOK, MigrationOK
  <2>2. IsTab(Drop(deployments[side], migration[i].name))
    BY TabsOK DEF ClustersOK
  <2> QED
    BY <1>8, <2>1, <2>2, WriteOK DEF MigrateDelete, MigrateRemove, Rest
<1>9. CASE Sync \/ \E i \in Operator : Order(i)
  <2>1. ASSUME NEW side \in Side, NEW sent, IsTab(sent), UNCHANGED cluster,
               deployments' = [deployments EXCEPT ![side] = ApplyAll(sent, @)]
        PROVE  ClustersOK'
    <3>1. IsTab(ApplyAll(sent, deployments[side]))
      BY <2>1, TabsOK DEF ClustersOK
    <3> QED
      BY <2>1, <3>1, WriteOK DEF ClustersOK
  <2>2. CASE SyncToLocal
    BY <2>1, <2>2, SideAssumption DEF SyncToLocal, CommandsOK, SyncOK
  <2>3. CASE SyncToPeer
    BY <2>1, <2>3, SideAssumption DEF SyncToPeer, CommandsOK, SyncOK
  <2>4. ASSUME NEW i \in Operator, OrderToLocal(i) PROVE ClustersOK'
    BY <2>1, <2>4, SideAssumption DEF OrderToLocal, CommandsOK, OrderOK, Task
  <2>5. ASSUME NEW i \in Operator, OrderToPeer(i) PROVE ClustersOK'
    BY <2>1, <2>5, SideAssumption DEF OrderToPeer, CommandsOK, OrderOK, Task
  <2>6. CASE SyncReadLocal \/ SyncReadPeer
    BY <2>6 DEF SyncReadLocal, SyncReadPeer, ClustersOK, cluster
  <2> QED
    BY <1>9, <2>2, <2>3, <2>4, <2>5, <2>6 DEF Sync, Order
<1>10. ASSUME UNCHANGED <<deployments, cluster>> PROVE ClustersOK'
  BY <1>10 DEF ClustersOK, cluster
<1>11. /\ \A i \in Migrator : MigrateRead(i) \/ MigrateReady(i) \/ MigrateTimeout(i)
              \/ MigrateDegraded(i) \/ MigrateDone(i) \/ MigrateCrash(i)
                  => UNCHANGED <<deployments, cluster>>
       /\ \A i \in Operator : OrderCrash(i) => UNCHANGED <<deployments, cluster>>
       /\ PushRead \/ StretchRead \/ SyncCrash \/ UNCHANGED vars
           => UNCHANGED <<deployments, cluster>>
  BY DEF MigrateRead, MigrateReady, MigrateTimeout, MigrateDegraded, MigrateDone, Rest,
         PushRead, StretchRead, Begin, MigrateCrash, SyncCrash, OrderCrash, Crash, vars, cluster
<1> QED
  BY <1>2, <1>3, <1>4, <1>5, <1>6, <1>7, <1>8, <1>9, <1>10, <1>11, <1>12, <1>13
     DEF Next, Kubelet, Migrate

\* ... and the gaps pods of theirs.
LEMMA GapsPreserved == TInv /\ [Next]_vars => GapsOK'
<1> SUFFICES ASSUME TInv, [Next]_vars PROVE GapsOK'
  OBVIOUS
<1> USE DEF TInv
<1>1. ASSUME NEW side \in Side, NEW name PROVE Unserved(side, name) \subseteq Side \X Pod
  BY DEF Unserved, Wanted, PodsOf
<1>2. ASSUME NEW side \in Side PROVE GapsKept(side) \subseteq Side \X Pod
  BY DEF GapsKept, GapsOK
<1>3. ASSUME NEW side \in Side, NEW p \in Pod, Kubelet(side, p) PROVE GapsOK'
  <2>1. CASE Heartbeat(side, p)
    BY <2>1, <1>2 DEF Heartbeat, GapsOK
  <2>2. CASE HeartbeatFails(side, p)
    BY <2>2 DEF HeartbeatFails, GapsOK
  <2>3. ASSUME NEW running \in BOOLEAN, LateHeartbeat(side, p, running) PROVE GapsOK'
    BY <2>3, <1>2 DEF LateHeartbeat, GapsOK
  <2>4. CASE StopPod(side, p) \/ StartPod(side, p)
    BY <2>4 DEF StopPod, StartPod, GapsOK, history
  <2> QED
    BY <1>3, <2>1, <2>2, <2>3, <2>4 DEF Kubelet
<1>4. CASE PodDies
  BY <1>4 DEF PodDies, GapsOK, ClustersOK
<1>5. ASSUME NEW i \in Migrator, Migrate(i) PROVE GapsOK'
  <2>1. migration[i].pc # "idle" => migration[i].src \in Side /\ migration[i].dst \in Side
    BY DEF CommandsOK, MigrationOK
  <2>2. CASE MigrateDelete(i)
    BY <1>1, <2>1, <2>2 DEF MigrateDelete, GapsOK
  <2>3. CASE MigrateRemove(i)
    BY <1>1, <2>1, <2>3 DEF MigrateRemove, GapsOK
  <2>4. CASE ~MigrateDelete(i) /\ ~MigrateRemove(i)
    BY <1>5, <2>4 DEF Migrate, MigrateApply, MigrateReady, MigrateTimeout, MigrateDegraded,
                      MigrateDone, MigrateRestore, GapsOK
  <2> QED
    BY <2>2, <2>3, <2>4
<1>6. UNCHANGED gaps => GapsOK'
  BY DEF GapsOK
<1>7. /\ \A i \in Migrator : MigrateRead(i) \/ MigrateCrash(i) => UNCHANGED gaps
      /\ \A i \in Operator : Order(i) \/ OrderCrash(i) => UNCHANGED gaps
      /\ Apply \/ Rename \/ Sync \/ SyncCrash \/ PushRead \/ StretchRead \/ UNCHANGED vars
          => UNCHANGED gaps
  BY DEF MigrateRead, MigrateCrash, Order, OrderToLocal, OrderToPeer, OrderCrash, Apply, Rename,
         Sync, SyncReadLocal, SyncReadPeer, SyncToLocal, SyncToPeer, SyncCrash, Crash, PushRead,
         StretchRead, Begin, vars, history
<1> QED
  BY <1>3, <1>4, <1>5, <1>6, <1>7 DEF Next

\* A command that is over is a state of one.
LEMMA IdleIsState == NotMigrating \in MigrationState
<1>1. 0 \in 0..MaxReplicas
  BY InitialAssumption
<1> QED
  BY <1>1 DEF NotMigrating, MigrationState

\* ... and the commands in progress.
LEMMA CommandsPreserved == TInv /\ [Next]_vars => CommandsOK'
<1> SUFFICES ASSUME TInv, [Next]_vars PROVE CommandsOK'
  OBVIOUS
<1> USE DEF TInv, CommandsOK
<1>1. ASSUME UNCHANGED migration PROVE MigrationOK'
  BY <1>1 DEF MigrationOK
<1>2. ASSUME UNCHANGED sync PROVE SyncOK'
  BY <1>2 DEF SyncOK
<1>3. ASSUME UNCHANGED order PROVE OrderOK'
  BY <1>3 DEF OrderOK
<1>4. ASSUME NEW i \in Migrator, NEW m \in MigrationState, migration' = [migration EXCEPT ![i] = m],
             m.pc # "idle" => m.name \in Name /\ m.src \in Side /\ m.dst \in Side /\ m.src # m.dst
      PROVE  MigrationOK'
  <2>1. migration' \in [Migrator -> MigrationState]
    BY <1>4 DEF MigrationOK
  <2>2. \A j \in Migrator : migration'[j] = IF j = i THEN m ELSE migration[j]
    BY <1>4 DEF MigrationOK
  <2> QED
    BY <1>4, <2>1, <2>2 DEF MigrationOK
<1>17. ASSUME NEW i \in Migrator, End(i) PROVE MigrationOK'
  <2>1. NotMigrating.pc = "idle"
    BY DEF NotMigrating
  <2> QED
    BY <1>4, <1>17, <2>1, IdleIsState DEF End
<1>5. CASE (\E side \in Side, p \in Pod : Kubelet(side, p)) \/ PodDies \/ Apply \/ Rename
           \/ UNCHANGED vars
  <2>1. UNCHANGED <<migration, sync, order>>
    BY <1>5 DEF Kubelet, Heartbeat, HeartbeatFails, LateHeartbeat, StopPod, StartPod, PodDies,
                Apply, Rename, vars, commands
  <2> QED
    BY <2>1, <1>1, <1>2, <1>3
<1>6. ASSUME NEW i \in Migrator, MigrateRead(i) PROVE CommandsOK'
  <2>1. \A s \in Side : IsTab(deployments[s])
    BY DEF ClustersOK
  <2>2. PICK src \in Side, dst \in Side, wait \in Waiting, watch \in Watching :
            \E name \in DOMAIN deployments[src] :
              /\ src # dst
              /\ migration' = [migration EXCEPT ![i] = Move(name, src, dst, wait, watch)]
              /\ crossed' = (crossed \/ \E j \in Migrator :
                                 migration[j].pc # "idle" /\ migration[j].name = name)
    BY <1>6, Zenon DEF MigrateRead
  <2>3. PICK name \in DOMAIN deployments[src] :
              /\ src # dst
              /\ migration' = [migration EXCEPT ![i] = Move(name, src, dst, wait, watch)]
    BY <2>2
  <2>4. name \in Name /\ deployments[src][name] \in 0..MaxReplicas
    BY <2>1 DEF IsTab
  <2>5. watch \in BOOLEAN
    BY WatchingAssumption
  <2>6. (wait /\ deployments[src][name] > 0) \in BOOLEAN
    OBVIOUS
  <2> DEFINE m == Move(name, src, dst, wait, watch)
  <2>7. m \in MigrationState
    BY <2>4, <2>5, <2>6 DEF MigrationState, Move
  <2>8. m.name \in Name /\ m.src \in Side /\ m.dst \in Side /\ m.src # m.dst
    BY <2>3, <2>4 DEF Move
  <2>9. migration' = [migration EXCEPT ![i] = m]
    BY <2>3
  <2> HIDE DEF m
  <2>10. MigrationOK'
    BY <2>7, <2>8, <2>9, <1>4
  <2> QED
    BY <1>6, <2>10, <1>2, <1>3 DEF MigrateRead
<1>7. ASSUME NEW i \in Migrator, Migrate(i) PROVE CommandsOK'
  <2>1. sync' = sync /\ order' = order
    BY <1>7 DEF Migrate, MigrateApply, MigrateReady, MigrateTimeout, MigrateDelete,
                MigrateDegraded, MigrateDone, MigrateRestore, MigrateRemove, Rest
  <2>2. \/ End(i)
        \/ /\ migration[i].pc # "idle"
           /\ \E pc \in {"wait", "delete", "watch", "restore", "remove"} : Goto(i, pc)
    BY <1>7 DEF Migrate, MigrateApply, MigrateReady, MigrateTimeout, MigrateDelete,
                MigrateDegraded, MigrateDone, MigrateRestore, MigrateRemove
  <2>3. ASSUME NEW pc \in {"wait", "delete", "watch", "restore", "remove"},
               migration[i].pc # "idle", Goto(i, pc)
        PROVE  MigrationOK'
    <3> DEFINE m == [migration[i] EXCEPT !.pc = pc]
    <3>1. migration[i] \in MigrationState
      BY DEF MigrationOK
    <3>2. m \in MigrationState
      BY <3>1 DEF MigrationState
    <3>3. m.name \in Name /\ m.src \in Side /\ m.dst \in Side /\ m.src # m.dst
      BY <2>3, <3>1 DEF MigrationOK, MigrationState
    <3>4. migration' = [migration EXCEPT ![i] = m]
      BY <2>3 DEF Goto
    <3> HIDE DEF m
    <3> QED
      BY <3>2, <3>3, <3>4, <1>4
  <2> QED
    BY <2>1, <2>2, <2>3, <1>2, <1>17, <1>3
<1>8. CASE SyncReadLocal
  <2>1. IsTab(deployments["local"])
    BY <1>8, SideAssumption DEF SyncReadLocal, ClustersOK
  <2>2. SyncOK'
    BY <1>8, <2>1 DEF SyncReadLocal, SyncOK
  <2> QED
    BY <1>8, <2>2, <1>1, <1>3 DEF SyncReadLocal
<1>9. CASE SyncReadPeer
  <2>1. /\ IsTab(Missing(deployments["peer"], sync.tab))
        /\ IsTab(Missing(sync.tab, deployments["peer"]))
    BY <1>9, SideAssumption, TabsOK DEF SyncReadPeer, SyncOK, ClustersOK
  <2>2. SyncOK'
    BY <1>9, <2>1, TabsOK DEF SyncReadPeer, SyncOK
  <2> QED
    BY <1>9, <2>2, <1>1, <1>3 DEF SyncReadPeer
<1>10. CASE SyncToLocal
  <2>1. SyncOK'
    BY <1>10, TabsOK DEF SyncToLocal, SyncOK
  <2> QED
    BY <1>10, <2>1, <1>1, <1>3 DEF SyncToLocal
<1>11. CASE SyncToPeer
  <2>1. SyncOK'
    BY <1>11, TabsOK DEF SyncToPeer, SyncOK, NotSyncing
  <2> QED
    BY <1>11, <2>1, <1>1, <1>3 DEF SyncToPeer
<1>12. CASE SyncCrash
  <2>2. sync' = [pc |-> "dead", tab |-> <<>>, toLocal |-> <<>>, toPeer |-> <<>>]
    BY <1>12 DEF SyncCrash, NotSyncing
  <2>3. SyncOK'
    BY <2>2, TabsOK DEF SyncOK
  <2> QED
    BY <1>12, <2>3, <1>1, <1>3 DEF SyncCrash
<1>13. ASSUME NEW i \in Migrator, MigrateCrash(i) PROVE CommandsOK'
  BY <1>13, <1>2, <1>17, <1>3 DEF MigrateCrash
<1>18. ASSUME NEW i, NEW task, Task(task), order' = [order EXCEPT ![i] = task] PROVE OrderOK'
  <2> HIDE DEF CommandsOK
  <2>1. OrderOK
    BY DEF CommandsOK
  <2>2. order' = [j \in Operator |-> order'[j]]
    BY <1>18, <2>1 DEF OrderOK
  <2>3. \A j \in Operator : order'[j] = IF j = i THEN task ELSE order[j]
    BY <1>18, <2>1 DEF OrderOK
  <2> QED
    BY <1>18, <2>1, <2>2, <2>3 DEF OrderOK
<1>14. CASE PushRead
  <2>1. IsTab(deployments["local"])
    BY SideAssumption DEF ClustersOK
  <2>2. Task([pc |-> "toPeer", toLocal |-> <<>>, toPeer |-> deployments["local"]])
    BY <2>1, TabsOK DEF Task
  <2>3. OrderOK'
    BY <1>14, <1>18, <2>2 DEF PushRead, Begin
  <2> QED
    BY <1>14, <2>3, <1>1, <1>2 DEF PushRead, Begin
<1>15. CASE StretchRead
  <2>1. PICK n \in Name, replicas \in 0..MaxReplicas : \E fit \in 0..replicas :
            Begin([pc |-> "toLocal", toLocal |-> [x \in {n} |-> fit],
                                     toPeer |-> [x \in {n} |-> replicas - fit]])
    BY <1>15 DEF StretchRead
  <2>2. PICK fit \in 0..replicas :
            Begin([pc |-> "toLocal", toLocal |-> [x \in {n} |-> fit],
                                     toPeer |-> [x \in {n} |-> replicas - fit]])
    BY <2>1
  <2>3. fit \in 0..MaxReplicas /\ replicas - fit \in 0..MaxReplicas
    BY InitialAssumption
  <2>4. IsTab([x \in {n} |-> fit]) /\ IsTab([x \in {n} |-> replicas - fit])
    BY <2>3 DEF IsTab
  <2>5. Task([pc |-> "toLocal", toLocal |-> [x \in {n} |-> fit],
                               toPeer |-> [x \in {n} |-> replicas - fit]])
    BY <2>4 DEF Task
  <2>6. OrderOK'
    BY <2>2, <2>5, <1>18 DEF Begin
  <2> QED
    BY <2>2, <2>6, <1>1, <1>2 DEF Begin
<1>16. ASSUME NEW i \in Operator, Order(i) \/ OrderCrash(i) PROVE CommandsOK'
  <2>1. OrderOK'
    <3>1. CASE OrderToLocal(i)
      <4>1. Task(order[i])
        BY DEF OrderOK
      <4>2. order' = [order EXCEPT ![i] = [pc |-> "toPeer", toLocal |-> <<>>,
                                           toPeer |-> order[i].toPeer]]
        BY <3>1 DEF OrderToLocal
      <4>3. Task([pc |-> "toPeer", toLocal |-> <<>>, toPeer |-> order[i].toPeer])
        BY <4>1, TabsOK DEF Task
      <4> QED
        BY <4>2, <4>3, <1>18
    <3>2. CASE OrderToPeer(i) \/ OrderCrash(i)
      <4>1. Task(NoOrder)
        BY TabsOK DEF NoOrder, Task
      <4> QED
        BY <3>2, <4>1, <1>18 DEF OrderToPeer, OrderCrash
    <3> QED
      BY <1>16, <3>1, <3>2 DEF Order
  <2> QED
    BY <1>16, <2>1, <1>1, <1>2 DEF Order, OrderToLocal, OrderToPeer, OrderCrash
<1> QED
  BY <1>5, <1>6, <1>7, <1>8, <1>9, <1>10, <1>11, <1>12, <1>13, <1>14, <1>15, <1>16
     DEF Next, Sync

\* Tabs, containers and commands in progress are well-formed in every reachable state.
THEOREM TypesHold == Spec => []TInv
<1>1. Init => TInv
  <2> SUFFICES ASSUME Init PROVE TInv
    OBVIOUS
  <2>1. \A s \in Side : PodsOf(Initial[s]) \subseteq Pod
    BY DEF PodsOf
  <2>2. ClustersOK
    BY <2>1, InitialAssumption DEF Init, ClustersOK
  <2>3. MigrationOK
    BY IdleIsState DEF Init, MigrationOK, NotMigrating, Migrator
  <2>4. SyncOK
    BY TabsOK DEF Init, SyncOK, NotSyncing
  <2>5. OrderOK
    BY TabsOK DEF Init, OrderOK, Task, NoOrder
  <2>6. GapsOK
    BY DEF Init, GapsOK
  <2> QED
    BY <2>2, <2>3, <2>4, <2>5, <2>6 DEF TInv, CommandsOK
<1>2. TInv /\ [Next]_vars => TInv'
  BY ClustersPreserved, GapsPreserved, CommandsPreserved DEF TInv
<1> QED
  BY <1>1, <1>2, PTL DEF Spec

\* The type invariant of the runs.
THEOREM TypeCorrect == Spec => []TypeOK
<1>1. TInv => TypeOK
  <2> SUFFICES ASSUME TInv PROVE TypeOK
    OBVIOUS
  <2>1. \A i \in Migrator : migration[i] \in MigrationState
    BY DEF TInv, CommandsOK, MigrationOK
  <2> QED
    BY <2>1 DEF TInv, ClustersOK, GapsOK, CommandsOK, MigrationOK, SyncOK, OrderOK, Task,
                MigrationState, TypeOK
<1> QED
  BY <1>1, TypesHold, PTL

-----------------------------------------------------------------------------

\* Every name of the start has a home.
Homes == \A s \in Side : \A n \in DOMAIN Initial[s] : \E t \in Side : n \in DOMAIN deployments[t]

\* The migrates in progress are of different names.
Apart == \A i, j \in Migrator : i # j /\ migration[i].pc # "idle" /\ migration[j].pc # "idle"
                                  => migration[i].name # migration[j].name

\* A migrate about to remove a name from one side has put it on the other.
Sent(i) ==
    /\ migration[i].pc \in {"wait", "delete"} =>
           migration[i].name \in DOMAIN deployments[migration[i].dst]
    /\ migration[i].pc = "remove" => migration[i].name \in DOMAIN deployments[migration[i].src]

Housed == ~crossed => Homes /\ Apart /\ \A i \in Migrator : Sent(i)

\* What a migrate starts with, and that nobody moves that name already.
LEMMA Starting ==
    ASSUME TInv, NEW i \in Migrator, MigrateRead(i)
    PROVE  /\ UNCHANGED <<deployments, cluster, sync, order, gaps>>
           /\ crossed => crossed'
           /\ \A j \in Migrator \ {i} : migration'[j] = migration[j]
           /\ migration'[i].pc = "apply"
           /\ migration'[i].src \in Side
           /\ migration'[i].name \in DOMAIN deployments[migration'[i].src]
           /\ migration'[i].replicas = deployments[migration'[i].src][migration'[i].name]
           /\ ~crossed' => \A j \in Migrator :
                  migration[j].pc # "idle" => migration[j].name # migration'[i].name
<1>1. PICK src \in Side, dst \in Side, wait \in Waiting, watch \in Watching :
          \E name \in DOMAIN deployments[src] :
            /\ src # dst
            /\ migration' = [migration EXCEPT ![i] = Move(name, src, dst, wait, watch)]
            /\ crossed' = (crossed \/ \E j \in Migrator :
                               migration[j].pc # "idle" /\ migration[j].name = name)
  BY Zenon DEF MigrateRead
<1>2. PICK name \in DOMAIN deployments[src] :
            /\ migration' = [migration EXCEPT ![i] = Move(name, src, dst, wait, watch)]
            /\ crossed' = (crossed \/ \E j \in Migrator :
                               migration[j].pc # "idle" /\ migration[j].name = name)
  BY <1>1, Zenon
<1>3. migration'[i] = Move(name, src, dst, wait, watch)
  BY <1>2 DEF TInv, CommandsOK, MigrationOK
<1>4. \A j \in Migrator \ {i} : migration'[j] = migration[j]
  BY <1>2 DEF TInv, CommandsOK, MigrationOK
<1>5. /\ migration'[i].pc = "apply" /\ migration'[i].src = src /\ migration'[i].name = name
      /\ migration'[i].replicas = deployments[src][name]
  BY <1>3 DEF Move
<1>6. /\ crossed => crossed'
      /\ ~crossed' => \A j \in Migrator : migration[j].pc # "idle" => migration[j].name # name
  BY <1>2
<1> QED
  BY <1>4, <1>5, <1>6 DEF MigrateRead

\* A migrate that goes on leaves the others alone and stays the one it is, or is over.
LEMMA Moving ==
    ASSUME TInv, NEW i \in Migrator, Migrate(i) \/ MigrateCrash(i)
    PROVE  /\ UNCHANGED <<cluster, sync, order, crossed>>
           /\ migration[i].pc # "idle"
           /\ \A j \in Migrator \ {i} : migration'[j] = migration[j]
           /\ \/ migration'[i].pc = "idle"
              \/ /\ migration'[i].name = migration[i].name
                 /\ migration'[i].src = migration[i].src /\ migration'[i].dst = migration[i].dst
                 /\ migration'[i].replicas = migration[i].replicas
                 /\ migration'[i].wait = migration[i].wait
<1>1. UNCHANGED <<cluster, sync, order, crossed>> /\ migration[i].pc # "idle"
  BY DEF Migrate, MigrateApply, MigrateReady, MigrateTimeout, MigrateDelete, MigrateDegraded,
         MigrateDone, MigrateRestore, MigrateRemove, MigrateCrash, Crash, Rest, history
<1>2. End(i) \/ \E pc : Goto(i, pc)
  BY DEF Migrate, MigrateApply, MigrateReady, MigrateTimeout, MigrateDelete, MigrateDegraded,
         MigrateDone, MigrateRestore, MigrateRemove, MigrateCrash
<1>3. migration \in [Migrator -> MigrationState] /\ migration[i] \in MigrationState
  BY DEF TInv, CommandsOK, MigrationOK
<1>4. CASE End(i)
  BY <1>1, <1>3, <1>4 DEF End, NotMigrating
<1>5. ASSUME NEW pc, Goto(i, pc)
      PROVE  /\ \A j \in Migrator \ {i} : migration'[j] = migration[j]
             /\ migration'[i] = [migration[i] EXCEPT !.pc = pc]
  BY <1>3, <1>5 DEF Goto
<1>6. CASE \E pc : Goto(i, pc)
  BY <1>1, <1>3, <1>5, <1>6 DEF MigrationState
<1> QED
  BY <1>2, <1>4, <1>6

\* The migrate that goes on, at the step it goes to.
LEMMA MovedTo ==
    ASSUME TInv, NEW i \in Migrator, NEW pc, Goto(i, pc) PROVE migration'[i].pc = pc
<1>1. migration \in [Migrator -> MigrationState] /\ migration[i] \in MigrationState
  BY DEF TInv, CommandsOK, MigrationOK
<1> QED
  BY <1>1 DEF Goto, MigrationState

\* A migrate that is over.
LEMMA Ended == ASSUME TInv, NEW i \in Migrator, End(i) PROVE migration'[i].pc = "idle"
<1>1. migration \in [Migrator -> MigrationState]
  BY DEF TInv, CommandsOK, MigrationOK
<1> QED
  BY <1>1 DEF End, NotMigrating

\* Which of its two tabs a migrate writes, and what that does to the names listed.
LEMMA Writing ==
    ASSUME TInv, NEW i \in Migrator
    PROVE  /\ MigrateApply(i) \/ MigrateRestore(i) =>
                  /\ \A t \in Side : DOMAIN deployments[t] \subseteq DOMAIN deployments'[t]
                  /\ MigrateApply(i) =>
                         migration[i].name \in DOMAIN deployments'[migration[i].dst]
                  /\ MigrateRestore(i) =>
                         migration[i].name \in DOMAIN deployments'[migration[i].src]
           /\ MigrateDelete(i) => \A t \in Side : DOMAIN deployments'[t] =
                  IF t = migration[i].src THEN DOMAIN deployments[t] \ {migration[i].name}
                                          ELSE DOMAIN deployments[t]
           /\ MigrateRemove(i) => \A t \in Side : DOMAIN deployments'[t] =
                  IF t = migration[i].dst THEN DOMAIN deployments[t] \ {migration[i].name}
                                          ELSE DOMAIN deployments[t]
<1>1. /\ deployments = [s \in Side |-> deployments[s]] /\ \A s \in Side : IsTab(deployments[s])
      /\ migration[i] \in MigrationState
      /\ migration[i].pc # "idle" => /\ migration[i].name \in Name
                                     /\ migration[i].src \in Side /\ migration[i].dst \in Side
  BY DEF TInv, ClustersOK, CommandsOK, MigrationOK
<1>2. ASSUME NEW s \in Side, NEW n \in Name, NEW r \in 0..MaxReplicas,
             deployments' = [deployments EXCEPT ![s] = Upsert(@, n, r)]
      PROVE  /\ \A t \in Side : DOMAIN deployments[t] \subseteq DOMAIN deployments'[t]
             /\ n \in DOMAIN deployments'[s]
  <2>1. DOMAIN Upsert(deployments[s], n, r) = DOMAIN deployments[s] \cup {n}
    BY <1>1, TabsOK
  <2> QED
    BY <1>1, <1>2, <2>1
<1>3. ASSUME NEW s \in Side, NEW n, deployments' = [deployments EXCEPT ![s] = Drop(@, n)]
      PROVE  \A t \in Side : DOMAIN deployments'[t] =
                 IF t = s THEN DOMAIN deployments[t] \ {n} ELSE DOMAIN deployments[t]
  <2>1. DOMAIN Drop(deployments[s], n) = DOMAIN deployments[s] \ {n}
    BY <1>1, TabsOK
  <2> QED
    BY <1>1, <1>3, <2>1
<1>4. migration[i].replicas \in 0..MaxReplicas
  BY <1>1 DEF MigrationState
<1>5. CASE MigrateApply(i)
  BY <1>1, <1>2, <1>4, <1>5 DEF MigrateApply, MigrateRestore, MigrateDelete, MigrateRemove
<1>6. CASE MigrateRestore(i)
  BY <1>1, <1>2, <1>4, <1>6 DEF MigrateApply, MigrateRestore, MigrateDelete, MigrateRemove
<1>7. CASE MigrateDelete(i)
  BY <1>1, <1>3, <1>7 DEF MigrateApply, MigrateRestore, MigrateDelete, MigrateRemove
<1>8. CASE MigrateRemove(i)
  BY <1>1, <1>3, <1>8 DEF MigrateApply, MigrateRestore, MigrateDelete, MigrateRemove
<1> QED
  BY <1>5, <1>6, <1>7, <1>8

\* The other steps: a name is taken off a list only by renaming it.
LEMMA Others ==
    ASSUME "rename" \notin Verbs, TInv, [Next]_vars,
           ~ \E i \in Migrator : MigrateRead(i) \/ Migrate(i) \/ MigrateCrash(i)
    PROVE  /\ \A t \in Side : DOMAIN deployments[t] \subseteq DOMAIN deployments'[t]
           /\ migration' = migration /\ crossed' = crossed
<1> DEFINE Kept == \A t \in Side : DOMAIN deployments[t] \subseteq DOMAIN deployments'[t]
           Same == migration' = migration /\ crossed' = crossed
<1>1. UNCHANGED deployments => Kept
  OBVIOUS
<1>2. CASE \E side \in Side, p \in Pod : Kubelet(side, p)
  <2>1. UNCHANGED deployments /\ Same
    BY <1>2 DEF Kubelet, Heartbeat, HeartbeatFails, LateHeartbeat, StopPod, StartPod, commands,
                history
  <2> QED
    BY <1>1, <2>1
<1>3. CASE \/ PodDies \/ SyncReadLocal \/ SyncReadPeer \/ SyncCrash \/ PushRead \/ StretchRead
           \/ (\E i \in Operator : OrderCrash(i)) \/ UNCHANGED vars
  <2>1. UNCHANGED deployments /\ Same
    BY <1>3 DEF PodDies, SyncReadLocal, SyncReadPeer, SyncCrash, PushRead, StretchRead, Begin,
                OrderCrash, Crash, vars, commands, history
  <2> QED
    BY <1>1, <2>1
<1>4. ASSUME NEW side \in Side, NEW sent,
             deployments' = [deployments EXCEPT ![side] = ApplyAll(sent, @)]
      PROVE  Kept
  <2>1. DOMAIN deployments[side] \subseteq DOMAIN ApplyAll(sent, deployments[side])
    BY DEF ApplyAll
  <2> QED
    BY <1>4, <2>1 DEF TInv, ClustersOK
<1>5. CASE Apply
  BY <1>4, <1>5 DEF Apply, Upsert, commands, history
<1>6. ~Rename
  BY DEF Rename, Command
<1>7. CASE SyncToLocal \/ SyncToPeer
  BY <1>4, <1>7, SideAssumption DEF SyncToLocal, SyncToPeer, history
<1>8. CASE \E i \in Operator : Order(i)
  BY <1>4, <1>8, SideAssumption DEF Order, OrderToLocal, OrderToPeer, history
<1> QED
  BY <1>2, <1>3, <1>5, <1>6, <1>7, <1>8 DEF Next, Sync

\* Nobody who does not rename takes a deployment's last home.
LEMMA HousedPreserved ==
    ASSUME "rename" \notin Verbs, TInv, Housed, [Next]_vars
    PROVE  Housed'
<1> SUFFICES ASSUME ~crossed' PROVE Homes' /\ Apart' /\ \A i \in Migrator : Sent(i)'
  BY DEF Housed
<1> DEFINE Kept == \A t \in Side : DOMAIN deployments[t] \subseteq DOMAIN deployments'[t]
<1>1. ~crossed
  BY Starting, Moving, Others
<1>2. Homes /\ Apart /\ \A i \in Migrator : Sent(i)
  BY <1>1 DEF Housed
<1>3. ASSUME NEW i \in Migrator, migration[i].pc # "idle"
      PROVE  migration[i].src \in Side /\ migration[i].dst \in Side
             /\ migration[i].src # migration[i].dst
  BY <1>3 DEF TInv, CommandsOK, MigrationOK
<1>4. ASSUME Kept PROVE Homes'
  BY <1>2, <1>4 DEF Homes
<1>5. ASSUME Kept, NEW j \in Migrator, migration'[j] = migration[j] PROVE Sent(j)'
  <2>1. Sent(j)
    BY <1>2
  <2> QED
    BY <1>3, <1>5, <2>1 DEF Sent
<1>6. CASE ~ \E i \in Migrator : MigrateRead(i) \/ Migrate(i) \/ MigrateCrash(i)
  <2>1. Kept /\ migration' = migration
    BY <1>6, Others
  <2> QED
    BY <1>2, <1>4, <1>5, <2>1 DEF Apart
<1>7. ASSUME NEW i \in Migrator, MigrateRead(i)
      PROVE  Homes' /\ Apart' /\ \A j \in Migrator : Sent(j)'
  <2>1. Kept
    BY <1>7, Starting
  <2>2. Apart'
    BY <1>2, <1>7, Starting DEF Apart
  <2>3. Sent(i)'
    BY <1>7, Starting DEF Sent
  <2> QED
    BY <1>4, <1>5, <1>7, <2>1, <2>2, <2>3, Starting
<1>8. ASSUME NEW i \in Migrator, Migrate(i) \/ MigrateCrash(i)
      PROVE  Homes' /\ Apart' /\ \A j \in Migrator : Sent(j)'
  <2>1. Apart'
    BY <1>2, <1>8, Moving DEF Apart
  <2>2. CASE Kept /\ Sent(i)'
    BY <1>4, <1>5, <1>8, <2>1, <2>2, Moving
  <2>3. ASSUME UNCHANGED deployments, migration'[i].pc \in {"idle", "watch", "restore"}
        PROVE  Kept /\ Sent(i)'
    BY <2>3 DEF Sent
  <2>4. CASE MigrateApply(i)
    <3>1. migration'[i].pc \in {"wait", "delete"}
      BY <2>4, MovedTo DEF MigrateApply
    <3> QED
      BY <1>8, <2>2, <2>4, <3>1, Moving, Writing DEF Sent
  <2>5. CASE MigrateReady(i)
    <3>1. migration'[i].pc = "delete" /\ migration[i].pc = "wait" /\ UNCHANGED deployments
      BY <2>5, MovedTo DEF MigrateReady
    <3>2. Sent(i)
      BY <1>2
    <3> QED
      BY <1>8, <2>2, <3>1, <3>2, Moving DEF Sent
  <2>6. CASE MigrateTimeout(i) \/ MigrateDone(i) \/ MigrateCrash(i)
    <3>1. migration'[i].pc = "idle"
      BY <2>6, Ended DEF MigrateTimeout, MigrateDone, MigrateCrash
    <3> QED
      BY <2>2, <2>3, <2>6, <3>1 DEF MigrateTimeout, MigrateDone, MigrateCrash, Crash
  <2>7. CASE MigrateDegraded(i)
    BY <2>2, <2>3, <2>7, MovedTo DEF MigrateDegraded
  <2>8. CASE MigrateRestore(i)
    <3>1. migration'[i].pc = "remove"
      BY <2>8, MovedTo DEF MigrateRestore
    <3> QED
      BY <1>8, <2>2, <2>8, <3>1, Moving, Writing DEF Sent
  <2>9. CASE MigrateDelete(i) \/ MigrateRemove(i)
    <3>1. PICK here \in Side, there \in Side :
              /\ here # there /\ migration[i].name \in DOMAIN deployments[there]
              /\ \A t \in Side : DOMAIN deployments'[t] =
                     IF t = here THEN DOMAIN deployments[t] \ {migration[i].name}
                                 ELSE DOMAIN deployments[t]
      <4>1. Sent(i)
        BY <1>2
      <4>2. CASE MigrateDelete(i)
        BY <1>3, <4>1, <4>2, Writing DEF MigrateDelete, Sent
      <4>3. CASE MigrateRemove(i)
        BY <1>3, <4>1, <4>3, Writing DEF MigrateRemove, Sent
      <4> QED
        BY <2>9, <4>2, <4>3
    <3>2. Homes'
      <4> SUFFICES ASSUME NEW s \in Side, NEW n \in DOMAIN Initial[s]
                   PROVE  \E t \in Side : n \in DOMAIN deployments'[t]
        BY DEF Homes
      <4>1. PICK t \in Side : n \in DOMAIN deployments[t]
        BY <1>2 DEF Homes
      <4>2. CASE n = migration[i].name
        BY <3>1, <4>2
      <4>3. CASE n # migration[i].name
        BY <3>1, <4>1, <4>3
      <4> QED
        BY <4>2, <4>3
    <3>3. ASSUME NEW j \in Migrator, j # i PROVE Sent(j)'
      <4>1. migration'[j] = migration[j] /\ migration[i].pc # "idle" /\ Sent(j)
        BY <1>2, <1>8, <3>3, Moving
      <4>2. migration[j].pc # "idle" => migration[j].name # migration[i].name
        BY <1>2, <3>3, <4>1 DEF Apart
      <4> QED
        BY <1>3, <3>1, <4>1, <4>2 DEF Sent
    <3>4. Sent(i)'
      <4>1. migration'[i].pc \in {"idle", "watch"}
        BY <2>9, Ended, MovedTo DEF MigrateDelete, MigrateRemove
      <4> QED
        BY <4>1 DEF Sent
    <3> QED
      BY <2>1, <3>2, <3>3, <3>4
  <2> QED
    BY <1>8, <2>4, <2>5, <2>6, <2>7, <2>8, <2>9 DEF Migrate
<1> QED
  BY <1>6, <1>7, <1>8

\* While nobody renames one and no two migrates of one deployment overlap, no deployment is
\* ever left without a home: migrates, the sync daemon, pushes and stretches, wherever they
\* die, and whatever the clusters do in between, remove only what is recorded on the other
\* side.
THEOREM NobodyHomeless == ASSUME "rename" \notin Verbs PROVE Spec => []NeverHomeless
<1>1. Init => Housed
  <2> SUFFICES ASSUME Init PROVE Housed
    OBVIOUS
  <2>1. Homes
    BY DEF Init, Homes
  <2>2. \A i \in Migrator : migration[i].pc = "idle"
    BY DEF Init, NotMigrating
  <2> QED
    BY <2>1, <2>2 DEF Housed, Apart, Sent
<1>2. TInv /\ Housed /\ [Next]_vars => Housed'
  BY HousedPreserved
<1>3. Housed => NeverHomeless
  BY DEF Housed, Homes, NeverHomeless
<1> QED
  BY <1>1, <1>2, <1>3, TypesHold, PTL DEF Spec

-----------------------------------------------------------------------------
(* No downtime.                                                                *)

\* The replicas a name begins with.
Replicas(n) ==
    CHOOSE r \in 0..MaxReplicas : \E s \in Side : n \in DOMAIN Initial[s] /\ Initial[s][n] = r

\* A name is listed with the same number of replicas wherever it is listed at the start.
OneSize == \A s, t \in Side : \A n \in DOMAIN Initial[s] \cap DOMAIN Initial[t] :
               Initial[s][n] = Initial[t][n]

\* Nothing that copies and moves rows changes a number of replicas.
Agrees(tab) == \A n \in DOMAIN tab : tab[n] = Replicas(n)
SizesAgree ==
    /\ \A s \in Side : /\ Agrees(deployments[s])
                       /\ \A p \in DOMAIN rows[s] : p[2] <= Replicas(p[1])
    /\ Agrees(sync.tab) /\ Agrees(sync.toLocal) /\ Agrees(sync.toPeer)
    /\ \A i \in Operator : Agrees(order[i].toLocal) /\ Agrees(order[i].toPeer)
    /\ \A i \in Migrator :
        migration[i].pc # "idle" => migration[i].replicas = Replicas(migration[i].name)

\* The pods of a side that run and are not to be stopped, or that something other than a
\* migrate that waits took down.
Accounted(s) == Runs(s) \cup {p \in Pod : <<s, p>> \in gaps}

\* A pod shown as Running is one of those.
Truthful == \A s \in Side : \A p \in DOMAIN rows[s] :
                rows[s][p] = "Running" => p \in Accounted(s)

\* A cluster lists a name, and all its pods are.
On(s, n) == /\ n \in DOMAIN deployments[s]
            /\ \A r \in 1..Replicas(n) : <<n, r>> \in Accounted(s)
AllOn == \A s \in Side : \A n \in DOMAIN Initial[s] : \E t \in Side : On(t, n)

\* A migrate that waited and is going to take a name from its source has seen it on at the
\* target.
Seen(i) == migration[i].pc = "delete" /\ migration[i].wait =>
               On(migration[i].dst, migration[i].name)

HandoverInv == SizesAgree /\ Truthful /\ (~crossed => AllOn /\ \A i \in Migrator : Seen(i))

\* A number of replicas the tabs of the start agree on.
LEMMA InitialSizes == ASSUME OneSize, NEW s \in Side PROVE Agrees(Initial[s])
<1> SUFFICES ASSUME NEW n \in DOMAIN Initial[s] PROVE Initial[s][n] = Replicas(n)
  BY DEF Agrees
<1> DEFINE P(r) == \E t \in Side : n \in DOMAIN Initial[t] /\ Initial[t][n] = r
<1>1. Initial[s][n] \in 0..MaxReplicas /\ P(Initial[s][n])
  BY InitialAssumption DEF IsTab
<1>2. \A r : P(r) => r = Initial[s][n]
  BY DEF OneSize
<1>3. Replicas(n) = CHOOSE r \in 0..MaxReplicas : P(r)
  BY DEF Replicas
<1> HIDE DEF P
<1> QED
  BY <1>1, <1>2, <1>3

\* What the commands do to tabs that agree.
LEMMA TabsAgree ==
    /\ Agrees(<<>>)
    /\ \A tab, n : Agrees(tab) => Agrees(Upsert(tab, n, Replicas(n))) /\ Agrees(Drop(tab, n))
    /\ \A f, g : Agrees(f) /\ Agrees(g) => Agrees(ApplyAll(f, g)) /\ Agrees(Missing(f, g))
<1>1. Agrees(<<>>)
  BY DEF Agrees
<1>2. ASSUME NEW tab, NEW n, Agrees(tab)
      PROVE  Agrees(Upsert(tab, n, Replicas(n))) /\ Agrees(Drop(tab, n))
  BY <1>2 DEF Agrees, Upsert, ApplyAll, Drop
<1>3. ASSUME NEW f, NEW g, Agrees(f), Agrees(g)
      PROVE  Agrees(ApplyAll(f, g)) /\ Agrees(Missing(f, g))
  BY <1>3 DEF Agrees, ApplyAll, Missing
<1> QED
  BY <1>1, <1>2, <1>3

\* The numbers stay when nobody applies, renames or stretches.
LEMMA SizesKept ==
    ASSUME Verbs \subseteq {"push"}, TInv, SizesAgree, [Next]_vars
    PROVE  SizesAgree'
<1> DEFINE Tabs == \A s \in Side : Agrees(deployments[s])
           Shown == \A s \in Side : \A p \in DOMAIN rows[s] : p[2] <= Replicas(p[1])
           Synced == Agrees(sync.tab) /\ Agrees(sync.toLocal) /\ Agrees(sync.toPeer)
           Ordered == \A i \in Operator : Agrees(order[i].toLocal) /\ Agrees(order[i].toPeer)
           Moved(i) == migration[i].pc # "idle" =>
                           migration[i].replicas = Replicas(migration[i].name)
           AllMoved == \A i \in Migrator : Moved(i)
<1>1. Tabs /\ Shown /\ Synced /\ Ordered /\ AllMoved
  BY DEF SizesAgree
<1>2. /\ deployments = [s \in Side |-> deployments[s]] /\ rows = [s \in Side |-> rows[s]]
      /\ order = [i \in Operator |-> order[i]] /\ "local" \in Side /\ "peer" \in Side
  BY SideAssumption DEF TInv, ClustersOK, CommandsOK, OrderOK
<1>3. UNCHANGED rows => Shown'
  BY <1>1
<1>4. UNCHANGED sync => Synced'
  BY <1>1
<1>5. UNCHANGED order => Ordered'
  BY <1>1
<1>6. UNCHANGED migration => AllMoved'
  BY <1>1
<1>7. ASSUME NEW i, NEW task, Agrees(task.toLocal), Agrees(task.toPeer),
             order' = [order EXCEPT ![i] = task]
      PROVE  Ordered'
  <2>1. \A j \in Operator : order'[j] = IF j = i THEN task ELSE order[j]
    BY <1>2, <1>7
  <2> QED
    BY <1>1, <1>7, <2>1
<1>8. UNCHANGED deployments => Tabs'
  BY <1>1
<1>9. ASSUME NEW s \in Side, NEW tab, Agrees(tab), deployments' = [deployments EXCEPT ![s] = tab]
      PROVE  Tabs'
  BY <1>1, <1>2, <1>9
<1> HIDE DEF Tabs, Shown, Synced, Ordered, Moved, AllMoved
<1>10. ASSUME Tabs', Shown', Synced', Ordered', AllMoved' PROVE SizesAgree'
  BY <1>10 DEF SizesAgree, Tabs, Shown, Synced, Ordered, Moved, AllMoved
<1>11. ASSUME NEW side \in Side, NEW p \in Pod, Kubelet(side, p) PROVE SizesAgree'
  <2>1. Shown'
    <3>1. ASSUME NEW running, rows' = [rows EXCEPT ![side] = Rebuilt(side, p, running)]
          PROVE  Shown'
      <4>1. \A q \in Wanted(side) : q[2] <= Replicas(q[1])
        BY <1>1 DEF Tabs, Wanted, PodsOf, Agrees
      <4>2. /\ DOMAIN rows'[side] = Wanted(side)
            /\ \A s \in Side : s # side => rows'[s] = rows[s]
        BY <1>2, <3>1 DEF Rebuilt
      <4> QED
        BY <1>1, <4>1, <4>2 DEF Shown
    <3>2. CASE HeartbeatFails(side, p) \/ StopPod(side, p) \/ StartPod(side, p)
      BY <1>3, <3>2 DEF HeartbeatFails, StopPod, StartPod
    <3> QED
      BY <1>11, <3>1, <3>2 DEF Kubelet, Heartbeat, LateHeartbeat
  <2> QED
    BY <1>4, <1>5, <1>6, <1>8, <1>10, <1>11, <2>1
       DEF Kubelet, Heartbeat, HeartbeatFails, LateHeartbeat, StopPod, StartPod, commands
<1>12. CASE PodDies
  BY <1>3, <1>4, <1>5, <1>6, <1>8, <1>10, <1>12 DEF PodDies, commands
<1>13. ~Apply /\ ~Rename /\ ~StretchRead
  BY DEF Apply, Rename, StretchRead, Command
<1>14. ASSUME NEW i \in Migrator, MigrateRead(i) PROVE SizesAgree'
  <2>1. migration'[i].replicas = Replicas(migration'[i].name)
    BY <1>1, <1>14, Starting DEF Tabs, Agrees
  <2>2. \A j \in Migrator \ {i} : migration'[j] = migration[j]
    BY <1>14, Starting
  <2>3. AllMoved'
    BY <1>1, <2>1, <2>2 DEF AllMoved, Moved
  <2> QED
    BY <1>3, <1>4, <1>5, <1>8, <1>10, <1>14, <2>3, Starting DEF cluster
<1>15. ASSUME NEW i \in Migrator, Migrate(i) \/ MigrateCrash(i) PROVE SizesAgree'
  <2>1. AllMoved'
    BY <1>1, <1>15, Moving DEF AllMoved, Moved
  <2>2. Tabs'
    <3> DEFINE m == migration[i]
    <3>1. m.pc # "idle" /\ m.src \in Side /\ m.dst \in Side /\ m.replicas = Replicas(m.name)
      BY <1>1, <1>15, Moving DEF TInv, CommandsOK, MigrationOK, AllMoved, Moved
    <3>2. ASSUME NEW s \in Side,
                 \/ deployments' = [deployments EXCEPT ![s] = Upsert(@, m.name, m.replicas)]
                 \/ deployments' = [deployments EXCEPT ![s] = Drop(@, m.name)]
          PROVE  Tabs'
      <4>1. Agrees(deployments[s])
        BY <1>1 DEF Tabs
      <4>2. /\ Agrees(Upsert(deployments[s], m.name, m.replicas))
            /\ Agrees(Drop(deployments[s], m.name))
        BY <3>1, <4>1, TabsAgree
      <4> QED
        BY <1>9, <3>2, <4>2
    <3>3. CASE MigrateApply(i) \/ MigrateRestore(i) \/ MigrateDelete(i) \/ MigrateRemove(i)
      BY <3>1, <3>2, <3>3 DEF MigrateApply, MigrateRestore, MigrateDelete, MigrateRemove
    <3>4. CASE \/ MigrateReady(i) \/ MigrateTimeout(i) \/ MigrateDegraded(i) \/ MigrateDone(i)
               \/ MigrateCrash(i)
      BY <1>8, <3>4 DEF MigrateReady, MigrateTimeout, MigrateDegraded, MigrateDone, MigrateCrash,
                        Crash
    <3> QED
      BY <1>15, <3>3, <3>4 DEF Migrate
  <2> QED
    BY <1>3, <1>4, <1>5, <1>10, <1>15, <2>1, <2>2, Moving DEF cluster
<1>16. Agrees(NoOrder.toLocal) /\ Agrees(NoOrder.toPeer)
  BY TabsAgree DEF NoOrder
<1>17. CASE Sync
  <2>1. Tabs'
    <3>1. Agrees(ApplyAll(sync.toLocal, deployments["local"]))
      BY <1>1, <1>2, TabsAgree DEF Tabs, Synced
    <3>2. Agrees(ApplyAll(sync.toPeer, deployments["peer"]))
      BY <1>1, <1>2, TabsAgree DEF Tabs, Synced
    <3> QED
      BY <1>2, <1>8, <1>9, <1>17, <3>1, <3>2
         DEF Sync, SyncReadLocal, SyncReadPeer, SyncToLocal, SyncToPeer
  <2>2. Synced'
    <3>1. /\ Agrees(<<>>) /\ Agrees(deployments["local"])
          /\ Agrees(Missing(deployments["peer"], sync.tab))
          /\ Agrees(Missing(sync.tab, deployments["peer"]))
      BY <1>1, <1>2, TabsAgree DEF Tabs, Synced
    <3>2. sync = [pc |-> sync.pc, tab |-> sync.tab, toLocal |-> sync.toLocal,
                  toPeer |-> sync.toPeer]
      BY DEF TInv, CommandsOK, SyncOK
    <3>3. CASE SyncReadLocal
      BY <1>1, <3>1, <3>2, <3>3 DEF SyncReadLocal, Synced
    <3>4. CASE SyncReadPeer
      BY <3>1, <3>4 DEF SyncReadPeer, Synced
    <3>5. CASE SyncToLocal
      BY <1>1, <3>1, <3>2, <3>5 DEF SyncToLocal, Synced
    <3>6. CASE SyncToPeer
      BY <3>1, <3>6 DEF SyncToPeer, Synced, NotSyncing
    <3> QED
      BY <1>17, <3>3, <3>4, <3>5, <3>6 DEF Sync
  <2>3. UNCHANGED <<cluster, migration, order>>
    BY <1>17 DEF Sync, SyncReadLocal, SyncReadPeer, SyncToLocal, SyncToPeer
  <2> QED
    BY <1>3, <1>5, <1>6, <1>10, <2>1, <2>2, <2>3 DEF cluster
<1>18. CASE SyncCrash
  <2>1. Synced'
    BY <1>18, TabsAgree DEF SyncCrash, NotSyncing, Synced
  <2> QED
    BY <1>3, <1>5, <1>6, <1>8, <1>10, <1>18, <2>1 DEF SyncCrash, Crash, cluster
<1>19. CASE PushRead
  <2> DEFINE task == [pc |-> "toPeer", toLocal |-> <<>>, toPeer |-> deployments["local"]]
  <2>1. Agrees(task.toLocal) /\ Agrees(task.toPeer)
    BY <1>1, <1>2, TabsAgree DEF Tabs
  <2>2. order' = [order EXCEPT ![used.ops + 1] = task]
    BY <1>19 DEF PushRead, Begin
  <2> HIDE DEF task
  <2>3. Ordered'
    BY <1>7, <2>1, <2>2
  <2> QED
    BY <1>3, <1>4, <1>6, <1>8, <1>10, <1>19, <2>3 DEF PushRead, Begin, cluster
<1>20. ASSUME NEW i \in Operator, Order(i) PROVE SizesAgree'
  <2>1. Tabs'
    <3>1. Agrees(ApplyAll(order[i].toLocal, deployments["local"]))
      BY <1>1, <1>2, TabsAgree DEF Tabs, Ordered
    <3>2. Agrees(ApplyAll(order[i].toPeer, deployments["peer"]))
      BY <1>1, <1>2, TabsAgree DEF Tabs, Ordered
    <3> QED
      BY <1>2, <1>9, <1>20, <3>1, <3>2 DEF Order, OrderToLocal, OrderToPeer
  <2>2. Ordered'
    <3>1. CASE OrderToLocal(i)
      <4> DEFINE task == [pc |-> "toPeer", toLocal |-> <<>>, toPeer |-> order[i].toPeer]
      <4>1. Agrees(task.toLocal) /\ Agrees(task.toPeer)
        BY <1>1, TabsAgree DEF Ordered
      <4>2. order' = [order EXCEPT ![i] = task]
        BY <3>1 DEF OrderToLocal
      <4> HIDE DEF task
      <4> QED
        BY <1>7, <4>1, <4>2
    <3>2. CASE OrderToPeer(i)
      BY <1>7, <1>16, <3>2 DEF OrderToPeer
    <3> QED
      BY <1>20, <3>1, <3>2 DEF Order
  <2>3. UNCHANGED <<cluster, migration, sync>>
    BY <1>20 DEF Order, OrderToLocal, OrderToPeer
  <2> QED
    BY <1>3, <1>4, <1>6, <1>10, <2>1, <2>2, <2>3 DEF cluster
<1>21. ASSUME NEW i \in Operator, OrderCrash(i) PROVE SizesAgree'
  <2>1. Ordered'
    BY <1>7, <1>16, <1>21 DEF OrderCrash
  <2> QED
    BY <1>3, <1>4, <1>6, <1>8, <1>10, <1>21, <2>1 DEF OrderCrash, Crash, cluster
<1>22. CASE UNCHANGED vars
  BY <1>3, <1>4, <1>5, <1>6, <1>8, <1>10, <1>22 DEF vars, cluster, commands
<1> QED
  BY <1>11, <1>12, <1>13, <1>14, <1>15, <1>17, <1>18, <1>19, <1>20, <1>21, <1>22 DEF Next

\* The replicas of a name are that many pods.
LEMMA PodsOfName ==
    ASSUME NEW n, NEW r \in Nat
    PROVE  /\ IsFiniteSet({n} \X (1..r)) /\ Cardinality({n} \X (1..r)) = r
<1> DEFINE f == [i \in 1..r |-> <<n, i>>]
           Y == {n} \X (1..r)
<1>1. f \in Bijection(1..r, Y)
  <2>1. f \in [1..r -> Y]
    OBVIOUS
  <2>2. \A i, j \in 1..r : i # j => f[i] # f[j]
    OBVIOUS
  <2>3. \A y \in Y : \E i \in 1..r : f[i] = y
    OBVIOUS
  <2> HIDE DEF f, Y
  <2> QED
    BY <2>1, <2>2, <2>3 DEF Bijection, Injection, IsInjective, Surjection
<1> HIDE DEF f
<1>2. IsFiniteSet(1..r) /\ Cardinality(1..r) = r
  BY FS_Interval
<1>3. ExistsBijection(1..r, Y)
  BY <1>1 DEF ExistsBijection
<1> QED
  BY <1>2, <1>3, FS_Bijection

\* The pods of a name a cluster lists are the replicas it is asked for.
LEMMA WantedPods ==
    ASSUME TInv, SizesAgree, NEW s \in Side, NEW n \in DOMAIN deployments[s]
    PROVE  /\ n \in Name /\ Replicas(n) \in 0..MaxReplicas /\ deployments[s][n] = Replicas(n)
           /\ \A r \in 1..Replicas(n) : <<n, r>> \in Wanted(s) /\ <<n, r>> \in Pod
<1>1. n \in Name /\ Replicas(n) \in 0..MaxReplicas /\ deployments[s][n] = Replicas(n)
  BY DEF TInv, ClustersOK, IsTab, SizesAgree, Agrees
<1>2. ASSUME NEW r \in 1..Replicas(n) PROVE <<n, r>> \in Wanted(s) /\ <<n, r>> \in Pod
  <2>1. <<n, r>> \in Pod
    BY <1>1, InitialAssumption DEF Pod
  <2> QED
    BY <1>1, <2>1 DEF Wanted, PodsOf
<1> QED
  BY <1>1, <1>2

\* A cluster that has as many Running rows of a name it lists as replicas are asked for has
\* all of them.
LEMMA ReadyIsOn ==
    ASSUME TInv, SizesAgree, Truthful, NEW s \in Side, NEW n \in DOMAIN deployments[s],
           Ready(s, n) >= Replicas(n)
    PROVE  On(s, n)
<1> DEFINE r == Replicas(n)
           X == {p \in DOMAIN rows[s] : p[1] = n /\ rows[s][p] = "Running"}
           Y == {n} \X (1..r)
<1>1. r \in 0..MaxReplicas /\ r \in Nat
  BY WantedPods, InitialAssumption
<1>2. DOMAIN rows[s] \subseteq Pod /\ \A p \in DOMAIN rows[s] : p[2] <= Replicas(p[1])
  BY DEF TInv, ClustersOK, SizesAgree
<1> HIDE DEF r
<1>3. X \subseteq Y
  <2>1. ASSUME NEW p \in X PROVE p \in Y
    <3>1. p \in Name \X (1..MaxReplicas) /\ p[1] = n /\ p[2] <= r
      BY <1>2 DEF Pod, r
    <3>2. p = <<n, p[2]>> /\ p[2] \in 1..MaxReplicas
      BY <3>1
    <3>3. p[2] \in 1..r
      BY <1>1, <3>1, <3>2, InitialAssumption
    <3> QED
      BY <3>2, <3>3
  <2> QED
    BY <2>1
<1>4. IsFiniteSet(Y) /\ Cardinality(Y) = r
  BY <1>1, PodsOfName
<1>5. Cardinality(X) >= r
  BY DEF Ready, r
<1>6. X = Y
  <2> HIDE DEF X, Y
  <2>1. Cardinality(X) \in Nat /\ Cardinality(X) <= r /\ (Cardinality(X) = r => X = Y)
    BY <1>3, <1>4, FS_Subset, FS_CardinalityType
  <2> QED
    BY <1>1, <1>5, <2>1
<1>7. ASSUME NEW i \in 1..r PROVE <<n, i>> \in Accounted(s)
  <2>1. <<n, i>> \in X
    BY <1>6, <1>7
  <2> QED
    BY <2>1 DEF Truthful
<1> QED
  BY <1>7 DEF On, r

\* Whatever happens on a side, the pods it wants stay accounted for, and its rows truthful.
LEMMA ClusterKeeps ==
    ASSUME TInv, Truthful,
           PodDies \/ \E side \in Side, p \in Pod : Kubelet(side, p)
    PROVE  /\ Truthful' /\ UNCHANGED <<deployments, migration, crossed>>
           /\ \A t \in Side : \A q \in Wanted(t) : q \in Accounted(t) => q \in Accounted(t)'
<1>1. /\ rows = [s \in Side |-> rows[s]] /\ \A s \in Side : DOMAIN rows[s] \subseteq Pod
      /\ serving \in [Side -> SUBSET Pod] /\ condemned \in [Side -> SUBSET Pod]
      /\ \A s \in Side : condemned[s] \subseteq serving[s]
  BY DEF TInv, ClustersOK
<1> DEFINE Kept == \A t \in Side : \A q \in Wanted(t) : q \in Accounted(t) => q \in Accounted(t)'
<1>2. \A t \in Side : Wanted(t) \subseteq Pod
  BY DEF Wanted, PodsOf
<1>3. UNCHANGED <<deployments, migration, crossed>>
  BY DEF PodDies, Kubelet, Heartbeat, HeartbeatFails, LateHeartbeat, StopPod, StartPod, commands,
         history
<1>4. ASSUME UNCHANGED rows, \A s \in Side : Accounted(s) \subseteq Accounted(s)'
      PROVE  Truthful' /\ Kept
  BY <1>4 DEF Truthful
<1>5. ASSUME NEW side \in Side, NEW p, NEW running, 
             rows' = [rows EXCEPT ![side] = Rebuilt(side, p, running)],
             \A s \in Side \ {side} : Accounted(s) \subseteq Accounted(s)',
             \A q \in Wanted(side) : q \in Accounted(side) => q \in Accounted(side)',
             p \in Wanted(side) /\ running => p \in Accounted(side)'
      PROVE  Truthful' /\ Kept
  <2>1. /\ \A s \in Side \ {side} : rows'[s] = rows[s]
        /\ rows'[side] = Rebuilt(side, p, running)
    BY <1>1, <1>5
  <2>2. ASSUME NEW q \in DOMAIN rows'[side], rows'[side][q] = "Running"
        PROVE  q \in Accounted(side)'
    <3>1. q \in Wanted(side)
      BY <2>1, <2>2 DEF Rebuilt
    <3>2. CASE q = p
      <4>1. running
        BY <2>1, <2>2, <3>1, <3>2 DEF Rebuilt
      <4> QED
        BY <1>5, <3>1, <3>2, <4>1
    <3>3. CASE q # p
      <4>1. q \in DOMAIN rows[side] /\ rows[side][q] = "Running"
        BY <2>1, <2>2, <3>1, <3>3 DEF Rebuilt
      <4> QED
        BY <1>5, <3>1, <4>1 DEF Truthful
    <3> QED
      BY <3>2, <3>3
  <2>3. ASSUME NEW s \in Side, NEW q \in DOMAIN rows'[s], rows'[s][q] = "Running"
        PROVE  q \in Accounted(s)'
    <3>1. CASE s = side
      BY <2>2, <2>3, <3>1
    <3>2. CASE s # side
      BY <1>5, <2>1, <2>3, <3>2 DEF Truthful
    <3> QED
      BY <3>1, <3>2
  <2> QED
    BY <1>5, <2>3 DEF Truthful
<1>6. ASSUME NEW side \in Side, NEW p \in Pod, Heartbeat(side, p) PROVE Truthful' /\ Kept
  <2>1. /\ \A s \in Side \ {side} : Runs(s)' = Runs(s)
        /\ Runs(side)' = Runs(side) \ Undesired(side, p)
        /\ gaps' = GapsKept(side)
        /\ rows' = [rows EXCEPT ![side] = Rebuilt(side, p, p \in Runs(side))]
    BY <1>1, <1>6 DEF Heartbeat, Runs
  <2>2. \A q \in Wanted(side) : q \notin Undesired(side, p)
    BY DEF Undesired
  <2>3. \A s \in Side \ {side} : Accounted(s) \subseteq Accounted(s)'
    BY <2>1 DEF Accounted, GapsKept
  <2>4. \A q \in Wanted(side) : q \in Accounted(side) => q \in Accounted(side)'
    BY <2>1, <2>2 DEF Accounted, GapsKept
  <2>5. p \in Wanted(side) /\ p \in Runs(side) => p \in Accounted(side)'
    BY <2>1, <2>2 DEF Accounted
  <2> QED
    BY <1>5, <2>1, <2>3, <2>4, <2>5
<1>7. ASSUME NEW side \in Side, NEW p \in Pod, NEW running \in BOOLEAN,
             LateHeartbeat(side, p, running)
      PROVE  Truthful' /\ Kept
  <2>1. /\ \A s \in Side : Runs(s)' = Runs(s)
        /\ gaps' = GapsKept(side) \cup
                       {g \in {<<side, p>>} : running /\ p \in Wanted(side) \ Runs(side)}
        /\ rows' = [rows EXCEPT ![side] = Rebuilt(side, p, running)]
    BY <1>1, <1>7 DEF LateHeartbeat, Runs
  <2>2. \A s \in Side \ {side} : Accounted(s) \subseteq Accounted(s)'
    BY <2>1 DEF Accounted, GapsKept
  <2>3. \A q \in Wanted(side) : q \in Accounted(side) => q \in Accounted(side)'
    BY <2>1 DEF Accounted, GapsKept
  <2>4. p \in Wanted(side) /\ running => p \in Accounted(side)'
    BY <2>1 DEF Accounted
  <2> QED
    BY <1>5, <2>1, <2>2, <2>3, <2>4
<1>8. ASSUME NEW side \in Side, NEW p \in Pod, HeartbeatFails(side, p) PROVE Truthful' /\ Kept
  <2>1. /\ \A s \in Side \ {side} : Runs(s)' = Runs(s)
        /\ Runs(side)' = Runs(side) \ {p} /\ (p \in Runs(side) => <<side, p>> \in gaps')
        /\ gaps \subseteq gaps' /\ rows' = rows
    BY <1>1, <1>8 DEF HeartbeatFails, Runs
  <2> QED
    BY <1>4, <2>1 DEF Accounted
<1>9. ASSUME NEW side \in Side, NEW p \in Pod, StopPod(side, p) PROVE Truthful' /\ Kept
  <2>1. (\A s \in Side : Runs(s)' = Runs(s)) /\ gaps' = gaps /\ rows' = rows
    BY <1>1, <1>9 DEF StopPod, Runs, history
  <2> QED
    BY <1>4, <2>1 DEF Accounted
<1>10. ASSUME NEW side \in Side, NEW p \in Pod, StartPod(side, p) PROVE Truthful' /\ Kept
  <2>1. /\ \A s \in Side \ {side} : Runs(s)' = Runs(s)
        /\ Runs(side)' = Runs(side) \cup {p}
        /\ gaps' = gaps \ {<<side, p>>} /\ rows' = rows
    BY <1>1, <1>10 DEF StartPod, Runs
  <2> QED
    BY <1>4, <2>1 DEF Accounted
<1>11. CASE PodDies
  <2>0. PICK side \in Side : \E p \in serving[side] :
            /\ serving' = [serving EXCEPT ![side] = @ \ {p}]
            /\ condemned' = [condemned EXCEPT ![side] = @ \ {p}]
            /\ gaps' = gaps \cup {<<side, p>>}
    BY <1>11 DEF PodDies
  <2>1. PICK p \in serving[side] :
            /\ serving' = [serving EXCEPT ![side] = @ \ {p}]
            /\ condemned' = [condemned EXCEPT ![side] = @ \ {p}]
            /\ gaps' = gaps \cup {<<side, p>>}
    BY <2>0
  <2>2. /\ \A s \in Side \ {side} : Runs(s)' = Runs(s)
        /\ Runs(side)' = Runs(side) \ {p} /\ p \in Pod
    BY <1>1, <2>1 DEF Runs
  <2> QED
    <3>1. rows' = rows
      BY <1>11 DEF PodDies
    <3>2. \A s \in Side : Accounted(s) \subseteq Accounted(s)'
      BY <2>1, <2>2 DEF Accounted
    <3> QED
      BY <1>3, <1>4, <3>1, <3>2
<1> QED
  BY <1>3, <1>6, <1>7, <1>8, <1>9, <1>10, <1>11 DEF Kubelet

\* Other steps leave rows and containers alone; a name that is on stays on where it stays
\* listed.
LEMMA StillOn ==
    ASSUME Truthful, UNCHANGED cluster, gaps \subseteq gaps'
    PROVE  /\ Truthful'
           /\ \A t \in Side : Accounted(t) \subseteq Accounted(t)'
           /\ \A t \in Side : \A n : On(t, n) /\ n \in DOMAIN deployments'[t] => On(t, n)'
<1>1. \A t \in Side : Accounted(t) \subseteq Accounted(t)'
  BY DEF Accounted, Runs, cluster
<1> QED
  BY <1>1 DEF Truthful, On, cluster

\* The step that takes a name off one side does so when it is on at the other.
LEMMA TakenWhenOn ==
    ASSUME TInv, SizesAgree, NEW i \in Migrator, MigrateDelete(i) \/ MigrateRemove(i),
           Sent(i), Seen(i), NEW n, n = migration[i].name
    PROVE  /\ \E there \in Side : On(there, n)'
           /\ \A t \in Side : \A m \in DOMAIN deployments[t] : m # n => m \in DOMAIN deployments'[t]
<1>0. PICK src, dst : src = migration[i].src /\ dst = migration[i].dst
  OBVIOUS
<1>1. src \in Side /\ dst \in Side /\ src # dst
  BY <1>0 DEF MigrateDelete, MigrateRemove, TInv, CommandsOK, MigrationOK
<1>2. \A s \in Side : Accounted(s) \subseteq Accounted(s)' /\ Runs(s)' = Runs(s)
  BY DEF MigrateDelete, MigrateRemove, Rest, Accounted, Runs, cluster
<1>3. ASSUME NEW s \in Side, n \in DOMAIN deployments[s], n \in DOMAIN deployments'[s],
             \A g \in Unserved(s, n) : g \in gaps'
      PROVE  On(s, n)'
  <2>1. ASSUME NEW r \in 1..Replicas(n) PROVE <<n, r>> \in Accounted(s)'
    <3>0. <<n, r>> \in Wanted(s) /\ <<n, r>> \in Pod
      BY <1>3, <2>1, WantedPods
    <3>1. PICK q : q = <<n, r>> /\ q \in Wanted(s) /\ q \in Pod /\ q[1] = n
      BY <3>0
    <3>2. CASE q \in Runs(s)
      BY <1>2, <3>1, <3>2 DEF Accounted
    <3>3. CASE q \notin Runs(s)
      <4>1. <<s, q>> \in gaps'
        BY <1>3, <3>1, <3>3 DEF Unserved
      <4> QED
        BY <3>1, <4>1 DEF Accounted
    <3> QED
      BY <3>1, <3>2, <3>3
  <2> QED
    BY <1>3, <2>1 DEF On
<1>4. CASE MigrateDelete(i)
  <2>1. n \in DOMAIN deployments[dst] /\ n \in DOMAIN deployments'[dst]
    BY <1>0, <1>1, <1>4, Writing DEF MigrateDelete, Sent
  <2>2. On(dst, n)'
    <3>1. CASE migration[i].wait
      <4>1. On(dst, n)
        BY <1>0, <1>4, <3>1 DEF MigrateDelete, Seen
      <4> QED
        BY <1>1, <1>2, <2>1, <4>1 DEF On
    <3>2. CASE ~migration[i].wait
      BY <1>0, <1>1, <1>3, <1>4, <2>1, <3>2 DEF MigrateDelete
    <3> QED
      BY <3>1, <3>2
  <2>3. \A t \in Side : \A m \in DOMAIN deployments[t] : m # n => m \in DOMAIN deployments'[t]
    BY <1>4, Writing
  <2> QED
    BY <1>1, <2>2, <2>3
<1>5. CASE MigrateRemove(i)
  <2>1. n \in DOMAIN deployments[src] /\ n \in DOMAIN deployments'[src]
    BY <1>0, <1>1, <1>5, Writing DEF MigrateRemove, Sent
  <2>2. On(src, n)'
    BY <1>0, <1>1, <1>3, <1>5, <2>1 DEF MigrateRemove
  <2>3. \A t \in Side : \A m \in DOMAIN deployments[t] : m # n => m \in DOMAIN deployments'[t]
    BY <1>5, Writing
  <2> QED
    BY <1>1, <2>2, <2>3
<1> QED
  BY <1>4, <1>5

\* Every step keeps the names on somewhere.
LEMMA HandoverKept ==
    ASSUME Verbs \subseteq {"push"}, TInv, Housed, HandoverInv, [Next]_vars
    PROVE  HandoverInv'
<1>1. SizesAgree /\ SizesAgree' /\ Truthful
  BY SizesKept DEF HandoverInv
<1>2. "rename" \notin Verbs
  OBVIOUS
<1>3. crossed => crossed'
  BY <1>2, Starting, Moving, Others
<1>4. ASSUME ~crossed
      PROVE  AllOn /\ Apart /\ \A i \in Migrator : Seen(i) /\ Sent(i)
  BY <1>4 DEF HandoverInv, Housed
<1>5. \A i \in Migrator : migration[i].pc # "idle" => migration[i].dst \in Side
  BY DEF TInv, CommandsOK, MigrationOK
<1> DEFINE Goal == Truthful' /\ (~crossed' => AllOn' /\ \A i \in Migrator : Seen(i)')
           Kept == \A t \in Side : DOMAIN deployments[t] \subseteq DOMAIN deployments'[t]
           StaysOn == \A t \in Side : \A n : On(t, n) => On(t, n)'
<1>6. StaysOn /\ ~crossed' => AllOn'
  BY <1>3, <1>4 DEF AllOn
<1>7. ASSUME StaysOn, ~crossed', NEW j \in Migrator, migration'[j] = migration[j]
      PROVE  Seen(j)'
  BY <1>3, <1>4, <1>5, <1>7 DEF Seen
<1>8. ASSUME PodDies \/ \E side \in Side, p \in Pod : Kubelet(side, p) PROVE Goal
  <2>1. /\ Truthful' /\ UNCHANGED <<deployments, migration, crossed>>
        /\ \A t \in Side : \A q \in Wanted(t) : q \in Accounted(t) => q \in Accounted(t)'
    BY <1>1, <1>8, ClusterKeeps
  <2>2. StaysOn
    <3>1. ASSUME NEW t \in Side, NEW n, On(t, n) PROVE On(t, n)'
      <4>1. n \in DOMAIN deployments[t]
        BY <3>1 DEF On
      <4> QED
        BY <1>1, <2>1, <3>1, <4>1, WantedPods DEF On
    <3> QED
      BY <3>1
  <2> QED
    BY <1>6, <1>7, <2>1, <2>2
<1>9. UNCHANGED cluster /\ gaps \subseteq gaps' /\ Kept => Truthful' /\ StaysOn
  BY <1>1, StillOn DEF On
<1>10. ASSUME ~ \E i \in Migrator : MigrateRead(i) \/ Migrate(i) \/ MigrateCrash(i),
              ~ (PodDies \/ \E side \in Side, p \in Pod : Kubelet(side, p))
       PROVE  Goal
  <2>1. Kept /\ migration' = migration
    BY <1>2, <1>10, Others
  <2>2. UNCHANGED cluster /\ gaps' = gaps
    BY <1>10 DEF Next, Sync, SyncReadLocal, SyncReadPeer, SyncToLocal, SyncToPeer, SyncCrash,
       PushRead, StretchRead, Begin, Order, OrderToLocal, OrderToPeer, OrderCrash, Crash, Apply,
       Rename, vars, history
  <2> QED
    BY <1>6, <1>7, <1>9, <2>1, <2>2
<1>11. ASSUME NEW i \in Migrator, MigrateRead(i) PROVE Goal
  <2>1. Truthful' /\ StaysOn
    BY <1>9, <1>11, Starting
  <2>2. Seen(i)'
    BY <1>11, Starting DEF Seen
  <2> QED
    BY <1>6, <1>7, <1>11, <2>1, <2>2, Starting
<1>12. ASSUME NEW i \in Migrator, Migrate(i) \/ MigrateCrash(i),
              ~MigrateDelete(i), ~MigrateRemove(i)
       PROVE  Goal
  <2>1. UNCHANGED cluster /\ gaps' = gaps
    BY <1>12 DEF Migrate, MigrateApply, MigrateReady, MigrateTimeout, MigrateDegraded,
                 MigrateDone, MigrateRestore, MigrateCrash, Crash, Rest, history
  <2>2. Kept
    BY <1>12, Writing DEF Migrate, MigrateApply, MigrateReady, MigrateTimeout, MigrateDegraded,
                 MigrateDone, MigrateRestore, MigrateCrash, Crash
  <2>3. Truthful' /\ StaysOn
    BY <1>9, <2>1, <2>2
  <2>4. ASSUME ~crossed' PROVE Seen(i)'
    <3>1. CASE MigrateApply(i)
      <4>1. migration'[i].pc = (IF migration[i].wait THEN "wait" ELSE "delete")
        BY <3>1, MovedTo DEF MigrateApply
      <4> QED
        BY <3>1, <4>1, Moving DEF Seen, Migrate
    <3>2. CASE MigrateReady(i)
      <4>0. PICK n, dst : n = migration[i].name /\ dst = migration[i].dst
        OBVIOUS
      <4>1. /\ migration[i].pc = "wait" /\ dst \in Side
            /\ Ready(dst, n) >= Replicas(n)
        BY <1>1, <1>5, <3>2, <4>0 DEF MigrateReady, SizesAgree
      <4>2. n \in DOMAIN deployments[dst]
        BY <1>3, <1>4, <2>4, <4>0, <4>1 DEF Sent
      <4>3. On(dst, n)
        BY <1>1, <4>1, <4>2, ReadyIsOn
      <4>4. On(dst, n)'
        BY <2>3, <4>1, <4>3
      <4>5. migration'[i].pc = "delete" => migration'[i].name = n /\ migration'[i].dst = dst
        BY <1>12, <4>0, Moving
      <4> QED
        BY <4>4, <4>5 DEF Seen
    <3>3. CASE ~MigrateApply(i) /\ ~MigrateReady(i)
      <4>1. migration'[i].pc # "delete"
        BY <1>12, <3>3, MovedTo, Ended DEF Migrate, MigrateTimeout, MigrateDegraded, MigrateDone,
           MigrateRestore, MigrateCrash
      <4> QED
        BY <4>1 DEF Seen
    <3> QED
      BY <3>1, <3>2, <3>3
  <2> QED
    BY <1>6, <1>7, <1>12, <2>3, <2>4, Moving
<1>13. ASSUME NEW i \in Migrator, MigrateDelete(i) \/ MigrateRemove(i) PROVE Goal
  <2>1. Migrate(i)
    BY <1>13 DEF Migrate
  <2>2. gaps \subseteq gaps' /\ UNCHANGED cluster
    BY <1>13 DEF MigrateDelete, MigrateRemove, Rest, cluster
  <2>3. /\ Truthful'
        /\ \A t \in Side : \A n : On(t, n) /\ n \in DOMAIN deployments'[t] => On(t, n)'
    BY <1>1, <2>2, StillOn
  <2>4. ASSUME ~crossed' PROVE AllOn' /\ \A j \in Migrator : Seen(j)'
    <3>0. PICK gone : gone = migration[i].name
      OBVIOUS
    <3>1. /\ \E there \in Side : On(there, gone)'
          /\ \A t \in Side : \A n \in DOMAIN deployments[t] :
                 n # gone => n \in DOMAIN deployments'[t]
      BY <1>1, <1>3, <1>4, <1>13, <2>4, <3>0, TakenWhenOn
    <3>2. \A t \in Side : \A n : On(t, n) /\ n # gone => On(t, n)'
      BY <2>3, <3>1 DEF On
    <3>3. AllOn'
      <4> SUFFICES ASSUME NEW s \in Side, NEW n \in DOMAIN Initial[s]
                   PROVE  \E t \in Side : On(t, n)'
        BY DEF AllOn
      <4>1. PICK t \in Side : On(t, n)
        BY <1>3, <1>4, <2>4 DEF AllOn
      <4>2. CASE n = gone
        BY <3>1, <4>2
      <4>3. CASE n # gone
        BY <3>2, <4>1, <4>3
      <4> QED
        BY <4>2, <4>3
    <3>4. ASSUME NEW j \in Migrator, j # i PROVE Seen(j)'
      <4>1. migration'[j] = migration[j] /\ migration[i].pc # "idle" /\ Seen(j)
        BY <1>3, <1>4, <2>1, <2>4, <3>4, Moving
      <4>2. migration[j].pc # "idle" => migration[j].name # gone
        BY <1>3, <1>4, <2>4, <3>0, <3>4, <4>1 DEF Apart
      <4> QED
        BY <1>5, <3>2, <4>1, <4>2 DEF Seen
    <3>5. Seen(i)'
      <4>1. migration'[i].pc # "delete"
        BY <1>13, Ended, MovedTo DEF MigrateDelete, MigrateRemove
      <4> QED
        BY <4>1 DEF Seen
    <3> QED
      BY <3>3, <3>4, <3>5
  <2> QED
    BY <2>3, <2>4
<1> HIDE DEF Kept, StaysOn
<1>14. Goal
  BY <1>8, <1>10, <1>11, <1>12, <1>13
<1> QED
  BY <1>1, <1>14 DEF HandoverInv

\* Make before break: as long as no two migrates of one deployment overlap, each replica of
\* a deployment runs somewhere, unless its container died, its kubelet's heartbeat failed,
\* or a migrate that does not wait or a rollback moved it, and it has not been started
\* again: with migrates back and forth, the sync daemon and pushes at work, wherever they
\* die or time out, however late a heartbeat arrives.  Nobody scales, renames or stretches.
THEOREM NoDowntimeHolds ==
    ASSUME Verbs \subseteq {"push"}, OneSize
    PROVE  Spec => []NoDowntime
<1>0. "rename" \notin Verbs
  OBVIOUS
<1>1. Init => Housed /\ HandoverInv
  <2> SUFFICES ASSUME Init PROVE Housed /\ HandoverInv
    OBVIOUS
  <2>1. /\ deployments = Initial /\ serving = [s \in Side |-> PodsOf(Initial[s])]
        /\ rows = [s \in Side |-> [p \in PodsOf(Initial[s]) |-> "Running"]]
        /\ condemned = [s \in Side |-> {}] /\ sync = NotSyncing
        /\ \A i \in Migrator : migration[i].pc = "idle"
        /\ \A i \in Operator : order[i] = NoOrder
    BY DEF Init, NotMigrating
  <2>2. \A s \in Side : Agrees(Initial[s])
    BY InitialSizes
  <2>3. \A s \in Side : \A p \in PodsOf(Initial[s]) : p[2] <= Replicas(p[1])
    BY <2>2 DEF PodsOf, Agrees
  <2>4. SizesAgree
    <3>1. Agrees(NoOrder.toLocal) /\ Agrees(NoOrder.toPeer)
      BY TabsAgree DEF NoOrder
    <3>2. Agrees(sync.tab) /\ Agrees(sync.toLocal) /\ Agrees(sync.toPeer)
      BY <2>1, TabsAgree DEF NotSyncing
    <3> QED
      BY <2>1, <2>2, <2>3, <3>1, <3>2 DEF SizesAgree
  <2>5. \A s \in Side : PodsOf(Initial[s]) \subseteq Accounted(s)
    BY <2>1 DEF Accounted, Runs
  <2>6. Truthful
    BY <2>1, <2>5 DEF Truthful
  <2>7. ASSUME NEW s \in Side, NEW n \in DOMAIN Initial[s] PROVE On(s, n)
    <3>1. n \in Name /\ Initial[s][n] = Replicas(n) /\ Replicas(n) \in 0..MaxReplicas
      BY <2>2, InitialAssumption DEF Agrees, IsTab
    <3>2. \A r \in 1..Replicas(n) : <<n, r>> \in PodsOf(Initial[s])
      BY <3>1, InitialAssumption DEF PodsOf, Pod
    <3> QED
      BY <2>1, <2>5, <3>2 DEF On
  <2>8. AllOn /\ \A i \in Migrator : Seen(i)
    BY <2>1, <2>7 DEF AllOn, Seen
  <2>9. Homes
    BY <2>1 DEF Homes
  <2> QED
    BY <2>1, <2>4, <2>6, <2>8, <2>9 DEF HandoverInv, Housed, Apart, Sent
<1>2. TInv /\ Housed /\ HandoverInv /\ [Next]_vars => Housed' /\ HandoverInv'
  BY <1>0, HousedPreserved, HandoverKept
<1>3. TInv /\ HandoverInv => NoDowntime
  <2> SUFFICES ASSUME TInv, HandoverInv, ~crossed, NEW s \in Side, NEW n \in DOMAIN Initial[s],
                      NEW r \in 1..Initial[s][n]
               PROVE  \E t \in Side : \/ <<n, r>> \in serving[t]
                                     \/ (<<n, r>> \in Wanted(t) /\ <<t, <<n, r>>>> \in gaps)
    BY DEF NoDowntime
  <2>1. PICK t \in Side : On(t, n)
    BY DEF HandoverInv, AllOn
  <2>2. n \in DOMAIN deployments[t] /\ Initial[s][n] = Replicas(n)
    BY <2>1, InitialSizes DEF On, Agrees
  <2>3. <<n, r>> \in Wanted(t) /\ <<n, r>> \in Accounted(t)
    BY <2>1, <2>2, WantedPods DEF On, HandoverInv
  <2> QED
    BY <2>3 DEF Accounted, Runs
<1> QED
  BY <1>1, <1>2, <1>3, TypesHold, PTL DEF Spec
=============================================================================
