------------------------------- MODULE Bridge -------------------------------
(***************************************************************************)
(* Two clusters and the commands of bridge.py that act on both: migrate    *)
(* moves a deployment from one to the other, sync copies to each what it   *)
(* lacks of the other, status --push copies one tab into the other, and    *)
(* stretch splits a deployment over both.  Every get and every post is a   *)
(* step of its own, so operators, kubelets and the other commands may act  *)
(* between them, and the process may die between any two of them.  Each    *)
(* command is a process of its own and takes no lock: migrates, pushes and *)
(* stretches overlap as they please, and a command whose process gave up   *)
(* on a request still counts as in progress until the request takes effect.*)
(* One sync daemon runs.                                                   *)
(*                                                                         *)
(* A cluster is abstracted to its Deployments tab, its Pods tab and its    *)
(* containers: a heartbeat rewrites the Pods tab from the Deployments tab  *)
(* and from what one kubelet runs (apiserver.py); that kubelet then stops  *)
(* what it was told to and starts what is missing (kubelet.sh), or, when   *)
(* its heartbeat fails, stops everything.  Apply and delete touch the      *)
(* Deployments tab only.  Module Cluster has the detail.                   *)
(***************************************************************************)
EXTENDS Naturals, FiniteSets

CONSTANTS
    Side,           \* the two clusters
    Name,           \* deployment names
    Initial,        \* per side, the Deployments tab at the start: name -> replicas
    MaxReplicas,    \* bound: replicas of a deployment
    Waiting,        \* the values of "not --skip-wait" in use
    Watching,       \* the values of "--rollback-window is positive" in use
    Syncing,        \* whether a sync daemon (--interval) runs
    Verbs,          \* operator commands in use
    MaxOps,         \* bound: operator commands
    MaxMigrations,  \* bound: migrate commands
    Faults,         \* the faults in use
    MaxFaults       \* bound: faults

VARIABLES
    deployments,    \* per side, the Deployments tab: name -> replicas
    rows,           \* per side, the Pods tab: pod -> phase
    serving,        \* per side, the containers that run
    condemned,      \* per side, the containers a kubelet has been told to stop
    late,           \* heartbeats given up on that may yet arrive: side, pod, is it running
    migration,      \* the migrate commands
    sync,           \* the sync daemon
    order,          \* the pushes and stretches: what each has still to apply
    used,           \* the bounds used up
    gaps,           \* history: per side, the pods that something other than a migrate that
                    \* waits took down, until they are started again
    crossed         \* history: whether two migrates of one deployment overlapped

cluster == <<rows, serving, condemned, late>>
commands == <<migration, sync, order>>
history == <<gaps, crossed>>
vars == <<deployments, cluster, commands, used, history>>

Migrator == 1..MaxMigrations
Operator == 1..MaxOps

Pod == Name \X (1..MaxReplicas)
PodsOf(tab) == {p \in Pod : p[1] \in DOMAIN tab /\ p[2] <= tab[p[1]]}
Wanted(side) == PodsOf(deployments[side])

\* A Deployments tab, or some rows of one.
IsTab(tab) == DOMAIN tab \subseteq Name /\ \A n \in DOMAIN tab : tab[n] \in 0..MaxReplicas

ASSUME InitialAssumption == /\ MaxReplicas \in Nat
                            /\ Initial = [s \in Side |-> Initial[s]]
                            /\ \A s \in Side : IsTab(Initial[s])
ASSUME BoundsAssumption == MaxMigrations \in Nat /\ MaxOps \in Nat
ASSUME WatchingAssumption == Watching \subseteq BOOLEAN
ASSUME SideAssumption == {"local", "peer"} \subseteq Side /\ IsFiniteSet(Side)

\* What an apply of some rows, or of one, and a delete do to a Deployments tab.
ApplyAll(sent, tab) ==
    [n \in DOMAIN tab \cup DOMAIN sent |-> IF n \in DOMAIN sent THEN sent[n] ELSE tab[n]]
Upsert(tab, name, replicas) == ApplyAll([n \in {name} |-> replicas], tab)
Drop(tab, name) == [x \in DOMAIN tab \ {name} |-> tab[x]]

NotMigrating == [pc |-> "idle", name |-> "", src |-> "", dst |-> "", replicas |-> 0,
                 wait |-> FALSE, watch |-> FALSE]
NotSyncing == [pc |-> "idle", tab |-> <<>>, toLocal |-> <<>>, toPeer |-> <<>>]
NoOrder == [pc |-> "idle", toLocal |-> <<>>, toPeer |-> <<>>]

Init ==
    /\ deployments = Initial
    /\ serving = [s \in Side |-> PodsOf(Initial[s])]
    /\ rows = [s \in Side |-> [p \in PodsOf(Initial[s]) |-> "Running"]]
    /\ condemned = [s \in Side |-> {}]
    /\ late = {}
    /\ migration = [i \in Migrator |-> NotMigrating]
    /\ sync = NotSyncing
    /\ order = [i \in Operator |-> NoOrder]
    /\ used = [ops |-> 0, migrations |-> 0, faults |-> 0]
    /\ gaps = {}
    /\ crossed = FALSE

\* A container dies, a heartbeat fails, or a bridge process dies.
Fault(kind) == /\ kind \in Faults /\ used.faults < MaxFaults
               /\ used' = [used EXCEPT !.faults = @ + 1]

-----------------------------------------------------------------------------
(* The clusters.                                                               *)

\* A plausible slip: only a scaled-down deployment's pods are stopped, not a deleted one's.
UndesiredOfKnown(side, p) ==
    {q \in ({p} \cap serving[side]) \ Wanted(side) : q[1] \in DOMAIN deployments[side]}

\* What the kubelet of p runs and the spreadsheet does not want.
Undesired(side, p) == ({p} \cap serving[side]) \ Wanted(side)

\* The Pods tab once the kubelet of pod p has reported whether p runs: the phase of p is
\* what the kubelet saw, the other rows keep theirs.
Rebuilt(side, p, running) ==
    [q \in Wanted(side) |->
        IF q = p THEN IF running THEN "Running" ELSE "Pending"
                 ELSE IF q \in DOMAIN rows[side] THEN rows[side][q] ELSE "Pending"]

Runs(side) == serving[side] \ condemned[side]

\* A rebuilt Pods tab has no rows of what the side does not want.
GapsKept(side) == {g \in gaps : g[1] = side => g[2] \in Wanted(side)}

Heartbeat(side, p) ==
    /\ rows' = [rows EXCEPT ![side] = Rebuilt(side, p, p \in Runs(side))]
    /\ condemned' = [condemned EXCEPT ![side] = @ \cup Undesired(side, p)]
    /\ gaps' = GapsKept(side)
    /\ UNCHANGED <<deployments, serving, late, commands, used, crossed>>

\* No answer: the kubelet falls back to an empty one and stops what it runs, while the Pods
\* tab keeps its rows and the request may still be on its way.
HeartbeatFails(side, p) ==
    /\ Fault("lost")
    /\ condemned' = [condemned EXCEPT ![side] = @ \cup ({p} \cap serving[side])]
    /\ late' = late \cup {<<side, p, p \in Runs(side)>>}
    /\ gaps' = gaps \cup ({side} \X ({p} \cap serving[side]))
    /\ UNCHANGED <<deployments, rows, serving, commands, crossed>>

\* A heartbeat the kubelet gave up on reaches the apiserver: nobody reads the answer.
LateHeartbeat(side, p, running) ==
    /\ <<side, p, running>> \in late
    /\ late' = late \ {<<side, p, running>>}
    /\ rows' = [rows EXCEPT ![side] = Rebuilt(side, p, running)]
    /\ gaps' = GapsKept(side) \cup
                   {g \in {<<side, p>>} : running /\ p \in Wanted(side) \ Runs(side)}
    /\ UNCHANGED <<deployments, serving, condemned, commands, used, crossed>>

\* A plausible slip: a stopped container stays on the list of those to stop.
StopPodForgetful(side, p) ==
    /\ p \in condemned[side]
    /\ serving' = [serving EXCEPT ![side] = @ \ {p}]
    /\ UNCHANGED <<deployments, rows, condemned, late, commands, used, history>>

StopPod(side, p) ==
    /\ p \in condemned[side]
    /\ serving' = [serving EXCEPT ![side] = @ \ {p}]
    /\ condemned' = [condemned EXCEPT ![side] = @ \ {p}]
    /\ UNCHANGED <<deployments, rows, late, commands, used, history>>

StartPod(side, p) ==
    /\ p \in DOMAIN rows[side] \ serving[side]
    /\ serving' = [serving EXCEPT ![side] = @ \cup {p}]
    /\ gaps' = gaps \ {<<side, p>>}
    /\ UNCHANGED <<deployments, rows, condemned, late, commands, used, crossed>>

Kubelet(side, p) == \/ Heartbeat(side, p) \/ HeartbeatFails(side, p)
                    \/ \E running \in BOOLEAN : LateHeartbeat(side, p, running)
                    \/ StopPod(side, p) \/ StartPod(side, p)

PodDies ==
    /\ Fault("death")
    /\ \E side \in Side : \E p \in serving[side] :
        /\ serving' = [serving EXCEPT ![side] = @ \ {p}]
        /\ condemned' = [condemned EXCEPT ![side] = @ \ {p}]
        /\ gaps' = gaps \cup {<<side, p>>}
    /\ UNCHANGED <<deployments, rows, late, commands, crossed>>

-----------------------------------------------------------------------------
(* Operators.  A rename is an edit of the name cell of a Deployments row.      *)

Command(verb) == /\ verb \in Verbs /\ used.ops < MaxOps
                 /\ used' = [used EXCEPT !.ops = @ + 1]

Apply ==
    /\ Command("apply")
    /\ \E side \in Side, n \in Name, r \in 0..MaxReplicas :
        deployments' = [deployments EXCEPT ![side] = Upsert(@, n, r)]
    /\ UNCHANGED <<cluster, commands, history>>

Rename ==
    /\ Command("rename")
    /\ \E side \in Side : \E old \in DOMAIN deployments[side], new \in Name :
        /\ new \notin DOMAIN deployments[side]
        /\ deployments' = [deployments EXCEPT ![side] =
                              Upsert(Drop(@, old), new, deployments[side][old])]
    /\ UNCHANGED <<cluster, commands, history>>

-----------------------------------------------------------------------------
(* migrate                                                                     *)

Goto(i, pc) == migration' = [migration EXCEPT ![i].pc = pc]
End(i) == migration' = [migration EXCEPT ![i] = NotMigrating]
Rest == UNCHANGED <<cluster, sync, order, used, crossed>>

\* A plausible slip: pods that are only Pending count.
ReadyIfListed(side, name) == Cardinality({p \in DOMAIN rows[side] : p[1] = name})

\* The rows of the deployment that are Running.
Ready(side, name) ==
    Cardinality({p \in DOMAIN rows[side] : p[1] = name /\ rows[side][p] = "Running"})

\* The replicas a side has of a deployment and does not run: a delete on the other side
\* that does not look opens a gap for each.
Unserved(side, name) == {side} \X ({p \in Wanted(side) : p[1] = name} \ Runs(side))

Move(name, src, dst, wait, watch) ==
    [pc |-> "apply", name |-> name, src |-> src, dst |-> dst, replicas |-> deployments[src][name],
     wait |-> wait /\ deployments[src][name] > 0, watch |-> watch]

\* Read the spec on the source; without one the command ends.
MigrateRead(i) ==
    /\ i = used.migrations + 1
    /\ \E src, dst \in Side, wait \in Waiting, watch \in Watching :
        \E name \in DOMAIN deployments[src] :
            /\ src # dst
            /\ migration' = [migration EXCEPT ![i] = Move(name, src, dst, wait, watch)]
            /\ crossed' = (crossed \/ \E j \in Migrator :
                               migration[j].pc # "idle" /\ migration[j].name = name)
    /\ used' = [used EXCEPT !.migrations = i]
    /\ UNCHANGED <<deployments, cluster, sync, order, gaps>>

MigrateApply(i) ==
    /\ migration[i].pc = "apply"
    /\ deployments' = [deployments EXCEPT ![migration[i].dst] =
                          Upsert(@, migration[i].name, migration[i].replicas)]
    /\ Goto(i, IF migration[i].wait THEN "wait" ELSE "delete")
    /\ UNCHANGED gaps /\ Rest

\* A poll of the target's pods that finds enough of them; one that does not, sleeps.
MigrateReady(i) ==
    /\ migration[i].pc = "wait"
    /\ Ready(migration[i].dst, migration[i].name) >= migration[i].replicas
    /\ Goto(i, "delete")
    /\ UNCHANGED <<deployments, gaps>> /\ Rest

\* The deadline passes: the source is left alone, and so is what is on the target.
MigrateTimeout(i) ==
    /\ migration[i].pc = "wait"
    /\ End(i)
    /\ UNCHANGED <<deployments, gaps>> /\ Rest

\* Only a migrate that waited, or has no replicas to wait for, has looked at the target.
MigrateDelete(i) ==
    /\ migration[i].pc = "delete"
    /\ deployments' = [deployments EXCEPT ![migration[i].src] = Drop(@, migration[i].name)]
    /\ gaps' = IF migration[i].wait THEN gaps
               ELSE gaps \cup Unserved(migration[i].dst, migration[i].name)
    /\ IF migration[i].watch /\ migration[i].wait THEN Goto(i, "watch") ELSE End(i)
    /\ Rest

MigrateDegraded(i) ==
    /\ migration[i].pc = "watch"
    /\ Ready(migration[i].dst, migration[i].name) < migration[i].replicas
    /\ Goto(i, "restore")
    /\ UNCHANGED <<deployments, gaps>> /\ Rest

\* The rollback window passes.
MigrateDone(i) ==
    /\ migration[i].pc = "watch"
    /\ End(i)
    /\ UNCHANGED <<deployments, gaps>> /\ Rest

\* A plausible slip: the rollback removes the target's copy before it restores the source's.
MigrateRestoreLast(i) ==
    /\ migration[i].pc = "restore"
    /\ deployments' = [deployments EXCEPT ![migration[i].dst] = Drop(@, migration[i].name)]
    /\ Goto(i, "remove")
    /\ UNCHANGED gaps /\ Rest

MigrateRestore(i) ==
    /\ migration[i].pc = "restore"
    /\ deployments' = [deployments EXCEPT ![migration[i].src] =
                          Upsert(@, migration[i].name, migration[i].replicas)]
    /\ Goto(i, "remove")
    /\ UNCHANGED gaps /\ Rest

\* A rollback does not wait for the source's replicas to be back.
MigrateRemove(i) ==
    /\ migration[i].pc = "remove"
    /\ deployments' = [deployments EXCEPT ![migration[i].dst] = Drop(@, migration[i].name)]
    /\ gaps' = gaps \cup Unserved(migration[i].src, migration[i].name)
    /\ End(i)
    /\ Rest

Migrate(i) == \/ MigrateApply(i) \/ MigrateReady(i) \/ MigrateTimeout(i) \/ MigrateDelete(i)
              \/ MigrateDegraded(i) \/ MigrateDone(i)
              \/ MigrateRestore(i) \/ MigrateRemove(i)

-----------------------------------------------------------------------------
(* sync                                                                        *)

\* A plausible slip: rows that differ count as missing, so each side overwrites the other.
MissingOrDifferent(from, to) ==
    [n \in {x \in DOMAIN from : x \notin DOMAIN to \/ from[x] # to[x]} |-> from[n]]

\* A plausible slip: the two directions are swapped, each side is sent what it has.
MissingSwapped(from, to) == [n \in DOMAIN to \ DOMAIN from |-> to[n]]

\* The rows of one tab whose name the other lacks.
Missing(from, to) == [n \in DOMAIN from \ DOMAIN to |-> from[n]]

SyncReadLocal ==
    /\ Syncing /\ sync.pc = "idle"
    /\ sync' = [sync EXCEPT !.pc = "peer", !.tab = deployments["local"]]
    /\ UNCHANGED <<deployments, cluster, migration, order, used, history>>

\* Read the peer and plan.
SyncReadPeer ==
    /\ sync.pc = "peer"
    /\ sync' = [pc |-> "toLocal", tab |-> <<>>,
                toLocal |-> Missing(deployments["peer"], sync.tab),
                toPeer |-> Missing(sync.tab, deployments["peer"])]
    /\ UNCHANGED <<deployments, cluster, migration, order, used, history>>

SyncToLocal ==
    /\ sync.pc = "toLocal"
    /\ deployments' = [deployments EXCEPT !["local"] = ApplyAll(sync.toLocal, @)]
    /\ sync' = [sync EXCEPT !.pc = "toPeer", !.toLocal = <<>>]
    /\ UNCHANGED <<cluster, migration, order, used, history>>

SyncToPeer ==
    /\ sync.pc = "toPeer"
    /\ deployments' = [deployments EXCEPT !["peer"] = ApplyAll(sync.toPeer, @)]
    /\ sync' = NotSyncing
    /\ UNCHANGED <<cluster, migration, order, used, history>>

Sync == SyncReadLocal \/ SyncReadPeer \/ SyncToLocal \/ SyncToPeer

-----------------------------------------------------------------------------
(* status --push and stretch                                                   *)

Begin(task) == /\ order' = [order EXCEPT ![used.ops + 1] = task]
               /\ UNCHANGED <<deployments, cluster, migration, sync, history>>

\* Read the local tab, all of which is going to be applied to the peer.
PushRead ==
    /\ Command("push")
    /\ DOMAIN deployments["local"] # {}
    /\ Begin([pc |-> "toPeer", toLocal |-> <<>>, toPeer |-> deployments["local"]])

\* Read both Nodes tabs: what fits the free cpu stays, the peer gets the rest.
StretchRead ==
    /\ Command("stretch")
    /\ \E n \in Name, replicas \in 0..MaxReplicas : \E fit \in 0..replicas :
        Begin([pc |-> "toLocal", toLocal |-> [x \in {n} |-> fit],
                                 toPeer |-> [x \in {n} |-> replicas - fit]])

OrderToLocal(i) ==
    /\ order[i].pc = "toLocal"
    /\ deployments' = [deployments EXCEPT !["local"] = ApplyAll(order[i].toLocal, @)]
    /\ order' = [order EXCEPT ![i] =
                    [pc |-> "toPeer", toLocal |-> <<>>, toPeer |-> order[i].toPeer]]
    /\ UNCHANGED <<cluster, migration, sync, used, history>>

OrderToPeer(i) ==
    /\ order[i].pc = "toPeer"
    /\ deployments' = [deployments EXCEPT !["peer"] = ApplyAll(order[i].toPeer, @)]
    /\ order' = [order EXCEPT ![i] = NoOrder]
    /\ UNCHANGED <<cluster, migration, sync, used, history>>

Order(i) == OrderToLocal(i) \/ OrderToPeer(i)

\* A bridge process dies, or one of its requests fails and it exits: main() catches the
\* error outside the daemon's loop, so a sync daemon is not running afterwards.
Crash == /\ Fault("crash")
         /\ UNCHANGED <<deployments, cluster, history>>

MigrateCrash(i) ==
    /\ migration[i].pc # "idle"
    /\ End(i)
    /\ Crash /\ UNCHANGED <<sync, order>>

SyncCrash ==
    /\ sync.pc \notin {"idle", "dead"}
    /\ sync' = [NotSyncing EXCEPT !.pc = "dead"]
    /\ Crash /\ UNCHANGED <<migration, order>>

OrderCrash(i) ==
    /\ order[i].pc # "idle"
    /\ order' = [order EXCEPT ![i] = NoOrder]
    /\ Crash /\ UNCHANGED <<migration, sync>>

Next == \/ \E side \in Side, p \in Pod : Kubelet(side, p)
        \/ PodDies \/ Apply \/ Rename
        \/ \E i \in Migrator : MigrateRead(i) \/ Migrate(i) \/ MigrateCrash(i)
        \/ Sync \/ SyncCrash
        \/ PushRead \/ StretchRead
        \/ \E i \in Operator : Order(i) \/ OrderCrash(i)

Spec == Init /\ [][Next]_vars

\* A started command goes on, its waiting bounded by its deadlines; the sync daemon loops
\* until it dies; every kubelet keeps heartbeating, and is answered, and follows its orders.
FairSpec ==
    /\ Spec
    /\ WF_vars(Sync)
    /\ \A i \in Migrator : WF_vars(Migrate(i))
    /\ \A i \in Operator : WF_vars(Order(i))
    /\ \A side \in Side, p \in Pod :
        /\ WF_vars(Heartbeat(side, p)) /\ WF_vars(StopPod(side, p)) /\ WF_vars(StartPod(side, p))

-----------------------------------------------------------------------------
(* Properties.                                                                 *)

\* Tabs, containers and commands in progress are well-formed.
TypeOK ==
    /\ \A s \in Side :
        /\ IsTab(deployments[s])
        /\ DOMAIN rows[s] \subseteq Pod
        /\ \A p \in DOMAIN rows[s] : rows[s][p] \in {"Running", "Pending"}
        /\ serving[s] \subseteq Pod /\ condemned[s] \subseteq serving[s]
    /\ late \subseteq Side \X Pod \X BOOLEAN /\ gaps \subseteq Side \X Pod
    /\ \A i \in Migrator :
        /\ migration[i].pc \in {"idle", "apply", "wait", "delete", "watch", "restore", "remove"}
        /\ migration[i].pc # "idle" => migration[i].src # migration[i].dst
    /\ sync.pc \in {"idle", "peer", "toLocal", "toPeer", "dead"}
    /\ IsTab(sync.tab) /\ IsTab(sync.toLocal) /\ IsTab(sync.toPeer)
    /\ \A i \in Operator :
        /\ order[i].pc \in {"idle", "toLocal", "toPeer"}
        /\ IsTab(order[i].toLocal) /\ IsTab(order[i].toPeer)

\* As long as no two migrates of one deployment overlap, and wherever a migrate dies, rolls
\* back or times out, a deployment nobody deletes is in the spreadsheet of some cluster.
\* (Two opposite migrates of one deployment can delete it on both sides: neither takes a
\* lock, and each finds the other's source Running.)
NeverHomeless == ~crossed => \A s \in Side : \A n \in DOMAIN Initial[s] :
    \E t \in Side : n \in DOMAIN deployments[t]

\* "Make-before-break, zero downtime": as long as no two migrates of one deployment
\* overlap, each replica of a deployment has a container on some side, or a side that
\* wants it lost its container otherwise and has not started it again: the container died,
\* its kubelet's heartbeat failed, an operator told migrate not to wait, or a rollback
\* left the target before the source was back.  A migrate that waits opens no gap itself.
NoDowntime == ~crossed =>
    \A s \in Side : \A n \in DOMAIN Initial[s] : \A r \in 1..Initial[s][n] :
        \E t \in Side : \/ <<n, r>> \in serving[t]
                         \/ (<<n, r>> \in Wanted(t) /\ <<t, <<n, r>>>> \in gaps)

\* Once the commands are over, every cluster runs what its own spreadsheet says: a
\* migrated deployment's old containers do go away.
Settles == <>[](\A s \in Side : serving[s] = Wanted(s) /\ DOMAIN rows[s] = Wanted(s))

\* A sync daemon that does not die ends with the same deployments on both sides, whatever
\* operators and migrates did meanwhile.
Federates == <>(sync.pc = "dead")
             \/ <>[](\A s, t \in Side : DOMAIN deployments[s] = DOMAIN deployments[t])

\* "never fights a rename or a scale": once operators and migrates are done, sync comes to
\* rest, even between sides that scale the same deployment differently.
SyncRests == <>[][deployments' = deployments]_vars

=============================================================================
