----------------------------- MODULE SheetGate -----------------------------
(***************************************************************************)
(* SheetGate: the Gateways and Routes tabs, the plan and the nginx         *)
(* configuration the apiserver computes from them on every heartbeat       *)
(* (sheetgate.py), and the kubelet that loads the configuration into the   *)
(* gateway pods (kubelet.sh) while nginx starts, pods exit and the tabs    *)
(* are edited.                                                             *)
(*                                                                         *)
(* The rendered text depends only on the set of attached routes: a         *)
(* configuration is that set, and its hash is itself.  nginx is external:  *)
(* it picks the server block of the most specific name and in it the       *)
(* location of the longest path.                                           *)
(***************************************************************************)
EXTENDS Naturals, SequencesExt

CONSTANTS
    Gateway, Route, Service,    \* names
    Every,          \* the blank gateway cell: all gateways
    Host,           \* host names requests come for
    Cell,           \* contents of host cells
    Blank,          \* the blank host cell
    Pattern,        \* per cell, the hosts it matches
    Refused,        \* cells the grammar allows and nginx -t refuses
    Path,           \* paths of routes and requests: sequences of segments
    RouteRow,       \* rows users write: name, gateway, host, path, service, valid
    Stock,          \* the configuration the image comes with
    Start,          \* the sheets a run starts with: gateway names and route rows
    MaxEvents       \* bound: edits of the tabs, gateway containers that exit by themselves

\* Of two cells that match one host, one is more specific: a name, then the longer wildcard,
\* then the blank cell.
ASSUME PatternAssumption ==
    /\ Blank \in Cell
    /\ Pattern \in [Cell -> SUBSET Host]
    /\ Pattern[Blank] = Host
    /\ \A c, d \in Cell : Pattern[c] \cap Pattern[d] # {} /\ c # d =>
           /\ Pattern[c] # Pattern[d]
           /\ Pattern[c] \subseteq Pattern[d] \/ Pattern[d] \subseteq Pattern[c]
ASSUME RowsAssumption ==
    /\ RouteRow \subseteq [name : Route, gateway : Gateway \cup {Every}, host : Cell,
                            path : Seq(STRING), service : Service, valid : BOOLEAN]
    /\ Path \subseteq Seq(STRING)
    /\ Start \subseteq [gateways : Seq(Gateway), routes : Seq(RouteRow)]

VARIABLES
    gateways,       \* the Gateways tab: a row (name, valid) and its status cell each
    routes,         \* the Routes tab: a RouteRow and its status cell each
    services,       \* names in the Deployments tab
    events,         \* how many of those there were
    kubelet,        \* pc, the gateway pods still to visit, and the orders in hand
    pod             \* per gateway, its container: nginx, conf, prev, applied, serves

vars == <<gateways, routes, services, events, kubelet, pod>>
tabs == <<gateways, routes, services>>

-----------------------------------------------------------------------------
(* Planning.                                                                   *)

Unset == <<"">>
Key(row) == <<row.host, row.path>>
Names(tab) == {tab[i].row.name : i \in DOMAIN tab}

\* The valid gateways, in row order (a name typed twice is there twice).
Planned ==
    LET names[i \in 0..Len(gateways)] ==
            IF i = 0 THEN <<>>
            ELSE IF gateways[i].row.valid THEN Append(names[i - 1], gateways[i].row.name)
            ELSE names[i - 1]
    IN names[Len(gateways)]
Targets(gws, row) == IF row.gateway = Every THEN gws ELSE <<row.gateway>>

\* A plausible slip: the later row takes the path over.
AttachLatest(attached, gs, row) ==
    [g \in DOMAIN attached |->
        IF g \in gs THEN {r \in attached[g] : Key(r) # Key(row)} \cup {row}
        ELSE attached[g]]

\* A row is attached to those of its gateways where its host and path are free.
Attach(attached, gs, row) ==
    [g \in DOMAIN attached |->
        IF g \in gs /\ \A r \in attached[g] : Key(r) # Key(row)
        THEN attached[g] \cup {row} ELSE attached[g]]

\* Who holds the key when the k-th target is claimed, the row itself if it came by before.
Holders(attached, targets, k, row) ==
    {r.name : r \in {q \in attached[targets[k]] : Key(q) = Key(row)}}
        \cup {row.name : j \in {i \in 1..k - 1 : targets[i] = targets[k]}}

As(acc, row, status) ==
    [r \in DOMAIN acc.status \cup {row.name} |-> IF r = row.name THEN status ELSE acc.status[r]]

PlanValid(gws, acc, row) ==
    LET targets == Targets(gws, row)
        lost == {k \in DOMAIN targets : Holders(acc.attached, targets, k, row) # {}}
        winner == CHOOSE w \in Holders(acc.attached, targets, Min(lost), row) : TRUE
    IN IF targets = <<>> \/ ToSet(targets) \ ToSet(gws) # {}
       THEN [acc EXCEPT !.status = As(acc, row, <<"NoSuchGateway">>)]
       ELSE [attached |-> Attach(acc.attached, ToSet(targets), row),
             status |-> As(acc, row, IF lost # {} THEN <<"Conflicted", winner>>
                                     ELSE IF row.service \in services THEN <<"Accepted">>
                                     ELSE <<"BackendNotFound">>)]

\* (Without the test, PlanValid in its place, a row typed in by hand would reach nginx.)
PlanRow(gws, acc, row) ==
    IF row.valid THEN PlanValid(gws, acc, row)
    ELSE [acc EXCEPT !.status = As(acc, row, <<"Invalid">>)]

\* The attached routes per gateway, and the status per route name.
Plan ==
    LET gws == Planned
        planned[i \in 0..Len(routes)] ==
            IF i = 0 THEN [attached |-> [g \in ToSet(gws) |-> {}], status |-> [r \in {} |-> Unset]]
            ELSE PlanRow(gws, planned[i - 1], routes[i].row)
    IN planned[Len(routes)]

Configs == Plan.attached

-----------------------------------------------------------------------------
(* What nginx makes of a configuration.                                        *)

\* A plausible slip: routes for any host are left out of the named servers.
ServerOwnOnly(config, cell) == {r \in config : r.host = cell}

\* The locations of a server block: its own, and those for any host it does not define.
Server(config, cell) ==
    LET own == {r \in config : r.host = cell}
    IN own \cup {r \in config : r.host = Blank /\ \A o \in own : o.path # r.path}

ServerName(config, host) ==
    CHOOSE cell \in {r.host : r \in config} \cup {Blank} :
        /\ host \in Pattern[cell]
        /\ \A r \in config : host \in Pattern[r.host] => Pattern[cell] \subseteq Pattern[r.host]

\* The routes among these of the longest path that is a prefix of the path asked for.
Longest(rows, path) ==
    {r \in rows : /\ IsPrefix(r.path, path)
                  /\ \A q \in rows : IsPrefix(q.path, path) => Len(q.path) <= Len(r.path)}

Answer(config, host, path) == Longest(Server(config, ServerName(config, host)), path)

Loadable(config) == config = Stock \/ \A r \in config : r.host \notin Refused

-----------------------------------------------------------------------------
(* The tabs.                                                                   *)

Event == events < MaxEvents /\ events' = events + 1
Edit == Event /\ UNCHANGED <<kubelet, pod>>

\* Upsert: the columns a command names (all but the status) of the row of this name, or a
\* new row.
RowOf(tab, name) == SelectInSeq(tab, LAMBDA line : line.row.name = name)
New(row) == [row |-> row, status |-> Unset]
Upsert(tab, row) == IF row.name \in Names(tab)
                    THEN [tab EXCEPT ![RowOf(tab, row.name)].row = row]
                    ELSE Append(tab, New(row))

ApplyGateway(g) ==
    /\ Edit
    /\ gateways' = Upsert(gateways, [name |-> g, valid |-> TRUE])
    /\ UNCHANGED <<routes, services>>

ApplyRoute(row) ==
    /\ Edit /\ row.valid
    /\ routes' = Upsert(routes, row)
    /\ UNCHANGED <<gateways, services>>

Without(tab, name) == RemoveAt(tab, RowOf(tab, name))

DeleteGateway(g) ==
    /\ Edit /\ g \in Names(gateways)
    /\ gateways' = Without(gateways, g)
    /\ UNCHANGED <<routes, services>>

DeleteRoute(r) ==
    /\ Edit /\ r \in Names(routes)
    /\ routes' = Without(routes, r)
    /\ UNCHANGED <<gateways, services>>

\* The user types over a row, or adds one: nothing is validated, names may repeat.
Typed(tab, i, row) == [k \in 1..(IF i > Len(tab) THEN i ELSE Len(tab)) |->
                          IF k = i THEN New(row) ELSE tab[k]]

TypeGateway(i, g, valid) ==
    /\ Edit
    /\ gateways' = Typed(gateways, i, [name |-> g, valid |-> valid])
    /\ UNCHANGED <<routes, services>>

TypeRoute(i, row) ==
    /\ Edit
    /\ routes' = Typed(routes, i, row)
    /\ UNCHANGED <<gateways, services>>

\* A Deployment is applied or deleted.
ChangeService(s) ==
    /\ Edit
    /\ services' = IF s \in services THEN services \ {s} ELSE services \cup {s}
    /\ UNCHANGED <<gateways, routes>>

-----------------------------------------------------------------------------
(* The kubelet's loop.  Placement is the scheduler's: every valid gateway has  *)
(* one pod, here.                                                              *)

Gone == [nginx |-> "gone", conf |-> Stock, prev |-> Stock, applied |-> Stock, serves |-> Stock]
Created == [Gone EXCEPT !.nginx = "starting"]
Up(g) == pod[g].nginx # "gone"

GatewayStatus(row) == IF ~row.valid THEN <<"Invalid">>
                      ELSE IF Up(row.name) THEN <<"Programmed">> ELSE <<"Pending">>

\* heartbeat: the status columns are written, the configurations come with the orders.
Heartbeat ==
    /\ kubelet.pc = "idle"
    /\ LET plan == Plan IN
       /\ routes' = [i \in DOMAIN routes |->
             [routes[i] EXCEPT !.status = IF routes[i].row.name \in DOMAIN plan.status
                                          THEN plan.status[routes[i].row.name] ELSE @]]
       /\ gateways' = [i \in DOMAIN gateways |->
                          [gateways[i] EXCEPT !.status = GatewayStatus(gateways[i].row)]]
       /\ kubelet' = [pc |-> "run", todo |-> SetToSeq(ToSet(Planned)), order |-> plan.attached]
    /\ UNCHANGED <<services, events, pod>>

At(pc) == kubelet.pc = pc /\ kubelet.todo # <<>>
This == Head(kubelet.todo)
Order == kubelet.order[This]
Go(pc) == kubelet' = [kubelet EXCEPT !.pc = pc]
NextPod == kubelet' = [kubelet EXCEPT !.pc = "run", !.todo = Tail(@)]
Loop == UNCHANGED <<tabs, events>>

\* A plausible slip: the configuration is loaded into a new container only.
RunLoadsOnce ==
    /\ At("run")
    /\ IF Up(This) THEN NextPod /\ UNCHANGED pod
       ELSE Go("install") /\ pod' = [pod EXCEPT ![This] = Created]
    /\ Loop

\* docker run what does not run; then compare the recorded hash with the order's.
Run ==
    /\ At("run")
    /\ LET now == IF Up(This) THEN pod[This] ELSE Created IN
       /\ pod' = [pod EXCEPT ![This] = now]
       /\ IF now.applied = Order THEN NextPod ELSE Go("install")
    /\ Loop

\* A step of the script in the container; without one docker exec fails.
Script(pc) == At(pc) /\ Loop
Abandon(pc) == Script(pc) /\ ~Up(This) /\ NextPod /\ UNCHANGED pod

Install ==
    /\ Script("install") /\ Up(This) /\ Go("test")
    /\ pod' = [pod EXCEPT ![This].prev = pod[This].conf, ![This].conf = Order]

\* A plausible slip: nginx -t fails and the file stays.
TestKeeps ==
    /\ Script("test") /\ Up(This) /\ UNCHANGED pod
    /\ IF Loadable(Order) THEN Go("reload") ELSE NextPod

Test ==
    /\ Script("test") /\ Up(This)
    /\ IF Loadable(Order) THEN Go("reload") /\ UNCHANGED pod
       ELSE NextPod /\ pod' = [pod EXCEPT ![This].conf = pod[This].prev]

\* A plausible slip: the hash is recorded although there was no nginx to signal.
ReloadAnyway ==
    /\ Script("reload") /\ Up(This) /\ Go("record")
    /\ pod' = [pod EXCEPT ![This].serves = IF pod[This].nginx = "on" THEN pod[This].conf ELSE @]

\* nginx -s reload fails while there is no master process yet.
Reload ==
    /\ Script("reload") /\ Up(This)
    /\ IF pod[This].nginx = "on"
       THEN Go("record") /\ pod' = [pod EXCEPT ![This].serves = pod[This].conf]
       ELSE NextPod /\ UNCHANGED pod

Record ==
    /\ Script("record") /\ Up(This) /\ NextPod
    /\ pod' = [pod EXCEPT ![This].applied = Order]

\* Terminating orders and the collection at the end of the loop remove the same pods.
Collect ==
    /\ kubelet.pc = "run" /\ kubelet.todo = <<>> /\ Go("idle")
    /\ pod' = [g \in Gateway |-> IF g \in DOMAIN kubelet.order THEN pod[g] ELSE Gone]
    /\ Loop

\* nginx reads its file when it starts, and exits, with its container, when it refuses it.
NginxStarts(g) ==
    /\ pod[g].nginx = "starting"
    /\ pod' = [pod EXCEPT ![g] = IF Loadable(@.conf)
                                 THEN [@ EXCEPT !.nginx = "on", !.serves = pod[g].conf] ELSE Gone]
    /\ UNCHANGED <<tabs, events, kubelet>>

ContainerExits(g) ==
    /\ Event /\ Up(g)
    /\ pod' = [pod EXCEPT ![g] = Gone]
    /\ UNCHANGED <<tabs, kubelet>>

-----------------------------------------------------------------------------

Init ==
    /\ \E start \in Start :
          /\ gateways = [i \in DOMAIN start.gateways |->
                            New([name |-> start.gateways[i], valid |-> TRUE])]
          /\ routes = [i \in DOMAIN start.routes |-> New(start.routes[i])]
    /\ services = Service
    /\ events = 0
    /\ kubelet = [pc |-> "idle", todo |-> <<>>, order |-> [g \in {} |-> {}]]
    /\ pod = [g \in Gateway |-> Gone]

Users ==
    \/ \E g \in Gateway : ApplyGateway(g) \/ DeleteGateway(g)
    \/ \E row \in RouteRow : ApplyRoute(row)
    \/ \E r \in Route : DeleteRoute(r)
    \/ \E i \in 1..Len(gateways) + 1, g \in Gateway, valid \in BOOLEAN : TypeGateway(i, g, valid)
    \/ \E i \in 1..Len(routes) + 1, row \in RouteRow : TypeRoute(i, row)
    \/ \E s \in Service : ChangeService(s)

Kubelet ==
    \/ Heartbeat \/ Run \/ Install \/ Test \/ Reload \/ Record \/ Collect
    \/ \E pc \in {"install", "test", "reload", "record"} : Abandon(pc)

Next ==
    \/ Users \/ Kubelet
    \/ \E g \in Gateway : NginxStarts(g) \/ ContainerExits(g)

Spec == Init /\ [][Next]_vars

\* The kubelet loops, nginx finishes starting; users and failures are under no obligation.
FairSpec == Spec /\ WF_vars(Kubelet) /\ \A g \in Gateway : WF_vars(NginxStarts(g))

-----------------------------------------------------------------------------
(* Properties.                                                                 *)

ValidRow == {row \in RouteRow : row.valid}
Config == {Stock} \cup SUBSET ValidRow
Orders == UNION {[gs -> SUBSET ValidRow] : gs \in SUBSET Gateway}
Pod == [nginx : {"gone", "starting", "on"},
        conf : Config, prev : Config, applied : Config, serves : Config]
Statuses == {Unset} \cup {<<"Conflicted", r>> : r \in Route}
                \cup {<<s>> : s \in {"Invalid", "NoSuchGateway", "Accepted", "BackendNotFound",
                                     "Programmed", "Pending"}}

\* Every variable has its type, and what is recorded, loaded or saved in a pod is a
\* configuration of valid rows only: an invalid row never reaches a file.
TypeOK ==
    /\ gateways \in Seq([row : [name : Gateway, valid : BOOLEAN], status : Statuses])
    /\ routes \in Seq([row : RouteRow, status : Statuses])
    /\ services \subseteq Service
    /\ kubelet \in [pc : {"idle", "run", "install", "test", "reload", "record"},
                    todo : Seq(Gateway), order : Orders]
    /\ ToSet(kubelet.todo) \subseteq DOMAIN kubelet.order
    /\ pod \in [Gateway -> Pod]

\* The rows of a gateway as the documentation has them: valid, for this gateway, and no
\* earlier such row claims the same host and path.
Mine(g) == {i \in DOMAIN routes : routes[i].row.valid /\ routes[i].row.gateway \in {g, Every}}
Standing(g) ==
    {i \in Mine(g) : \A j \in Mine(g) : j < i => Key(routes[j].row) # Key(routes[i].row)}

\* What the next heartbeat will render answers each request with the route the rows
\* promise: among the rows that match its host and path the longest path wins, a named host
\* before a blank one.  Excepted is a request whose best row is for a wildcard while the
\* gateway has a server block of a more specific name: nginx never looks into the
\* wildcard's block.
Routed ==
    kubelet.pc = "idle" =>
    LET configs == Configs IN
    \A g \in DOMAIN configs, host \in Host, path \in Path :
        LET config == configs[g]
            cell == ServerName(config, host)
            asked == {i \in Standing(g) : host \in Pattern[routes[i].row.host]}
            best == Longest({routes[i].row : i \in asked}, path)
            named == {r \in best : \A q \in best : Pattern[r.host] \subseteq Pattern[q.host]}
        IN (\A r \in named : r.host \in {cell, Blank}) => Answer(config, host, path) = named

\* The status the next heartbeat will write beside a route tells the truth: Accepted
\* exactly when every gateway it names serves it and its service exists; a winner named in
\* a conflict is an earlier route that has the same host and path.  Names are distinct
\* here: two route rows of one name share the last one's status, and with a gateway typed
\* twice a route for every gateway is marked as conflicting with itself.
StatusTells ==
    kubelet.pc = "idle" =>
    LET plan == Plan IN
    \A i \in DOMAIN routes :
        LET row == routes[i].row
            status == plan.status[row.name]
            targets == ToSet(Targets(Planned, row))
            serving == {g \in DOMAIN plan.attached : row \in plan.attached[g]}
        IN IsInjective(Planned)
           /\ (\A j \in DOMAIN routes : j # i => routes[j].row.name # row.name) =>
            /\ status = <<"Accepted">> <=>
                   /\ row.valid /\ row.service \in services
                   /\ targets # {} /\ targets \subseteq serving
            /\ status[1] = "Conflicted" =>
                   \E j \in 1..i - 1 :
                       routes[j].row.name = status[2] /\ Key(routes[j].row) = Key(row)

\* The hash recorded in a pod is that of what its nginx serves, and the file nginx would
\* read is one it accepts, except while the script is at work on that pod: whatever order
\* was refused or came too early, and however often the container was replaced.
RecordedIsServed ==
    \A g \in Gateway :
        Up(g) /\ ~(kubelet.pc \in {"test", "reload", "record"} /\ g = This) =>
            /\ Loadable(pod[g].conf)
            /\ pod[g].applied # Stock =>
                   pod[g].nginx = "on" /\ pod[g].serves = pod[g].applied

\* Edits and failures over, every gateway in the tab whose configuration nginx accepts ends
\* up serving exactly the routes the rows give it, every gateway no longer there is removed,
\* and the status columns say what the plan says.
Reconciles ==
    <>[](LET plan == Plan IN
         /\ \A g \in DOMAIN plan.attached : Loadable(plan.attached[g]) =>
                pod[g].nginx = "on" /\ pod[g].serves = plan.attached[g]
         /\ \A g \in Gateway : Up(g) => g \in DOMAIN plan.attached
         /\ \A i \in DOMAIN routes : routes[i].status = plan.status[routes[i].row.name])
=============================================================================
