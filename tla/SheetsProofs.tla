---------------------------- MODULE SheetsProofs ----------------------------
(***************************************************************************)
(* Proofs about module SheetsServer for any names, nodes and clients: the  *)
(* type invariant, and what survives as long as no two requests overlap    *)
(* and no call to the Sheets API fails.                                    *)
(***************************************************************************)
EXTENDS SheetsServer, TLAPS

Reporting == {"pods", "deps", "clearPods", "writePods", "clearNodes", "writeNodes", "answer"}
Editing == {"clear", "update"}
Table == UNION {[D -> Node \cup {NoNode}] : D \in SUBSET Name}
Handler == [pc : {"idle"} \cup Reporting \cup Editing,
            verb : {"", "heartbeat", "apply", "scale", "delete"},
            name : Name \cup {""}, nodes : SUBSET Node, pods : Table, deps : SUBSET Name]

\* A request is made by a client of its kind, and none leaves anything behind.
ClientOK(c, h) == /\ h \in Handler
                  /\ h.pc = "idle" => h = Idle
                  /\ h.pc \in Reporting => c \in Node
                  /\ h.pc \in Editing => c \in Operator /\ h.name \in Name
Tabs == /\ deployments \in SUBSET Name /\ nodes \in SUBSET Node /\ pods \in Table
        /\ applied \in SUBSET Name /\ retired \in SUBSET Name /\ calm \in BOOLEAN
        /\ running \in [Node -> SUBSET Name]
Requests == /\ handler = [c \in Client |-> handler[c]]
            /\ \A c \in Client : ClientOK(c, handler[c])
Handlers == Tabs /\ Requests

\* A Pods tab without rows is one, and a request that has not begun is one.
LEMMA NoPodsIsTable == NoPods \in Table /\ Idle \in Handler
<1>1. NoPods \in [{} -> Node \cup {NoNode}]
  BY DEF NoPods
<1>2. NoPods \in Table
  BY <1>1 DEF Table
<1> QED
  BY <1>2 DEF Idle, Handler

\* What schedule() decides is a Pods tab of the deployments it was given.
LEMMA PlacementsAreTables ==
    ASSUME NEW deps \in SUBSET Name, NEW live \in SUBSET Node, NEW existing \in Table,
           NEW f \in Placements(deps, live, existing)
    PROVE  /\ f \in Table /\ DOMAIN f = deps
           /\ \A p \in deps \cap DOMAIN existing : existing[p] \in live => f[p] = existing[p]
<1>1. f \in [deps -> live \cup {NoNode}]
  BY DEF Placements
<1>2. f \in [deps -> Node \cup {NoNode}]
  BY <1>1
<1>3. f \in Table
  BY <1>2 DEF Table
<1> QED
  BY <1>1, <1>3 DEF Placements

\* A step of one client leaves the requests of the others alone.
LEMMA OneSteps ==
    ASSUME Requests, NEW c \in Client, NEW new, ClientOK(c, new), Step(c, new)
    PROVE  Requests'
<1>1. \A d \in Client : handler'[d] = IF d = c THEN new ELSE handler[d]
  BY DEF Step, Requests
<1>2. handler' = [d \in Client |-> handler'[d]]
  BY DEF Step, Requests
<1>3. \A d \in Client : ClientOK(d, handler'[d])
  BY <1>1 DEF Requests
<1> QED
  BY <1>2, <1>3 DEF Requests

\* Every call of every request, failing ones included, leaves the tabs and the requests
\* in progress well-formed.
LEMMA HandlersPreserved == Handlers /\ [Next]_vars => Handlers'
<1> SUFFICES ASSUME Handlers, [Next]_vars PROVE Handlers'
  OBVIOUS
<1> USE DEF Handlers
<1>1. ASSUME NEW n \in Node, Heartbeat(n) PROVE Handlers'
  <2> DEFINE h == handler[n]
  <2>1. /\ n \in Client
        /\ h \in Handler /\ h.pods \in Table /\ h.nodes \in SUBSET Node
    BY DEF Requests, Client, ClientOK, Handler
  <2>2. ASSUME NEW pc \in Reporting, Goto(n, pc) PROVE Requests'
    <3>1. ClientOK(n, [h EXCEPT !.pc = pc])
      BY <2>1 DEF ClientOK, Handler, Reporting, Editing
    <3>2. Step(n, [h EXCEPT !.pc = pc])
      BY <2>2 DEF Goto, Step
    <3> HIDE DEF h
    <3> QED
      BY <2>1, <3>1, <3>2, OneSteps
  <2>3. CASE ReadNodes(n)
    <3> DEFINE new == [Idle EXCEPT !.pc = "pods", !.verb = "heartbeat", !.nodes = nodes \cup {n}]
    <3>1. ClientOK(n, new)
      BY NoPodsIsTable DEF ClientOK, Handler, Idle, Reporting, Editing, Tabs
    <3>2. Step(n, new) /\ Tabs'
      BY <2>3 DEF ReadNodes, Tabs, Begins
    <3> HIDE DEF new
    <3> QED
      BY <2>1, <3>1, <3>2, OneSteps
  <2>4. CASE ReadPods(n)
    <3> DEFINE new == [h EXCEPT !.pc = "deps", !.pods = pods]
    <3>1. ClientOK(n, new)
      BY <2>1 DEF ClientOK, Handler, Reporting, Editing, Tabs
    <3>2. Step(n, new) /\ Tabs'
      BY <2>4 DEF ReadPods, Tabs
    <3> HIDE DEF new
    <3> QED
      BY <2>1, <3>1, <3>2, OneSteps
  <2>5. CASE ReadDeployments(n)
    <3>1. PICK desired \in Placements(deployments, h.nodes, h.pods) :
              Step(n, [h EXCEPT !.pc = "clearPods", !.pods = desired])
      BY <2>5 DEF ReadDeployments
    <3> DEFINE new == [h EXCEPT !.pc = "clearPods", !.pods = desired]
    <3>2. desired \in Table
      BY <2>1, PlacementsAreTables DEF Tabs
    <3>3. ClientOK(n, new)
      BY <2>1, <3>2 DEF ClientOK, Handler, Reporting, Editing
    <3>4. Step(n, new) /\ Tabs'
      BY <2>5, <3>1 DEF ReadDeployments, Tabs
    <3> HIDE DEF new
    <3> QED
      BY <2>1, <3>3, <3>4, OneSteps
  <2>6. CASE ClearPods(n)
    BY <2>2, <2>6, NoPodsIsTable DEF ClearPods, Tabs, Reporting
  <2>7. CASE WritePods(n)
    BY <2>1, <2>2, <2>7 DEF WritePods, Tabs, Reporting
  <2>8. CASE ClearNodes(n)
    BY <2>2, <2>8 DEF ClearNodes, Tabs, Reporting
  <2>9. CASE WriteNodes(n)
    BY <2>1, <2>2, <2>9 DEF WriteNodes, Tabs, Reporting
  <2>10. CASE Answer(n)
    <3>1. {p \in DOMAIN h.pods : h.pods[p] = n} \in SUBSET Name
      BY <2>1 DEF Table
    <3>2. Tabs'
      BY <2>10, <3>1 DEF Answer, Tabs
    <3>3. ClientOK(n, Idle) /\ Step(n, Idle)
      BY <2>10, NoPodsIsTable DEF Answer, ClientOK, Idle, Reporting, Editing
    <3> QED
      BY <2>1, <3>2, <3>3, OneSteps
  <2> QED
    BY <1>1, <2>3, <2>4, <2>5, <2>6, <2>7, <2>8, <2>9, <2>10 DEF Heartbeat
<1>2. ASSUME NEW c \in Operator, Read(c) PROVE Handlers'
  <2>1. PICK verb \in {"apply", "scale", "delete"}, name \in Name :
          /\ Step(c, IF verb # "apply" /\ name \notin deployments THEN Idle
                     ELSE [Idle EXCEPT !.pc = "clear", !.verb = verb, !.name = name,
                                       !.deps = Rewritten(verb, name, deployments)])
          /\ applied' = IF verb = "delete" THEN applied \ {name} ELSE applied
          /\ retired' = IF verb = "delete" THEN retired \cup {name} ELSE retired
    BY <1>2 DEF Read
  <2> DEFINE new == [Idle EXCEPT !.pc = "clear", !.verb = verb, !.name = name,
                                 !.deps = Rewritten(verb, name, deployments)]
  <2>2. ClientOK(c, Idle) /\ ClientOK(c, new) /\ c \in Client
    BY NoPodsIsTable DEF ClientOK, Handler, Idle, Reporting, Editing, Rewritten, Tabs, Client
  <2>3. Tabs'
    BY <1>2, <2>1 DEF Read, Tabs, Begins
  <2>4. Step(c, Idle) \/ Step(c, new)
    BY <2>1
  <2> HIDE DEF new
  <2> QED
    BY <2>2, <2>3, <2>4, OneSteps
<1>3. ASSUME NEW c \in Operator, Clear(c) PROVE Handlers'
  <2> DEFINE h == handler[c]
             new == [h EXCEPT !.pc = "update"]
  <2>3. c \in Client /\ h \in Handler /\ h.name \in Name
    BY <1>3 DEF Clear, At, Requests, Client, ClientOK, Editing
  <2>1. c \in Client /\ ClientOK(c, new)
    BY <2>3 DEF ClientOK, Handler, Reporting, Editing
  <2>2. Step(c, new) /\ Tabs'
    BY <1>3 DEF Clear, Goto, Step, Tabs
  <2> HIDE DEF new
  <2> QED
    BY <2>1, <2>2, OneSteps
<1>4. ASSUME NEW c \in Operator, Update(c) PROVE Handlers'
  <2>1. c \in Client /\ handler[c] \in Handler
    BY DEF Requests, Client, ClientOK
  <2>2. handler[c].name \in Name
    BY <1>4, <2>1 DEF Update, At, Requests, ClientOK, Editing
  <2>3. Tabs'
    BY <1>4, <2>1, <2>2 DEF Update, Tabs, Handler
  <2>4. ClientOK(c, Idle) /\ Step(c, Idle)
    BY <1>4, NoPodsIsTable DEF Update, ClientOK, Idle, Reporting, Editing
  <2> QED
    BY <2>1, <2>3, <2>4, OneSteps
<1>5. ASSUME NEW c \in Client, Fail(c) PROVE Handlers'
  <2>1. Tabs' /\ ClientOK(c, Idle) /\ Step(c, Idle)
    BY <1>5, NoPodsIsTable DEF Fail, Tabs, ClientOK, Idle, Reporting, Editing
  <2> QED
    BY <2>1, OneSteps
<1>6. CASE UNCHANGED vars
  BY <1>6 DEF vars, Tabs, Requests
<1> QED
  BY <1>1, <1>2, <1>3, <1>4, <1>5, <1>6 DEF Next

\* In every reachable state they are well-formed.
THEOREM HandlersHold == Spec => []Handlers
<1>1. ASSUME Init PROVE Handlers
  <2>1. Tabs
    BY <1>1, NoPodsIsTable DEF Init, Tabs
  <2>2. Requests
    BY <1>1, NoPodsIsTable DEF Init, Requests, ClientOK, Idle, Reporting, Editing
  <2> QED
    BY <2>1, <2>2 DEF Handlers
<1> QED
  BY <1>1, HandlersPreserved, PTL DEF Spec

\* Whatever overlaps or fails, the tabs are well-formed, and no request leaves anything
\* behind for the next one of its client.
THEOREM TypeCorrect == Spec => []TypeOK
<1>1. Handlers => TypeOK
  <2> SUFFICES ASSUME Handlers PROVE TypeOK
    OBVIOUS
  <2>1. DOMAIN pods \subseteq Name /\ \A p \in DOMAIN pods : pods[p] \in Node \cup {NoNode}
    BY DEF Handlers, Tabs, Table
  <2> QED
    BY <2>1 DEF Handlers, Tabs, Requests, ClientOK, TypeOK
<1> QED
  BY HandlersHold, <1>1, PTL

-----------------------------------------------------------------------------
(* Calm histories: one request at a time, every call succeeds.                 *)

Alone == \A c, d \in Client : handler[c].pc # "idle" /\ handler[d].pc # "idle" => c = d
During(pc) == \E c \in Client : handler[c].pc = pc
Known == applied \cup retired
Kept(n) == (running[n] \cap applied) \ retired
Shows(tab) == \A n \in Node : \A p \in Kept(n) : p \in DOMAIN tab /\ tab[p] = n
Lists(names) == \A n \in Node : running[n] # {} => n \in names

\* Where no tab is between its clear and its update, it has what it must have: the
\* Deployments tab what was applied, the Pods tab what runs, where it runs, the Nodes tab
\* the nodes something runs on.
CalmTabs ==
    /\ deployments \subseteq Known /\ \A n \in Node : running[n] \subseteq Known
    /\ ~During("update") => applied \subseteq deployments
    /\ ~During("writePods") => Shows(pods)
    /\ ~During("writeNodes") => Lists(nodes)

\* And so does what the one request in progress has read and is going to write.
CalmRequest(c, h) ==
    /\ h.pc \in Editing => /\ applied \subseteq h.deps /\ h.verb \in {"apply", "scale", "delete"}
                           /\ h.deps \subseteq Known \cup (IF h.verb = "apply" THEN {h.name} ELSE {})
                           /\ h.verb = "apply" => h.name \in h.deps
    /\ h.pc \in Reporting => c \in h.nodes /\ Lists(h.nodes)
    /\ h.pc = "deps" => Shows(h.pods)
    /\ h.pc \in {"clearPods", "writePods", "clearNodes", "writeNodes", "answer"} =>
           DOMAIN h.pods \subseteq Known /\ Shows(h.pods)
    /\ h.pc \in {"clearNodes", "writeNodes", "answer"} => pods = h.pods
    /\ h.pc = "answer" => nodes = h.nodes

Calm == calm => Alone /\ CalmTabs /\ \A c \in Client : CalmRequest(c, handler[c])

\* A calm step of a client that is alone, before and after.
LEMMA CalmStep ==
    ASSUME Handlers, Calm, calm, NEW c \in Client, NEW new, Step(c, new),
           \A d \in Client \ {c} : handler[d].pc = "idle"
    PROVE  /\ Alone'
           /\ \A pc : pc # "idle" => (During(pc)' <=> new.pc = pc)
           /\ \A pc : pc # "idle" => (During(pc) <=> handler[c].pc = pc)
           /\ CalmRequest(c, handler[c])' => \A d \in Client : CalmRequest(d, handler[d])'
<1>1. /\ handler'[c] = new
      /\ \A d \in Client \ {c} : handler'[d] = handler[d] /\ handler'[d].pc = "idle"
  BY DEF Handlers, Requests, Step
<1>2. Alone'
  BY <1>1 DEF Alone
<1>3. \A pc : pc # "idle" => (During(pc)' <=> new.pc = pc)
  BY <1>1 DEF During
<1>4. \A pc : pc # "idle" => (During(pc) <=> handler[c].pc = pc)
  BY DEF During
<1>5. ASSUME NEW d \in Client \ {c} PROVE CalmRequest(d, handler[d])'
  BY <1>1, <1>5 DEF CalmRequest, Reporting, Editing
<1> QED
  BY <1>2, <1>3, <1>4, <1>5

\* A heartbeat that is alone keeps the tabs as they have to be.
LEMMA HeartbeatKeepsCalm ==
    ASSUME Handlers, Calm, calm', NEW n \in Node, Heartbeat(n)
    PROVE  Calm'
<1> DEFINE h == handler[n]
<1> USE DEF At, Goto
<1>1. calm /\ n \in Client /\ ClientOK(n, h) /\ h \in Handler
  BY DEF Heartbeat, ReadNodes, ReadPods, ReadDeployments, ClearPods, WritePods, ClearNodes,
         WriteNodes, Answer, Begins, Handlers, Requests, Client, ClientOK
<1>2. \A d \in Client \ {n} : handler[d].pc = "idle"
  BY <1>1 DEF Heartbeat, ReadNodes, ReadPods, ReadDeployments, ClearPods, WritePods, ClearNodes,
              WriteNodes, Answer, Begins, Calm, Alone
<1>3. CalmTabs /\ CalmRequest(n, h)
  BY <1>1 DEF Calm
<1>4. ASSUME NEW new, Step(n, new)
      PROVE  /\ Alone' /\ handler'[n] = new
             /\ \A pc : pc # "idle" => (During(pc)' <=> new.pc = pc) /\ (During(pc) <=> h.pc = pc)
             /\ CalmRequest(n, handler[n])' => \A d \in Client : CalmRequest(d, handler[d])'
  <2>1. handler'[n] = new
    BY <1>1, <1>4 DEF Step, Handlers, Requests
  <2> QED
    BY <1>1, <1>2, <1>4, <2>1, CalmStep
<1>14. ASSUME UNCHANGED <<running, applied, retired>>
       PROVE  Known' = Known /\ \A m \in Node : Kept(m)' = Kept(m)
  BY <1>14 DEF Known, Kept
<1>5. CASE ReadNodes(n)
  <2> DEFINE new == [Idle EXCEPT !.pc = "pods", !.verb = "heartbeat", !.nodes = nodes \cup {n}]
  <2>1. Step(n, new) /\ h.pc = "idle"
    BY <1>5 DEF ReadNodes, Begins
  <2>2. new.pc = "pods" /\ new.nodes = nodes \cup {n}
    BY DEF Idle
  <2> HIDE DEF new
  <2>3. CalmTabs'
    BY <1>3, <1>4, <1>5, <2>1, <2>2 DEF ReadNodes, CalmTabs, Known, Kept, Shows, Lists
  <2>4. CalmRequest(n, handler[n])'
    BY <1>3, <1>4, <1>5, <2>1, <2>2 DEF ReadNodes, CalmRequest, CalmTabs, Lists, Reporting, Editing
  <2> QED
    BY <1>4, <2>1, <2>3, <2>4 DEF Calm
<1>6. CASE ReadPods(n)
  <2> DEFINE new == [h EXCEPT !.pc = "deps", !.pods = pods]
  <2>1. Step(n, new) /\ h.pc = "pods"
    BY <1>6 DEF ReadPods
  <2>2. new.pc = "deps" /\ new.nodes = h.nodes /\ new.pods = pods
    BY <1>1 DEF Handler
  <2> HIDE DEF new, h
  <2>3. CalmTabs'
    BY <1>3, <1>4, <1>6, <2>1, <2>2 DEF ReadPods, CalmTabs, Known, Kept, Shows, Lists
  <2>4. CalmRequest(n, handler[n])'
    BY <1>3, <1>4, <1>6, <2>1, <2>2
    DEF ReadPods, CalmRequest, CalmTabs, Kept, Shows, Lists, Reporting, Editing
  <2> QED
    BY <1>4, <2>1, <2>3, <2>4 DEF Calm
<1>7. CASE ReadDeployments(n)
  <2>1. PICK desired \in Placements(deployments, h.nodes, h.pods) :
            Step(n, [h EXCEPT !.pc = "clearPods", !.pods = desired])
    BY <1>7 DEF ReadDeployments
  <2> DEFINE new == [h EXCEPT !.pc = "clearPods", !.pods = desired]
  <2>2. new.pc = "clearPods" /\ new.nodes = h.nodes /\ new.pods = desired
    BY <1>1 DEF Handler
  <2>3. Step(n, new) /\ h.pc = "deps"
    BY <1>7, <2>1 DEF ReadDeployments
  <2>9. h.nodes \in SUBSET Node /\ h.pods \in Table /\ deployments \in SUBSET Name
    BY <1>1 DEF Handler, Handlers, Tabs
  <2> HIDE DEF h
  <2>4. /\ DOMAIN desired = deployments
        /\ \A p \in deployments \cap DOMAIN h.pods : h.pods[p] \in h.nodes => desired[p] = h.pods[p]
    BY <2>9, PlacementsAreTables
  <2> HIDE DEF new, h
  <2>5. Shows(desired)
    <3>1. applied \subseteq deployments
      BY <1>1, <1>2, <1>3, <2>3 DEF CalmTabs, During, h
    <3> QED
      BY <1>3, <2>3, <2>4, <3>1 DEF CalmRequest, Shows, Kept, Lists, Reporting
  <2>6. CalmTabs'
    BY <1>3, <1>4, <1>7, <2>3, <2>2 DEF ReadDeployments, CalmTabs, Known, Kept, Shows, Lists
  <2>7. handler'[n].pc = "clearPods" /\ handler'[n].nodes = h.nodes /\ handler'[n].pods = desired
    BY <1>4, <2>2, <2>3
  <2>8. CalmRequest(n, handler[n])'
    <3>1. n \in h.nodes /\ Lists(h.nodes) /\ DOMAIN desired \subseteq Known
      BY <1>3, <2>3, <2>4 DEF CalmRequest, CalmTabs, Reporting
    <3>2. UNCHANGED <<running, applied, retired>>
      BY <1>7 DEF ReadDeployments
    <3> QED
      BY <1>14, <2>5, <2>7, <3>1, <3>2 DEF CalmRequest, Shows, Lists, Reporting, Editing
  <2> QED
    BY <1>4, <2>3, <2>6, <2>8 DEF Calm
<1>8. ASSUME NEW pc \in {"writePods", "clearNodes", "writeNodes", "answer"},
             handler' = [handler EXCEPT ![n].pc = pc]
      PROVE  LET new == [h EXCEPT !.pc = pc]
             IN  /\ Step(n, new) /\ new.pc = pc
                 /\ new.nodes = h.nodes /\ new.pods = h.pods
  BY <1>1, <1>8 DEF Step, Handler
<1> DEFINE To(pc) == [h EXCEPT !.pc = pc]
<1>9. CASE ClearPods(n)
  <2>1. Step(n, To("writePods")) /\ To("writePods").pc = "writePods" /\ h.pc = "clearPods"
        /\ To("writePods").nodes = h.nodes /\ To("writePods").pods = h.pods
    BY <1>8, <1>9 DEF ClearPods
  <2> HIDE DEF To, h
  <2>2. CalmTabs'
    BY <1>3, <1>4, <1>9, <2>1 DEF ClearPods, CalmTabs, Known, Kept, Shows, Lists
  <2>3. CalmRequest(n, handler[n])'
    <3>1. /\ handler'[n].pc = "writePods" /\ handler'[n].nodes = h.nodes /\ handler'[n].pods = h.pods
          /\ UNCHANGED <<running, applied, retired>>
      BY <1>3, <1>4, <1>9, <2>1 DEF ClearPods, CalmRequest
    <3>2. n \in h.nodes /\ Lists(h.nodes) /\ DOMAIN h.pods \subseteq Known /\ Shows(h.pods)
      BY <1>3, <2>1 DEF CalmRequest, Reporting
    <3> QED
      BY <1>14, <3>1, <3>2 DEF CalmRequest, Shows, Lists, Reporting, Editing
  <2> QED
    BY <1>4, <2>1, <2>2, <2>3 DEF Calm
<1>10. CASE WritePods(n)
  <2>1. Step(n, To("clearNodes")) /\ To("clearNodes").pc = "clearNodes" /\ h.pc = "writePods"
        /\ To("clearNodes").nodes = h.nodes /\ To("clearNodes").pods = h.pods
    BY <1>8, <1>10 DEF WritePods
  <2>2. pods' = h.pods
    BY <1>10 DEF WritePods
  <2> HIDE DEF To, h
  <2>3. CalmTabs'
    BY <1>3, <1>4, <1>10, <2>1, <2>2
    DEF WritePods, CalmTabs, CalmRequest, Known, Kept, Shows, Lists
  <2>4. CalmRequest(n, handler[n])'
    <3>1. /\ handler'[n].pc = "clearNodes" /\ handler'[n].nodes = h.nodes /\ handler'[n].pods = h.pods
          /\ UNCHANGED <<running, applied, retired>> /\ pods' = h.pods
      BY <1>3, <1>4, <1>10, <2>1, <2>2 DEF WritePods, CalmRequest
    <3>2. n \in h.nodes /\ Lists(h.nodes) /\ DOMAIN h.pods \subseteq Known /\ Shows(h.pods)
      BY <1>3, <2>1 DEF CalmRequest, Reporting
    <3> QED
      BY <1>14, <3>1, <3>2 DEF CalmRequest, Shows, Lists, Reporting, Editing
  <2> QED
    BY <1>4, <2>1, <2>3, <2>4 DEF Calm
<1>11. CASE ClearNodes(n)
  <2>1. Step(n, To("writeNodes")) /\ To("writeNodes").pc = "writeNodes" /\ h.pc = "clearNodes"
        /\ To("writeNodes").nodes = h.nodes /\ To("writeNodes").pods = h.pods
    BY <1>8, <1>11 DEF ClearNodes
  <2> HIDE DEF To, h
  <2>2. CalmTabs'
    BY <1>3, <1>4, <1>11, <2>1 DEF ClearNodes, CalmTabs, Known, Kept, Shows, Lists
  <2>3. CalmRequest(n, handler[n])'
    <3>1. /\ handler'[n].pc = "writeNodes" /\ handler'[n].nodes = h.nodes /\ handler'[n].pods = h.pods
          /\ UNCHANGED <<running, applied, retired>> /\ pods' = h.pods
      BY <1>3, <1>4, <1>11, <2>1 DEF ClearNodes, CalmRequest
    <3>2. n \in h.nodes /\ Lists(h.nodes) /\ DOMAIN h.pods \subseteq Known /\ Shows(h.pods)
      BY <1>3, <2>1 DEF CalmRequest, Reporting
    <3> QED
      BY <1>14, <3>1, <3>2 DEF CalmRequest, Shows, Lists, Reporting, Editing
  <2> QED
    BY <1>4, <2>1, <2>2, <2>3 DEF Calm
<1>12. CASE WriteNodes(n)
  <2>1. Step(n, To("answer")) /\ To("answer").pc = "answer" /\ h.pc = "writeNodes"
        /\ To("answer").nodes = h.nodes /\ To("answer").pods = h.pods
    BY <1>8, <1>12 DEF WriteNodes
  <2>2. nodes' = h.nodes
    BY <1>12 DEF WriteNodes
  <2> HIDE DEF To, h
  <2>3. CalmTabs'
    BY <1>3, <1>4, <1>12, <2>1, <2>2
    DEF WriteNodes, CalmTabs, CalmRequest, Known, Kept, Shows, Lists, Reporting
  <2>4. CalmRequest(n, handler[n])'
    <3>1. /\ handler'[n].pc = "answer" /\ handler'[n].nodes = h.nodes /\ handler'[n].pods = h.pods
          /\ UNCHANGED <<running, applied, retired>> /\ pods' = h.pods /\ nodes' = h.nodes
      BY <1>3, <1>4, <1>12, <2>1, <2>2 DEF WriteNodes, CalmRequest
    <3>2. n \in h.nodes /\ Lists(h.nodes) /\ DOMAIN h.pods \subseteq Known /\ Shows(h.pods)
      BY <1>3, <2>1 DEF CalmRequest, Reporting
    <3> QED
      BY <1>14, <3>1, <3>2 DEF CalmRequest, Shows, Lists, Reporting, Editing
  <2> QED
    BY <1>4, <2>1, <2>3, <2>4 DEF Calm
<1>13. CASE Answer(n)
  <2>1. Step(n, Idle) /\ Idle.pc = "idle" /\ h.pc = "answer"
    BY <1>13 DEF Answer, Idle
  <2>2. \A m \in Node : running'[m] = IF m = n THEN {p \in DOMAIN h.pods : h.pods[p] = n}
                                             ELSE running[m]
    BY <1>13 DEF Answer, Handlers, Tabs
  <2> HIDE DEF h
  <2>3. Kept(n)' \subseteq {p \in DOMAIN pods : pods[p] = n}
    BY <1>3, <1>13, <2>1, <2>2 DEF Kept, CalmRequest
  <2>6. /\ DOMAIN h.pods \subseteq Known /\ Lists(nodes) /\ n \in nodes
        /\ UNCHANGED <<deployments, applied, retired, pods, nodes>>
    BY <1>3, <1>13, <2>1 DEF Answer, CalmRequest, Reporting
  <2>7. /\ ~During("update")' /\ ~During("writePods")' /\ ~During("writeNodes")'
        /\ ~During("update") /\ ~During("writePods") /\ Known' = Known
    BY <1>4, <2>1, <2>6 DEF Known
  <2>8. Shows(pods)'
    BY <1>3, <2>2, <2>3, <2>6, <2>7 DEF CalmTabs, Shows, Kept
  <2>9. Lists(nodes)' /\ \A m \in Node : running'[m] \subseteq Known
    BY <1>3, <2>2, <2>6 DEF CalmTabs, Lists
  <2>4. CalmTabs'
    BY <1>3, <2>6, <2>7, <2>8, <2>9 DEF CalmTabs
  <2>5. CalmRequest(n, handler[n])'
    BY <1>4, <2>1 DEF CalmRequest, Reporting, Editing
  <2> QED
    BY <1>4, <2>1, <2>4, <2>5 DEF Calm
<1> QED
  BY <1>5, <1>6, <1>7, <1>9, <1>10, <1>11, <1>12, <1>13 DEF Heartbeat

\* And so does an apply, a scale or a delete.
LEMMA EditKeepsCalm ==
    ASSUME Handlers, Calm, calm', NEW c \in Operator, Read(c) \/ Clear(c) \/ Update(c)
    PROVE  Calm'
<1> DEFINE h == handler[c]
<1> USE DEF At
<1>1. calm /\ c \in Client /\ ClientOK(c, h) /\ h \in Handler
  BY DEF Read, Clear, Update, Begins, Handlers, Requests, Client, ClientOK
<1>2. \A d \in Client \ {c} : handler[d].pc = "idle"
  BY <1>1 DEF Read, Clear, Update, Begins, Calm, Alone
<1>3. CalmTabs /\ CalmRequest(c, h)
  BY <1>1 DEF Calm
<1>4. ASSUME NEW new, Step(c, new)
      PROVE  /\ Alone' /\ handler'[c] = new
             /\ \A pc : pc # "idle" => (During(pc)' <=> new.pc = pc) /\ (During(pc) <=> h.pc = pc)
             /\ CalmRequest(c, handler[c])' => \A d \in Client : CalmRequest(d, handler[d])'
  <2>1. handler'[c] = new
    BY <1>1, <1>4 DEF Step, Handlers, Requests
  <2> QED
    BY <1>1, <1>2, <1>4, <2>1, CalmStep
<1>5. Idle.pc = "idle"
  BY DEF Idle
<1>6. CASE Read(c)
  <2>1. PICK verb \in {"apply", "scale", "delete"}, name \in Name :
          /\ Step(c, IF verb # "apply" /\ name \notin deployments THEN Idle
                     ELSE [Idle EXCEPT !.pc = "clear", !.verb = verb, !.name = name,
                                       !.deps = Rewritten(verb, name, deployments)])
          /\ applied' = IF verb = "delete" THEN applied \ {name} ELSE applied
          /\ retired' = IF verb = "delete" THEN retired \cup {name} ELSE retired
    BY <1>6 DEF Read
  <2> DEFINE new == [Idle EXCEPT !.pc = "clear", !.verb = verb, !.name = name,
                                 !.deps = Rewritten(verb, name, deployments)]
  <2>2. /\ new.pc = "clear" /\ new.verb = verb /\ new.name = name
        /\ new.deps = Rewritten(verb, name, deployments)
    BY DEF Idle
  <2> HIDE DEF new
  <2>3. h.pc = "idle" /\ UNCHANGED <<deployments, nodes, pods, running>>
    BY <1>6 DEF Read, Begins
  <2>4. Known \subseteq Known' /\ \A n \in Node : Kept(n)' \subseteq Kept(n)
    BY <2>1, <2>3 DEF Known, Kept
  <2>5. /\ applied \subseteq deployments /\ deployments \subseteq Known
        /\ Shows(pods) /\ Lists(nodes)
    BY <1>1, <1>2, <1>3, <2>3 DEF CalmTabs, During
  <2>6. applied' \subseteq deployments
    BY <2>1, <2>5
  <2>7. Shows(pods)' /\ Lists(nodes)'
    BY <2>3, <2>4, <2>5 DEF Shows, Lists
  <2>8. CalmTabs'
    BY <1>3, <2>3, <2>4, <2>6, <2>7 DEF CalmTabs
  <2>9. CASE Step(c, Idle)
    <3>1. CalmRequest(c, handler[c])'
      BY <1>4, <1>5, <2>9 DEF CalmRequest, Reporting, Editing
    <3> QED
      BY <1>4, <2>8, <2>9, <3>1 DEF Calm
  <2>10. CASE Step(c, new) /\ (verb # "apply" => name \in deployments)
    <3>1. /\ applied' \subseteq new.deps
          /\ verb = "apply" => name \in new.deps
          /\ new.deps \subseteq Known' \cup (IF verb = "apply" THEN {name} ELSE {})
      BY <2>1, <2>2, <2>4, <2>5, <2>6, <2>10 DEF Rewritten
    <3>2. /\ handler'[c].pc = "clear" /\ handler'[c].verb = verb /\ handler'[c].name = name
          /\ handler'[c].deps = new.deps
      BY <1>4, <2>2, <2>10
    <3>3. CalmRequest(c, handler[c])'
      BY <3>1, <3>2 DEF CalmRequest, Reporting, Editing
    <3> QED
      BY <1>4, <2>8, <2>10, <3>3 DEF Calm
  <2> QED
    BY <2>1, <2>9, <2>10 DEF new
<1>7. CASE Clear(c)
  <2> DEFINE new == [h EXCEPT !.pc = "update"]
  <2>1. Step(c, new) /\ h.pc = "clear"
    BY <1>7 DEF Clear, Goto, Step
  <2>2. new.pc = "update" /\ new.verb = h.verb /\ new.name = h.name /\ new.deps = h.deps
    BY <1>1 DEF Handler
  <2> HIDE DEF new, h
  <2>3. UNCHANGED <<nodes, pods, running, applied, retired>> /\ deployments' = {}
    BY <1>7 DEF Clear
  <2>4. CalmTabs'
    BY <1>3, <1>4, <2>1, <2>2, <2>3 DEF CalmTabs, Known, Kept, Shows, Lists
  <2>5. CalmRequest(c, handler[c])'
    BY <1>3, <1>4, <2>1, <2>2, <2>3 DEF CalmRequest, Known, Reporting, Editing
  <2> QED
    BY <1>4, <2>1, <2>4, <2>5 DEF Calm
<1>8. CASE Update(c)
  <2>1. Step(c, Idle) /\ h.pc = "update" /\ UNCHANGED <<nodes, pods, running, retired>>
    BY <1>8 DEF Update
  <2>2. h.verb = "apply" => {x \in Operator : handler[x].verb = "delete"} = {}
    <3>1. \A d \in Operator \ {c} : handler[d] = Idle
      BY <1>2 DEF Handlers, Requests, ClientOK, Client
    <3>2. Idle.verb = ""
      BY DEF Idle
    <3> QED
      BY <3>1, <3>2
  <2>3. /\ deployments' = h.deps
        /\ applied' = IF h.verb = "apply" THEN applied \cup {h.name} ELSE applied
    BY <1>8, <2>2 DEF Update
  <2> HIDE DEF h
  <2>4. /\ applied' \subseteq deployments' /\ deployments' \subseteq Known'
        /\ Known \subseteq Known'
    BY <1>3, <2>1, <2>3 DEF CalmRequest, Known, Editing
  <2>5. ~During("update")' /\ ~During("writePods") /\ ~During("writeNodes")
    BY <1>4, <1>5, <2>1
  <2>6. \A n \in Node : Kept(n)' = Kept(n)
    BY <1>3, <2>1, <2>3 DEF CalmTabs, Known, Kept, CalmRequest, Editing
  <2>7. CalmTabs'
    BY <1>3, <2>1, <2>4, <2>5, <2>6 DEF CalmTabs, Shows, Lists
  <2>8. CalmRequest(c, handler[c])'
    BY <1>4, <1>5, <2>1 DEF CalmRequest, Reporting, Editing
  <2> QED
    BY <1>4, <2>1, <2>7, <2>8 DEF Calm
<1> QED
  BY <1>6, <1>7, <1>8

\* As long as no two requests have overlapped and no call has failed, the tabs and the one
\* request in progress agree on what was applied and on who runs what.
THEOREM CalmHolds == Spec => [](Handlers /\ Calm)
<1>1. ASSUME Handlers, Calm, [Next]_vars PROVE Calm'
  <2>1. CASE ~calm'
    BY <2>1 DEF Calm
  <2>2. CASE calm'
    <3>1. CASE UNCHANGED vars
      BY <3>1, <1>1 DEF vars, Calm, Alone, CalmTabs, CalmRequest, Known, Kept, Shows, Lists, During
    <3>2. ~(\E c \in Client : Fail(c))
      BY <2>2 DEF Fail
    <3> QED
      BY <1>1, <2>2, <3>1, <3>2, HeartbeatKeepsCalm, EditKeepsCalm DEF Next
  <2> QED
    BY <2>1, <2>2
<1>2. ASSUME Init PROVE Calm
  <2>1. \A c \in Client : handler[c].pc = "idle"
    BY <1>2 DEF Init, Idle
  <2>2. Alone /\ \A c \in Client : CalmRequest(c, handler[c])
    BY <2>1 DEF Alone, CalmRequest, Reporting, Editing
  <2>3. CalmTabs
    BY <1>2 DEF Init, CalmTabs, Known, Kept, Shows, Lists
  <2> QED
    BY <2>2, <2>3 DEF Calm
<1> QED
  BY <1>1, <1>2, HandlersHold, PTL DEF Spec

\* As long as no two requests overlap and no call fails, what was applied, with an answer,
\* and nobody asked to delete is in the Deployments tab.
THEOREM NothingIsLost == Spec => []AppliedStays
<1>1. Handlers /\ Calm => AppliedStays
  BY DEF Handlers, Requests, ClientOK, Editing, Calm, CalmTabs, During, AppliedStays, Rewriting, At
<1> QED
  BY CalmHolds, <1>1, PTL

\* And until then no kubelet stops a pod that nobody wants to go: heartbeats that rewrite
\* the Pods and Nodes tabs leave every pod where it runs.
THEOREM NothingIsStopped == Spec => RunningPodsStay
<1>1. Handlers /\ Calm /\ [Next]_vars =>
          [calm => \A n \in Node : (running[n] \cap applied) \ retired \subseteq running'[n]]_vars
  <2> SUFFICES ASSUME Handlers, Calm, Next, calm, NEW n \in Node
               PROVE  Kept(n) \subseteq running'[n]
    BY DEF Kept, vars
  <2>1. CASE running' = running
    BY <2>1 DEF Kept
  <2>2. ASSUME NEW m \in Node, Answer(m) PROVE Kept(n) \subseteq running'[n]
    <3>1. Shows(handler[m].pods)
      BY <2>2 DEF Answer, At, Calm, CalmRequest, Client
    <3>2. running'[n] = IF n = m THEN {p \in DOMAIN handler[m].pods : handler[m].pods[p] = m}
                                 ELSE running[n]
      BY <2>2 DEF Answer, Handlers, Tabs
    <3> QED
      BY <3>1, <3>2 DEF Shows, Kept
  <2> QED
    BY <2>1, <2>2
    DEF Next, Heartbeat, ReadNodes, ReadPods, ReadDeployments, ClearPods, WritePods, ClearNodes,
        WriteNodes, Read, Clear, Update, Fail
<1> QED
  BY CalmHolds, <1>1, PTL DEF Spec, RunningPodsStay
=============================================================================
