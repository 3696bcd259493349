-------------------------- MODULE SheetGateProofs --------------------------
(***************************************************************************)
(* Proofs about module SheetGate for any sheet, plan and number of edits   *)
(* and exits.  The hot load: the hash recorded in a gateway pod is that of *)
(* what its nginx serves.  The plan: every variable has its type, the      *)
(* status of a row tells the truth, and what is rendered answers each      *)
(* request with the route the rows promise.                                *)
(***************************************************************************)
EXTENDS SheetGate, Recursion

\* The shape of pods and of the kubelet's loop.
IsPod(p) == p = [nginx |-> p.nginx, conf |-> p.conf, prev |-> p.prev,
                 applied |-> p.applied, serves |-> p.serves]

Shapes ==
    /\ pod = [g \in Gateway |-> pod[g]]
    /\ \A g \in Gateway : IsPod(pod[g])
    /\ kubelet = [pc |-> kubelet.pc, todo |-> kubelet.todo, order |-> kubelet.order]
    /\ kubelet.pc \in {"idle", "run", "install", "test", "reload", "record"}

Honest(p) == p.applied # Stock => p.nginx = "on" /\ p.serves = p.applied
InScript(g) == kubelet.pc \in {"test", "reload", "record"} /\ g = This

\* How far the script has come with a pod, and what it may rely on there.
Progress(g) ==
    /\ ~InScript(g) => Loadable(pod[g].conf) /\ Honest(pod[g])
    /\ InScript(g) /\ kubelet.pc = "test" =>
           Loadable(pod[g].prev) /\ pod[g].conf = Order /\ Honest(pod[g])
    /\ InScript(g) /\ kubelet.pc = "reload" =>
           Loadable(pod[g].conf) /\ pod[g].conf = Order /\ Honest(pod[g])
    /\ InScript(g) /\ kubelet.pc = "record" =>
           Loadable(pod[g].conf) /\ pod[g].nginx = "on" /\ pod[g].serves = Order

IInv == Shapes /\ \A g \in Gateway : Up(g) => Progress(g)

\* What is created loads the configuration of its image, and nothing is recorded in it.
LEMMA NewPods ==
    /\ Loadable(Stock) /\ Honest(Created) /\ Created.conf = Stock
    /\ Gone.nginx = "gone" /\ Created.nginx = "starting"
BY DEF Loadable, Honest, Created, Gone

\* A step outside the pods and the loop.
LEMMA Untouched == ASSUME IInv, UNCHANGED <<kubelet, pod>> PROVE IInv'
BY DEF IInv, Shapes, Progress, InScript, Honest, This, Order, Up, Loadable

\* A step of the loop that leaves the script, or does not enter it, changing no pod.
LEMMA MovesOn ==
    ASSUME IInv, NEW pc \in {"idle", "run", "install"}, NEW todo, NEW order,
           kubelet' = [pc |-> pc, todo |-> todo, order |-> order],
           UNCHANGED pod,
           \A g \in Gateway : Up(g) => Loadable(pod[g].conf) /\ Honest(pod[g])
    PROVE  IInv'
BY DEF IInv, Shapes, Progress, InScript, Honest, This, Order, Up, Loadable

\* Writing one field of a record of one of these shapes.
LEMMA OneField ==
    ASSUME NEW p, IsPod(p), NEW v
    PROVE  /\ IsPod([p EXCEPT !.nginx = v]) /\ IsPod([p EXCEPT !.conf = v])
           /\ IsPod([p EXCEPT !.prev = v]) /\ IsPod([p EXCEPT !.applied = v])
           /\ IsPod([p EXCEPT !.serves = v])
<1>1. IsPod([p EXCEPT !.nginx = v])
  BY DEF IsPod
<1>2. IsPod([p EXCEPT !.conf = v])
  BY DEF IsPod
<1>3. IsPod([p EXCEPT !.prev = v])
  BY DEF IsPod
<1>4. IsPod([p EXCEPT !.applied = v])
  BY DEF IsPod
<1>5. IsPod([p EXCEPT !.serves = v])
  BY DEF IsPod
<1> QED
  BY <1>1, <1>2, <1>3, <1>4, <1>5

\* A step keeps the shapes when it writes pods and a loop position of these shapes.
LEMMA Shaped ==
    ASSUME Shapes, pod' = [g \in Gateway |-> pod'[g]], \A g \in Gateway : IsPod(pod'[g]),
           kubelet' = [pc |-> kubelet'.pc, todo |-> kubelet'.todo, order |-> kubelet'.order],
           kubelet'.pc \in {"idle", "run", "install", "test", "reload", "record"}
    PROVE  Shapes'
BY DEF Shapes

\* What the shapes say of pods alone.
LEMMA PodsAre == ASSUME IInv PROVE \A g \in Gateway : IsPod(pod[g])
BY DEF IInv, Shapes

\* The empty place and the new container.
LEMMA PodsMade == IsPod(Gone) /\ IsPod(Created)
BY DEF IsPod, Gone, Created

\* Outside the script and before it, every pod loads and is honest.
LEMMA AtRest ==
    ASSUME IInv, kubelet.pc \in {"idle", "run", "install"}
    PROVE  \A g \in Gateway : Up(g) => Loadable(pod[g].conf) /\ Honest(pod[g])
BY DEF IInv, Progress, InScript

\* The steps of the loop and of the script.
LEMMA LoopKeeps == IInv /\ Kubelet => IInv'
<1> SUFFICES ASSUME IInv, Kubelet PROVE IInv'
  OBVIOUS
<1> USE DEF IInv
<1>1. CASE Heartbeat
  <2>1. \E todo, order : kubelet' = [pc |-> "run", todo |-> todo, order |-> order]
    BY <1>1 DEF Heartbeat
  <2> QED
    BY <1>1, <2>1, AtRest, MovesOn DEF Heartbeat
<1>2. CASE Run
  <2> DEFINE now == IF Up(This) THEN pod[This] ELSE Created
  <2>1. /\ kubelet.pc = "run" /\ pod' = [pod EXCEPT ![This] = now]
        /\ kubelet'.pc \in {"run", "install"}
        /\ kubelet' = [pc |-> kubelet'.pc, todo |-> kubelet'.todo, order |-> kubelet'.order]
    BY <1>2 DEF Run, At, Go, NextPod, Shapes
  <2>2. \A g \in Gateway : Up(g) => Loadable(pod[g].conf) /\ Honest(pod[g])
    BY <2>1, AtRest
  <2>3. \A g \in Gateway : pod'[g] = pod[g] \/ pod'[g] = Created
    BY <2>1 DEF Shapes
  <2>4. Shapes'
    <3>1. pod' = [g \in Gateway |-> pod'[g]]
      BY <2>1 DEF Shapes
    <3>2. \A g \in Gateway : IsPod(pod'[g])
      BY <2>3, PodsMade DEF Shapes
    <3>3. /\ kubelet' = [pc |-> kubelet'.pc, todo |-> kubelet'.todo, order |-> kubelet'.order]
          /\ kubelet'.pc \in {"idle", "run", "install", "test", "reload", "record"}
      BY <2>1 DEF Shapes
    <3> QED
      BY <3>1, <3>2, <3>3, Shaped
  <2>5. ASSUME NEW g \in Gateway, Up(g)' PROVE Progress(g)'
    <3>1. ~InScript(g)'
      BY <2>1 DEF InScript
    <3>2. Loadable(pod'[g].conf) /\ Honest(pod'[g])
      BY <2>2, <2>3, <2>5, NewPods DEF Up
    <3> QED
      BY <3>1, <3>2 DEF Progress, Loadable, Honest
  <2> QED
    BY <2>4, <2>5
<1>3. CASE Install
  <2>1. /\ kubelet.pc = "install" /\ kubelet' = [kubelet EXCEPT !.pc = "test"]
        /\ pod' = [pod EXCEPT ![This].prev = pod[This].conf, ![This].conf = Order]
    BY <1>3 DEF Install, Script, At, Go
  <2>2. \A g \in Gateway : Up(g) => Loadable(pod[g].conf) /\ Honest(pod[g])
    BY <2>1, AtRest
  <2>3. This' = This /\ Order' = Order /\ kubelet'.pc = "test"
    BY <2>1 DEF Shapes, This, Order
  <2>4. \A g \in Gateway : pod'[g] =
            IF g = This THEN [[pod[g] EXCEPT !.prev = pod[g].conf] EXCEPT !.conf = Order]
            ELSE pod[g]
    BY <2>1 DEF Shapes
  <2>5. Shapes'
    <3>1. pod' = [g \in Gateway |-> pod'[g]]
      BY <2>1 DEF Shapes
    <3>2. ASSUME NEW g \in Gateway PROVE IsPod(pod'[g])
      <4>1. IsPod(pod[g])
        BY PodsAre
      <4>2. IsPod([[pod[g] EXCEPT !.prev = pod[g].conf] EXCEPT !.conf = Order])
        BY <4>1, OneField
      <4> QED
        BY <4>1, <4>2, <2>4
    <3>3. /\ kubelet' = [pc |-> kubelet'.pc, todo |-> kubelet'.todo, order |-> kubelet'.order]
          /\ kubelet'.pc \in {"idle", "run", "install", "test", "reload", "record"}
      BY <2>1 DEF Shapes
    <3> QED
      BY <3>1, <3>2, <3>3, Shaped
  <2>6. ASSUME NEW g \in Gateway, Up(g)' PROVE Progress(g)'
    <3>1. CASE g = This
      <4>1. /\ pod'[g].prev = pod[g].conf /\ pod'[g].conf = Order
            /\ pod'[g].nginx = pod[g].nginx /\ pod'[g].applied = pod[g].applied
            /\ pod'[g].serves = pod[g].serves
        BY <2>4, <3>1, PodsAre DEF IsPod
      <4>2. Loadable(pod[g].conf) /\ Honest(pod[g])
        BY <2>2, <2>6, <4>1 DEF Up
      <4> QED
        BY <2>3, <3>1, <4>1, <4>2 DEF Progress, InScript, Honest, Loadable
    <3>2. CASE g # This
      <4>1. pod'[g] = pod[g]
        BY <2>4, <3>2
      <4> QED
        BY <2>2, <2>3, <2>6, <3>2, <4>1 DEF Progress, InScript, Honest, Loadable, Up
    <3> QED
      BY <3>1, <3>2
  <2> QED
    BY <2>5, <2>6
<1>4. CASE Test
  <2>1. kubelet.pc = "test"
    BY <1>4 DEF Test, Script, At
  <2>2. CASE Loadable(Order)
    <3>1. kubelet' = [kubelet EXCEPT !.pc = "reload"] /\ pod' = pod
      BY <1>4, <2>2 DEF Test, Go
    <3>2. This' = This /\ Order' = Order /\ kubelet'.pc = "reload"
      BY <3>1 DEF Shapes, This, Order
    <3>3. Shapes'
      BY <3>1 DEF Shapes
    <3>4. ASSUME NEW g \in Gateway, Up(g)' PROVE Progress(g)'
      BY <2>1, <2>2, <3>1, <3>2, <3>4 DEF Progress, InScript, Honest, Loadable, Up
    <3> QED
      BY <3>3, <3>4
  <2>3. CASE ~Loadable(Order)
    <3>1. /\ kubelet' = [kubelet EXCEPT !.pc = "run", !.todo = Tail(@)]
          /\ pod' = [pod EXCEPT ![This].conf = pod[This].prev]
      BY <1>4, <2>3 DEF Test, NextPod
    <3>2. kubelet'.pc = "run"
      BY <3>1 DEF Shapes
    <3>3. \A g \in Gateway :
              pod'[g] = IF g = This THEN [pod[g] EXCEPT !.conf = pod[g].prev] ELSE pod[g]
      BY <3>1 DEF Shapes
    <3>4. Shapes'
      <4>1. pod' = [g \in Gateway |-> pod'[g]]
        BY <3>1 DEF Shapes
      <4>2. ASSUME NEW g \in Gateway PROVE IsPod(pod'[g])
        <5>1. IsPod(pod[g])
          BY PodsAre
        <5>2. IsPod([pod[g] EXCEPT !.conf = pod[g].prev])
          BY <5>1, OneField
        <5> QED
          BY <5>1, <5>2, <3>3
      <4>3. /\ kubelet' = [pc |-> kubelet'.pc, todo |-> kubelet'.todo, order |-> kubelet'.order]
            /\ kubelet'.pc \in {"idle", "run", "install", "test", "reload", "record"}
        BY <3>1 DEF Shapes
      <4> QED
        BY <4>1, <4>2, <4>3, Shaped
    <3>5. ASSUME NEW g \in Gateway, Up(g)' PROVE Progress(g)'
      <4>1. CASE g = This
        <5>1. /\ pod'[g].conf = pod[g].prev /\ pod'[g].nginx = pod[g].nginx
              /\ pod'[g].applied = pod[g].applied /\ pod'[g].serves = pod[g].serves
          BY <3>3, <4>1, PodsAre DEF IsPod
        <5> QED
          BY <2>1, <3>2, <3>5, <4>1, <5>1 DEF Progress, InScript, Honest, Loadable, Up
      <4>2. CASE g # This
        <5>1. pod'[g] = pod[g]
          BY <3>3, <4>2
        <5> QED
          BY <2>1, <3>2, <3>5, <4>2, <5>1 DEF Progress, InScript, Honest, Loadable, Up
      <4> QED
        BY <4>1, <4>2
    <3> QED
      BY <3>4, <3>5
  <2> QED
    BY <2>2, <2>3
<1>5. CASE Reload
  <2>1. kubelet.pc = "reload"
    BY <1>5 DEF Reload, Script, At
  <2>2. CASE pod[This].nginx = "on"
    <3>1. /\ kubelet' = [kubelet EXCEPT !.pc = "record"]
          /\ pod' = [pod EXCEPT ![This].serves = pod[This].conf]
      BY <1>5, <2>2 DEF Reload, Go
    <3>2. This' = This /\ Order' = Order /\ kubelet'.pc = "record"
      BY <3>1 DEF Shapes, This, Order
    <3>3. \A g \in Gateway :
              pod'[g] = IF g = This THEN [pod[g] EXCEPT !.serves = pod[g].conf] ELSE pod[g]
      BY <3>1 DEF Shapes
    <3>4. Shapes'
      <4>1. pod' = [g \in Gateway |-> pod'[g]]
        BY <3>1 DEF Shapes
      <4>2. ASSUME NEW g \in Gateway PROVE IsPod(pod'[g])
        <5>1. IsPod(pod[g])
          BY PodsAre
        <5>2. IsPod([pod[g] EXCEPT !.serves = pod[g].conf])
          BY <5>1, OneField
        <5> QED
          BY <5>1, <5>2, <3>3
      <4>3. /\ kubelet' = [pc |-> kubelet'.pc, todo |-> kubelet'.todo, order |-> kubelet'.order]
            /\ kubelet'.pc \in {"idle", "run", "install", "test", "reload", "record"}
        BY <3>1 DEF Shapes
      <4> QED
        BY <4>1, <4>2, <4>3, Shaped
    <3>5. ASSUME NEW g \in Gateway, Up(g)' PROVE Progress(g)'
      <4>1. CASE g = This
        <5>1. /\ pod'[g].conf = pod[g].conf /\ pod'[g].nginx = pod[g].nginx
              /\ pod'[g].serves = pod[g].conf
          BY <3>3, <4>1, PodsAre DEF IsPod
        <5> QED
          BY <2>1, <2>2, <3>2, <3>5, <4>1, <5>1 DEF Progress, InScript, Honest, Loadable, Up
      <4>2. CASE g # This
        <5>1. pod'[g] = pod[g]
          BY <3>3, <4>2
        <5> QED
          BY <2>1, <3>2, <3>5, <4>2, <5>1 DEF Progress, InScript, Honest, Loadable, Up
      <4> QED
        BY <4>1, <4>2
    <3> QED
      BY <3>4, <3>5
  <2>3. CASE pod[This].nginx # "on"
    <3>1. kubelet' = [pc |-> "run", todo |-> Tail(kubelet.todo), order |-> kubelet.order]
      BY <1>5, <2>3 DEF Reload, NextPod, Shapes
    <3>2. \A g \in Gateway : Up(g) => Loadable(pod[g].conf) /\ Honest(pod[g])
      BY <2>1 DEF Progress, InScript
    <3> QED
      BY <1>5, <2>3, <3>1, <3>2, MovesOn DEF Reload
  <2> QED
    BY <2>2, <2>3
<1>6. CASE Record
  <2>1. /\ kubelet.pc = "record" /\ kubelet' = [kubelet EXCEPT !.pc = "run", !.todo = Tail(@)]
        /\ pod' = [pod EXCEPT ![This].applied = Order]
    BY <1>6 DEF Record, Script, At, NextPod
  <2>2. kubelet'.pc = "run"
    BY <2>1 DEF Shapes
  <2>3. \A g \in Gateway : pod'[g] = IF g = This THEN [pod[g] EXCEPT !.applied = Order] ELSE pod[g]
    BY <2>1 DEF Shapes
  <2>4. Shapes'
    <3>1. pod' = [g \in Gateway |-> pod'[g]]
      BY <2>1 DEF Shapes
    <3>2. ASSUME NEW g \in Gateway PROVE IsPod(pod'[g])
      <4>1. IsPod(pod[g])
        BY PodsAre
      <4>2. IsPod([pod[g] EXCEPT !.applied = Order])
        BY <4>1, OneField
      <4> QED
        BY <4>1, <4>2, <2>3
    <3>3. /\ kubelet' = [pc |-> kubelet'.pc, todo |-> kubelet'.todo, order |-> kubelet'.order]
          /\ kubelet'.pc \in {"idle", "run", "install", "test", "reload", "record"}
      BY <2>1 DEF Shapes
    <3> QED
      BY <3>1, <3>2, <3>3, Shaped
  <2>5. ASSUME NEW g \in Gateway, Up(g)' PROVE Progress(g)'
    <3>1. CASE g = This
      <4>1. /\ pod'[g].conf = pod[g].conf /\ pod'[g].nginx = pod[g].nginx
            /\ pod'[g].applied = Order /\ pod'[g].serves = pod[g].serves
        BY <2>3, <3>1, PodsAre DEF IsPod
      <4> QED
        BY <2>1, <2>2, <2>5, <3>1, <4>1 DEF Progress, InScript, Honest, Loadable, Up
    <3>2. CASE g # This
      <4>1. pod'[g] = pod[g]
        BY <2>3, <3>2
      <4> QED
        BY <2>1, <2>2, <2>5, <3>2, <4>1 DEF Progress, InScript, Honest, Loadable, Up
    <3> QED
      BY <3>1, <3>2
  <2> QED
    BY <2>4, <2>5
<1>7. CASE Collect
  <2>1. kubelet.pc = "run" /\ kubelet' = [kubelet EXCEPT !.pc = "idle"]
    BY <1>7 DEF Collect, Go
  <2>2. /\ pod' = [g \in Gateway |-> pod'[g]]
        /\ \A g \in Gateway : pod'[g] = pod[g] \/ pod'[g] = Gone
    BY <1>7 DEF Collect
  <2>3. kubelet'.pc = "idle"
    BY <2>1 DEF Shapes
  <2>4. Shapes'
    <3>1. \A g \in Gateway : IsPod(pod'[g])
      BY <2>2, PodsAre, PodsMade
    <3>2. /\ kubelet' = [pc |-> kubelet'.pc, todo |-> kubelet'.todo, order |-> kubelet'.order]
          /\ kubelet'.pc \in {"idle", "run", "install", "test", "reload", "record"}
      BY <2>1 DEF Shapes
    <3> QED
      BY <2>2, <3>1, <3>2, Shaped
  <2>5. ASSUME NEW g \in Gateway, Up(g)' PROVE Progress(g)'
    <3>1. pod'[g] = pod[g]
      BY <2>2, <2>5, NewPods DEF Up
    <3> QED
      BY <2>1, <2>3, <2>5, <3>1 DEF Progress, InScript, Honest, Loadable, Up
  <2> QED
    BY <2>4, <2>5
<1>8. ASSUME NEW pc \in {"install", "test", "reload", "record"}, Abandon(pc) PROVE IInv'
  <2>1. /\ kubelet.pc = pc /\ ~Up(This) /\ pod' = pod
        /\ kubelet' = [pc |-> "run", todo |-> Tail(kubelet.todo), order |-> kubelet.order]
    BY <1>8 DEF Abandon, Script, At, NextPod, Shapes
  <2>2. \A g \in Gateway : Up(g) => Loadable(pod[g].conf) /\ Honest(pod[g])
    BY <2>1 DEF Progress, InScript
  <2> QED
    BY <2>1, <2>2, MovesOn
<1> QED
  BY <1>1, <1>2, <1>3, <1>4, <1>5, <1>6, <1>7, <1>8 DEF Kubelet

\* nginx in a pod has read its file.
Started(p) == [p EXCEPT !.nginx = "on", !.serves = p.conf]

\* What nginx changes in its pod by reading the file: it is on and serves what is there.
LEMMA Starting ==
    ASSUME NEW p, IsPod(p)
    PROVE  /\ IsPod(Started(p))
           /\ Started(p).conf = p.conf /\ Started(p).prev = p.prev /\ Started(p).nginx = "on"
           /\ Started(p).applied = p.applied /\ Started(p).serves = p.conf
<1> DEFINE on == [p EXCEPT !.nginx = "on"]
<1>1. IsPod(on)
  BY OneField
<1>2. Started(p) = [on EXCEPT !.serves = p.conf]
  BY DEF Started, IsPod
<1>3. IsPod([on EXCEPT !.serves = p.conf])
  <2> HIDE DEF on
  <2> QED
    BY <1>1, OneField
<1>4. IsPod(Started(p))
  <2> HIDE DEF on
  <2> QED
    BY <1>2, <1>3
<1> QED
  BY <1>4 DEF Started, IsPod

\* What happens in a pod meanwhile: nginx starts, in the middle of the script perhaps, with
\* whatever file is there, or the container exits.
LEMMA PodKeeps ==
    ASSUME NEW g \in Gateway, IInv, NginxStarts(g) \/ ContainerExits(g)
    PROVE  IInv'
<1> USE DEF IInv
<1>1. /\ kubelet' = kubelet
      /\ \/ pod' = [pod EXCEPT ![g] = Gone]
         \/ /\ pod[g].nginx = "starting" /\ Loadable(pod[g].conf)
            /\ pod' = [pod EXCEPT ![g] = Started(pod[g])]
  BY DEF NginxStarts, ContainerExits, Shapes, Started
<1>2. \A h \in Gateway \ {g} : pod'[h] = pod[h]
  BY <1>1 DEF Shapes
<1>3. Shapes'
  <2>1. pod' = [h \in Gateway |-> pod'[h]]
    BY <1>1 DEF Shapes
  <2>2. ASSUME NEW h \in Gateway PROVE IsPod(pod'[h])
    <3>1. pod'[h] = pod[h] \/ pod'[h] = Gone \/ pod'[h] = Started(pod[h])
      BY <1>1 DEF Shapes
    <3> QED
      BY <3>1, PodsAre, PodsMade, Starting
  <2> QED
    BY <1>1, <2>1, <2>2, Shaped DEF Shapes
<1>4. ASSUME NEW h \in Gateway, Up(h)' PROVE Progress(h)'
  <2>1. CASE h # g
    BY <1>1, <1>2, <1>4, <2>1 DEF Progress, InScript, Honest, Loadable, Up, This, Order
  <2>2. CASE h = g
    <3>1. pod'[g] # Gone
      BY <1>4, <2>2, NewPods DEF Up
    <3>2. /\ pod[g].nginx = "starting" /\ Loadable(pod[g].conf)
          /\ pod'[g] = Started(pod[g])
      BY <1>1, <3>1 DEF Shapes
    <3>3. /\ pod'[g].conf = pod[g].conf /\ pod'[g].prev = pod[g].prev /\ pod'[g].nginx = "on"
          /\ pod'[g].applied = pod[g].applied /\ pod'[g].serves = pod[g].conf
      BY <3>2, PodsAre, Starting
    <3>4. Progress(g)
      BY <3>2 DEF Up
    <3>5. InScript(g)' = InScript(g) /\ Order' = Order
      BY <1>1 DEF InScript, This, Order
    <3>6. ~(InScript(g) /\ kubelet.pc = "record")
      BY <3>2, <3>4 DEF Progress
    <3>7. pod[g].applied = Stock
      BY <3>2, <3>4, <3>6 DEF Progress, Honest, InScript
    <3> QED
      BY <1>1, <2>2, <3>2, <3>3, <3>4, <3>5, <3>6, <3>7 DEF Progress, InScript, Honest, Loadable
  <2> QED
    BY <2>1, <2>2
<1> QED
  BY <1>3, <1>4

\* In every reachable state, for each pod, the script is as far as the pod shows.
THEOREM Invariance == Spec => []IInv
<1>1. Init => IInv
  BY NewPods, PodsMade DEF Init, IInv, Shapes, Up
<1>2. IInv /\ [Next]_vars => IInv'
  <2>1. Users => UNCHANGED <<kubelet, pod>>
    BY DEF Users, ApplyGateway, DeleteGateway, ApplyRoute, DeleteRoute, TypeGateway, TypeRoute,
           ChangeService, Edit
  <2>2. UNCHANGED vars => UNCHANGED <<kubelet, pod>>
    BY DEF vars
  <2> QED
    BY <2>1, <2>2, Untouched, LoopKeeps, PodKeeps DEF Next
<1> QED
  BY <1>1, <1>2, PTL DEF Spec

\* The hash recorded in a gateway pod is never that of a configuration its nginx does not
\* serve, and a file that nginx would refuse is only there while the script is at work:
\* for every plan the apiserver could send.
THEOREM RecordsAreTrue == Spec => []RecordedIsServed
<1>1. IInv => RecordedIsServed
  BY DEF IInv, Progress, InScript, Honest, RecordedIsServed
<1> QED
  BY <1>1, Invariance, PTL

-----------------------------------------------------------------------------
(* The plan: a loop over the rows of Routes (plan).                            *)

RowsOK == /\ gateways \in Seq([row : [name : Gateway, valid : BOOLEAN], status : Statuses])
          /\ routes \in Seq([row : RouteRow, status : Statuses])

\* A row of a sequence over a set is in the set.
LEMMA InSeq ==
    ASSUME NEW S, NEW q \in Seq(S)
    PROVE  /\ DOMAIN q = 1..Len(q) /\ Len(q) \in Nat
           /\ \A k \in DOMAIN q : q[k] \in S
  OBVIOUS

\* What the rows of the two tabs consist of.
LEMMA RowParts ==
    ASSUME RowsOK
    PROVE  /\ DOMAIN gateways = 1..Len(gateways) /\ Len(gateways) \in Nat
           /\ DOMAIN routes = 1..Len(routes) /\ Len(routes) \in Nat
           /\ \A k \in DOMAIN gateways : /\ gateways[k].row \in [name : Gateway, valid : BOOLEAN]
                                         /\ gateways[k].row.name \in Gateway
                                         /\ gateways[k].status \in Statuses
           /\ \A k \in DOMAIN routes : /\ routes[k].row \in RouteRow
                                       /\ routes[k].status \in Statuses
<1>1. /\ DOMAIN gateways = 1..Len(gateways) /\ Len(gateways) \in Nat
      /\ \A k \in DOMAIN gateways :
             gateways[k] \in [row : [name : Gateway, valid : BOOLEAN], status : Statuses]
  BY InSeq DEF RowsOK
<1>2. /\ DOMAIN routes = 1..Len(routes) /\ Len(routes) \in Nat
      /\ \A k \in DOMAIN routes : routes[k] \in [row : RouteRow, status : Statuses]
  BY InSeq DEF RowsOK
<1> QED
  BY <1>1, <1>2

NextName(k, before) ==
    IF k = 0 THEN <<>>
    ELSE IF gateways[k].row.valid THEN Append(before, gateways[k].row.name) ELSE before
Lists(f, top) == f = [k \in 0..top |-> NextName(k, f[k - 1])]

\* The valid gateways can be listed one after the other.
LEMMA PlannedIsListed ==
    ASSUME RowsOK
    PROVE  \E f : Lists(f, Len(gateways)) /\ Planned = f[Len(gateways)]
<1> DEFINE top == Len(gateways)
           Q == {k \in 0..top : \E f : Lists(f, k)}
<1>1. top \in Nat
  BY DEF RowsOK
<1>2. 0 \in Q
  <2>1. Lists([k \in 0..0 |-> <<>>], 0)
    BY DEF Lists, NextName
  <2> QED
    BY <1>1, <2>1
<1>3. ASSUME NEW k \in 0..top, k - 1 \in Q, k > 0 PROVE k \in Q
  <2>1. PICK f : Lists(f, k - 1)
    BY <1>3
  <2> DEFINE h == [j \in 0..k |-> IF j = k THEN NextName(k, f[k - 1]) ELSE f[j]]
  <2>2. ASSUME NEW j \in 0..k PROVE h[j] = NextName(j, h[j - 1])
    <3>1. CASE j = k
      BY <3>1, <1>1, <1>3
    <3>2. CASE j # k /\ j > 0
      <4>1. j \in 0..(k - 1) /\ j - 1 \in 0..k /\ j - 1 # k
        BY <3>2, <1>1
      <4> QED
        BY <3>2, <4>1, <2>1 DEF Lists
    <3>3. CASE j = 0
      BY <3>3, <1>1, <1>3, <2>1 DEF Lists, NextName
    <3> QED
      BY <3>1, <3>2, <3>3, <1>1
  <2>3. Lists(h, k)
    BY <2>2 DEF Lists
  <2> QED
    BY <2>3
<1> HIDE DEF Q
<1>4. 0..top \subseteq Q
  BY <1>1, <1>2, <1>3, Climb
<1>5. \E f : Lists(f, top)
  BY <1>1, <1>4 DEF Q
<1>6. Planned = (CHOOSE f : Lists(f, top))[top]
  BY DEF Planned, Lists, NextName
<1> QED
  BY <1>5, <1>6

\* They are gateways.
LEMMA PlannedType == ASSUME RowsOK PROVE Planned \in Seq(Gateway)
<1>1. PICK f : Lists(f, Len(gateways)) /\ Planned = f[Len(gateways)]
  BY PlannedIsListed
<1> DEFINE top == Len(gateways)
           Q == {k \in 0..top : f[k] \in Seq(Gateway)}
<1>2. top \in Nat /\ DOMAIN gateways = 1..top
  BY DEF RowsOK
<1>3. \A k \in 0..top : f[k] = NextName(k, f[k - 1])
  BY <1>1 DEF Lists
<1>4. 0 \in Q
  <2>1. 0 \in 0..top /\ f[0] = <<>>
    BY <1>2, <1>3 DEF NextName
  <2>2. <<>> \in Seq(Gateway)
    OBVIOUS
  <2> QED
    BY <2>1, <2>2
<1>5. ASSUME NEW k \in 0..top, k - 1 \in Q, k > 0 PROVE k \in Q
  <2>2. gateways[k].row.name \in Gateway
    <3>1. k \in DOMAIN gateways
      BY <1>2, <1>5
    <3> QED
      BY <3>1, RowParts
  <2>3. f[k - 1] \in Seq(Gateway) /\ f[k] = NextName(k, f[k - 1])
    BY <1>3, <1>5
  <2>4. f[k] = Append(f[k - 1], gateways[k].row.name) \/ f[k] = f[k - 1]
    BY <1>5, <2>3 DEF NextName
  <2>5. f[k] \in Seq(Gateway)
    BY <2>2, <2>3, <2>4
  <2> QED
    BY <2>5
<1> HIDE DEF Q
<1>6. 0..top \subseteq Q
  BY <1>2, <1>4, <1>5, Climb
<1> QED
  BY <1>1, <1>2, <1>6 DEF Q

NoPlan == [attached |-> [g \in ToSet(Planned) |-> {}], status |-> [r \in {} |-> Unset]]
NextPlan(k, before) == IF k = 0 THEN NoPlan ELSE PlanRow(Planned, before, routes[k].row)
Plans(f, top) == f = [k \in 0..top |-> NextPlan(k, f[k - 1])]

\* The rows can be planned one after the other.
LEMMA PlanIsWalk ==
    ASSUME RowsOK
    PROVE  \E f : Plans(f, Len(routes)) /\ Plan = f[Len(routes)]
<1> DEFINE top == Len(routes)
           Q == {k \in 0..top : \E f : Plans(f, k)}
<1>1. top \in Nat
  BY DEF RowsOK
<1>2. 0 \in Q
  <2>1. Plans([k \in 0..0 |-> NoPlan], 0)
    BY DEF Plans, NextPlan
  <2> QED
    BY <1>1, <2>1
<1>3. ASSUME NEW k \in 0..top, k - 1 \in Q, k > 0 PROVE k \in Q
  <2>1. PICK f : Plans(f, k - 1)
    BY <1>3
  <2> DEFINE h == [j \in 0..k |-> IF j = k THEN NextPlan(k, f[k - 1]) ELSE f[j]]
  <2>2. ASSUME NEW j \in 0..k PROVE h[j] = NextPlan(j, h[j - 1])
    <3>1. CASE j = k
      BY <3>1, <1>1, <1>3
    <3>2. CASE j # k /\ j > 0
      <4>1. j \in 0..(k - 1) /\ j - 1 \in 0..k /\ j - 1 # k
        BY <3>2, <1>1
      <4> QED
        BY <3>2, <4>1, <2>1 DEF Plans
    <3>3. CASE j = 0
      BY <3>3, <1>1, <1>3, <2>1 DEF Plans, NextPlan
    <3> QED
      BY <3>1, <3>2, <3>3, <1>1
  <2>3. Plans(h, k)
    BY <2>2 DEF Plans
  <2> QED
    BY <2>3
<1> HIDE DEF Q
<1>4. 0..top \subseteq Q
  BY <1>1, <1>2, <1>3, Climb
<1>5. \E f : Plans(f, top)
  BY <1>1, <1>4 DEF Q
<1>6. Plan = (CHOOSE f : Plans(f, top))[top]
  BY DEF Plan, Plans, NextPlan, NoPlan
<1> QED
  BY <1>5, <1>6

\* Of several rows of a gateway with one host and path the first stands: a row stands unless
\* one that stands is before it and claims the same.
LEMMA FirstStands ==
    ASSUME RowsOK, NEW g, NEW k \in Mine(g)
    PROVE  k \in Standing(g) <=> \A i \in Standing(g) :
                                     i < k => Key(routes[i].row) # Key(routes[k].row)
<1>1. ASSUME k \notin Standing(g)
      PROVE  \E i \in Standing(g) : i < k /\ Key(routes[i].row) = Key(routes[k].row)
  <2> DEFINE S == {i \in Mine(g) : i < k /\ Key(routes[i].row) = Key(routes[k].row)}
  <2>1. Mine(g) \subseteq 1..Len(routes) /\ Len(routes) \in Nat
    BY DEF Mine, RowsOK
  <2>2. S # {} /\ S \subseteq Nat
    BY <1>1, <2>1 DEF Standing
  <2>3. PICK i \in S : \A j \in S : i <= j
    <3> HIDE DEF S
    <3> QED
      BY <2>2, Smallest
  <2>4. ASSUME NEW j \in Mine(g), j < i PROVE Key(routes[j].row) # Key(routes[i].row)
    <3>1. j < k /\ ~(i <= j)
      BY <2>1, <2>4
    <3> QED
      BY <2>3, <3>1
  <2> QED
    BY <2>4 DEF Standing
<1>2. k \in Standing(g) => \A i \in Standing(g) : i < k => Key(routes[i].row) # Key(routes[k].row)
  BY DEF Standing
<1> QED
  BY <1>1, <1>2

\* The plan of the first k rows: per gateway those of its rows that stand.
PlanOK(p, k) ==
    /\ p = [attached |-> p.attached, status |-> p.status]
    /\ p.attached \in [ToSet(Planned) -> SUBSET ValidRow]
    /\ p.status \in [DOMAIN p.status -> Statuses]
    /\ DOMAIN p.status = {routes[i].row.name : i \in 1..k}
    /\ \A g \in ToSet(Planned) :
           p.attached[g] = {routes[i].row : i \in {j \in Standing(g) : j <= k}}

\* A row is for a gateway of the plan when it is valid and the gateway is a target of it.
LEMMA TargetsAre ==
    ASSUME RowsOK, NEW k \in DOMAIN routes, routes[k].row.valid
    PROVE  LET row == routes[k].row
               targets == Targets(Planned, row)
           IN  /\ targets \in Seq(Gateway \cup {row.gateway})
               /\ DOMAIN targets = 1..Len(targets) /\ Len(targets) \in Nat
               /\ row.gateway # Every => targets = <<row.gateway>> /\ ToSet(targets) = {row.gateway}
               /\ row.gateway = Every => targets = Planned
               /\ \A g \in ToSet(Planned) : g \in ToSet(targets) <=> k \in Mine(g)
<1> DEFINE row == routes[k].row
           targets == Targets(Planned, row)
<1>1. Planned \in Seq(Gateway)
  BY PlannedType
<1>2. CASE row.gateway = Every
  <2>1. targets = Planned
    BY <1>2 DEF Targets
  <2>2. \A g \in ToSet(Planned) : k \in Mine(g)
    BY <1>2 DEF Mine
  <2> QED
    BY <1>1, <1>2, <2>1, <2>2
<1>3. CASE row.gateway # Every
  <2>1. targets = <<row.gateway>>
    BY <1>3 DEF Targets
  <2>2. ToSet(targets) = {row.gateway}
    BY <2>1 DEF ToSet
  <2>3. \A g : k \in Mine(g) <=> g = row.gateway
    BY <1>3 DEF Mine
  <2> QED
    BY <1>3, <2>1, <2>2, <2>3
<1> QED
  BY <1>2, <1>3

\* Before the first row nothing is planned.
LEMMA NoPlanOK == ASSUME RowsOK PROVE PlanOK(NoPlan, 0)
<1>1. /\ NoPlan.attached = [g \in ToSet(Planned) |-> {}]
      /\ NoPlan.status = [r \in {} |-> Unset]
      /\ NoPlan = [attached |-> NoPlan.attached, status |-> NoPlan.status]
  BY DEF NoPlan
<1>2. \A g : {j \in Standing(g) : j <= 0} = {}
  BY DEF Standing, Mine, RowsOK
<1>3. {routes[i].row.name : i \in 1..0} = {}
  OBVIOUS
<1> QED
  BY <1>1, <1>2, <1>3 DEF PlanOK

\* The status column of the plan with one more row.
LEMMA StatusAdded ==
    ASSUME RowsOK, NEW k \in DOMAIN routes, NEW p, PlanOK(p, k - 1),
           NEW status \in Statuses
    PROVE  LET s == As(p, routes[k].row, status) IN
           /\ s \in [DOMAIN s -> Statuses]
           /\ DOMAIN s = {routes[i].row.name : i \in 1..k}
<1> DEFINE s == As(p, routes[k].row, status)
<1>1. s = [r \in DOMAIN p.status \cup {routes[k].row.name} |->
              IF r = routes[k].row.name THEN status ELSE p.status[r]]
  BY DEF As
<1>2. DOMAIN s = DOMAIN p.status \cup {routes[k].row.name}
  BY <1>1
<1>3. \A r \in DOMAIN s : s[r] \in Statuses
  BY <1>1 DEF PlanOK
<1>4. s \in [DOMAIN s -> Statuses]
  BY <1>1, <1>2, <1>3
<1>5. {routes[i].row.name : i \in 1..k} =
          {routes[i].row.name : i \in 1..(k - 1)} \cup {routes[k].row.name}
  <2>1. k \in Nat /\ k >= 1
    BY DEF RowsOK
  <2>2. 1..k = 1..(k - 1) \cup {k}
    BY <2>1
  <2> QED
    BY <2>2
<1>6. DOMAIN s = {routes[i].row.name : i \in 1..k}
  BY <1>2, <1>5 DEF PlanOK
<1> QED
  BY <1>1, <1>2, <1>4, <1>6

NoGateway(k) == LET targets == Targets(Planned, routes[k].row)
                IN targets = <<>> \/ ToSet(targets) \ ToSet(Planned) # {}
LostTo(p, k, t) == Holders(p.attached, Targets(Planned, routes[k].row), t, routes[k].row)
Lost(p, k) == {t \in DOMAIN Targets(Planned, routes[k].row) : LostTo(p, k, t) # {}}

\* The status a row gets when the rows before it have been planned.
Verdict(p, k, status) ==
    LET row == routes[k].row IN
    /\ ~row.valid => status = <<"Invalid">>
    /\ row.valid /\ NoGateway(k) => status = <<"NoSuchGateway">>
    /\ row.valid /\ ~NoGateway(k) /\ Lost(p, k) # {} =>
           \E t \in Lost(p, k) : \E w \in LostTo(p, k, t) : status = <<"Conflicted", w>>
    /\ row.valid /\ ~NoGateway(k) /\ Lost(p, k) = {} =>
           status = IF row.service \in services THEN <<"Accepted">> ELSE <<"BackendNotFound">>

\* The statuses of routes.
LEMMA StatusNames ==
    /\ \A s \in {"Invalid", "NoSuchGateway", "Accepted", "BackendNotFound"} : <<s>> \in Statuses
    /\ \A r \in Route : <<"Conflicted", r>> \in Statuses
BY DEF Statuses

\* Who holds a key is a route.
LEMMA HoldersAreRoutes ==
    ASSUME RowsOK, NEW k \in DOMAIN routes, routes[k].row.valid, ~NoGateway(k),
           NEW p, PlanOK(p, k - 1), NEW t \in Lost(p, k)
    PROVE  LostTo(p, k, t) \subseteq Route
<1> DEFINE targets == Targets(Planned, routes[k].row)
<1>1. t \in DOMAIN targets /\ targets[t] \in ToSet(Planned)
  BY DEF Lost, NoGateway, ToSet
<1>2. p.attached[targets[t]] \subseteq ValidRow
  <2> HIDE DEF targets
  <2> QED
    BY <1>1 DEF PlanOK
<1>3. routes[k].row \in RouteRow
  BY RowParts
<1>4. \A r \in RouteRow : r.name \in Route
  BY RowsAssumption
<1> QED
  BY <1>2, <1>3, <1>4 DEF LostTo, Holders, ValidRow

\* The row a plan cannot attach leaves the gateways as they are.
LEMMA Unattached ==
    ASSUME RowsOK, NEW k \in DOMAIN routes, NEW p, PlanOK(p, k - 1), NEW status \in Statuses,
           \A g \in ToSet(Planned) : k \notin Mine(g)
    PROVE  PlanOK([p EXCEPT !.status = As(p, routes[k].row, status)], k)
<1> DEFINE s == As(p, routes[k].row, status)
           q == [p EXCEPT !.status = s]
<1>1. /\ s \in [DOMAIN s -> Statuses]
      /\ DOMAIN s = {routes[i].row.name : i \in 1..k}
  BY StatusAdded
<1> HIDE DEF s
<1>2. q.attached = p.attached /\ q.status = s /\ q = [attached |-> q.attached, status |-> q.status]
  BY DEF PlanOK
<1>3. ASSUME NEW g \in ToSet(Planned)
      PROVE  {j \in Standing(g) : j <= k} = {j \in Standing(g) : j <= k - 1}
  <2>1. k \in Nat /\ Standing(g) \subseteq Nat /\ k \notin Standing(g)
    BY <1>3, RowParts DEF Standing, Mine
  <2> QED
    BY <2>1
<1> HIDE DEF q
<1> QED
  BY <1>1, <1>2, <1>3 DEF PlanOK, q, s

\* Attach adds the row where its key is free, which is where it stands.
LEMMA Attached ==
    ASSUME RowsOK, NEW k \in DOMAIN routes, NEW p, PlanOK(p, k - 1), NEW status \in Statuses,
           routes[k].row \in ValidRow, ~NoGateway(k)
    PROVE  LET row == routes[k].row
               targets == Targets(Planned, row)
           IN  PlanOK([attached |-> Attach(p.attached, ToSet(targets), row),
                       status |-> As(p, row, status)], k)
<1> DEFINE row == routes[k].row
           targets == Targets(Planned, row)
           a == Attach(p.attached, ToSet(targets), row)
           s == As(p, row, status)
           q == [attached |-> a, status |-> s]
<1>1. /\ s \in [DOMAIN s -> Statuses]
      /\ DOMAIN s = {routes[i].row.name : i \in 1..k}
  BY StatusAdded
<1>2. p.attached \in [ToSet(Planned) -> SUBSET ValidRow] /\ row \in ValidRow
  BY DEF PlanOK
<1>3. a = [g \in ToSet(Planned) |->
              IF g \in ToSet(targets) /\ \A r \in p.attached[g] : Key(r) # Key(row)
              THEN p.attached[g] \cup {row} ELSE p.attached[g]]
  <2> HIDE DEF targets, row
  <2> QED
    BY <1>2 DEF Attach
<1>4. \A g \in ToSet(Planned) : g \in ToSet(targets) <=> k \in Mine(g)
  BY TargetsAre DEF ValidRow
<1> HIDE DEF targets, s, row
<1>5. a \in [ToSet(Planned) -> SUBSET ValidRow]
  BY <1>2, <1>3
<1>6. ASSUME NEW g \in ToSet(Planned)
      PROVE  a[g] = {routes[i].row : i \in {j \in Standing(g) : j <= k}}
  <2> DEFINE Before == {j \in Standing(g) : j <= k - 1}
  <2>1. p.attached[g] = {routes[i].row : i \in Before}
    BY <1>6 DEF PlanOK
  <2>2. k \in Nat /\ Standing(g) \subseteq Nat /\ Standing(g) \subseteq Mine(g)
    BY RowParts DEF Standing, Mine
  <2>3. (\A r \in p.attached[g] : Key(r) # Key(row))
            <=> \A i \in Standing(g) : i < k => Key(routes[i].row) # Key(row)
    BY <2>1, <2>2
  <2>4. k \in Mine(g) => (k \in Standing(g) <=> \A r \in p.attached[g] : Key(r) # Key(row))
    BY <2>3, FirstStands DEF row
  <2>5. CASE k \in Standing(g)
    <3>1. {j \in Standing(g) : j <= k} = Before \cup {k}
      BY <2>2, <2>5
    <3>2. a[g] = p.attached[g] \cup {row}
      BY <1>3, <1>4, <1>6, <2>2, <2>4, <2>5
    <3> QED
      BY <2>1, <3>1, <3>2 DEF row
  <2>6. CASE k \notin Standing(g)
    <3>1. {j \in Standing(g) : j <= k} = Before
      BY <2>2, <2>6
    <3>2. a[g] = p.attached[g]
      BY <1>3, <1>4, <1>6, <2>2, <2>4, <2>6
    <3> QED
      BY <2>1, <3>1, <3>2
  <2> QED
    BY <2>5, <2>6
<1> HIDE DEF a
<1>7. q.attached = a /\ q.status = s /\ q = [attached |-> q.attached, status |-> q.status]
  OBVIOUS
<1>8. PlanOK(q, k)
  <2> HIDE DEF q
  <2> QED
    BY <1>1, <1>5, <1>6, <1>7 DEF PlanOK
<1> QED
  BY <1>8 DEF a, s, targets, row

\* One more row planned (the body of plan's loop).
LEMMA RowPlanned ==
    ASSUME RowsOK, NEW k \in DOMAIN routes, NEW p, PlanOK(p, k - 1)
    PROVE  LET q == PlanRow(Planned, p, routes[k].row) IN
           /\ PlanOK(q, k)
           /\ \E status \in Statuses :
                  q.status = As(p, routes[k].row, status) /\ Verdict(p, k, status)
<1> DEFINE row == routes[k].row
           targets == Targets(Planned, row)
           q == PlanRow(Planned, p, row)
<1>1. CASE ~row.valid
  <2>1. q = [p EXCEPT !.status = As(p, row, <<"Invalid">>)]
    BY <1>1 DEF PlanRow
  <2>2. \A g : k \notin Mine(g)
    BY <1>1 DEF Mine
  <2>3. PlanOK(q, k)
    BY <2>1, <2>2, StatusNames, Unattached
  <2>4. q.status = As(p, row, <<"Invalid">>)
    BY <2>1 DEF PlanOK
  <2>5. Verdict(p, k, <<"Invalid">>)
    BY <1>1 DEF Verdict
  <2> QED
    BY <2>3, <2>4, <2>5, StatusNames
<1>2. CASE row.valid /\ NoGateway(k)
  <2>1. q = [p EXCEPT !.status = As(p, row, <<"NoSuchGateway">>)]
    BY <1>2 DEF PlanRow, PlanValid, NoGateway
  <2>2. ASSUME NEW g \in ToSet(Planned) PROVE k \notin Mine(g)
    <3>1. CASE row.gateway = Every
      <4>1. targets = Planned
        BY <1>2, <3>1, TargetsAre
      <4>2. Planned = <<>>
        BY <1>2, <4>1 DEF NoGateway
      <4>3. ToSet(Planned) = {}
        BY <4>2 DEF ToSet
      <4> QED
        BY <2>2, <4>3
    <3>2. CASE row.gateway # Every
      <4>1. targets = <<row.gateway>> /\ ToSet(targets) = {row.gateway}
        BY <1>2, <3>2, TargetsAre
      <4>2. targets # <<>>
        BY <4>1
      <4>3. row.gateway \notin ToSet(Planned)
        BY <1>2, <4>1, <4>2 DEF NoGateway
      <4>4. g \in ToSet(targets) <=> k \in Mine(g)
        BY <1>2, <2>2, TargetsAre
      <4> QED
        BY <2>2, <4>1, <4>3, <4>4
    <3> QED
      BY <3>1, <3>2
  <2>3. PlanOK(q, k)
    BY <2>1, <2>2, StatusNames, Unattached
  <2>4. q.status = As(p, row, <<"NoSuchGateway">>)
    BY <2>1 DEF PlanOK
  <2>5. Verdict(p, k, <<"NoSuchGateway">>)
    BY <1>2 DEF Verdict
  <2> QED
    BY <2>3, <2>4, <2>5, StatusNames
<1>3. CASE row.valid /\ ~NoGateway(k)
  <2> DEFINE lost == Lost(p, k)
             winner == CHOOSE w \in LostTo(p, k, Min(lost)) : TRUE
             status == IF lost # {} THEN <<"Conflicted", winner>>
                       ELSE IF row.service \in services THEN <<"Accepted">>
                       ELSE <<"BackendNotFound">>
  <2>1. q = [attached |-> Attach(p.attached, ToSet(targets), row),
             status |-> As(p, row, status)]
    BY <1>3 DEF PlanRow, PlanValid, NoGateway, Lost, LostTo
  <2>2. ASSUME lost # {} PROVE Min(lost) \in lost /\ winner \in LostTo(p, k, Min(lost))
    <3>1. lost \subseteq Nat
      BY <1>3, TargetsAre DEF Lost
    <3>2. \E n \in lost : \A m \in lost : n <= m
      <4> HIDE DEF lost
      <4> QED
        BY <2>2, <3>1, Smallest
    <3>3. Min(lost) \in lost
      <4> HIDE DEF lost
      <4> QED
        BY <3>2 DEF Min
    <3>4. LostTo(p, k, Min(lost)) # {}
      BY <3>3 DEF Lost
    <3> QED
      BY <3>3, <3>4
  <2>3. status \in Statuses
    <3>1. CASE lost # {}
      <4>1. winner \in Route
        <5> HIDE DEF winner
        <5> QED
          BY <1>3, <2>2, <3>1, HoldersAreRoutes
      <4> QED
        BY <3>1, <4>1, StatusNames
    <3>2. CASE lost = {}
      BY <3>2, StatusNames
    <3> QED
      BY <3>1, <3>2
  <2>4. Verdict(p, k, status)
    <3> HIDE DEF winner
    <3> QED
      BY <1>3, <2>2 DEF Verdict
  <2> HIDE DEF status
  <2>5. PlanOK(q, k)
    <3>1. row \in ValidRow
      BY <1>3, RowParts DEF ValidRow
    <3> QED
      BY <1>3, <2>1, <2>3, <3>1, Attached
  <2>6. q.status = As(p, row, status)
    BY <2>1
  <2> QED
    BY <2>3, <2>4, <2>5, <2>6
<1> QED
  BY <1>1, <1>2, <1>3

\* At each row the rows so far have been planned.
LEMMA PlansOK ==
    ASSUME RowsOK, NEW f, Plans(f, Len(routes))
    PROVE  \A k \in 0..Len(routes) : PlanOK(f[k], k)
<1> DEFINE top == Len(routes)
           Q == {k \in 0..top : PlanOK(f[k], k)}
<1>1. top \in Nat /\ DOMAIN routes = 1..top
  BY RowParts
<1>2. \A k \in 0..top : f[k] = NextPlan(k, f[k - 1])
  BY DEF Plans
<1>3. 0 \in Q
  <2>1. 0 \in 0..top /\ f[0] = NoPlan
    BY <1>1, <1>2 DEF NextPlan
  <2> QED
    BY <2>1, NoPlanOK
<1>4. ASSUME NEW k \in 0..top, k - 1 \in Q, k > 0 PROVE k \in Q
  <2>1. k \in DOMAIN routes /\ f[k] = PlanRow(Planned, f[k - 1], routes[k].row)
    BY <1>1, <1>2, <1>4 DEF NextPlan
  <2>2. PlanOK(f[k - 1], k - 1)
    BY <1>4
  <2>3. PlanOK(f[k], k)
    BY <2>1, <2>2, RowPlanned
  <2> QED
    BY <2>3
<1> HIDE DEF Q
<1>5. 0..top \subseteq Q
  BY <1>1, <1>3, <1>4, Climb
<1> QED
  BY <1>5 DEF Q

\* What a plan says of the gateways and of the statuses.
LEMMA PlanIsOK == ASSUME RowsOK PROVE PlanOK(Plan, Len(routes))
<1>1. PICK f : Plans(f, Len(routes)) /\ Plan = f[Len(routes)]
  BY PlanIsWalk
<1>2. Len(routes) \in 0..Len(routes)
  BY RowParts
<1> QED
  BY <1>1, <1>2, PlansOK

-----------------------------------------------------------------------------
(* The status column.                                                          *)

\* The status of a row whose name no other row has is not written again.
LEMMA StatusStays ==
    ASSUME RowsOK, NEW f, Plans(f, Len(routes)), NEW i \in DOMAIN routes,
           \A j \in DOMAIN routes : j # i => routes[j].row.name # routes[i].row.name
    PROVE  f[Len(routes)].status[routes[i].row.name] = f[i].status[routes[i].row.name]
<1> DEFINE top == Len(routes)
           name == routes[i].row.name
           Q == {k \in i..top : f[k].status[name] = f[i].status[name]}
<1>1. top \in Nat /\ DOMAIN routes = 1..top /\ i \in Nat
  BY RowParts
<1>2. i \in Q
  BY <1>1
<1>3. ASSUME NEW k \in i..top, k - 1 \in Q, k > i PROVE k \in Q
  <2>1. k \in DOMAIN routes /\ k # i /\ k \in 0..top /\ k - 1 \in 0..top
    BY <1>1, <1>3
  <2>2. f[k] = PlanRow(Planned, f[k - 1], routes[k].row)
    BY <1>1, <2>1 DEF Plans, NextPlan
  <2>3. PlanOK(f[k - 1], k - 1)
    BY <2>1, PlansOK
  <2>4. PICK status \in Statuses : f[k].status = As(f[k - 1], routes[k].row, status)
    BY <2>1, <2>2, <2>3, RowPlanned
  <2>5. name \in DOMAIN f[k - 1].status
    <3>1. i \in 1..(k - 1)
      BY <1>1, <1>3
    <3> QED
      BY <2>3, <3>1 DEF PlanOK
  <2>6. name # routes[k].row.name
    BY <2>1
  <2>7. f[k].status[name] = f[k - 1].status[name]
    <3>1. As(f[k - 1], routes[k].row, status)[name] = f[k - 1].status[name]
      BY <2>5, <2>6 DEF As
    <3> QED
      BY <2>4, <3>1
  <2> QED
    BY <1>3, <2>7
<1> HIDE DEF Q
<1>4. i..top \subseteq Q
  BY <1>1, <1>2, <1>3, Climb
<1>5. top \in i..top
  BY <1>1
<1> QED
  BY <1>4, <1>5 DEF Q

\* Statuses differ.
LEMMA StatusesDiffer ==
    /\ \A w : <<"Conflicted", w>> # <<"Accepted">> /\ <<"Conflicted", w>>[1] = "Conflicted"
    /\ \A w : <<"Conflicted", w>>[2] = w
    /\ \A s : <<s>>[1] = s
    /\ \A s : <<s>> = <<"Accepted">> => s = "Accepted"
OBVIOUS

\* With gateways listed once, a row that is lost on a gateway is lost to an earlier one.
LEMMA LostToEarlier ==
    ASSUME RowsOK, IsInjective(Planned), NEW k \in DOMAIN routes, routes[k].row.valid,
           ~NoGateway(k), NEW p, PlanOK(p, k - 1),
           NEW t \in DOMAIN Targets(Planned, routes[k].row)
    PROVE  LET g == Targets(Planned, routes[k].row)[t] IN
           /\ g \in ToSet(Planned) /\ k \in Mine(g)
           /\ LostTo(p, k, t) = {routes[j].row.name :
                  j \in {i \in Standing(g) : i <= k - 1 /\ Key(routes[i].row) = Key(routes[k].row)}}
<1> DEFINE row == routes[k].row
           targets == Targets(Planned, row)
           g == targets[t]
<1>1. DOMAIN targets = 1..Len(targets) /\ Len(targets) \in Nat
  BY TargetsAre
<1>2. g \in ToSet(targets)
  BY DEF ToSet
<1>3. g \in ToSet(Planned)
  BY <1>2 DEF NoGateway
<1>4. k \in Mine(g)
  BY <1>2, <1>3, TargetsAre
<1>5. ASSUME NEW i \in 1..t - 1, targets[i] = targets[t] PROVE FALSE
  <2>1. i \in DOMAIN targets /\ t \in DOMAIN targets /\ i # t
    BY <1>1
  <2>2. CASE row.gateway = Every
    <3>1. targets = Planned
      BY <2>2, TargetsAre
    <3> HIDE DEF targets
    <3> QED
      BY <1>5, <2>1, <3>1 DEF IsInjective
  <2>3. CASE row.gateway # Every
    <3>1. targets = <<row.gateway>>
      BY <2>3, TargetsAre
    <3>2. DOMAIN targets = {1}
      BY <3>1
    <3> QED
      BY <2>1, <3>2
  <2> QED
    BY <2>2, <2>3
<1>6. LostTo(p, k, t) = {r.name : r \in {q \in p.attached[g] : Key(q) = Key(row)}}
  <2>1. {i \in 1..t - 1 : targets[i] = targets[t]} = {}
    BY <1>5
  <2>2. LostTo(p, k, t) = {r.name : r \in {q \in p.attached[g] : Key(q) = Key(row)}}
            \cup {row.name : j \in {i \in 1..t - 1 : targets[i] = targets[t]}}
    BY DEF LostTo, Holders
  <2> QED
    BY <2>1, <2>2
<1>7. p.attached[g] = {routes[i].row : i \in {j \in Standing(g) : j <= k - 1}}
  BY <1>3 DEF PlanOK
<1> HIDE DEF g
<1>8. {r.name : r \in {q \in p.attached[g] : Key(q) = Key(row)}} =
          {routes[j].row.name :
               j \in {i \in Standing(g) : i <= k - 1 /\ Key(routes[i].row) = Key(row)}}
  BY <1>7
<1> QED
  BY <1>3, <1>4, <1>6, <1>8 DEF g

\* The statuses of a plan are true.
LEMMA PlanTells == RowsOK => StatusTells
<1> SUFFICES ASSUME RowsOK, NEW i \in DOMAIN routes, IsInjective(Planned),
                    \A j \in DOMAIN routes : j # i => routes[j].row.name # routes[i].row.name
             PROVE  LET row == routes[i].row
                        status == Plan.status[row.name]
                        targets == ToSet(Targets(Planned, row))
                        serving == {g \in DOMAIN Plan.attached : row \in Plan.attached[g]}
                    IN  /\ status = <<"Accepted">> <=>
                               /\ row.valid /\ row.service \in services
                               /\ targets # {} /\ targets \subseteq serving
                        /\ status[1] = "Conflicted" =>
                               \E j \in 1..i - 1 : /\ routes[j].row.name = status[2]
                                                   /\ Key(routes[j].row) = Key(row)
  BY DEF StatusTells
<1> DEFINE row == routes[i].row
           targets == Targets(Planned, row)
           serving == {g \in DOMAIN Plan.attached : row \in Plan.attached[g]}
<1>1. PICK f : Plans(f, Len(routes)) /\ Plan = f[Len(routes)]
  BY PlanIsWalk
<1> DEFINE p == f[i - 1]
<1>2. /\ DOMAIN routes = 1..Len(routes) /\ Len(routes) \in Nat
      /\ i \in Nat /\ i - 1 \in 0..Len(routes) /\ i \in 0..Len(routes) /\ i # 0
  BY RowParts
<1>3. PlanOK(p, i - 1) /\ f[i] = PlanRow(Planned, p, row)
  BY <1>1, <1>2, PlansOK DEF Plans, NextPlan
<1> HIDE DEF p
<1>4. PICK status \in Statuses : f[i].status = As(p, row, status) /\ Verdict(p, i, status)
  BY <1>3, RowPlanned
<1>5. Plan.status[row.name] = status
  <2>1. As(p, row, status)[row.name] = status
    BY DEF As
  <2>2. f[i].status[row.name] = status
    BY <1>4, <2>1
  <2> QED
    BY <1>1, <2>2, StatusStays
<1>6. PlanOK(Plan, Len(routes))
  BY PlanIsOK
<1>7. ASSUME NEW g \in ToSet(Planned)
      PROVE  row \in Plan.attached[g] <=> i \in Standing(g)
  <2>1. Plan.attached[g] = {routes[j].row : j \in {k \in Standing(g) : k <= Len(routes)}}
    BY <1>6, <1>7 DEF PlanOK
  <2>2. ASSUME NEW j \in Standing(g), routes[j].row = row PROVE j = i
    <3>1. j \in DOMAIN routes
      BY DEF Standing, Mine
    <3> QED
      BY <2>2, <3>1
  <2>3. i <= Len(routes)
    BY <1>2
  <2> QED
    BY <2>1, <2>2, <2>3
<1>8. DOMAIN Plan.attached = ToSet(Planned)
  BY <1>6 DEF PlanOK
<1>9. CASE ~row.valid
  BY <1>4, <1>5, <1>9, StatusesDiffer DEF Verdict
<1>10. CASE row.valid /\ NoGateway(i)
  <2>1. status = <<"NoSuchGateway">>
    BY <1>4, <1>10 DEF Verdict
  <2>2. ToSet(targets) = {} \/ ToSet(targets) \ DOMAIN Plan.attached # {}
    BY <1>8, <1>10 DEF NoGateway, ToSet
  <2> HIDE DEF targets
  <2> QED
    BY <1>5, <2>1, <2>2, StatusesDiffer DEF targets
<1>11. CASE row.valid /\ ~NoGateway(i)
  <2>1. /\ DOMAIN targets = 1..Len(targets) /\ targets # <<>>
        /\ ToSet(targets) = {targets[t] : t \in DOMAIN targets}
    BY <1>11, TargetsAre DEF NoGateway, ToSet
  <2>2. \A t \in DOMAIN targets :
            /\ targets[t] \in ToSet(Planned) /\ i \in Mine(targets[t])
            /\ LostTo(p, i, t) = {routes[j].row.name :
                   j \in {k \in Standing(targets[t]) : k <= i - 1 /\ Key(routes[k].row) = Key(row)}}
    BY <1>3, <1>11, LostToEarlier
  <2>3. \A t \in DOMAIN targets : i \in Standing(targets[t]) <=> LostTo(p, i, t) = {}
    <3>1. \A g : \A k \in Standing(g) : k \in Nat
      BY <1>2 DEF Standing, Mine
    <3>2. ASSUME NEW t \in DOMAIN targets
          PROVE  i \in Standing(targets[t]) <=> LostTo(p, i, t) = {}
      <4> DEFINE g == targets[t]
      <4>1. i \in Standing(g) <=> \A k \in Standing(g) :
                                      k < i => Key(routes[k].row) # Key(routes[i].row)
        BY <2>2, FirstStands
      <4>2. LostTo(p, i, t) = {routes[j].row.name :
                j \in {k \in Standing(g) : k <= i - 1 /\ Key(routes[k].row) = Key(row)}}
        BY <2>2
      <4>3. \A k \in Standing(g) : k < i <=> k <= i - 1
        BY <1>2, <3>1
      <4> HIDE DEF g
      <4>4. i \in Standing(g) <=> LostTo(p, i, t) = {}
        BY <4>1, <4>2, <4>3
      <4> QED
        BY <4>4 DEF g
    <3> QED
      BY <3>2
  <2>4. CASE Lost(p, i) # {}
    <3>1. PICK t \in Lost(p, i) : \E w \in LostTo(p, i, t) : status = <<"Conflicted", w>>
      BY <1>4, <1>11, <2>4 DEF Verdict
    <3>2. PICK w \in LostTo(p, i, t) : status = <<"Conflicted", w>>
      BY <3>1
    <3>3. t \in DOMAIN targets /\ LostTo(p, i, t) # {}
      BY DEF Lost
    <3>4. /\ targets[t] \in ToSet(targets) /\ targets[t] \in ToSet(Planned)
          /\ i \notin Standing(targets[t])
      BY <2>1, <2>2, <2>3, <3>3
    <3>5. targets[t] \notin serving
      BY <1>7, <3>4
    <3>6. PICK j \in Standing(targets[t]) : /\ j <= i - 1 /\ Key(routes[j].row) = Key(row)
                                            /\ w = routes[j].row.name
      BY <2>2, <3>3
    <3>7. j \in 1..i - 1
      BY <1>2, <3>6 DEF Standing, Mine
    <3>8. status # <<"Accepted">> /\ status[2] = w
      BY <3>2, StatusesDiffer
    <3> HIDE DEF targets, serving
    <3> QED
      BY <1>5, <3>4, <3>5, <3>6, <3>7, <3>8 DEF targets, serving
  <2>5. CASE Lost(p, i) = {}
    <3>1. status = IF row.service \in services THEN <<"Accepted">> ELSE <<"BackendNotFound">>
      BY <1>4, <1>11, <2>5 DEF Verdict
    <3>2. \A t \in DOMAIN targets : LostTo(p, i, t) = {}
      BY <2>5 DEF Lost
    <3>3. \A t \in DOMAIN targets : targets[t] \in serving
      BY <1>7, <1>8, <2>2, <2>3, <3>2
    <3>4. ToSet(targets) \subseteq serving
      BY <2>1, <3>3
    <3>5. ToSet(targets) # {}
      <4>1. Len(targets) \in Nat /\ Len(targets) # 0
        BY <1>11, <2>1, TargetsAre
      <4>2. 1 \in DOMAIN targets
        BY <2>1, <4>1
      <4> QED
        BY <2>1, <4>2
    <3>6. status[1] # "Conflicted" /\ (status = <<"Accepted">> <=> row.service \in services)
      BY <3>1, StatusesDiffer
    <3> HIDE DEF targets, serving
    <3> QED
      BY <1>5, <1>11, <3>4, <3>5, <3>6 DEF targets, serving
  <2> QED
    BY <2>4, <2>5
<1> QED
  BY <1>9, <1>10, <1>11

-----------------------------------------------------------------------------
(* What nginx answers.                                                         *)

\* Two prefixes of one path that are as long are the same.
LEMMA SamePrefix ==
    ASSUME NEW S, NEW s \in Seq(S), NEW t \in Seq(S), NEW path \in Seq(S),
           IsPrefix(s, path), IsPrefix(t, path), Len(s) = Len(t)
    PROVE  s = t
<1>1. /\ Len(s) \in Nat /\ Len(t) \in Nat /\ Len(path) \in Nat
      /\ SubSeq(s, 1, Len(s)) = s /\ SubSeq(t, 1, Len(t)) = t
  OBVIOUS
<1>2. s = SubSeq(path, 1, Len(s)) /\ t = SubSeq(path, 1, Len(t))
  BY <1>1 DEF IsPrefix
<1> QED
  BY <1>2

\* The cells and paths of rows.
LEMMA Fields ==
    ASSUME NEW r \in RouteRow
    PROVE  r.host \in Cell /\ r.path \in Seq(STRING) /\ Len(r.path) \in Nat
<1>1. r \in [name : Route, gateway : Gateway \cup {Every}, host : Cell,
             path : Seq(STRING), service : Service, valid : BOOLEAN]
  BY RowsAssumption
<1>2. r.host \in Cell /\ r.path \in Seq(STRING)
  BY <1>1
<1> QED
  BY <1>2

\* Of rows with a prefix of the path some are longest.
LEMMA LongestExists ==
    ASSUME NEW rows \in SUBSET RouteRow, NEW path \in Path,
           NEW r \in rows, IsPrefix(r.path, path)
    PROVE  Longest(rows, path) # {}
<1> DEFINE Fit == {q \in rows : IsPrefix(q.path, path)}
           S == {Len(path) - Len(q.path) : q \in Fit}
<1>1. path \in Seq(STRING) /\ Len(path) \in Nat
  BY RowsAssumption
<1>2. \A q \in Fit : Len(q.path) \in Nat /\ Len(q.path) <= Len(path)
  BY Fields DEF IsPrefix
<1>3. S \subseteq Nat /\ S # {}
  <2> HIDE DEF Fit
  <2>1. S \subseteq Nat
    BY <1>1, <1>2
  <2>2. r \in Fit
    BY DEF Fit
  <2> QED
    BY <2>1, <2>2
<1>4. PICK n \in S : \A m \in S : n <= m
  <2> HIDE DEF S
  <2> QED
    BY <1>3, Smallest
<1>5. PICK q \in Fit : n = Len(path) - Len(q.path)
  BY <1>4
<1>6. ASSUME NEW p \in Fit PROVE Len(p.path) <= Len(q.path)
  <2>1. n <= Len(path) - Len(p.path)
    <3>1. Len(path) - Len(p.path) \in S
      OBVIOUS
    <3> QED
      BY <1>4, <3>1
  <2>2. Len(p.path) \in Nat /\ Len(q.path) \in Nat
    BY <1>2, <1>5
  <2> HIDE DEF Fit, S
  <2> QED
    BY <1>1, <1>5, <2>1, <2>2
<1>7. q \in Longest(rows, path)
  BY <1>6 DEF Longest
<1> QED
  BY <1>7

\* The rows that match a host, of these those of the longest path, and of these the narrowest.
Asked(rows, host) == {r \in rows : host \in Pattern[r.host]}
Best(rows, host, path) == Longest(Asked(rows, host), path)
Narrow(rows) == {r \in rows : \A q \in rows : Pattern[r.host] \subseteq Pattern[q.host]}

\* Of rows that match one host some have the narrowest cell.
LEMMA Narrowest ==
    ASSUME NEW host, NEW rows \in SUBSET Asked(RouteRow, host), IsFiniteSet(rows), rows # {}
    PROVE  Narrow(rows) # {}
<1> USE DEF Asked
<1> DEFINE Least(T, r) == \A q \in T : Pattern[r.host] \subseteq Pattern[q.host]
           Q == {T \in SUBSET rows : T = {} \/ \E r \in T : Least(T, r)}
<1>1. ASSUME NEW T \in SUBSET rows, \A U \in SUBSET T : U # T => U \in Q
      PROVE  T \in Q
  <2>1. CASE T = {}
    BY <2>1
  <2>2. CASE T # {}
    <3>1. PICK x \in T : TRUE
      BY <2>2
    <3>2. T \ {x} \in Q
      BY <1>1, <3>1
    <3>3. CASE T \ {x} = {}
      <4>1. \A q \in T : q = x
        BY <3>3
      <4> QED
        BY <3>1, <4>1
    <3>4. CASE T \ {x} # {}
      <4>1. PICK r \in T \ {x} : Least(T \ {x}, r)
        BY <3>2, <3>4
      <4>2. /\ r.host \in Cell /\ x.host \in Cell
            /\ host \in Pattern[r.host] \cap Pattern[x.host]
        BY <3>1, <4>1, Fields
      <4>3. Pattern[r.host] \subseteq Pattern[x.host] \/ Pattern[x.host] \subseteq Pattern[r.host]
        BY <4>2, PatternAssumption
      <4>4. CASE Pattern[r.host] \subseteq Pattern[x.host]
        BY <4>1, <4>4
      <4>5. CASE Pattern[x.host] \subseteq Pattern[r.host]
        <5>1. Least(T, x)
          BY <4>1, <4>5
        <5> QED
          BY <3>1, <5>1
      <4> QED
        BY <4>3, <4>4, <4>5
    <3> QED
      BY <3>3, <3>4
  <2> QED
    BY <2>1, <2>2
<1> HIDE DEF Q
<1>2. SUBSET rows \subseteq Q
  BY <1>1, SetInduction
<1>3. \E r \in rows : Least(rows, r)
  BY <1>2 DEF Q
<1> QED
  BY <1>3 DEF Narrow

\* The server block of a host: that of the narrowest cell that matches it.
LEMMA ServerNamed ==
    ASSUME NEW config \in SUBSET RouteRow, IsFiniteSet(config), NEW host \in Host
    PROVE  LET cell == ServerName(config, host) IN
           /\ cell \in Cell /\ host \in Pattern[cell]
           /\ \A r \in config : host \in Pattern[r.host] => Pattern[cell] \subseteq Pattern[r.host]
<1> DEFINE Good(c) ==
        /\ host \in Pattern[c]
        /\ \A r \in config : host \in Pattern[r.host] => Pattern[c] \subseteq Pattern[r.host]
           cells == {r.host : r \in config} \cup {Blank}
           asked == {r \in config : host \in Pattern[r.host]}
<1>1. \E c \in cells : Good(c)
  <2>1. CASE asked = {}
    <3>1. Good(Blank)
      BY <2>1, PatternAssumption
    <3> QED
      BY <3>1
  <2>2. CASE asked # {}
    <3>1. IsFiniteSet(asked)
      BY FS_Subset
    <3>2. PICK r \in asked : \A q \in asked : Pattern[r.host] \subseteq Pattern[q.host]
      <4> HIDE DEF asked
      <4>1. asked \in SUBSET Asked(RouteRow, host)
        BY DEF asked, Asked
      <4> QED
        BY <2>2, <3>1, <4>1, Narrowest DEF Narrow
    <3>3. Good(r.host)
      BY <3>2
    <3> QED
      BY <3>2, <3>3
  <2> QED
    BY <2>1, <2>2
<1>2. ServerName(config, host) = CHOOSE c \in cells : Good(c)
  BY DEF ServerName
<1>3. cells \subseteq Cell
  BY Fields, PatternAssumption
<1> HIDE DEF cells, Good
<1>4. ServerName(config, host) \in Cell /\ Good(ServerName(config, host))
  BY <1>1, <1>2, <1>3
<1> QED
  BY <1>4 DEF Good

\* Among rows no two of which have one host and path, nginx finds the one with the longest
\* path, and of these the narrowest cell, if it looks into its block at all.
LEMMA AnswerIsNamed ==
    ASSUME NEW config \in SUBSET RouteRow, IsFiniteSet(config),
           \A r, q \in config : Key(r) = Key(q) => r = q,
           NEW host \in Host, NEW path \in Path
    PROVE  LET named == Narrow(Best(config, host, path)) IN
           (\A r \in named : r.host \in {ServerName(config, host), Blank})
               => Answer(config, host, path) = named
<1> SUFFICES ASSUME NEW asked, asked = Asked(config, host),
                    NEW best, best = Longest(asked, path),
                    NEW named, named = Narrow(best),
                    \A r \in named : r.host \in {ServerName(config, host), Blank}
             PROVE  Answer(config, host, path) = named
  BY DEF Best
<1>0. asked = {r \in config : host \in Pattern[r.host]}
  BY DEF Asked
<1> DEFINE cell == ServerName(config, host)
           own == {r \in config : r.host = cell}
           served == Server(config, cell)
           answer == Answer(config, host, path)
<1>1. /\ cell \in Cell /\ host \in Pattern[cell]
      /\ \A r \in asked : Pattern[cell] \subseteq Pattern[r.host]
  BY <1>0, ServerNamed
<1> HIDE DEF cell
<1>2. served = own \cup {r \in config : r.host = Blank /\ \A o \in own : o.path # r.path}
  BY DEF Server
<1>3. host \in Pattern[Blank] /\ Blank \in Cell
  BY PatternAssumption
<1>4. served \subseteq asked /\ own \subseteq asked
  BY <1>0, <1>1, <1>2, <1>3
<1>5. answer = Longest(served, path)
  BY DEF Answer, cell
<1> HIDE DEF served, answer
<1>6. CASE best = {}
  <2>1. \A r \in asked : ~IsPrefix(r.path, path)
    <3>1. asked \in SUBSET RouteRow
      BY <1>0
    <3> QED
      BY <1>6, <3>1, LongestExists
  <2>2. answer = {}
    BY <1>4, <1>5, <2>1 DEF Longest
  <2> QED
    BY <1>6, <2>2 DEF answer, Narrow
<1>7. CASE best # {}
  <2>1. best \subseteq asked /\ asked \subseteq config /\ IsFiniteSet(best)
    <3>1. best \subseteq asked /\ asked \subseteq config
      BY <1>0 DEF Longest
    <3>2. best \subseteq config
      BY <3>1
    <3> QED
      BY <3>1, <3>2, FS_Subset
  <2>2. PICK r \in best : \A q \in best : Pattern[r.host] \subseteq Pattern[q.host]
    <3>1. best \in SUBSET Asked(RouteRow, host)
      BY <1>0, <2>1 DEF Asked
    <3>2. Narrow(best) # {}
      BY <1>7, <2>1, <3>1, Narrowest
    <3> QED
      BY <3>2 DEF Narrow
  <2>3. r \in named /\ r.host \in {cell, Blank}
    BY <2>2 DEF cell, Narrow
  <2>4. /\ IsPrefix(r.path, path)
        /\ \A q \in asked : IsPrefix(q.path, path) => Len(q.path) <= Len(r.path)
    BY DEF Longest
  <2>5. ASSUME NEW q \in asked, IsPrefix(q.path, path), Len(r.path) <= Len(q.path)
        PROVE  q \in best /\ q.path = r.path
    <3>1. /\ q \in RouteRow /\ r \in RouteRow
          /\ Len(q.path) \in Nat /\ Len(r.path) \in Nat
          /\ q.path \in Seq(STRING) /\ r.path \in Seq(STRING)
      BY <2>1, <2>5, Fields
    <3>2. Len(q.path) = Len(r.path)
      BY <2>4, <2>5, <3>1
    <3>3. q.path = r.path
      BY <2>4, <2>5, <3>1, <3>2, SamePrefix, RowsAssumption
    <3>4. q \in best
      BY <2>4, <2>5, <3>2 DEF Longest
    <3> QED
      BY <3>3, <3>4
  <2>6. ASSUME NEW q \in best PROVE q.path = r.path
    <3>1. q \in asked /\ IsPrefix(q.path, path) /\ r \in asked
      BY <2>6 DEF Longest
    <3>2. Len(r.path) <= Len(q.path)
      BY <2>4, <2>6, <3>1 DEF Longest
    <3> QED
      BY <2>5, <3>1, <3>2
  <2>7. ASSUME NEW q \in best, q.host = r.host PROVE q = r
    <3>1. Key(q) = Key(r)
      BY <2>6, <2>7 DEF Key
    <3> QED
      BY <2>1, <2>7, <3>1
  <2>8. ASSUME NEW q \in named PROVE q = r
    <3>1. q \in best /\ Pattern[q.host] \subseteq Pattern[r.host]
      BY <2>8 DEF Narrow
    <3>2. Pattern[r.host] = Pattern[q.host]
      BY <2>2, <3>1
    <3>3. q.host \in Cell /\ r.host \in Cell /\ host \in Pattern[q.host] \cap Pattern[r.host]
      BY <1>0, <2>1, <3>1, Fields
    <3>4. q.host = r.host
      BY <3>2, <3>3, PatternAssumption
    <3> QED
      BY <2>7, <3>1, <3>4
  <2>9. named = {r}
    BY <2>3, <2>8
  <2>10. ASSUME NEW o \in own, o.path = r.path PROVE r.host = cell
    <3>1. /\ o \in asked /\ r \in asked /\ o.host = cell
          /\ IsPrefix(o.path, path) /\ Len(r.path) <= Len(o.path)
      <4>1. r \in RouteRow /\ r \in asked
        BY <2>1
      <4>2. Len(r.path) \in Nat
        BY <4>1, Fields
      <4> QED
        BY <1>4, <2>4, <2>10, <4>1, <4>2
    <3>2. o \in best
      BY <2>5, <3>1
    <3>3. Pattern[r.host] = Pattern[cell]
      BY <1>1, <2>2, <3>1, <3>2
    <3>4. r.host \in Cell /\ host \in Pattern[r.host] \cap Pattern[cell]
      BY <1>0, <1>1, <3>1, Fields
    <3> QED
      BY <1>1, <3>3, <3>4, PatternAssumption
  <2>11. r \in served
    <3>1. r \in config
      BY <2>1
    <3> QED
      BY <1>2, <2>3, <2>10, <3>1
  <2>12. r \in answer
    BY <1>4, <1>5, <2>4, <2>11 DEF Longest
  <2>13. ASSUME NEW q \in answer PROVE q = r
    <3>1. q \in served /\ IsPrefix(q.path, path) /\ Len(r.path) <= Len(q.path)
      BY <1>5, <2>4, <2>11, <2>13 DEF Longest
    <3>2. q \in best /\ q.path = r.path /\ q.host \in {cell, Blank}
      BY <1>2, <1>4, <2>5, <3>1
    <3>3. CASE q.host = r.host
      BY <2>7, <3>2, <3>3
    <3>4. CASE q.host # r.host
      <4>1. CASE q.host = cell
        <5>1. q \in own
          BY <2>1, <3>2, <4>1
        <5> QED
          BY <2>10, <3>2, <3>4, <4>1, <5>1
      <4>2. CASE q.host # cell
        <5>1. q.host = Blank /\ r.host = cell
          BY <2>3, <3>2, <3>4, <4>2
        <5>2. r \in own
          BY <2>1, <5>1
        <5>3. \A o \in own : o.path # q.path
          BY <1>2, <3>1, <4>2
        <5> QED
          BY <3>2, <5>2, <5>3
      <4> QED
        BY <4>1, <4>2
    <3> QED
      BY <3>3, <3>4
  <2> QED
    BY <2>9, <2>12, <2>13 DEF answer
<1> QED
  BY <1>6, <1>7

\* The configuration of a gateway: the rows of it that stand, no two of one key.
LEMMA ConfigIs ==
    ASSUME RowsOK, NEW g \in ToSet(Planned)
    PROVE  /\ Plan.attached[g] = {routes[i].row : i \in Standing(g)}
           /\ Plan.attached[g] \in SUBSET RouteRow
           /\ IsFiniteSet(Plan.attached[g])
           /\ \A r, q \in Plan.attached[g] : Key(r) = Key(q) => r = q
<1> DEFINE config == {routes[i].row : i \in Standing(g)}
<1>1. /\ DOMAIN routes = 1..Len(routes) /\ Len(routes) \in Nat
      /\ Standing(g) \subseteq 1..Len(routes) /\ Standing(g) \subseteq Mine(g)
  BY RowParts DEF Standing, Mine
<1>2. {j \in Standing(g) : j <= Len(routes)} = Standing(g)
  BY <1>1
<1>3. Plan.attached[g] = config
  BY <1>2, PlanIsOK DEF PlanOK
<1>4. config \in SUBSET RouteRow
  BY <1>1, RowParts
<1>5. IsFiniteSet(config)
  <2> DEFINE h == [i \in Standing(g) |-> routes[i].row]
  <2>1. IsFiniteSet(Standing(g))
    <3>1. IsFiniteSet(1..Len(routes))
      BY <1>1, FS_Interval
    <3> QED
      BY <1>1, <3>1, FS_Subset
  <2>2. h \in Surjection(Standing(g), config)
    BY DEF Surjection
  <2> HIDE DEF h
  <2> QED
    BY <2>1, <2>2, FS_Surjection
<1>6. ASSUME NEW r \in config, NEW q \in config, Key(r) = Key(q) PROVE r = q
  <2>1. PICK i \in Standing(g), j \in Standing(g) : r = routes[i].row /\ q = routes[j].row
    BY <1>6
  <2>2. i \in Nat /\ j \in Nat /\ ~(i < j) /\ ~(j < i)
    BY <1>1, <1>6, <2>1 DEF Standing
  <2> QED
    BY <2>1, <2>2
<1>7. \A r, q \in config : Key(r) = Key(q) => r = q
  BY <1>6
<1> HIDE DEF config
<1>8. /\ Plan.attached[g] \in SUBSET RouteRow
      /\ IsFiniteSet(Plan.attached[g])
      /\ \A r, q \in Plan.attached[g] : Key(r) = Key(q) => r = q
  BY <1>3, <1>4, <1>5, <1>7
<1> QED
  BY <1>3, <1>8 DEF config

\* What is rendered from a plan answers requests as the rows promise.
LEMMA PlanRoutes == RowsOK => Routed
<1> SUFFICES ASSUME RowsOK, NEW g \in DOMAIN Configs, NEW host \in Host, NEW path \in Path
             PROVE  LET config == Configs[g]
                        cell == ServerName(config, host)
                        asked == {i \in Standing(g) : host \in Pattern[routes[i].row.host]}
                        best == Longest({routes[i].row : i \in asked}, path)
                        named == {r \in best :
                                      \A q \in best : Pattern[r.host] \subseteq Pattern[q.host]}
                    IN  (\A r \in named : r.host \in {cell, Blank})
                            => Answer(config, host, path) = named
  BY DEF Routed
<1> DEFINE config == Configs[g]
<1>1. g \in ToSet(Planned)
  BY PlanIsOK DEF Configs, PlanOK
<1>2. /\ config = {routes[i].row : i \in Standing(g)}
      /\ config \in SUBSET RouteRow /\ IsFiniteSet(config)
      /\ \A r, q \in config : Key(r) = Key(q) => r = q
  BY <1>1, ConfigIs DEF Configs
<1> HIDE DEF config
<1>3. {routes[i].row : i \in {j \in Standing(g) : host \in Pattern[routes[j].row.host]}} =
          {r \in config : host \in Pattern[r.host]}
  BY <1>2
<1>4. LET named == Narrow(Best(config, host, path)) IN
      (\A r \in named : r.host \in {ServerName(config, host), Blank})
          => Answer(config, host, path) = named
  BY <1>2, AnswerIsNamed
<1> QED
  BY <1>3, <1>4 DEF config, Best, Narrow, Asked


-----------------------------------------------------------------------------
(* The types.                                                                  *)

Lines(S) == Seq([row : S, status : Statuses])

\* A function from an initial segment of the numbers is a sequence.
LEMMA IsSeq == ASSUME NEW S, NEW n \in Nat, NEW f \in [1..n -> S] PROVE f \in Seq(S)
  OBVIOUS

\* A name in a tab is that of the row found for it.
LEMMA RowIsThere ==
    ASSUME NEW S, NEW tab \in Seq(S), NEW name \in Names(tab)
    PROVE  RowOf(tab, name) \in DOMAIN tab
<1> DEFINE I == {i \in 1..Len(tab) : tab[i].row.name = name}
<1>1. DOMAIN tab = 1..Len(tab) /\ Len(tab) \in Nat
  BY InSeq
<1>2. I \in SUBSET Nat /\ I # {}
  BY <1>1 DEF Names
<1>3. RowOf(tab, name) = Min(I)
  BY <1>2 DEF RowOf, SelectInSeq
<1>4. Min(I) \in I
  <2> HIDE DEF I
  <2>1. \E n \in I : \A p \in I : n <= p
    BY <1>2, Smallest
  <2> QED
    BY <2>1 DEF Min
<1> QED
  BY <1>1, <1>3, <1>4

\* apply leaves a tab of rows: one changed in place, or one more at the end.
LEMMA Upserted ==
    ASSUME NEW S, NEW tab \in Lines(S), NEW row \in S
    PROVE  Upsert(tab, row) \in Lines(S)
<1> DEFINE T == [row : S, status : Statuses]
           i == RowOf(tab, row.name)
<1>1. DOMAIN tab = 1..Len(tab) /\ Len(tab) \in Nat /\ \A k \in DOMAIN tab : tab[k] \in T
  BY InSeq DEF Lines
<1>2. CASE row.name \in Names(tab)
  <2>1. i \in DOMAIN tab
    BY <1>2, RowIsThere DEF Lines
  <2>2. Upsert(tab, row) = [tab EXCEPT ![i].row = row]
    BY <1>2 DEF Upsert
  <2> HIDE DEF i
  <2>3. [tab EXCEPT ![i].row = row] \in [1..Len(tab) -> T]
    BY <1>1, <2>1
  <2> HIDE DEF T
  <2>4. [tab EXCEPT ![i].row = row] \in Seq(T)
    BY <1>1, <2>3, IsSeq
  <2> QED
    BY <2>2, <2>4 DEF Lines, T
<1>3. CASE row.name \notin Names(tab)
  <2>1. New(row) \in T
    BY StatusNames DEF New, Statuses
  <2>2. Upsert(tab, row) = Append(tab, New(row))
    BY <1>3 DEF Upsert
  <2> HIDE DEF T
  <2>3. Append(tab, New(row)) \in Seq(T)
    BY <2>1 DEF Lines, T
  <2> QED
    BY <2>2, <2>3 DEF Lines, T
<1> QED
  BY <1>2, <1>3

\* delete leaves a tab of rows.
LEMMA Shortened ==
    ASSUME NEW S, NEW tab \in Lines(S), NEW name \in Names(tab)
    PROVE  Without(tab, name) \in Lines(S)
<1> DEFINE T == [row : S, status : Statuses]
<1>1. PICK i : i = RowOf(tab, name)
  OBVIOUS
<1>2. tab \in Seq(T) /\ i \in 1..Len(tab) /\ Len(tab) \in Nat
  BY <1>1, RowIsThere, InSeq DEF Lines
<1> HIDE DEF T
<1>3. \A k \in 1..Len(tab) : tab[k] \in T
  BY <1>2
<1>4. SubSeq(tab, 1, i - 1) \in Seq(T)
  BY <1>2, <1>3
<1>5. SubSeq(tab, i + 1, Len(tab)) \in Seq(T)
  BY <1>2, <1>3
<1>6. RemoveAt(tab, i) \in Seq(T)
  BY <1>4, <1>5 DEF RemoveAt
<1> QED
  BY <1>1, <1>6 DEF Without, Lines, T

\* Typing over a row, or below the last one, leaves a tab of rows.
LEMMA TypedOver ==
    ASSUME NEW S, NEW tab \in Lines(S), NEW row \in S, NEW i \in 1..Len(tab) + 1
    PROVE  Typed(tab, i, row) \in Lines(S)
<1> DEFINE T == [row : S, status : Statuses]
           n == IF i > Len(tab) THEN i ELSE Len(tab)
<1>1. DOMAIN tab = 1..Len(tab) /\ Len(tab) \in Nat /\ \A k \in DOMAIN tab : tab[k] \in T
  BY InSeq DEF Lines
<1>2. New(row) \in T
  BY DEF New, Statuses
<1> HIDE DEF T
<1>3. n \in Nat /\ \A k \in 1..n : k # i => k \in DOMAIN tab
  BY <1>1
<1>4. Typed(tab, i, row) = [k \in 1..n |-> IF k = i THEN New(row) ELSE tab[k]]
  BY DEF Typed
<1> HIDE DEF n
<1>5. Typed(tab, i, row) \in [1..n -> T]
  BY <1>1, <1>2, <1>3, <1>4
<1>6. Typed(tab, i, row) \in Seq(T)
  BY <1>3, <1>5, IsSeq
<1> QED
  BY <1>6 DEF Lines, T

\* A finite set can be listed.
LEMMA Listed ==
    ASSUME NEW S, IsFiniteSet(S)
    PROVE  SetToSeq(S) \in Seq(S) /\ ToSet(SetToSeq(S)) \subseteq S
<1>1. Cardinality(S) \in Nat /\ ExistsBijection(1..Cardinality(S), S)
  BY FS_CardinalityType
<1>2. PICK f \in Bijection(1..Cardinality(S), S) : TRUE
  BY <1>1 DEF ExistsBijection
<1>3. f \in [1..Cardinality(S) -> S] /\ IsInjective(f)
  BY <1>2 DEF Bijection, Injection, IsInjective
<1>4. SetToSeq(S) \in [1..Cardinality(S) -> S]
  BY <1>3 DEF SetToSeq
<1> QED
  BY <1>1, <1>4, IsSeq DEF ToSet


\* The initial sheets, the loop and the pods have their types.
LEMMA InitTyped == Init => TypeOK
<1> SUFFICES ASSUME Init PROVE TypeOK
  OBVIOUS
<1>1. PICK start \in Start :
          /\ gateways = [i \in DOMAIN start.gateways |->
                            New([name |-> start.gateways[i], valid |-> TRUE])]
          /\ routes = [i \in DOMAIN start.routes |-> New(start.routes[i])]
  BY DEF Init
<1>2. start.gateways \in Seq(Gateway) /\ start.routes \in Seq(RouteRow)
  BY RowsAssumption
<1>3. gateways \in Lines([name : Gateway, valid : BOOLEAN])
  <2>1. /\ Len(start.gateways) \in Nat /\ DOMAIN start.gateways = 1..Len(start.gateways)
        /\ \A i \in DOMAIN start.gateways : start.gateways[i] \in Gateway
    BY <1>2, InSeq
  <2> DEFINE T == [row : [name : Gateway, valid : BOOLEAN], status : Statuses]
  <2>2. \A i \in DOMAIN start.gateways : New([name |-> start.gateways[i], valid |-> TRUE]) \in T
    BY <2>1 DEF New, Statuses
  <2> HIDE DEF T
  <2>3. gateways \in [1..Len(start.gateways) -> T]
    BY <1>1, <2>1, <2>2
  <2> QED
    BY <2>1, <2>3, IsSeq DEF Lines, T
<1>4. routes \in Lines(RouteRow)
  <2>1. /\ Len(start.routes) \in Nat /\ DOMAIN start.routes = 1..Len(start.routes)
        /\ \A i \in DOMAIN start.routes : start.routes[i] \in RouteRow
    BY <1>2, InSeq
  <2> DEFINE T == [row : RouteRow, status : Statuses]
  <2>2. \A i \in DOMAIN start.routes : New(start.routes[i]) \in T
    BY <2>1 DEF New, Statuses
  <2> HIDE DEF T
  <2>3. routes \in [1..Len(start.routes) -> T]
    BY <1>1, <2>1, <2>2
  <2> QED
    BY <2>1, <2>3, IsSeq DEF Lines, T
<1>5. /\ kubelet \in [pc : {"idle", "run", "install", "test", "reload", "record"},
                      todo : Seq(Gateway), order : Orders]
      /\ ToSet(kubelet.todo) \subseteq DOMAIN kubelet.order
  <2>1. kubelet = [pc |-> "idle", todo |-> <<>>, order |-> [g \in {} |-> {}]]
    BY DEF Init
  <2>2. [g \in {} |-> {}] \in Orders
    <3>1. [g \in {} |-> {}] \in [{} -> SUBSET ValidRow]
      OBVIOUS
    <3> QED
      BY <3>1 DEF Orders
  <2>3. <<>> \in Seq(Gateway) /\ ToSet(<<>>) = {}
    BY DEF ToSet
  <2> QED
    BY <2>1, <2>2, <2>3
<1>6. pod \in [Gateway -> Pod] /\ services \subseteq Service
  BY DEF Init, Gone, Pod, Config
<1> QED
  BY <1>3, <1>4, <1>5, <1>6 DEF TypeOK, Lines

\* The users keep the tabs, and touch nothing else.
LEMMA UsersKeepTypes == TypeOK /\ Users => TypeOK'
<1> SUFFICES ASSUME TypeOK, Users PROVE TypeOK'
  OBVIOUS
<1> DEFINE GatewayRow == [name : Gateway, valid : BOOLEAN]
           TabsOK == /\ gateways \in Lines(GatewayRow) /\ routes \in Lines(RouteRow)
                     /\ services \subseteq Service
<1>1. TabsOK
  BY DEF TypeOK, Lines
<1>2. \A g \in Gateway, valid \in BOOLEAN : [name |-> g, valid |-> valid] \in GatewayRow
  OBVIOUS
<1> HIDE DEF GatewayRow
<1>3. TabsOK'
  <2>1. ASSUME NEW g \in Gateway, ApplyGateway(g) PROVE TabsOK'
    BY <1>1, <1>2, <2>1, Upserted DEF ApplyGateway
  <2>2. ASSUME NEW g \in Gateway, DeleteGateway(g) PROVE TabsOK'
    BY <1>1, <2>2, Shortened DEF DeleteGateway
  <2>3. ASSUME NEW row \in RouteRow, ApplyRoute(row) PROVE TabsOK'
    BY <1>1, <2>3, Upserted DEF ApplyRoute
  <2>4. ASSUME NEW r \in Route, DeleteRoute(r) PROVE TabsOK'
    BY <1>1, <2>4, Shortened DEF DeleteRoute
  <2>5. ASSUME NEW i \in 1..Len(gateways) + 1, NEW g \in Gateway, NEW valid \in BOOLEAN,
               TypeGateway(i, g, valid)
        PROVE  TabsOK'
    BY <1>1, <1>2, <2>5, TypedOver DEF TypeGateway
  <2>6. ASSUME NEW i \in 1..Len(routes) + 1, NEW row \in RouteRow, TypeRoute(i, row)
        PROVE  TabsOK'
    BY <1>1, <2>6, TypedOver DEF TypeRoute
  <2>7. ASSUME NEW s \in Service, ChangeService(s) PROVE TabsOK'
    BY <1>1, <2>7 DEF ChangeService
  <2> QED
    BY <2>1, <2>2, <2>3, <2>4, <2>5, <2>6, <2>7 DEF Users
<1>4. UNCHANGED <<kubelet, pod>>
  BY DEF Users, ApplyGateway, DeleteGateway, ApplyRoute, DeleteRoute, TypeGateway, TypeRoute,
         ChangeService, Edit
<1> QED
  BY <1>3, <1>4 DEF TypeOK, Lines, GatewayRow, ToSet

\* What the loop works with: where it stands, an order of that gateway, typed pods.
LEMMA AtWork ==
    ASSUME TypeOK, kubelet.todo # <<>>
    PROVE  /\ This \in Gateway /\ This \in DOMAIN kubelet.order
           /\ Order \in Config /\ pod[This] \in Pod
           /\ Tail(kubelet.todo) \in Seq(Gateway)
           /\ ToSet(Tail(kubelet.todo)) \subseteq DOMAIN kubelet.order
<1>1. /\ kubelet.todo \in Seq(Gateway) /\ kubelet.order \in Orders
      /\ ToSet(kubelet.todo) \subseteq DOMAIN kubelet.order
  BY DEF TypeOK
<1>2. PICK todo \in Seq(Gateway) : todo = kubelet.todo
  BY <1>1
<1>3. /\ Head(todo) = todo[1] /\ 1 \in DOMAIN todo /\ Tail(todo) \in Seq(Gateway)
      /\ todo[1] \in Gateway
  BY <1>2
<1>4. \A k \in DOMAIN Tail(todo) : k + 1 \in DOMAIN todo /\ Tail(todo)[k] = todo[k + 1]
  BY <1>2
<1>5. This \in DOMAIN kubelet.order /\ This \in Gateway
  BY <1>1, <1>2, <1>3 DEF This, ToSet
<1>6. ToSet(Tail(todo)) \subseteq ToSet(todo)
  BY <1>4 DEF ToSet
<1>7. Order \in Config
  <2>1. PICK gs \in SUBSET Gateway : kubelet.order \in [gs -> SUBSET ValidRow]
    BY <1>1 DEF Orders
  <2> QED
    BY <1>5, <2>1 DEF Order, Config
<1>8. pod[This] \in Pod
  BY <1>5 DEF TypeOK
<1> QED
  BY <1>1, <1>2, <1>3, <1>5, <1>6, <1>7, <1>8

\* The empty place, the new container, and what a script writes.
LEMMA PodsTyped ==
    /\ Gone \in Pod /\ Created \in Pod
    /\ \A p \in Pod, c \in Config :
           /\ [p EXCEPT !.conf = c] \in Pod /\ [p EXCEPT !.serves = c] \in Pod
           /\ [p EXCEPT !.applied = c] \in Pod /\ [p EXCEPT !.prev = c] \in Pod
           /\ [p EXCEPT !.nginx = "on", !.serves = c] \in Pod
           /\ [p EXCEPT !.prev = p.conf, !.conf = c] \in Pod
<1>1. Stock \in Config
  BY DEF Config
<1>2. Gone \in Pod /\ Created \in Pod
  BY <1>1 DEF Gone, Created, Pod
<1>3. ASSUME NEW p \in Pod, NEW c \in Config
      PROVE  /\ [p EXCEPT !.conf = c] \in Pod /\ [p EXCEPT !.serves = c] \in Pod
             /\ [p EXCEPT !.applied = c] \in Pod /\ [p EXCEPT !.prev = c] \in Pod
             /\ [p EXCEPT !.nginx = "on", !.serves = c] \in Pod
             /\ [p EXCEPT !.prev = p.conf, !.conf = c] \in Pod
  BY DEF Pod
<1> QED
  BY <1>2, <1>3

\* The heartbeat keeps the tabs typed and sends typed orders.
LEMMA HeartbeatTyped == TypeOK /\ Heartbeat => TypeOK'
<1> SUFFICES ASSUME TypeOK, Heartbeat PROVE TypeOK'
  OBVIOUS
<1>1. RowsOK
  BY DEF TypeOK, RowsOK
<1>2. PlanOK(Plan, Len(routes))
  BY <1>1, PlanIsOK
<1>3. PICK p : p = Plan
  OBVIOUS
<1>4. /\ p.attached \in [ToSet(Planned) -> SUBSET ValidRow]
      /\ p.status \in [DOMAIN p.status -> Statuses]
  BY <1>2, <1>3 DEF PlanOK
<1>5. /\ routes' = [i \in DOMAIN routes |->
             [routes[i] EXCEPT !.status = IF routes[i].row.name \in DOMAIN p.status
                                          THEN p.status[routes[i].row.name] ELSE @]]
      /\ gateways' = [i \in DOMAIN gateways |->
                          [gateways[i] EXCEPT !.status = GatewayStatus(gateways[i].row)]]
      /\ kubelet' = [pc |-> "run", todo |-> SetToSeq(ToSet(Planned)), order |-> p.attached]
      /\ UNCHANGED <<services, pod>>
  BY <1>3 DEF Heartbeat
<1>6. routes' \in Lines(RouteRow)
  <2> DEFINE T == [row : RouteRow, status : Statuses]
  <2>1. /\ DOMAIN routes = 1..Len(routes) /\ Len(routes) \in Nat
        /\ \A k \in DOMAIN routes : routes[k] \in T
    BY InSeq DEF TypeOK
  <2>2. \A k \in DOMAIN routes, s \in Statuses : [routes[k] EXCEPT !.status = s] \in T
    BY <2>1
  <2>3. \A k \in DOMAIN routes :
            (IF routes[k].row.name \in DOMAIN p.status
             THEN p.status[routes[k].row.name] ELSE routes[k].status) \in Statuses
    BY <1>4, <2>1
  <2> HIDE DEF T
  <2>4. routes' \in [1..Len(routes) -> T]
    BY <1>5, <2>1, <2>2, <2>3
  <2> QED
    BY <2>1, <2>4, IsSeq DEF Lines, T
<1>7. gateways' \in Lines([name : Gateway, valid : BOOLEAN])
  <2> DEFINE T == [row : [name : Gateway, valid : BOOLEAN], status : Statuses]
  <2>1. /\ DOMAIN gateways = 1..Len(gateways) /\ Len(gateways) \in Nat
        /\ \A k \in DOMAIN gateways : gateways[k] \in T
    BY InSeq DEF TypeOK
  <2>2. \A row : GatewayStatus(row) \in Statuses
    BY DEF GatewayStatus, Statuses
  <2>3. \A k \in DOMAIN gateways, s \in Statuses : [gateways[k] EXCEPT !.status = s] \in T
    BY <2>1
  <2> HIDE DEF T
  <2>4. gateways' \in [1..Len(gateways) -> T]
    BY <1>5, <2>1, <2>2, <2>3
  <2> QED
    BY <2>1, <2>4, IsSeq DEF Lines, T
<1>8. ToSet(Planned) \subseteq Gateway /\ IsFiniteSet(ToSet(Planned))
  <2>1. PICK q \in Seq(Gateway) : q = Planned
    BY <1>1, PlannedType
  <2>2. DOMAIN q = 1..Len(q) /\ Len(q) \in Nat /\ \A k \in DOMAIN q : q[k] \in Gateway
    BY InSeq
  <2>3. ToSet(q) \subseteq Gateway
    BY <2>2 DEF ToSet
  <2>4. IsFiniteSet(ToSet(q))
    <3> DEFINE h == [k \in 1..Len(q) |-> q[k]]
    <3>1. IsFiniteSet(1..Len(q))
      BY <2>2, FS_Interval
    <3>2. h \in Surjection(1..Len(q), ToSet(q))
      BY <2>2 DEF Surjection, ToSet
    <3> HIDE DEF h
    <3> QED
      BY <3>1, <3>2, FS_Surjection
  <2> QED
    BY <2>1, <2>3, <2>4
<1>9. p.attached \in Orders /\ DOMAIN p.attached = ToSet(Planned)
  BY <1>4, <1>8 DEF Orders
<1>10. PICK todo : todo = SetToSeq(ToSet(Planned))
  OBVIOUS
<1>11. todo \in Seq(Gateway) /\ ToSet(todo) \subseteq ToSet(Planned)
  <2>1. PICK gs : gs = ToSet(Planned)
    OBVIOUS
  <2>2. todo \in Seq(gs) /\ ToSet(todo) \subseteq gs /\ gs \subseteq Gateway
    BY <1>8, <1>10, <2>1, Listed
  <2>3. todo \in Seq(Gateway)
    BY <2>2
  <2> QED
    BY <2>1, <2>2, <2>3
<1>12. /\ kubelet' \in [pc : {"idle", "run", "install", "test", "reload", "record"},
                        todo : Seq(Gateway), order : Orders]
       /\ ToSet(kubelet'.todo) \subseteq DOMAIN kubelet'.order
  BY <1>5, <1>9, <1>10, <1>11
<1> QED
  BY <1>5, <1>6, <1>7, <1>12 DEF TypeOK, Lines


\* The kubelet's steps keep the types.
LEMMA KubeletKeepsTypes == TypeOK /\ Kubelet => TypeOK'
<1> SUFFICES ASSUME TypeOK, Kubelet PROVE TypeOK'
  OBVIOUS
<1> DEFINE PCs == {"idle", "run", "install", "test", "reload", "record"}
<1>1. /\ kubelet = [pc |-> kubelet.pc, todo |-> kubelet.todo, order |-> kubelet.order]
      /\ kubelet.pc \in PCs /\ kubelet.todo \in Seq(Gateway) /\ kubelet.order \in Orders
      /\ ToSet(kubelet.todo) \subseteq DOMAIN kubelet.order
      /\ pod \in [Gateway -> Pod]
  BY DEF TypeOK
<1>2. ASSUME UNCHANGED <<tabs, events>>, pod' \in [Gateway -> Pod],
             \/ \E pc \in PCs : Go(pc)
             \/ NextPod /\ kubelet.todo # <<>>
      PROVE  TypeOK'
  <2>1. /\ kubelet' = [pc |-> kubelet'.pc, todo |-> kubelet'.todo, order |-> kubelet.order]
        /\ kubelet'.pc \in PCs /\ kubelet'.todo \in Seq(Gateway)
        /\ ToSet(kubelet'.todo) \subseteq DOMAIN kubelet.order
    <3>1. CASE \E pc \in PCs : Go(pc)
      BY <1>1, <3>1 DEF Go
    <3>2. CASE NextPod /\ kubelet.todo # <<>>
      <4>1. PICK rest \in Seq(Gateway) : /\ rest = Tail(kubelet.todo)
                                         /\ ToSet(rest) \subseteq DOMAIN kubelet.order
        BY <3>2, AtWork
      <4> QED
        BY <1>1, <3>2, <4>1 DEF NextPod
    <3> QED
      BY <1>2, <3>1, <3>2
  <2>2. /\ kubelet' \in [pc : PCs, todo : Seq(Gateway), order : Orders]
        /\ ToSet(kubelet'.todo) \subseteq DOMAIN kubelet'.order
    BY <1>1, <2>1
  <2> QED
    BY <1>2, <2>2 DEF TypeOK, tabs
<1>3. CASE Heartbeat
  BY <1>3, HeartbeatTyped
<1>4. CASE Run
  <2> DEFINE now == IF Up(This) THEN pod[This] ELSE Created
  <2>1. now \in Pod /\ kubelet.todo # <<>>
    BY <1>4, AtWork, PodsTyped DEF Run, At
  <2>2. pod' = [pod EXCEPT ![This] = now] /\ UNCHANGED <<tabs, events>>
    BY <1>4 DEF Run, Loop
  <2>3. Go("install") \/ NextPod
    BY <1>4 DEF Run
  <2> HIDE DEF now
  <2>4. pod' \in [Gateway -> Pod]
    BY <1>1, <2>1, <2>2
  <2> QED
    BY <1>2, <2>1, <2>2, <2>3, <2>4
<1>5. ASSUME UNCHANGED <<tabs, events>>, kubelet.todo # <<>>,
             (\E pc \in PCs : Go(pc)) \/ NextPod,
             \/ UNCHANGED pod
             \/ \E p \in Pod : pod' = [pod EXCEPT ![This] = p]
      PROVE  TypeOK'
  <2>1. pod' \in [Gateway -> Pod]
    BY <1>1, <1>5
  <2> QED
    BY <1>2, <1>5, <2>1
<1>6. ASSUME kubelet.todo # <<>>
      PROVE  /\ pod[This] \in Pod /\ Order \in Config /\ This \in Gateway
             /\ pod[This].conf \in Config /\ pod[This].prev \in Config
  BY <1>6, AtWork DEF Pod
<1>7. CASE Install
  <2>1. /\ kubelet.todo # <<>> /\ UNCHANGED <<tabs, events>> /\ Go("test")
        /\ pod' = [pod EXCEPT ![This].prev = pod[This].conf, ![This].conf = Order]
    BY <1>7 DEF Install, Script, At, Loop
  <2>2. pod' = [pod EXCEPT ![This] = [pod[This] EXCEPT !.prev = pod[This].conf, !.conf = Order]]
    BY <1>1, <1>6, <2>1
  <2> QED
    BY <1>5, <1>6, <2>1, <2>2, PodsTyped
<1>8. CASE Test
  <2>1. kubelet.todo # <<>> /\ UNCHANGED <<tabs, events>>
    BY <1>8 DEF Test, Script, At, Loop
  <2>2. CASE Loadable(Order)
    BY <1>5, <1>8, <2>1, <2>2 DEF Test
  <2>3. CASE ~Loadable(Order)
    <3>1. NextPod /\ pod' = [pod EXCEPT ![This].conf = pod[This].prev]
      BY <1>8, <2>3 DEF Test
    <3>2. pod' = [pod EXCEPT ![This] = [pod[This] EXCEPT !.conf = pod[This].prev]]
      BY <1>1, <1>6, <2>1, <3>1
    <3> QED
      BY <1>5, <1>6, <2>1, <3>1, <3>2, PodsTyped
  <2> QED
    BY <2>2, <2>3
<1>9. CASE Reload
  <2>1. kubelet.todo # <<>> /\ UNCHANGED <<tabs, events>>
    BY <1>9 DEF Reload, Script, At, Loop
  <2>2. CASE pod[This].nginx # "on"
    BY <1>5, <1>9, <2>1, <2>2 DEF Reload
  <2>3. CASE pod[This].nginx = "on"
    <3>1. Go("record") /\ pod' = [pod EXCEPT ![This].serves = pod[This].conf]
      BY <1>9, <2>3 DEF Reload
    <3>2. pod' = [pod EXCEPT ![This] = [pod[This] EXCEPT !.serves = pod[This].conf]]
      BY <1>1, <1>6, <2>1, <3>1
    <3> QED
      BY <1>5, <1>6, <2>1, <3>1, <3>2, PodsTyped
  <2> QED
    BY <2>2, <2>3
<1>10. CASE Record
  <2>1. /\ kubelet.todo # <<>> /\ UNCHANGED <<tabs, events>> /\ NextPod
        /\ pod' = [pod EXCEPT ![This].applied = Order]
    BY <1>10 DEF Record, Script, At, Loop
  <2>2. pod' = [pod EXCEPT ![This] = [pod[This] EXCEPT !.applied = Order]]
    BY <1>1, <1>6, <2>1
  <2> QED
    BY <1>5, <1>6, <2>1, <2>2, PodsTyped
<1>11. CASE Collect
  <2>1. pod' \in [Gateway -> Pod]
    BY <1>1, <1>11, PodsTyped DEF Collect
  <2> QED
    BY <1>2, <1>11, <2>1 DEF Collect, Loop
<1>12. ASSUME NEW pc \in {"install", "test", "reload", "record"}, Abandon(pc) PROVE TypeOK'
  BY <1>5, <1>12 DEF Abandon, Script, At, Loop
<1> QED
  BY <1>3, <1>4, <1>7, <1>8, <1>9, <1>10, <1>11, <1>12 DEF Kubelet

\* Every variable has its type in every reachable state: no file of a pod ever holds an
\* invalid row, whatever is typed into the tabs.
THEOREM TypesHold == Spec => []TypeOK
<1>1. TypeOK /\ [Next]_vars => TypeOK'
  <2> SUFFICES ASSUME TypeOK, [Next]_vars PROVE TypeOK'
    OBVIOUS
  <2>1. CASE UNCHANGED vars
    BY <2>1 DEF TypeOK, vars
  <2>2. ASSUME NEW g \in Gateway, NginxStarts(g) \/ ContainerExits(g) PROVE TypeOK'
    <3>1. pod[g] \in Pod /\ pod[g].conf \in Config /\ pod \in [Gateway -> Pod]
      BY DEF TypeOK, Pod
    <3>2. \E p \in Pod : pod' = [pod EXCEPT ![g] = p]
      BY <2>2, <3>1, PodsTyped DEF NginxStarts, ContainerExits
    <3>3. pod' \in [Gateway -> Pod]
      BY <3>1, <3>2
    <3>4. UNCHANGED <<tabs, kubelet>>
      BY <2>2 DEF NginxStarts, ContainerExits
    <3> QED
      BY <3>3, <3>4 DEF TypeOK, tabs
  <2> QED
    BY <2>1, <2>2, UsersKeepTypes, KubeletKeepsTypes DEF Next
<1> QED
  BY <1>1, InitTyped, PTL DEF Spec

\* In every reachable state what the next heartbeat renders answers each request with the
\* route the rows promise.
THEOREM RoutesAsPromised == Spec => []Routed
<1>1. TypeOK => Routed
  BY PlanRoutes DEF TypeOK, RowsOK
<1> QED
  BY <1>1, TypesHold, PTL

\* In every reachable state the status the next heartbeat writes beside a route is true.
THEOREM StatusIsTrue == Spec => []StatusTells
<1>1. TypeOK => StatusTells
  BY PlanTells DEF TypeOK, RowsOK
<1> QED
  BY <1>1, TypesHold, PTL
=============================================================================
