--------------------------- MODULE DeliveryProofs ---------------------------
(***************************************************************************)
(* That the index follows what the watches have delivered: a pod waits for  *)
(* one node at most and gets the kubelet of the node it is on; pods, Servers*)
(* and authorizations are, between events, those that exist; and a port is  *)
(* linked to the one Server that matches it.                                *)
(*                                                                          *)
(* None of this is inductive: in the middle of a handler of Restarted the   *)
(* index lags behind by what the handler has yet to apply (Todo) and yet to *)
(* remove (Prior), and the invariants say by no more.                       *)
(***************************************************************************)
EXTENDS PolicyIndexProofs

Todo(op)  == IF task.op = op THEN DOMAIN task.todo ELSE {}
Prior(op) == IF task.op = op THEN task.prior ELSE {}

(* What a handler of op that goes on with a list has yet to do.             *)
LEMMA Resumed ==
  ASSUME NEW op, op # "idle", NEW todo, NEW prior, task' = Resume(op, todo, prior)
  PROVE  /\ Todo(op)' = DOMAIN todo /\ Prior(op)' = prior
         /\ \A k \in Todo(op)' : task'.todo[k] = todo[k]
         /\ \A other : other \notin {op, "idle"} => Todo(other)' = {} /\ Prior(other)' = {}
         /\ task'.op \in {op, "idle"}
<1>1. CASE DOMAIN todo = {} /\ prior = {}
  BY <1>1 DEF Resume, NoTask, Todo, Prior
<1>2. CASE ~(DOMAIN todo = {} /\ prior = {})
  BY <1>2 DEF Resume, Todo, Prior
<1> QED BY <1>1, <1>2

(* Between events there is nothing to do.                                   *)
LEMMA IdleDone ==
  ASSUME Idle, NEW op, op # "idle"
  PROVE  Todo(op) = {} /\ Prior(op) = {} /\ task.op = "idle"
BY DEF Idle, NoTask, Todo, Prior

----------------------------------------------------------------------------
(* Pods and nodes.                                                          *)

(* A pod that waits exists, waits as it now is where it is scheduled, is    *)
(* not indexed, and is not one that a reset is still to apply.              *)
WaitsIn(ns, ps, os, todo) ==
  \A n \in PendingNodes(ns) : \A k \in DOMAIN ns[n].pods :
    /\ k \in DOMAIN os /\ os[k].node = n /\ ns[n].pods[k] = os[k]
    /\ k \notin DOMAIN ps
    /\ k \notin todo

Waits == WaitsIn(nodes, pods, podObjs, Todo("pods"))

(* The kubelet of a node is always one the node has, and a reset of nodes   *)
(* or pods applies what was listed.                                         *)
Sources ==
  /\ \A n \in KnownNodes(nodes) : nodes[n].ips \in NodeObjs[n]
  /\ \A n \in Todo("nodes") : task.todo[n] \in NodeObjs[n]
  /\ \A k \in Todo("pods") : k \in DOMAIN podObjs /\ task.todo[k] = podObjs[k]

(* The action of KubeletOfOwnNode.                                          *)
GetsOwnKubelet ==
  \A k \in DOMAIN lookups' \ DOMAIN lookups :
    /\ k \in DOMAIN podObjs'
    /\ lookups'[k].kubelet \in NodeObjs[podObjs'[k].node]

KnownIps(ns) == \A n \in KnownNodes(ns) : ns[n].ips \in NodeObjs[n]

(* PendingOnce is about where pods wait.                                    *)
LEMMA WaitsOnce == Waits => PendingOnce
BY DEF Waits, WaitsIn, PendingOnce, PendingOn

(* PodIndex::apply: what gets indexed and what becomes discoverable.        *)
LEMMA IndexPodsDomains ==
  ASSUME NEW new, NEW ips, NEW pick, IndexPods(new, ips, pick)
  PROVE  /\ DOMAIN pods' = DOMAIN pods \cup DOMAIN new
         /\ \A k \in DOMAIN lookups' \ DOMAIN lookups :
              k \in DOMAIN new \ DOMAIN pods /\ lookups'[k].kubelet = ips
BY DEF IndexPods

(* apply_pod, of the pod as the watch delivers it.                          *)
LEMMA ApplyPodWaits ==
  ASSUME IndexType, Waits, KnownIps(nodes), NEW k \in PodKeys, NEW obj \in PodObj,
         ApplyPod(k, obj),
         \A n \in PendingOn(nodes, k) : obj.node = n,
         k \in DOMAIN podObjs', podObjs'[k] = obj,
         \A i \in DOMAIN podObjs \ {k} : i \in DOMAIN podObjs' /\ podObjs'[i] = podObjs[i],
         NEW todo, todo \subseteq Todo("pods"), k \notin todo
  PROVE  WaitsIn(nodes', pods', podObjs', todo) /\ KnownIps(nodes') /\ GetsOwnKubelet
<1>1. CASE k \in DOMAIN pods
  <2>1. DOMAIN pods' = DOMAIN pods /\ UNCHANGED <<nodes, lookups>>
    BY <1>1 DEF ApplyPod
  <2> QED BY <1>1, <2>1 DEF Waits, WaitsIn, GetsOwnKubelet
<1>2. CASE k \notin DOMAIN pods /\ obj.node \in KnownNodes(nodes)
  <2> DEFINE new == [i \in {k} |-> obj]
  <2>1. obj.node # None
    BY <1>2, NoneAssumption DEF KnownNodes, IndexType, IsPMap
  <2>2. nodes' = nodes /\ \E pick \in Picks : IndexPods(new, nodes[obj.node].ips, pick)
    BY <1>2, <2>1 DEF ApplyPod
  <2>3. /\ DOMAIN pods' = DOMAIN pods \cup {k}
        /\ \A i \in DOMAIN lookups' \ DOMAIN lookups :
             i = k /\ lookups'[i].kubelet = nodes[obj.node].ips
    <3>1. DOMAIN new = {k} OBVIOUS
    <3> HIDE DEF new
    <3> QED BY <2>2, <3>1, IndexPodsDomains
  <2>4. PendingOn(nodes, k) = {} BY <1>2 DEF PendingOn, PendingNodes
  <2>5. GetsOwnKubelet BY <1>2, <2>3 DEF GetsOwnKubelet, KnownIps
  <2> QED BY <2>2, <2>3, <2>4, <2>5 DEF Waits, WaitsIn, PendingOn
<1>3. CASE k \notin DOMAIN pods /\ obj.node \in NodeNames \ KnownNodes(nodes)
  <2> DEFINE waiting == IF obj.node \in DOMAIN nodes THEN nodes[obj.node].pods ELSE EmptyMap
             queue == Put(waiting, k, obj)
  <2>1. nodes' = PushPending(nodes, k, obj) /\ UNCHANGED <<pods, lookups>>
    BY <1>3, NoneAssumption DEF ApplyPod
  <2>2. nodes' = Put(nodes, obj.node, Pending(queue)) BY <2>1 DEF PushPending
  <2>3. /\ DOMAIN queue = DOMAIN waiting \cup {k} /\ queue[k] = obj
        /\ \A i \in DOMAIN waiting \ {k} : queue[i] = waiting[i]
    BY DEF Put
  <2> HIDE DEF queue
  <2>4. /\ DOMAIN nodes' = DOMAIN nodes \cup {obj.node}
        /\ nodes'[obj.node].state = "pending" /\ nodes'[obj.node].pods = queue
        /\ \A n \in DOMAIN nodes \ {obj.node} : nodes'[n] = nodes[n]
    BY <2>2 DEF Pending, Put
  <2>5. /\ KnownNodes(nodes') = KnownNodes(nodes)
        /\ PendingNodes(nodes') = PendingNodes(nodes) \cup {obj.node}
    BY <1>3, <2>4 DEF KnownNodes, PendingNodes
  <2>6. ASSUME NEW n \in PendingNodes(nodes'), NEW i \in DOMAIN nodes'[n].pods
        PROVE  /\ i \in DOMAIN podObjs' /\ podObjs'[i].node = n
               /\ nodes'[n].pods[i] = podObjs'[i]
               /\ i \notin DOMAIN pods' /\ i \notin todo
    <3>1. CASE n # obj.node
      <4>1. n \in PendingNodes(nodes) /\ nodes'[n] = nodes[n] BY <2>4, <2>5, <3>1 DEF PendingNodes
      <4>2. i # k BY <3>1, <4>1 DEF PendingOn
      <4> QED BY <2>1, <4>1, <4>2 DEF Waits, WaitsIn
    <3>2. CASE n = obj.node /\ i = k
      BY <1>3, <2>1, <2>3, <2>4, <3>2
    <3>3. CASE n = obj.node /\ i # k
      <4>1. i \in DOMAIN waiting /\ nodes'[n].pods[i] = waiting[i] BY <2>3, <2>4, <3>3
      <4>2. n \in PendingNodes(nodes) /\ waiting = nodes[n].pods
        BY <1>3, <3>3, <4>1 DEF EmptyMap, PendingNodes
      <4> QED BY <2>1, <3>3, <4>1, <4>2 DEF Waits, WaitsIn
    <3> QED BY <3>1, <3>2, <3>3
  <2>7. KnownIps(nodes')
    BY <1>3, <2>4, <2>5 DEF KnownIps, KnownNodes
  <2> QED BY <2>1, <2>6, <2>7 DEF WaitsIn, GetsOwnKubelet
<1>4. CASE k \notin DOMAIN pods /\ obj.node = None
  <2>1. UNCHANGED <<nodes, pods, lookups>>
    <3>1. None \notin KnownNodes(nodes) /\ None \notin NodeNames
      BY NoneAssumption DEF KnownNodes, IndexType, IsPMap
    <3> QED BY <1>4, <3>1 DEF ApplyPod
  <2>2. PendingOn(nodes, k) = {}
    BY <1>4, NoneAssumption DEF PendingOn, PendingNodes, IndexType, IsPMap
  <2> QED BY <2>1, <2>2 DEF Waits, WaitsIn, PendingOn, GetsOwnKubelet
<1> QED BY <1>1, <1>2, <1>3, <1>4 DEF PodObj

(* rm_pod, of a pod that is gone or, in a reset, of one that is not listed. *)
LEMMA RmPodWaits ==
  ASSUME IndexType, Waits, KnownIps(nodes), NEW k, RmPod(k),
         \A i \in DOMAIN podObjs \ {k} : i \in DOMAIN podObjs' /\ podObjs'[i] = podObjs[i]
  PROVE  WaitsIn(nodes', pods', podObjs', Todo("pods")) /\ KnownIps(nodes') /\ GetsOwnKubelet
<1>1. CASE PendingOn(nodes, k) # {}
  <2>1. PICK n \in PendingOn(nodes, k) : nodes' = ClearPendingPod(nodes, n, k)
    BY <1>1 DEF RmPod
  <2>2. UNCHANGED <<pods, lookups>> BY <1>1 DEF RmPod
  <2>3. n \in PendingNodes(nodes) BY DEF PendingOn
  <2>4. /\ DOMAIN nodes' = DOMAIN nodes
        /\ \A m \in DOMAIN nodes \ {n} : nodes'[m] = nodes[m]
        /\ nodes'[n].state = nodes[n].state
        /\ nodes'[n].pods = Drop(nodes[n].pods, k)
    <3>1. nodes[n] \in [state : {"pending"}, pods : PMap(PodKeys, PodObj)]
      BY <2>3 DEF PendingNodes, KnownNodes, IndexType, IsPMap, State
    <3> QED BY <2>1, <2>3, <3>1 DEF ClearPendingPod, PendingNodes
  <2>5. KnownNodes(nodes') = KnownNodes(nodes) /\ PendingNodes(nodes') = PendingNodes(nodes)
    BY <2>4 DEF KnownNodes, PendingNodes
  <2>6. KnownIps(nodes') BY <2>3, <2>4, <2>5 DEF KnownIps, PendingNodes, KnownNodes
  <2>7. ASSUME NEW m \in PendingNodes(nodes'), NEW i \in DOMAIN nodes'[m].pods
        PROVE  /\ i # k /\ m \in PendingNodes(nodes) /\ i \in DOMAIN nodes[m].pods
               /\ nodes'[m].pods[i] = nodes[m].pods[i]
    <3>1. m \in PendingNodes(nodes) BY <2>5
    <3>2. CASE m = n BY <2>4, <3>1, <3>2 DEF Drop, Restrict
    <3>3. CASE m # n
      <4>1. nodes'[m] = nodes[m] BY <2>4, <3>1, <3>3 DEF PendingNodes
      <4>2. i = k => podObjs[k].node = m /\ podObjs[k].node = n
        BY <2>3, <3>1, <4>1 DEF Waits, WaitsIn, PendingOn
      <4> QED BY <3>1, <3>3, <4>1, <4>2
    <3> QED BY <3>2, <3>3
  <2> QED BY <2>2, <2>6, <2>7 DEF Waits, WaitsIn, GetsOwnKubelet
<1>2. CASE PendingOn(nodes, k) = {}
  <2>1. /\ DOMAIN pods' \subseteq DOMAIN pods /\ nodes' = nodes
        /\ DOMAIN lookups' \subseteq DOMAIN lookups
    BY <1>2 DEF RmPod, Drop, Restrict
  <2> QED BY <1>2, <2>1 DEF Waits, WaitsIn, PendingOn, GetsOwnKubelet
<1> QED BY <1>1, <1>2

(* apply_node: the pods that waited for it get its kubelet.                 *)
LEMMA ApplyNodeWaits ==
  ASSUME Waits, KnownIps(nodes), NEW n \in NodeNames, NEW obj \in NodeObjs[n],
         ApplyNode(n, obj), UNCHANGED podObjs
  PROVE  WaitsIn(nodes', pods', podObjs', Todo("pods")) /\ KnownIps(nodes') /\ GetsOwnKubelet
<1>1. CASE UNCHANGED <<nodes, pods, lookups>>
  BY <1>1 DEF Waits, GetsOwnKubelet
<1>2. ASSUME nodes' = Put(nodes, n, Known(obj)), n \notin KnownNodes(nodes)
      PROVE  /\ KnownIps(nodes')
             /\ PendingNodes(nodes') = PendingNodes(nodes) \ {n}
             /\ \A m \in PendingNodes(nodes') : nodes'[m] = nodes[m]
  <2>1. /\ DOMAIN nodes' = DOMAIN nodes \cup {n}
        /\ nodes'[n].state = "known" /\ nodes'[n].ips = obj
        /\ \A m \in DOMAIN nodes \ {n} : nodes'[m] = nodes[m]
    BY <1>2 DEF Known, Put
  <2> QED BY <2>1 DEF KnownIps, KnownNodes, PendingNodes
<1>3. CASE /\ n \notin DOMAIN nodes
           /\ nodes' = Put(nodes, n, Known(obj))
           /\ UNCHANGED <<pods, lookups>>
  BY <1>2, <1>3 DEF Waits, WaitsIn, GetsOwnKubelet, KnownNodes
<1>4. CASE /\ n \in PendingNodes(nodes)
           /\ nodes' = Put(nodes, n, Known(obj))
           /\ \E pick \in Picks : IndexPods(nodes[n].pods, obj, pick)
  <2>1. /\ DOMAIN pods' = DOMAIN pods \cup DOMAIN nodes[n].pods
        /\ \A k \in DOMAIN lookups' \ DOMAIN lookups :
             k \in DOMAIN nodes[n].pods /\ lookups'[k].kubelet = obj
    BY <1>4, IndexPodsDomains
  <2>2. \A k \in DOMAIN nodes[n].pods : k \in DOMAIN podObjs /\ podObjs[k].node = n
    BY <1>4 DEF Waits, WaitsIn
  <2>3. GetsOwnKubelet BY <2>1, <2>2 DEF GetsOwnKubelet
  <2>4. /\ KnownIps(nodes') /\ PendingNodes(nodes') = PendingNodes(nodes) \ {n}
        /\ \A m \in PendingNodes(nodes') : nodes'[m] = nodes[m]
    BY <1>2, <1>4 DEF PendingNodes
  <2>5. WaitsIn(nodes', pods', podObjs', Todo("pods"))
    BY <2>1, <2>2, <2>4 DEF Waits, WaitsIn
  <2> QED BY <2>3, <2>4, <2>5
<1> QED BY <1>1, <1>3, <1>4 DEF ApplyNode

(* delete_node: pods may be lost, but wait nowhere they should not.         *)
LEMMA DeleteNodeWaits ==
  ASSUME Waits, KnownIps(nodes), NEW n, DeleteNode(n), UNCHANGED <<pods, lookups, podObjs>>
  PROVE  WaitsIn(nodes', pods', podObjs', Todo("pods")) /\ KnownIps(nodes') /\ GetsOwnKubelet
<1>1. /\ KnownNodes(nodes') = KnownNodes(nodes) \ {n}
      /\ PendingNodes(nodes') = PendingNodes(nodes) \ {n}
      /\ \A m \in DOMAIN nodes \ {n} : nodes'[m] = nodes[m]
  BY DEF DeleteNode, Drop, Restrict, KnownNodes, PendingNodes
<1> QED BY <1>1 DEF Waits, WaitsIn, KnownIps, KnownNodes, PendingNodes, GetsOwnKubelet

(* The conclusions of the lemmas above, for a step that ends with todo.     *)
LEMMA WaitsKept ==
  ASSUME NEW todo, Todo("pods")' = todo,
         WaitsIn(nodes', pods', podObjs', todo), KnownIps(nodes'),
         \A n \in Todo("nodes")' : task'.todo[n] \in NodeObjs[n],
         \A k \in todo : k \in DOMAIN podObjs' /\ task'.todo[k] = podObjs'[k]
  PROVE  Waits' /\ Sources'
BY DEF Waits, Sources, KnownIps

(* A step of the other two watches.                                         *)
LEMMA WaitsAside ==
  ASSUME Waits, Sources, UNCHANGED <<nodes, podObjs, lookups>>, DOMAIN pods' = DOMAIN pods,
         UNCHANGED task \/ (Todo("pods")' = {} /\ Todo("nodes")' = {})
  PROVE  Waits' /\ Sources' /\ GetsOwnKubelet
<1>1. CASE UNCHANGED task
  BY <1>1 DEF Waits, WaitsIn, Sources, GetsOwnKubelet, Todo
<1>2. CASE Todo("pods")' = {} /\ Todo("nodes")' = {}
  BY <1>2 DEF Waits, WaitsIn, Sources, GetsOwnKubelet
<1> QED BY <1>1, <1>2

(* The events of nodes.                                                     *)
LEMMA NodeWaits ==
  ASSUME TypeOK, Waits, Sources, NodeNext
  PROVE  Waits' /\ Sources' /\ GetsOwnKubelet
<1>1. IndexType /\ KnownIps(nodes) BY DEF TypeOK, IndexType, Sources, KnownIps
<1> DEFINE Goal == Waits' /\ Sources' /\ GetsOwnKubelet
<1>2. ASSUME NEW n \in NodeNames, NodeApplied(n) PROVE Goal
  <2>1. PICK obj \in NodeObjs[n] : ApplyNode(n, obj) BY <1>2 DEF NodeApplied
  <2>2. UNCHANGED <<podObjs, task>> BY <1>2 DEF NodeApplied
  <2>3. /\ WaitsIn(nodes', pods', podObjs', Todo("pods"))
        /\ KnownIps(nodes') /\ GetsOwnKubelet
    BY <1>1, <2>1, <2>2, ApplyNodeWaits
  <2> QED BY <2>2, <2>3 DEF Waits, Sources, KnownIps, Todo
<1>3. ASSUME NEW n \in NodeNames, NodeDeleted(n) PROVE Goal
  <2>1. UNCHANGED <<pods, lookups, podObjs, task>> BY <1>3 DEF NodeDeleted
  <2>2. /\ WaitsIn(nodes', pods', podObjs', Todo("pods"))
        /\ KnownIps(nodes') /\ GetsOwnKubelet
    BY <1>1, <1>3, <2>1, DeleteNodeWaits DEF NodeDeleted
  <2> QED BY <2>1, <2>2 DEF Waits, Sources, KnownIps, Todo
<1>4. ASSUME NEW n \in NodeNames, NodeListed(n) PROVE Goal
  <2>1. task.op = "nodes" /\ n \in Todo("nodes") /\ task.todo[n] \in NodeObjs[n]
    BY <1>4 DEF NodeListed, ListedKeys, Todo, Sources
  <2>2. UNCHANGED podObjs BY <1>4 DEF NodeListed, objs
  <2>3. ASSUME ApplyNode(n, task.todo[n])
        PROVE  /\ WaitsIn(nodes', pods', podObjs', Todo("pods"))
               /\ KnownIps(nodes') /\ GetsOwnKubelet
    BY <1>1, <2>1, <2>2, <2>3, ApplyNodeWaits
  <2>4. ASSUME UNCHANGED <<nodes, pods, lookups>>
        PROVE  /\ WaitsIn(nodes', pods', podObjs', Todo("pods"))
               /\ KnownIps(nodes') /\ GetsOwnKubelet
    BY <1>1, <2>2, <2>4 DEF Waits, GetsOwnKubelet
  <2>5. task' = Resume("nodes", Drop(task.todo, n), task.prior \ {n})
    BY <1>4 DEF NodeListed
  <2>6. /\ Todo("pods")' = {} /\ Todo("pods") = {}
        /\ \A m \in Todo("nodes")' : m \in Todo("nodes") /\ task'.todo[m] = task.todo[m]
    BY <2>1, <2>5, Resumed DEF Todo, Drop, Restrict
  <2> QED BY <1>4, <2>2, <2>3, <2>4, <2>6, WaitsKept DEF NodeListed, Sources
<1>5. ASSUME NEW n \in NodeNames, NodeDefunct(n) PROVE Goal
  <2>1. task.op = "nodes" /\ task' = Resume("nodes", task.todo, task.prior \ {n})
    BY <1>5 DEF NodeDefunct
  <2>2. UNCHANGED <<pods, lookups, podObjs>> BY <1>5 DEF NodeDefunct, objs
  <2>3. /\ WaitsIn(nodes', pods', podObjs', Todo("pods"))
        /\ KnownIps(nodes') /\ GetsOwnKubelet
    BY <1>1, <1>5, <2>2, DeleteNodeWaits DEF NodeDefunct
  <2>4. /\ Todo("pods")' = {} /\ Todo("pods") = {}
        /\ \A m \in Todo("nodes")' : m \in Todo("nodes") /\ task'.todo[m] = task.todo[m]
    BY <2>1, Resumed DEF Todo
  <2> QED BY <2>2, <2>3, <2>4, WaitsKept DEF Sources
<1>6. ASSUME NodesRestarted PROVE Goal
  <2>1. UNCHANGED <<nodes, pods, lookups, podObjs>> /\ Idle /\ nodeObjs' \in ListsOf(NodeObjs)
    BY <1>6 DEF NodesRestarted, index
  <2>2. \A n \in DOMAIN nodeObjs' : nodeObjs'[n] \in NodeObjs[n]
    BY <2>1 DEF ListsOf
  <2>3. task' = Resume("nodes", nodeObjs', KnownNodes(nodes)) BY <1>6 DEF NodesRestarted
  <2>4. /\ Todo("pods")' = {} /\ Todo("nodes")' = DOMAIN nodeObjs'
        /\ \A n \in DOMAIN nodeObjs' : task'.todo[n] = nodeObjs'[n]
    BY <2>3, Resumed
  <2>5. WaitsIn(nodes', pods', podObjs', {}) BY <2>1 DEF Waits, WaitsIn
  <2>6. KnownIps(nodes') /\ GetsOwnKubelet BY <1>1, <2>1 DEF KnownIps, GetsOwnKubelet
  <2>7. \A n \in Todo("nodes")' : task'.todo[n] \in NodeObjs[n] BY <2>2, <2>4
  <2> QED BY <2>4, <2>5, <2>6, <2>7, WaitsKept
<1> QED BY <1>2, <1>3, <1>4, <1>5, <1>6 DEF NodeNext

(* The events of pods.                                                      *)
LEMMA PodWaits ==
  ASSUME TypeOK, Waits, Sources, PodNext
  PROVE  Waits' /\ Sources' /\ GetsOwnKubelet
<1>1. IndexType /\ ObjsType /\ KnownIps(nodes) /\ TaskType
  BY DEF TypeOK, IndexType, ObjsType, Sources, KnownIps
<1> DEFINE Goal == Waits' /\ Sources' /\ GetsOwnKubelet
<1>2. ASSUME NEW k \in PodKeys, PodApplied(k) PROVE Goal
  <2>1. PICK obj \in PodObjs[k] :
          /\ k \in DOMAIN podObjs => SamePod(podObjs[k], obj)
          /\ podObjs' = Put(podObjs, k, obj)
          /\ ApplyPod(k, obj)
    BY <1>2 DEF PodApplied
  <2>2. obj \in PodObj BY ObjsAssumption
  <2>3. Idle /\ UNCHANGED task BY <1>2 DEF PodApplied
  <2>4. Todo("pods") = {} /\ Todo("nodes") = {} BY <2>3, IdleDone
  <2>5. ASSUME NEW n \in PendingOn(nodes, k) PROVE obj.node = n
    <3>1. n \in NodeNames /\ n # None
      BY <1>1, NoneAssumption DEF PendingOn, PendingNodes, IndexType, IsPMap
    <3>2. k \in DOMAIN podObjs /\ podObjs[k].node = n BY DEF PendingOn, Waits, WaitsIn
    <3> QED BY <2>1, <3>1, <3>2 DEF SamePod
  <2>6. /\ k \in DOMAIN podObjs' /\ podObjs'[k] = obj
        /\ \A i \in DOMAIN podObjs \ {k} : i \in DOMAIN podObjs' /\ podObjs'[i] = podObjs[i]
    BY <2>1 DEF Put
  <2>7. /\ WaitsIn(nodes', pods', podObjs', Todo("pods"))
        /\ KnownIps(nodes') /\ GetsOwnKubelet
    BY <1>1, <2>1, <2>2, <2>4, <2>5, <2>6, ApplyPodWaits
  <2> QED BY <2>3, <2>4, <2>7, WaitsKept DEF Todo
<1>3. ASSUME NEW k \in PodKeys, PodDeleted(k) PROVE Goal
  <2>1. Idle /\ UNCHANGED task /\ RmPod(k) /\ podObjs' = Drop(podObjs, k)
    BY <1>3 DEF PodDeleted
  <2>2. \A i \in DOMAIN podObjs \ {k} : i \in DOMAIN podObjs' /\ podObjs'[i] = podObjs[i]
    BY <2>1 DEF Drop, Restrict
  <2>3. /\ WaitsIn(nodes', pods', podObjs', Todo("pods"))
        /\ KnownIps(nodes') /\ GetsOwnKubelet
    BY <1>1, <2>1, <2>2, RmPodWaits
  <2>4. Todo("pods") = {} /\ Todo("nodes") = {} BY <2>1, IdleDone
  <2> QED BY <2>1, <2>3, <2>4, WaitsKept DEF Todo
<1>4. ASSUME NEW k \in PodKeys, PodListed(k) PROVE Goal
  <2> DEFINE todo == Drop(task.todo, k)
  <2>1. /\ task.op = "pods" /\ k \in Todo("pods") /\ ApplyPod(k, task.todo[k])
        /\ task' = Resume("pods", todo, task.prior \ {k}) /\ podObjs' = podObjs
    BY <1>4 DEF PodListed, ListedKeys, Todo, objs
  <2>2. k \in DOMAIN podObjs /\ task.todo[k] = podObjs[k] BY <2>1 DEF Sources
  <2>3. podObjs[k] \in PodObj BY <1>1, <2>2 DEF ObjsType, IsPMap
  <2>4. PendingOn(nodes, k) = {} BY <2>1 DEF PendingOn, Waits, WaitsIn
  <2>5. DOMAIN todo = Todo("pods") \ {k} /\ \A i \in DOMAIN todo : todo[i] = task.todo[i]
    BY <2>1 DEF Todo, Drop, Restrict
  <2> HIDE DEF todo
  <2>6. /\ WaitsIn(nodes', pods', podObjs', DOMAIN todo)
        /\ KnownIps(nodes') /\ GetsOwnKubelet
    BY <1>1, <2>1, <2>2, <2>3, <2>4, <2>5, ApplyPodWaits
  <2>7. /\ Todo("pods")' = DOMAIN todo /\ Todo("nodes")' = {}
        /\ \A i \in DOMAIN todo : task'.todo[i] = todo[i]
    BY <2>1, Resumed
  <2> QED BY <2>1, <2>5, <2>6, <2>7, WaitsKept DEF Sources
<1>5. ASSUME NEW k \in PodKeys, PodDefunct(k) PROVE Goal
  <2>1. /\ task.op = "pods" /\ RmPod(k) /\ podObjs' = podObjs
        /\ task' = Resume("pods", task.todo, task.prior \ {k})
    BY <1>5 DEF PodDefunct, objs
  <2>2. /\ WaitsIn(nodes', pods', podObjs', Todo("pods"))
        /\ KnownIps(nodes') /\ GetsOwnKubelet
    BY <1>1, <2>1, RmPodWaits
  <2>3. /\ Todo("pods")' = Todo("pods") /\ Todo("nodes")' = {}
        /\ \A i \in Todo("pods") : task'.todo[i] = task.todo[i]
    BY <2>1, Resumed DEF Todo
  <2> QED BY <2>1, <2>2, <2>3, WaitsKept DEF Sources
<1>6. ASSUME PodsRestarted PROVE Goal
  <2>1. /\ nodes' = ClearPendingPods(nodes) /\ UNCHANGED <<pods, lookups>>
        /\ task' = Resume("pods", podObjs', DOMAIN pods)
    BY <1>6 DEF PodsRestarted
  <2>2. /\ KnownNodes(nodes') = KnownNodes(nodes) /\ PendingNodes(nodes') = {}
        /\ \A n \in KnownNodes(nodes) : nodes'[n] = nodes[n]
    BY <2>1 DEF ClearPendingPods, Restrict, KnownNodes, PendingNodes
  <2>3. /\ Todo("pods")' = DOMAIN podObjs' /\ Todo("nodes")' = {}
        /\ \A i \in DOMAIN podObjs' : task'.todo[i] = podObjs'[i]
    BY <2>1, Resumed
  <2> QED BY <1>1, <2>1, <2>2, <2>3 DEF Waits, WaitsIn, Sources, KnownIps, GetsOwnKubelet
<1> QED BY <1>2, <1>3, <1>4, <1>5, <1>6 DEF PodNext

(* The events of Servers and authorizations.                                *)
LEMMA OtherWaits ==
  ASSUME TypeOK, Waits, Sources, ServerNext \/ AuthzNext
  PROVE  Waits' /\ Sources' /\ GetsOwnKubelet
<1> DEFINE Goal == Waits' /\ Sources' /\ GetsOwnKubelet
<1>1. ASSUME NEW s \in ServerKeys, ServerApplied(s) \/ ServerDeleted(s) PROVE Goal
  <2>1. DOMAIN pods' = DOMAIN pods
    BY <1>1 DEF ServerApplied, ServerDeleted, IndexServer, LinkServers, RmServer, ResetServer
  <2> QED BY <1>1, <2>1, WaitsAside DEF ServerApplied, ServerDeleted
<1>2. ASSUME NEW s \in ServerKeys, ServerListed(s) \/ ServerDefunct(s) PROVE Goal
  <2>1. DOMAIN pods' = DOMAIN pods
    BY <1>2 DEF ServerListed, ServerDefunct, IndexServer, LinkServers, RmServer, ResetServer
  <2>2. Todo("pods")' = {} /\ Todo("nodes")' = {}
    BY <1>2, Resumed DEF ServerListed, ServerDefunct
  <2> QED BY <1>2, <2>1, <2>2, WaitsAside DEF ServerListed, ServerDefunct, objs
<1>3. ASSUME ServersRestarted \/ AuthzsRestarted PROVE Goal
  <2>1. Todo("pods")' = {} /\ Todo("nodes")' = {}
    BY <1>3, Resumed DEF ServersRestarted, AuthzsRestarted
  <2> QED BY <1>3, <2>1, WaitsAside DEF ServersRestarted, AuthzsRestarted, index
<1>4. ASSUME NEW a \in AuthzKeys, AuthzApplied(a) \/ AuthzDeleted(a) PROVE Goal
  BY <1>4, WaitsAside DEF AuthzApplied, AuthzDeleted
<1>5. ASSUME NEW a \in AuthzKeys, AuthzListed(a) \/ AuthzDefunct(a) PROVE Goal
  <2>1. Todo("pods")' = {} /\ Todo("nodes")' = {}
    BY <1>5, Resumed DEF AuthzListed, AuthzDefunct
  <2> QED BY <1>5, <2>1, WaitsAside DEF AuthzListed, AuthzDefunct, objs
<1> QED BY <1>1, <1>2, <1>3, <1>4, <1>5 DEF ServerNext, AuthzNext

(* Any step.                                                                *)
LEMMA StepWaits ==
  ASSUME TypeOK, Waits, Sources, [Next]_vars
  PROVE  Waits' /\ Sources' /\ GetsOwnKubelet
<1>1. CASE Next BY <1>1, NodeWaits, PodWaits, OtherWaits DEF Next
<1>2. CASE UNCHANGED vars
  BY <1>2, WaitsAside DEF vars, index, objs
<1> QED BY <1>1, <1>2

(* What waits, and from where kubelets come, in every state.                *)
LEMMA WaitsInvariant == Spec => [](Waits /\ Sources)
<1>1. Init => Waits /\ Sources
  BY DEF Init, EmptyMap, NoTask, Waits, WaitsIn, Sources, Todo, PendingNodes, KnownNodes
<1>2. TypeOK /\ Waits /\ Sources /\ [Next]_vars => Waits' /\ Sources'
  BY StepWaits
<1> QED BY <1>1, <1>2, TypeCorrect, PTL DEF Spec

(* rm_pod may stop at the first pending entry: there is no other, and the   *)
(* pod is not indexed (pod.rs:84-88).                                       *)
THEOREM PendingOnceHolds == Spec => []PendingOnce
BY WaitsOnce, WaitsInvariant, PTL

(* A pod gets the kubelet of its own node, wherever pods of its name were   *)
(* before, waiting or indexed (pod.rs:188-206, node.rs:136-150).            *)
THEOREM KubeletOfOwnNodeHolds == Spec => KubeletOfOwnNode
<1>1. TypeOK /\ Waits /\ Sources /\ [Next]_vars => [GetsOwnKubelet]_vars
  BY StepWaits
<1>2. Spec => [][GetsOwnKubelet]_vars
  BY <1>1, TypeCorrect, WaitsInvariant, PTL DEF Spec
<1> QED BY <1>2 DEF KubeletOfOwnNode, GetsOwnKubelet

----------------------------------------------------------------------------
(* That no pod is lost, where every node has addresses.                     *)

(* What run no_cidr does without: a node that exists without a usable CIDR. *)
NodesHaveAddresses == \A n \in NodeNames : None \notin NodeObjs[n]

(* Every scheduled pod is indexed or waits, as it now is, for its node, but *)
(* for those a reset has yet to apply.                                      *)
AccountedIn(ns, ps, os, todo) ==
  \A k \in DOMAIN os \ todo : os[k].node # None =>
    \/ k \in DOMAIN ps
    \/ /\ os[k].node \in PendingNodes(ns)
       /\ k \in DOMAIN ns[os[k].node].pods
       /\ ns[os[k].node].pods[k] = os[k]

(* A reset still visits, among the pods it found, all those that are gone.  *)
PodsInv ==
  /\ AccountedIn(nodes, pods, podObjs, Todo("pods"))
  /\ DOMAIN pods \subseteq DOMAIN podObjs \cup Prior("pods")
  /\ Prior("pods") \cap DOMAIN podObjs \subseteq Todo("pods")

(* A node that exists is known, so that the removal of a node drops no pod. *)
NodesInv ==
  /\ DOMAIN nodeObjs \subseteq KnownNodes(nodes) \cup Todo("nodes")
  /\ Prior("nodes") \subseteq KnownNodes(nodes)
  /\ Prior("nodes") \cap DOMAIN nodeObjs \subseteq Todo("nodes")

(* With where pods wait, the two say what PodsAccountedFor does.            *)
LEMMA AccountedIdle ==
  ASSUME Waits, PodsInv, NodesInv
  PROVE  PodsAccountedFor
<1>1. SUFFICES ASSUME Idle
               PROVE  /\ DOMAIN pods \subseteq DOMAIN podObjs
                      /\ \A n \in PendingNodes(nodes) : DOMAIN nodes[n].pods \subseteq DOMAIN podObjs
                      /\ \A k \in DOMAIN podObjs : podObjs[k].node # None =>
                           \/ k \in DOMAIN pods
                           \/ /\ PendingOn(nodes, k) = {podObjs[k].node}
                              /\ nodes[podObjs[k].node].pods[k] = podObjs[k]
                              /\ podObjs[k].node \in DOMAIN nodeObjs => nodeObjs[podObjs[k].node] = None
  BY DEF PodsAccountedFor
<1>2. /\ Todo("pods") = {} /\ Prior("pods") = {}
      /\ Todo("nodes") = {} /\ Prior("nodes") = {}
  BY <1>1, IdleDone
<1>3. DOMAIN pods \subseteq DOMAIN podObjs BY <1>2 DEF PodsInv
<1>4. \A n \in PendingNodes(nodes) : DOMAIN nodes[n].pods \subseteq DOMAIN podObjs
  BY DEF Waits, WaitsIn
<1>5. ASSUME NEW k \in DOMAIN podObjs, podObjs[k].node # None, k \notin DOMAIN pods
      PROVE  /\ PendingOn(nodes, k) = {podObjs[k].node}
             /\ nodes[podObjs[k].node].pods[k] = podObjs[k]
             /\ podObjs[k].node \notin DOMAIN nodeObjs
  <2>1. /\ podObjs[k].node \in PendingNodes(nodes)
        /\ k \in DOMAIN nodes[podObjs[k].node].pods
        /\ nodes[podObjs[k].node].pods[k] = podObjs[k]
    BY <1>2, <1>5 DEF PodsInv, AccountedIn
  <2>2. podObjs[k].node \notin DOMAIN nodeObjs
    BY <1>2, <2>1 DEF NodesInv, PendingNodes
  <2>3. PendingOn(nodes, k) = {podObjs[k].node}
    BY <2>1 DEF PendingOn, Waits, WaitsIn
  <2> QED BY <2>1, <2>2, <2>3
<1> QED BY <1>3, <1>4, <1>5

(* apply_pod: the pod is accounted for, and no other is disturbed.          *)
LEMMA ApplyPodAccounted ==
  ASSUME IndexType, NEW k \in PodKeys, NEW obj \in PodObj, ApplyPod(k, obj),
         k \in DOMAIN podObjs', podObjs'[k] = obj,
         DOMAIN podObjs' = DOMAIN podObjs \cup {k},
         \A i \in DOMAIN podObjs \ {k} : podObjs'[i] = podObjs[i],
         AccountedIn(nodes, pods, podObjs, Todo("pods"))
  PROVE  /\ AccountedIn(nodes', pods', podObjs', Todo("pods") \ {k})
         /\ KnownNodes(nodes') = KnownNodes(nodes)
         /\ DOMAIN pods' \subseteq DOMAIN pods \cup {k}
<1>1. CASE k \in DOMAIN pods
  <2>1. DOMAIN pods' = DOMAIN pods /\ nodes' = nodes BY <1>1 DEF ApplyPod
  <2> QED BY <1>1, <2>1 DEF AccountedIn
<1>2. CASE k \notin DOMAIN pods /\ obj.node \in KnownNodes(nodes)
  <2> DEFINE new == [i \in {k} |-> obj]
  <2>1. obj.node # None
    BY <1>2, NoneAssumption DEF KnownNodes, IndexType, IsPMap
  <2>2. nodes' = nodes /\ \E pick \in Picks : IndexPods(new, nodes[obj.node].ips, pick)
    BY <1>2, <2>1 DEF ApplyPod
  <2>3. DOMAIN pods' = DOMAIN pods \cup {k}
    <3>1. DOMAIN new = {k} OBVIOUS
    <3> HIDE DEF new
    <3> QED BY <2>2, <3>1, IndexPodsDomains
  <2> QED BY <2>2, <2>3 DEF AccountedIn
<1>3. CASE k \notin DOMAIN pods /\ obj.node \in NodeNames \ KnownNodes(nodes)
  <2> DEFINE waiting == IF obj.node \in DOMAIN nodes THEN nodes[obj.node].pods ELSE EmptyMap
             queue == Put(waiting, k, obj)
  <2>1. nodes' = PushPending(nodes, k, obj) /\ UNCHANGED pods
    BY <1>3, NoneAssumption DEF ApplyPod
  <2>2. nodes' = Put(nodes, obj.node, Pending(queue)) BY <2>1 DEF PushPending
  <2>3. /\ DOMAIN queue = DOMAIN waiting \cup {k} /\ queue[k] = obj
        /\ \A i \in DOMAIN waiting \ {k} : queue[i] = waiting[i]
    BY DEF Put
  <2> HIDE DEF queue
  <2>4. /\ DOMAIN nodes' = DOMAIN nodes \cup {obj.node}
        /\ nodes'[obj.node].state = "pending" /\ nodes'[obj.node].pods = queue
        /\ \A n \in DOMAIN nodes \ {obj.node} : nodes'[n] = nodes[n]
    BY <2>2 DEF Pending, Put
  <2>5. /\ KnownNodes(nodes') = KnownNodes(nodes)
        /\ PendingNodes(nodes') = PendingNodes(nodes) \cup {obj.node}
    BY <1>3, <2>4 DEF KnownNodes, PendingNodes
  <2>6. ASSUME NEW i \in DOMAIN podObjs' \ (Todo("pods") \ {k}), podObjs'[i].node # None,
               i \notin DOMAIN pods
        PROVE  /\ podObjs'[i].node \in PendingNodes(nodes')
               /\ i \in DOMAIN nodes'[podObjs'[i].node].pods
               /\ nodes'[podObjs'[i].node].pods[i] = podObjs'[i]
    <3>1. CASE i = k BY <2>3, <2>4, <2>5, <3>1
    <3>2. CASE i # k
      <4>1. /\ i \in DOMAIN podObjs \ Todo("pods") /\ podObjs'[i] = podObjs[i]
            /\ podObjs[i].node \in PendingNodes(nodes)
            /\ i \in DOMAIN nodes[podObjs[i].node].pods
            /\ nodes[podObjs[i].node].pods[i] = podObjs[i]
        BY <2>6, <3>2 DEF AccountedIn
      <4>2. CASE podObjs[i].node # obj.node BY <2>4, <2>5, <4>1, <4>2 DEF PendingNodes
      <4>3. CASE podObjs[i].node = obj.node
        <5>1. waiting = nodes[obj.node].pods BY <4>1, <4>3 DEF PendingNodes
        <5> QED BY <2>3, <2>4, <2>5, <3>2, <4>1, <4>3, <5>1
      <4> QED BY <4>2, <4>3
    <3> QED BY <3>1, <3>2
  <2> QED BY <2>1, <2>5, <2>6 DEF AccountedIn
<1>4. CASE k \notin DOMAIN pods /\ obj.node = None
  <2>1. UNCHANGED <<nodes, pods>>
    <3>1. None \notin KnownNodes(nodes) /\ None \notin NodeNames
      BY NoneAssumption DEF KnownNodes, IndexType, IsPMap
    <3> QED BY <1>4, <3>1 DEF ApplyPod
  <2> QED BY <1>4, <2>1 DEF AccountedIn
<1> QED BY <1>1, <1>2, <1>3, <1>4 DEF PodObj

(* rm_pod: every other pod stays where it is; this one leaves the index.    *)
LEMMA RmPodAccounted ==
  ASSUME IndexType, Waits, NEW k, RmPod(k), k \notin DOMAIN podObjs',
         DOMAIN podObjs' = DOMAIN podObjs \ {k},
         \A i \in DOMAIN podObjs' : podObjs'[i] = podObjs[i],
         AccountedIn(nodes, pods, podObjs, Todo("pods"))
  PROVE  /\ AccountedIn(nodes', pods', podObjs', Todo("pods"))
         /\ KnownNodes(nodes') = KnownNodes(nodes)
         /\ DOMAIN pods' \subseteq DOMAIN pods \ {k}
<1>1. CASE PendingOn(nodes, k) # {}
  <2>1. PICK n \in PendingOn(nodes, k) : nodes' = ClearPendingPod(nodes, n, k)
    BY <1>1 DEF RmPod
  <2>2. UNCHANGED pods BY <1>1 DEF RmPod
  <2>3. n \in PendingNodes(nodes) BY DEF PendingOn
  <2>4. /\ DOMAIN nodes' = DOMAIN nodes
        /\ \A m \in DOMAIN nodes \ {n} : nodes'[m] = nodes[m]
        /\ nodes'[n].state = nodes[n].state
        /\ nodes'[n].pods = Drop(nodes[n].pods, k)
    <3>1. nodes[n] \in [state : {"pending"}, pods : PMap(PodKeys, PodObj)]
      BY <2>3 DEF PendingNodes, KnownNodes, IndexType, IsPMap, State
    <3> QED BY <2>1, <2>3, <3>1 DEF ClearPendingPod, PendingNodes
  <2>5. KnownNodes(nodes') = KnownNodes(nodes) /\ PendingNodes(nodes') = PendingNodes(nodes)
    BY <2>4 DEF KnownNodes, PendingNodes
  <2>6. \A i \in DOMAIN nodes[n].pods \ {k} :
          i \in DOMAIN nodes'[n].pods /\ nodes'[n].pods[i] = nodes[n].pods[i]
    BY <2>4 DEF Drop, Restrict
  <2>7. k \notin DOMAIN pods BY <2>3 DEF PendingOn, Waits, WaitsIn
  <2>8. AccountedIn(nodes', pods', podObjs', Todo("pods"))
    BY <2>2, <2>4, <2>5, <2>6 DEF AccountedIn, PendingNodes
  <2> QED BY <2>2, <2>5, <2>7, <2>8
<1>2. CASE PendingOn(nodes, k) = {}
  <2>1. DOMAIN pods' = DOMAIN pods \ {k} /\ nodes' = nodes
    BY <1>2 DEF RmPod, Drop, Restrict
  <2> QED BY <2>1 DEF AccountedIn
<1> QED BY <1>1, <1>2

(* apply_node: those that waited for the node are indexed.                  *)
LEMMA ApplyNodeAccounted ==
  ASSUME NEW n \in NodeNames, NEW obj, obj # None, ApplyNode(n, obj),
         UNCHANGED podObjs, Waits,
         AccountedIn(nodes, pods, podObjs, Todo("pods")),
         DOMAIN pods \subseteq DOMAIN podObjs \cup Prior("pods")
  PROVE  /\ AccountedIn(nodes', pods', podObjs', Todo("pods"))
         /\ KnownNodes(nodes') = KnownNodes(nodes) \cup {n}
         /\ DOMAIN pods' \subseteq DOMAIN podObjs \cup Prior("pods")
<1>1. CASE n \in KnownNodes(nodes) /\ UNCHANGED <<nodes, pods>>
  BY <1>1
<1>2. ASSUME nodes' = Put(nodes, n, Known(obj))
      PROVE  /\ KnownNodes(nodes') = KnownNodes(nodes) \cup {n}
             /\ PendingNodes(nodes') = PendingNodes(nodes) \ {n}
             /\ \A m \in PendingNodes(nodes') : nodes'[m] = nodes[m]
  <2>1. /\ DOMAIN nodes' = DOMAIN nodes \cup {n} /\ nodes'[n].state = "known"
        /\ \A m \in DOMAIN nodes \ {n} : nodes'[m] = nodes[m]
    BY <1>2 DEF Known, Put
  <2> QED BY <2>1 DEF KnownNodes, PendingNodes
<1>3. CASE /\ n \notin DOMAIN nodes
           /\ nodes' = Put(nodes, n, Known(obj))
           /\ UNCHANGED pods
  BY <1>2, <1>3 DEF AccountedIn, PendingNodes
<1>4. CASE /\ n \in PendingNodes(nodes)
           /\ nodes' = Put(nodes, n, Known(obj))
           /\ \E pick \in Picks : IndexPods(nodes[n].pods, obj, pick)
  <2>1. DOMAIN pods' = DOMAIN pods \cup DOMAIN nodes[n].pods BY <1>4, IndexPodsDomains
  <2>2. DOMAIN nodes[n].pods \subseteq DOMAIN podObjs BY <1>4 DEF Waits, WaitsIn
  <2> QED BY <1>2, <1>4, <2>1, <2>2 DEF AccountedIn
<1> QED BY <1>1, <1>3, <1>4 DEF ApplyNode

(* delete_node, of a node that is known: it drops no pod.                   *)
LEMMA DeleteNodeAccounted ==
  ASSUME NEW n \in KnownNodes(nodes), DeleteNode(n), UNCHANGED <<pods, podObjs>>,
         AccountedIn(nodes, pods, podObjs, Todo("pods"))
  PROVE  /\ AccountedIn(nodes', pods', podObjs', Todo("pods"))
         /\ KnownNodes(nodes') = KnownNodes(nodes) \ {n}
<1>1. /\ DOMAIN nodes' = DOMAIN nodes \ {n}
      /\ \A m \in DOMAIN nodes \ {n} : nodes'[m] = nodes[m]
  BY DEF DeleteNode, Drop, Restrict
<1>2. /\ KnownNodes(nodes') = KnownNodes(nodes) \ {n}
      /\ PendingNodes(nodes') = PendingNodes(nodes)
      /\ \A m \in PendingNodes(nodes) : nodes'[m] = nodes[m]
  BY <1>1 DEF KnownNodes, PendingNodes
<1> QED BY <1>2 DEF AccountedIn

(* The events of nodes.                                                     *)
LEMMA NodeAccounted ==
  ASSUME NodesHaveAddresses, TypeOK, Waits, Sources, PodsInv, NodesInv, NodeNext
  PROVE  PodsInv' /\ NodesInv'
<1> DEFINE Goal == PodsInv' /\ NodesInv'
<1>1. /\ AccountedIn(nodes, pods, podObjs, Todo("pods"))
      /\ DOMAIN pods \subseteq DOMAIN podObjs \cup Prior("pods")
  BY DEF PodsInv
<1>2. ASSUME NEW n \in NodeNames, NodeApplied(n) PROVE Goal
  <2>1. PICK obj \in NodeObjs[n] : nodeObjs' = Put(nodeObjs, n, obj) /\ ApplyNode(n, obj)
    BY <1>2 DEF NodeApplied
  <2>2. UNCHANGED <<podObjs, task>> BY <1>2 DEF NodeApplied
  <2>3. obj # None BY DEF NodesHaveAddresses
  <2>4. /\ AccountedIn(nodes', pods', podObjs', Todo("pods"))
        /\ KnownNodes(nodes') = KnownNodes(nodes) \cup {n}
        /\ DOMAIN pods' \subseteq DOMAIN podObjs \cup Prior("pods")
    BY <1>1, <2>1, <2>2, <2>3, ApplyNodeAccounted
  <2>5. DOMAIN nodeObjs' = DOMAIN nodeObjs \cup {n} BY <2>1 DEF Put
  <2>6. Todo("nodes") = {} /\ Prior("nodes") = {} BY <1>2, IdleDone DEF NodeApplied
  <2>7. /\ Todo("nodes")' = Todo("nodes") /\ Prior("nodes")' = Prior("nodes")
        /\ Todo("pods")' = Todo("pods") /\ Prior("pods")' = Prior("pods")
    BY <2>2 DEF Todo, Prior
  <2> QED BY <2>2, <2>4, <2>5, <2>6, <2>7 DEF PodsInv, NodesInv
<1>3. ASSUME NEW n \in NodeNames, NodeDeleted(n) PROVE Goal
  <2>1. /\ UNCHANGED <<pods, podObjs, task>> /\ DeleteNode(n) /\ n \in DOMAIN nodeObjs
        /\ nodeObjs' = Drop(nodeObjs, n)
    BY <1>3 DEF NodeDeleted
  <2>2. Todo("nodes") = {} /\ Prior("nodes") = {} BY <1>3, IdleDone DEF NodeDeleted
  <2>3. n \in KnownNodes(nodes) BY <2>1, <2>2 DEF NodesInv
  <2>4. /\ AccountedIn(nodes', pods', podObjs', Todo("pods"))
        /\ KnownNodes(nodes') = KnownNodes(nodes) \ {n}
    BY <1>1, <2>1, <2>3, DeleteNodeAccounted
  <2>5. DOMAIN nodeObjs' = DOMAIN nodeObjs \ {n} BY <2>1 DEF Drop, Restrict
  <2>6. /\ Todo("nodes")' = Todo("nodes") /\ Prior("nodes")' = Prior("nodes")
        /\ Todo("pods")' = Todo("pods") /\ Prior("pods")' = Prior("pods")
    BY <2>1 DEF Todo, Prior
  <2> QED BY <2>1, <2>2, <2>4, <2>5, <2>6 DEF PodsInv, NodesInv
<1>4. ASSUME NEW n \in NodeNames, NodeListed(n) PROVE Goal
  <2> DEFINE todo == Drop(task.todo, n)
  <2>1. /\ task.op = "nodes" /\ n \in Todo("nodes") /\ UNCHANGED <<podObjs, nodeObjs>>
        /\ task' = Resume("nodes", todo, task.prior \ {n})
    BY <1>4 DEF NodeListed, ListedKeys, Todo, objs
  <2>2. DOMAIN todo = Todo("nodes") \ {n} BY <2>1 DEF Todo, Drop, Restrict
  <2> HIDE DEF todo
  <2>3. /\ Todo("nodes")' = Todo("nodes") \ {n} /\ Prior("nodes")' = Prior("nodes") \ {n}
        /\ Todo("pods")' = {} /\ Prior("pods")' = {} /\ Todo("pods") = {} /\ Prior("pods") = {}
    <3>1. /\ Todo("nodes")' = DOMAIN todo /\ Prior("nodes")' = task.prior \ {n}
          /\ Todo("pods")' = {} /\ Prior("pods")' = {}
      BY <2>1, Resumed
    <3>2. Prior("nodes") = task.prior /\ Todo("pods") = {} /\ Prior("pods") = {}
      BY <2>1 DEF Todo, Prior
    <3> QED BY <2>2, <3>1, <3>2
  <2>4. /\ AccountedIn(nodes', pods', podObjs', Todo("pods"))
        /\ KnownNodes(nodes') = KnownNodes(nodes) \cup {n}
        /\ DOMAIN pods' \subseteq DOMAIN podObjs \cup Prior("pods")
    <3>1. CASE n \in task.prior
      <4>1. UNCHANGED <<nodes, pods>> BY <1>4, <3>1 DEF NodeListed
      <4>2. n \in KnownNodes(nodes) BY <2>1, <3>1 DEF NodesInv, Prior
      <4> QED BY <1>1, <2>1, <4>1, <4>2
    <3>2. CASE n \notin task.prior
      <4>1. ApplyNode(n, task.todo[n]) BY <1>4, <3>2 DEF NodeListed
      <4>2. task.todo[n] # None BY <2>1 DEF Sources, NodesHaveAddresses
      <4> QED BY <1>1, <2>1, <4>1, <4>2, ApplyNodeAccounted
    <3> QED BY <3>1, <3>2
  <2> QED BY <2>1, <2>3, <2>4 DEF PodsInv, NodesInv
<1>5. ASSUME NEW n \in NodeNames, NodeDefunct(n) PROVE Goal
  <2>1. /\ task.op = "nodes" /\ n \in Prior("nodes") /\ Todo("nodes") = {}
        /\ UNCHANGED <<pods, podObjs, nodeObjs>> /\ DeleteNode(n)
        /\ task' = Resume("nodes", task.todo, task.prior \ {n})
    BY <1>5 DEF NodeDefunct, DefunctKeys, ListedKeys, Todo, Prior, objs
  <2>2. /\ Todo("nodes")' = {} /\ Prior("nodes")' = Prior("nodes") \ {n}
        /\ Todo("pods")' = {} /\ Prior("pods")' = {} /\ Todo("pods") = {} /\ Prior("pods") = {}
    BY <2>1, Resumed DEF Todo, Prior
  <2>3. n \in KnownNodes(nodes) /\ n \notin DOMAIN nodeObjs BY <2>1 DEF NodesInv
  <2>4. /\ AccountedIn(nodes', pods', podObjs', Todo("pods"))
        /\ KnownNodes(nodes') = KnownNodes(nodes) \ {n}
    BY <1>1, <2>1, <2>3, DeleteNodeAccounted
  <2> QED BY <2>1, <2>2, <2>3, <2>4 DEF PodsInv, NodesInv
<1>6. ASSUME NodesRestarted PROVE Goal
  <2>1. /\ UNCHANGED <<nodes, pods, podObjs>> /\ Idle
        /\ task' = Resume("nodes", nodeObjs', KnownNodes(nodes))
    BY <1>6 DEF NodesRestarted, index
  <2>2. /\ Todo("nodes")' = DOMAIN nodeObjs' /\ Prior("nodes")' = KnownNodes(nodes)
        /\ Todo("pods")' = {} /\ Prior("pods")' = {} /\ Todo("pods") = {} /\ Prior("pods") = {}
    BY <2>1, Resumed, IdleDone
  <2> QED BY <1>1, <2>1, <2>2 DEF PodsInv, NodesInv
<1> QED BY <1>2, <1>3, <1>4, <1>5, <1>6 DEF NodeNext

(* The events of pods.                                                      *)
LEMMA PodAccounted ==
  ASSUME TypeOK, Waits, Sources, PodsInv, NodesInv, PodNext
  PROVE  PodsInv' /\ NodesInv'
<1> DEFINE Goal == PodsInv' /\ NodesInv'
<1>1. /\ AccountedIn(nodes, pods, podObjs, Todo("pods")) /\ IndexType /\ ObjsType
      /\ DOMAIN pods \subseteq DOMAIN podObjs \cup Prior("pods")
  BY DEF PodsInv, TypeOK, IndexType, ObjsType
<1>2. ASSUME NEW k \in PodKeys, PodApplied(k) PROVE Goal
  <2>1. PICK obj \in PodObjs[k] : podObjs' = Put(podObjs, k, obj) /\ ApplyPod(k, obj)
    BY <1>2 DEF PodApplied
  <2>2. obj \in PodObj BY ObjsAssumption
  <2>3. Idle /\ UNCHANGED <<task, nodeObjs>> BY <1>2 DEF PodApplied
  <2>4. /\ Todo("nodes")' = Todo("nodes") /\ Prior("nodes")' = Prior("nodes")
        /\ Todo("pods") = {} /\ Prior("pods") = {} /\ Todo("pods")' = {} /\ Prior("pods")' = {}
    BY <2>3, IdleDone DEF Todo, Prior
  <2>5. /\ DOMAIN podObjs' = DOMAIN podObjs \cup {k} /\ podObjs'[k] = obj
        /\ \A i \in DOMAIN podObjs \ {k} : podObjs'[i] = podObjs[i]
    BY <2>1 DEF Put
  <2>6. /\ AccountedIn(nodes', pods', podObjs', Todo("pods") \ {k})
        /\ KnownNodes(nodes') = KnownNodes(nodes)
        /\ DOMAIN pods' \subseteq DOMAIN pods \cup {k}
    BY <1>1, <2>1, <2>2, <2>5, ApplyPodAccounted
  <2>7. Todo("pods") \ {k} = Todo("pods")' BY <2>4
  <2> QED BY <1>1, <2>3, <2>4, <2>5, <2>6, <2>7 DEF PodsInv, NodesInv
<1>3. ASSUME NEW k \in PodKeys, PodDeleted(k) PROVE Goal
  <2>1. Idle /\ UNCHANGED <<task, nodeObjs>> /\ RmPod(k) /\ podObjs' = Drop(podObjs, k)
    BY <1>3 DEF PodDeleted
  <2>2. /\ Todo("nodes")' = Todo("nodes") /\ Prior("nodes")' = Prior("nodes")
        /\ Todo("pods") = {} /\ Prior("pods") = {} /\ Todo("pods")' = {} /\ Prior("pods")' = {}
    BY <2>1, IdleDone DEF Todo, Prior
  <2>3. /\ DOMAIN podObjs' = DOMAIN podObjs \ {k}
        /\ \A i \in DOMAIN podObjs' : podObjs'[i] = podObjs[i]
    BY <2>1 DEF Drop, Restrict
  <2>4. /\ AccountedIn(nodes', pods', podObjs', Todo("pods"))
        /\ KnownNodes(nodes') = KnownNodes(nodes)
        /\ DOMAIN pods' \subseteq DOMAIN pods \ {k}
    BY <1>1, <2>1, <2>3, RmPodAccounted
  <2> QED BY <1>1, <2>1, <2>2, <2>3, <2>4 DEF PodsInv, NodesInv
<1>4. ASSUME NEW k \in PodKeys, PodListed(k) PROVE Goal
  <2> DEFINE todo == Drop(task.todo, k)
  <2>1. /\ task.op = "pods" /\ k \in Todo("pods") /\ ApplyPod(k, task.todo[k])
        /\ task' = Resume("pods", todo, task.prior \ {k}) /\ UNCHANGED <<podObjs, nodeObjs>>
    BY <1>4 DEF PodListed, ListedKeys, Todo, objs
  <2>2. DOMAIN todo = Todo("pods") \ {k} BY <2>1 DEF Todo, Drop, Restrict
  <2> HIDE DEF todo
  <2>3. /\ Todo("pods")' = Todo("pods") \ {k} /\ Prior("pods")' = Prior("pods") \ {k}
        /\ Todo("nodes")' = {} /\ Prior("nodes")' = {} /\ Todo("nodes") = {} /\ Prior("nodes") = {}
    <3>1. /\ Todo("pods")' = DOMAIN todo /\ Prior("pods")' = task.prior \ {k}
          /\ Todo("nodes")' = {} /\ Prior("nodes")' = {}
      BY <2>1, Resumed
    <3>2. Prior("pods") = task.prior /\ Todo("nodes") = {} /\ Prior("nodes") = {}
      BY <2>1 DEF Todo, Prior
    <3> QED BY <2>2, <3>1, <3>2
  <2>4. k \in DOMAIN podObjs /\ task.todo[k] = podObjs[k] BY <2>1 DEF Sources
  <2>5. podObjs[k] \in PodObj BY <1>1, <2>4 DEF ObjsType, IsPMap
  <2>6. /\ AccountedIn(nodes', pods', podObjs', Todo("pods") \ {k})
        /\ KnownNodes(nodes') = KnownNodes(nodes)
        /\ DOMAIN pods' \subseteq DOMAIN pods \cup {k}
    BY <1>1, <2>1, <2>4, <2>5, ApplyPodAccounted
  <2> QED BY <1>1, <2>1, <2>3, <2>4, <2>6 DEF PodsInv, NodesInv
<1>5. ASSUME NEW k \in PodKeys, PodDefunct(k) PROVE Goal
  <2>1. /\ task.op = "pods" /\ k \in Prior("pods") /\ Todo("pods") = {}
        /\ RmPod(k) /\ UNCHANGED <<podObjs, nodeObjs>>
        /\ task' = Resume("pods", task.todo, task.prior \ {k})
    BY <1>5 DEF PodDefunct, DefunctKeys, ListedKeys, Todo, Prior, objs
  <2>2. /\ Todo("pods")' = {} /\ Prior("pods")' = Prior("pods") \ {k}
        /\ Todo("nodes")' = {} /\ Prior("nodes")' = {} /\ Todo("nodes") = {} /\ Prior("nodes") = {}
    BY <2>1, Resumed DEF Todo, Prior
  <2>3. k \notin DOMAIN podObjs BY <2>1 DEF PodsInv
  <2>4. /\ AccountedIn(nodes', pods', podObjs', Todo("pods"))
        /\ KnownNodes(nodes') = KnownNodes(nodes)
        /\ DOMAIN pods' \subseteq DOMAIN pods \ {k}
    BY <1>1, <2>1, <2>3, RmPodAccounted
  <2> QED BY <1>1, <2>1, <2>2, <2>3, <2>4 DEF PodsInv, NodesInv
<1>6. ASSUME PodsRestarted PROVE Goal
  <2>1. /\ nodes' = ClearPendingPods(nodes) /\ UNCHANGED <<pods, nodeObjs>> /\ Idle
        /\ task' = Resume("pods", podObjs', DOMAIN pods)
    BY <1>6 DEF PodsRestarted
  <2>2. KnownNodes(nodes') = KnownNodes(nodes)
    BY <2>1 DEF ClearPendingPods, Restrict, KnownNodes
  <2>3. /\ Todo("pods")' = DOMAIN podObjs' /\ Prior("pods")' = DOMAIN pods
        /\ Todo("nodes")' = {} /\ Prior("nodes")' = {} /\ Todo("nodes") = {} /\ Prior("nodes") = {}
    BY <2>1, Resumed, IdleDone
  <2> QED BY <2>1, <2>2, <2>3 DEF PodsInv, NodesInv, AccountedIn
<1> QED BY <1>2, <1>3, <1>4, <1>5, <1>6 DEF PodNext

(* A step of the other two watches, or none.                                *)
LEMMA OtherUnchanged ==
  ASSUME ServerNext \/ AuthzNext \/ UNCHANGED vars
  PROVE  /\ UNCHANGED <<nodes, podObjs, nodeObjs>> /\ DOMAIN pods' = DOMAIN pods
         /\ Todo("pods")' = Todo("pods") /\ Prior("pods")' = Prior("pods")
         /\ Todo("nodes")' = Todo("nodes") /\ Prior("nodes")' = Prior("nodes")
<1>1. UNCHANGED <<nodes, podObjs, nodeObjs>> /\ DOMAIN pods' = DOMAIN pods
  BY DEF ServerNext, ServerApplied, ServerDeleted, ServersRestarted, ServerListed, ServerDefunct,
         IndexServer, LinkServers, RmServer, ResetServer, AuthzNext, AuthzApplied, AuthzDeleted,
         AuthzsRestarted, AuthzListed, AuthzDefunct, vars, index, objs
<1>2. \/ UNCHANGED task
      \/ /\ task.op \in {"idle", "servers", "authzs"}
         /\ \E op \in {"servers", "authzs"} : \E todo, prior : task' = Resume(op, todo, prior)
  BY IdleDone
     DEF ServerNext, ServerApplied, ServerDeleted, ServersRestarted, ServerListed, ServerDefunct,
         AuthzNext, AuthzApplied, AuthzDeleted, AuthzsRestarted, AuthzListed, AuthzDefunct, vars
<1>3. /\ Todo("pods")' = Todo("pods") /\ Prior("pods")' = Prior("pods")
      /\ Todo("nodes")' = Todo("nodes") /\ Prior("nodes")' = Prior("nodes")
  <2>1. CASE UNCHANGED task BY <2>1 DEF Todo, Prior
  <2>2. ASSUME task.op \in {"idle", "servers", "authzs"},
               NEW op \in {"servers", "authzs"}, NEW todo, NEW prior,
               task' = Resume(op, todo, prior)
        PROVE  /\ Todo("pods")' = Todo("pods") /\ Prior("pods")' = Prior("pods")
               /\ Todo("nodes")' = Todo("nodes") /\ Prior("nodes")' = Prior("nodes")
    <3>1. /\ Todo("pods")' = {} /\ Prior("pods")' = {}
          /\ Todo("nodes")' = {} /\ Prior("nodes")' = {}
      BY <2>2, Resumed
    <3>2. /\ Todo("pods") = {} /\ Prior("pods") = {}
          /\ Todo("nodes") = {} /\ Prior("nodes") = {}
      BY <2>2 DEF Todo, Prior
    <3> QED BY <3>1, <3>2
  <2> QED BY <1>2, <2>1, <2>2
<1> QED BY <1>1, <1>3

LEMMA OtherAccounted ==
  ASSUME PodsInv, NodesInv, ServerNext \/ AuthzNext \/ UNCHANGED vars
  PROVE  PodsInv' /\ NodesInv'
BY OtherUnchanged DEF PodsInv, NodesInv, AccountedIn

(* Where every node has addresses, no interleaving of nodes and pods, of    *)
(* events and lists, loses a scheduled pod, keeps one that is gone, or lets *)
(* one wait for a node that is there (pod.rs:46-143, node.rs:31-186).  The  *)
(* assumption is needed: see run no_cidr.                                   *)
THEOREM PodsAccountedForHolds == NodesHaveAddresses => (Spec => []PodsAccountedFor)
<1>1. Init => PodsInv /\ NodesInv
  BY DEF Init, EmptyMap, NoTask, PodsInv, NodesInv, AccountedIn, Todo, Prior, KnownNodes
<1>2. SUFFICES ASSUME NodesHaveAddresses PROVE Spec => []PodsAccountedFor
  OBVIOUS
<1>3. TypeOK /\ Waits /\ Sources /\ PodsInv /\ NodesInv /\ [Next]_vars => PodsInv' /\ NodesInv'
  BY <1>2, NodeAccounted, PodAccounted, OtherAccounted DEF Next
<1>4. Waits /\ PodsInv /\ NodesInv => PodsAccountedFor
  BY AccountedIdle
<1> QED BY <1>1, <1>3, <1>4, TypeCorrect, WaitsInvariant, PTL DEF Spec

----------------------------------------------------------------------------
(* Servers.                                                                 *)

(* A server has the labels, selector and port of a Server.                  *)
IsCurrent(srv, obj) ==
  srv.labels = obj.labels /\ srv.selector = obj.selector /\ srv.port = obj.port

(* The servers in the index, but for what a reset has yet to do.            *)
ServersInv ==
  /\ DOMAIN servers \subseteq DOMAIN serverObjs \cup Prior("servers")
  /\ DOMAIN serverObjs \subseteq DOMAIN servers \cup Todo("servers")
  /\ DOMAIN serverObjs \cap Prior("servers") \subseteq Todo("servers")
  /\ \A s \in Todo("servers") : s \in DOMAIN serverObjs /\ task.todo[s] = serverObjs[s]
  /\ \A s \in DOMAIN servers : servers[s].config.protocol = servers[s].protocol
  /\ \A s \in DOMAIN servers \cap DOMAIN serverObjs :
       s \notin Todo("servers") => IsCurrent(servers[s], serverObjs[s])

(* The protocol of a Server that is there is not edited, nor is one missed  *)
(* between two lists deleted and created with another (run protocol).       *)
KeepsProtocols ==
  \A s \in DOMAIN serverObjs \cap DOMAIN serverObjs' :
    MkProtocol(serverObjs'[s].protocol) = MkProtocol(serverObjs[s].protocol)

(* The protocol of an indexed server is its object's, also while a reset    *)
(* has yet to list it.                                                      *)
ProtocolsInv ==
  \A s \in DOMAIN servers \cap DOMAIN serverObjs :
    servers[s].protocol = MkProtocol(serverObjs[s].protocol)

(* They say of a state between events what ServersCurrent does.             *)
LEMMA ServersInvIdle == ServersInv /\ ProtocolsInv => ServersCurrent
BY IdleDone DEF ServersInv, ProtocolsInv, ServersCurrent, IsCurrent

(* Index::apply_server                                                      *)
LEMMA IndexServerFields ==
  ASSUME ServersInv, NEW s, NEW obj, IndexServer(s, obj)
  PROVE  /\ DOMAIN servers' = DOMAIN servers \cup {s}
         /\ \A t \in DOMAIN servers \ {s} : servers'[t] = servers[t]
         /\ IsCurrent(servers'[s], obj)
         /\ servers'[s].config.protocol = servers'[s].protocol
<1>1. servers' = Put(servers, s, IF s \in DOMAIN servers
                                  THEN UpdateServer(authzs, s, servers[s], obj)
                                  ELSE NewServer(authzs, s, obj))
  BY DEF IndexServer, ApplyServer
<1>2. /\ IsCurrent(NewServer(authzs, s, obj), obj)
      /\ NewServer(authzs, s, obj).config.protocol = NewServer(authzs, s, obj).protocol
  BY DEF NewServer, IsCurrent
<1>3. ASSUME s \in DOMAIN servers
      PROVE  LET new == UpdateServer(authzs, s, servers[s], obj)
             IN  IsCurrent(new, obj) /\ new.config.protocol = new.protocol
  BY <1>3 DEF UpdateServer, IsCurrent, ServersInv
<1> QED BY <1>1, <1>2, <1>3 DEF Put

(* What an authorization does to a server leaves its metadata alone.        *)
SameFields(new, old) ==
  /\ IsCurrent(new, old) /\ new.protocol = old.protocol
  /\ new.config.protocol = old.config.protocol

LEMMA ServerAuthzFields ==
  ASSUME NEW srv \in Server, NEW n
  PROVE  /\ SameFields(ServerRemoveAuthz(srv, n), srv)
         /\ \A clients : SameFields(ServerAddAuthz(srv, n, clients), srv)
BY DEF SameFields, IsCurrent, ServerRemoveAuthz, ServerAddAuthz, Server, InboundServer

LEMMA AuthzFields ==
  ASSUME IndexType, NEW a, NEW obj, ApplyAuthz(a, obj) \/ DeleteAuthz(a)
  PROVE  /\ DOMAIN servers' = DOMAIN servers
         /\ \A s \in DOMAIN servers : SameFields(servers'[s], servers[s])
<1>1. \A s \in DOMAIN servers : servers[s] \in Server BY DEF IndexType, IsPMap
<1>2. \A s \in DOMAIN servers : SameFields(servers[s], servers[s])
  BY DEF SameFields, IsCurrent
<1>3. CASE servers' = servers BY <1>2, <1>3
<1>4. CASE servers' = AddAuthz(servers, a, MkAuthz(obj))
  BY <1>1, <1>2, <1>4, ServerAuthzFields DEF AddAuthz
<1>5. CASE servers' = RemoveAuthz(servers, a)
  BY <1>1, <1>2, <1>5, ServerAuthzFields DEF RemoveAuthz
<1> QED BY <1>3, <1>4, <1>5 DEF ApplyAuthz, DeleteAuthz

(* A step that is not about Servers.                                        *)
LEMMA ServersAside ==
  ASSUME ServersInv, DOMAIN servers' = DOMAIN servers, UNCHANGED serverObjs,
         \A s \in DOMAIN servers : SameFields(servers'[s], servers[s]),
         UNCHANGED task
           \/ /\ Todo("servers") = {} /\ Prior("servers") = {}
              /\ Todo("servers")' = {} /\ Prior("servers")' = {}
  PROVE  ServersInv'
<1>1. CASE UNCHANGED task
  BY <1>1 DEF ServersInv, Todo, Prior, SameFields, IsCurrent
<1>2. CASE /\ Todo("servers") = {} /\ Prior("servers") = {}
           /\ Todo("servers")' = {} /\ Prior("servers")' = {}
  BY <1>2 DEF ServersInv, SameFields, IsCurrent
<1> QED BY <1>1, <1>2

(* The events of Servers.                                                   *)
LEMMA ServerCurrent ==
  ASSUME ServersInv, ServerNext
  PROVE  ServersInv'
<1>1. ASSUME NEW s \in ServerKeys, ServerApplied(s) PROVE ServersInv'
  <2>1. PICK obj \in ServerObjs[s] : serverObjs' = Put(serverObjs, s, obj) /\ IndexServer(s, obj)
    BY <1>1 DEF ServerApplied
  <2>2. /\ DOMAIN serverObjs' = DOMAIN serverObjs \cup {s} /\ serverObjs'[s] = obj
        /\ \A t \in DOMAIN serverObjs \ {s} : serverObjs'[t] = serverObjs[t]
    BY <2>1 DEF Put
  <2>3. /\ Todo("servers") = {} /\ Prior("servers") = {}
        /\ Todo("servers")' = {} /\ Prior("servers")' = {}
    BY <1>1, IdleDone DEF ServerApplied, Todo, Prior
  <2>4. /\ DOMAIN servers' = DOMAIN servers \cup {s}
        /\ \A t \in DOMAIN servers \ {s} : servers'[t] = servers[t]
        /\ IsCurrent(servers'[s], obj)
        /\ servers'[s].config.protocol = servers'[s].protocol
    BY <2>1, IndexServerFields
  <2> QED BY <2>2, <2>3, <2>4 DEF ServersInv
<1>2. ASSUME NEW s \in ServerKeys, ServerDeleted(s) PROVE ServersInv'
  <2>1. /\ DOMAIN serverObjs' = DOMAIN serverObjs \ {s}
        /\ \A t \in DOMAIN serverObjs' : serverObjs'[t] = serverObjs[t]
    BY <1>2 DEF ServerDeleted, Drop, Restrict
  <2>2. /\ DOMAIN servers' = DOMAIN servers \ {s}
        /\ \A t \in DOMAIN servers' : servers'[t] = servers[t]
    BY <1>2 DEF ServerDeleted, RmServer, Drop, Restrict
  <2>3. /\ Todo("servers") = {} /\ Prior("servers") = {}
        /\ Todo("servers")' = {} /\ Prior("servers")' = {}
    BY <1>2, IdleDone DEF ServerDeleted, Todo, Prior
  <2> QED BY <2>1, <2>2, <2>3 DEF ServersInv
<1>3. ASSUME NEW s \in ServerKeys, ServerListed(s) PROVE ServersInv'
  <2>1. /\ task.op = "servers" /\ s \in Todo("servers") /\ UNCHANGED serverObjs
        /\ task' = Resume("servers", Drop(task.todo, s), task.prior \ {s})
        /\ IndexServer(s, task.todo[s])
    BY <1>3 DEF ServerListed, ListedKeys, Todo, objs
  <2>2. task.todo[s] = serverObjs[s] /\ s \in DOMAIN serverObjs BY <2>1 DEF ServersInv
  <2>3. /\ Todo("servers")' = Todo("servers") \ {s}
        /\ Prior("servers")' = Prior("servers") \ {s}
        /\ \A t \in Todo("servers")' : task'.todo[t] = task.todo[t]
    BY <2>1, Resumed DEF Todo, Prior, Drop, Restrict
  <2>4. /\ DOMAIN servers' = DOMAIN servers \cup {s}
        /\ \A t \in DOMAIN servers \ {s} : servers'[t] = servers[t]
        /\ IsCurrent(servers'[s], serverObjs[s])
        /\ servers'[s].config.protocol = servers'[s].protocol
    BY <2>1, <2>2, IndexServerFields
  <2> QED BY <2>1, <2>2, <2>3, <2>4 DEF ServersInv
<1>4. ASSUME NEW s \in ServerKeys, ServerDefunct(s) PROVE ServersInv'
  <2>1. /\ task.op = "servers" /\ s \in Prior("servers") /\ Todo("servers") = {}
        /\ UNCHANGED serverObjs /\ RmServer(s)
        /\ task' = Resume("servers", task.todo, task.prior \ {s})
    BY <1>4 DEF ServerDefunct, DefunctKeys, ListedKeys, Todo, Prior, objs
  <2>2. /\ DOMAIN servers' = DOMAIN servers \ {s}
        /\ \A t \in DOMAIN servers' : servers'[t] = servers[t]
    BY <2>1 DEF RmServer, Drop, Restrict
  <2>3. Todo("servers")' = {} /\ Prior("servers")' = Prior("servers") \ {s}
    BY <2>1, Resumed DEF Todo, Prior
  <2> QED BY <2>1, <2>2, <2>3 DEF ServersInv
<1>5. ASSUME ServersRestarted PROVE ServersInv'
  <2>1. /\ task' = Resume("servers", serverObjs', DOMAIN servers) /\ UNCHANGED servers
    BY <1>5 DEF ServersRestarted, index
  <2>2. /\ Todo("servers")' = DOMAIN serverObjs' /\ Prior("servers")' = DOMAIN servers
        /\ \A s \in DOMAIN serverObjs' : task'.todo[s] = serverObjs'[s]
    BY <2>1, Resumed
  <2> QED BY <2>1, <2>2 DEF ServersInv
<1> QED BY <1>1, <1>2, <1>3, <1>4, <1>5 DEF ServerNext

(* Any step.                                                                *)
LEMMA StepServers ==
  ASSUME TypeOK, ServersInv, [Next]_vars
  PROVE  ServersInv'
<1>1. \A s \in DOMAIN servers : SameFields(servers[s], servers[s])
  BY DEF SameFields, IsCurrent
<1>2. IndexType BY DEF TypeOK, IndexType
<1>3. ASSUME UNCHANGED <<servers, serverObjs>>,
             UNCHANGED task \/ (\E op \in {"nodes", "pods", "authzs"} : \E todo, prior :
                                  (Idle \/ task.op = op) /\ task' = Resume(op, todo, prior))
      PROVE  ServersInv'
  <2>1. UNCHANGED task \/ /\ Todo("servers") = {} /\ Prior("servers") = {}
                          /\ Todo("servers")' = {} /\ Prior("servers")' = {}
    BY <1>3, Resumed, IdleDone DEF Todo, Prior
  <2> QED BY <1>1, <1>3, <2>1, ServersAside
<1>4. CASE NodeNext
  BY <1>3, <1>4 DEF NodeNext, NodeApplied, NodeDeleted, NodesRestarted, NodeListed,
                    NodeDefunct, index, objs
<1>5. CASE PodNext
  BY <1>3, <1>5 DEF PodNext, PodApplied, PodDeleted, PodsRestarted, PodListed, PodDefunct, objs
<1>6. CASE ServerNext BY <1>6, ServerCurrent
<1>7. CASE AuthzNext
  <2>1. ASSUME NEW a \in AuthzKeys, AuthzApplied(a) \/ AuthzDeleted(a) PROVE ServersInv'
    BY <1>2, <2>1, AuthzFields, ServersAside DEF AuthzApplied, AuthzDeleted
  <2>2. ASSUME NEW a \in AuthzKeys, AuthzListed(a) \/ AuthzDefunct(a) PROVE ServersInv'
    <3>1. /\ Todo("servers") = {} /\ Prior("servers") = {}
          /\ Todo("servers")' = {} /\ Prior("servers")' = {}
      BY <2>2, Resumed DEF AuthzListed, AuthzDefunct, Todo, Prior
    <3> QED BY <1>2, <2>2, <3>1, AuthzFields, ServersAside DEF AuthzListed, AuthzDefunct, objs
  <2>3. CASE AuthzsRestarted BY <1>3, <2>3 DEF AuthzsRestarted, index
  <2> QED BY <1>7, <2>1, <2>2, <2>3 DEF AuthzNext
<1>8. CASE UNCHANGED vars BY <1>3, <1>8 DEF vars, index, objs
<1> QED BY <1>4, <1>5, <1>6, <1>7, <1>8 DEF Next

(* Index::apply_server: the protocol stays what it was, or is the object's. *)
LEMMA IndexServerProtocol ==
  ASSUME NEW s, NEW obj, IndexServer(s, obj),
         s \in DOMAIN servers => servers[s].protocol = MkProtocol(obj.protocol)
  PROVE  /\ DOMAIN servers' = DOMAIN servers \cup {s}
         /\ \A t \in DOMAIN servers \ {s} : servers'[t] = servers[t]
         /\ servers'[s].protocol = MkProtocol(obj.protocol)
<1>1. servers' = Put(servers, s, IF s \in DOMAIN servers
                                  THEN UpdateServer(authzs, s, servers[s], obj)
                                  ELSE NewServer(authzs, s, obj))
  BY DEF IndexServer, ApplyServer
<1>2. NewServer(authzs, s, obj).protocol = MkProtocol(obj.protocol)
  BY DEF NewServer
<1>3. ASSUME s \in DOMAIN servers
      PROVE  UpdateServer(authzs, s, servers[s], obj).protocol = MkProtocol(obj.protocol)
  BY <1>3 DEF UpdateServer
<1> QED BY <1>1, <1>2, <1>3 DEF Put

(* The events of Servers, where no protocol is edited.                      *)
LEMMA ProtocolKept ==
  ASSUME ServersInv, ProtocolsInv, KeepsProtocols, ServerNext
  PROVE  ProtocolsInv'
<1>1. ASSUME Idle PROVE DOMAIN servers \subseteq DOMAIN serverObjs
  BY <1>1, IdleDone DEF ServersInv
<1>2. ASSUME NEW s \in ServerKeys, ServerApplied(s) PROVE ProtocolsInv'
  <2>1. PICK obj \in ServerObjs[s] : serverObjs' = Put(serverObjs, s, obj) /\ IndexServer(s, obj)
    BY <1>2 DEF ServerApplied
  <2>2. /\ s \in DOMAIN serverObjs' /\ serverObjs'[s] = obj
        /\ \A t \in DOMAIN serverObjs \ {s} : serverObjs'[t] = serverObjs[t]
        /\ DOMAIN serverObjs' = DOMAIN serverObjs \cup {s}
    BY <2>1 DEF Put
  <2>3. s \in DOMAIN servers => servers[s].protocol = MkProtocol(obj.protocol)
    BY <1>1, <1>2, <2>2 DEF ServerApplied, ProtocolsInv, KeepsProtocols
  <2>4. /\ DOMAIN servers' = DOMAIN servers \cup {s}
        /\ \A t \in DOMAIN servers \ {s} : servers'[t] = servers[t]
        /\ servers'[s].protocol = MkProtocol(obj.protocol)
    BY <2>1, <2>3, IndexServerProtocol
  <2> QED BY <2>2, <2>4 DEF ProtocolsInv
<1>3. ASSUME NEW s \in ServerKeys, ServerDeleted(s) PROVE ProtocolsInv'
  <2>1. /\ DOMAIN serverObjs' = DOMAIN serverObjs \ {s}
        /\ \A t \in DOMAIN serverObjs' : serverObjs'[t] = serverObjs[t]
    BY <1>3 DEF ServerDeleted, Drop, Restrict
  <2>2. /\ DOMAIN servers' = DOMAIN servers \ {s}
        /\ \A t \in DOMAIN servers' : servers'[t] = servers[t]
    BY <1>3 DEF ServerDeleted, RmServer, Drop, Restrict
  <2> QED BY <2>1, <2>2 DEF ProtocolsInv
<1>4. ASSUME NEW s \in ServerKeys, ServerListed(s) PROVE ProtocolsInv'
  <2>1. /\ s \in Todo("servers") /\ UNCHANGED serverObjs /\ IndexServer(s, task.todo[s])
    BY <1>4 DEF ServerListed, ListedKeys, Todo, objs
  <2>2. task.todo[s] = serverObjs[s] /\ s \in DOMAIN serverObjs BY <2>1 DEF ServersInv
  <2>3. /\ DOMAIN servers' = DOMAIN servers \cup {s}
        /\ \A t \in DOMAIN servers \ {s} : servers'[t] = servers[t]
        /\ servers'[s].protocol = MkProtocol(serverObjs[s].protocol)
    BY <2>1, <2>2, IndexServerProtocol DEF ProtocolsInv
  <2> QED BY <2>1, <2>3 DEF ProtocolsInv
<1>5. ASSUME NEW s \in ServerKeys, ServerDefunct(s) PROVE ProtocolsInv'
  <2>1. UNCHANGED serverObjs BY <1>5 DEF ServerDefunct, objs
  <2>2. DOMAIN servers' \subseteq DOMAIN servers /\ \A t \in DOMAIN servers' : servers'[t] = servers[t]
    BY <1>5 DEF ServerDefunct, RmServer, Drop, Restrict
  <2> QED BY <2>1, <2>2 DEF ProtocolsInv
<1>6. ASSUME ServersRestarted PROVE ProtocolsInv'
  BY <1>1, <1>6 DEF ServersRestarted, index, ProtocolsInv, KeepsProtocols
<1> QED BY <1>2, <1>3, <1>4, <1>5, <1>6 DEF ServerNext

(* Any step.                                                                *)
LEMMA StepProtocols ==
  ASSUME TypeOK, ServersInv, ProtocolsInv, [Next]_vars, [KeepsProtocols]_vars
  PROVE  ProtocolsInv'
<1>1. IndexType BY DEF TypeOK, IndexType
<1>2. ASSUME UNCHANGED serverObjs, DOMAIN servers' = DOMAIN servers,
             \A s \in DOMAIN servers : SameFields(servers'[s], servers[s])
      PROVE  ProtocolsInv'
  BY <1>2 DEF ProtocolsInv, SameFields
<1>3. CASE UNCHANGED <<servers, serverObjs>> BY <1>3 DEF ProtocolsInv
<1>4. CASE NodeNext
  BY <1>3, <1>4 DEF NodeNext, NodeApplied, NodeDeleted, NodesRestarted, NodeListed,
                    NodeDefunct, index, objs
<1>5. CASE PodNext
  BY <1>3, <1>5 DEF PodNext, PodApplied, PodDeleted, PodsRestarted, PodListed, PodDefunct, objs
<1>6. CASE ServerNext
  <2>1. CASE UNCHANGED vars BY <1>3, <2>1 DEF vars, index, objs
  <2> QED BY <1>6, <2>1, ProtocolKept
<1>7. CASE AuthzNext
  <2>1. ASSUME NEW a \in AuthzKeys,
               AuthzApplied(a) \/ AuthzDeleted(a) \/ AuthzListed(a) \/ AuthzDefunct(a)
        PROVE  ProtocolsInv'
    BY <1>1, <1>2, <2>1, AuthzFields
    DEF AuthzApplied, AuthzDeleted, AuthzListed, AuthzDefunct, objs
  <2>2. CASE AuthzsRestarted BY <1>3, <2>2 DEF AuthzsRestarted, index
  <2> QED BY <1>7, <2>1, <2>2 DEF AuthzNext
<1>8. CASE UNCHANGED vars BY <1>3, <1>8 DEF vars, index, objs
<1> QED BY <1>4, <1>5, <1>6, <1>7, <1>8 DEF Next

(* Between events every Server is indexed, and published, as it now is, and *)
(* no other, however events and resets interleave (server.rs:74-134,        *)
(* 224-270), but for the one thing the code does not do: replace the        *)
(* protocol of a Server that is edited (run protocol).                      *)
THEOREM ServersCurrentHolds ==
  Spec /\ [][KeepsProtocols]_vars => []ServersCurrent
<1>1. Init => ServersInv /\ ProtocolsInv
  BY DEF Init, EmptyMap, NoTask, ServersInv, ProtocolsInv, Todo, Prior
<1>2. TypeOK /\ ServersInv /\ [Next]_vars => ServersInv'
  BY StepServers
<1>3. TypeOK /\ ServersInv /\ ProtocolsInv /\ [Next]_vars /\ [KeepsProtocols]_vars
      => ProtocolsInv'
  BY StepProtocols
<1> QED BY <1>1, <1>2, <1>3, ServersInvIdle, TypeCorrect, PTL DEF Spec

----------------------------------------------------------------------------
(* Ports and the one Server that matches them.                              *)

(* The Servers among srvs that match port p of a pod as the watch delivered *)
(* it.                                                                      *)
MatchesOf(srvs, k, obj, p) ==
  MatchingServers(srvs, k[1], obj.labels,
                  ExtractPorts(obj.ports, DefaultRx(ClusterDefault)), p)

(* What run relabel does without: a pod that is there is neither relabelled *)
(* nor, between two lists, replaced by one of other labels or ports.        *)
KeepsPods ==
  \A k \in DOMAIN podObjs \cap DOMAIN podObjs' :
    podObjs'[k].labels = podObjs[k].labels /\ podObjs'[k].ports = podObjs[k].ports

(* A list of Servers hands no port over from one Server to another.         *)
HandsOverNoPort ==
  ServersRestarted =>
    \A k \in DOMAIN podObjs : \A p \in PortNumbers :
      \A s \in MatchesOf(serverObjs, k, podObjs[k], p),
         t \in MatchesOf(serverObjs', k, podObjs[k], p) : s = t

(* The indexed pod has the labels and the ports of obj.                     *)
Depicts(pod, obj) ==
  LET ports == ExtractPorts(obj.ports, DefaultRx(ClusterDefault))
  IN  /\ pod.labels = obj.labels
      /\ DOMAIN pod.ports = DOMAIN ports
      /\ \A p \in DOMAIN ports : pod.ports[p].name = ports[p].name

(* The pods in the index are those that exist, but for the ones a reset has *)
(* yet to remove.                                                           *)
Indexed ==
  /\ DOMAIN pods \subseteq DOMAIN podObjs \cup Prior("pods")
  /\ Prior("pods") \cap DOMAIN podObjs \subseteq Todo("pods")
  /\ \A k \in DOMAIN pods \cap DOMAIN podObjs : Depicts(pods[k], podObjs[k])

(* No port is matched by two Servers, be they indexed or, in a reset, still *)
(* to be.                                                                   *)
Sole ==
  \A k \in DOMAIN podObjs : \A p \in PortNumbers :
    \A s, t \in MatchesOf(servers, k, podObjs[k], p)
                  \cup MatchesOf(serverObjs, k, podObjs[k], p) : s = t

(* A port is linked to a Server that matches it, if one does.               *)
PortLinked(k, pod, srvs, p) ==
  LET matching == MatchingServers(srvs, k[1], pod.labels, pod.ports, p)
  IN  \/ matching = {} /\ pod.ports[p].server = None
      \/ pod.ports[p].server # None /\ <<k[1], pod.ports[p].server>> \in matching

PodLinked(k, pod, srvs) == \A p \in DOMAIN pod.ports : PortLinked(k, pod, srvs, p)

Linked == \A k \in DOMAIN pods : PodLinked(k, pods[k], servers)

LinkInv == Indexed /\ Permitted /\ Sole /\ Linked

(* Between events this is what SoleMatchLinked says, and more.              *)
LEMMA LinkedSole == Linked => SoleMatchLinked
<1> SUFFICES ASSUME Linked, NEW k \in DOMAIN pods, NEW p \in DOMAIN pods[k].ports,
                    NEW matching,
                    matching = MatchingServers(servers, k[1], pods[k].labels, pods[k].ports, p)
             PROVE  /\ matching = {} => pods[k].ports[p].server = None
                    /\ \A s \in matching : matching = {s} => pods[k].ports[p].server = s[2]
  BY Zenon DEF SoleMatchLinked
<1>1. \/ matching = {} /\ pods[k].ports[p].server = None
      \/ <<k[1], pods[k].ports[p].server>> \in matching
  BY DEF Linked, PodLinked, PortLinked
<1>2. ASSUME NEW s \in matching, matching = {s} PROVE pods[k].ports[p].server = s[2]
  <2>1. <<k[1], pods[k].ports[p].server>> = s BY <1>1, <1>2
  <2> QED BY <2>1
<1> QED BY <1>1, <1>2

(* What matches an indexed pod is what matches the pod it depicts.          *)
LEMMA DepictedMatches ==
  ASSUME NEW k, NEW pod, NEW obj, Depicts(pod, obj), NEW srvs, NEW p
  PROVE  MatchingServers(srvs, k[1], pod.labels, pod.ports, p) = MatchesOf(srvs, k, obj, p)
<1> DEFINE ports == ExtractPorts(obj.ports, DefaultRx(ClusterDefault))
<1>1. /\ pod.labels = obj.labels /\ DOMAIN pod.ports = DOMAIN ports
      /\ \A i \in DOMAIN ports : pod.ports[i].name = ports[i].name
  BY DEF Depicts
<1> HIDE DEF ports
<1>2. \A ref : CollectPort(pod.ports, ref) = CollectPort(ports, ref)
  BY <1>1 DEF CollectPort
<1> QED BY <1>1, <1>2 DEF MatchesOf, MatchingServers, ports

(* Which Servers match is a matter of their selectors and ports.            *)
LEMMA MatchingServersAre ==
  ASSUME NEW srvs, NEW ns, NEW labels, NEW ports, NEW p, NEW s
  PROVE  s \in MatchingServers(srvs, ns, labels, ports, p) <=>
           /\ s \in DOMAIN srvs /\ s[1] = ns
           /\ labels \in srvs[s].selector
           /\ p \in CollectPort(ports, srvs[s].port)
BY DEF MatchingServers, IterMatching

LEMMA MatchesSame ==
  ASSUME NEW old, NEW new, DOMAIN new = DOMAIN old,
         \A s \in DOMAIN old : new[s].selector = old[s].selector /\ new[s].port = old[s].port,
         NEW ns, NEW labels, NEW ports, NEW p
  PROVE  MatchingServers(new, ns, labels, ports, p) = MatchingServers(old, ns, labels, ports, p)
BY DEF MatchingServers, IterMatching

(* Only Server s may be another one.                                        *)
DifferAt(s, old, new) ==
  /\ DOMAIN new \ {s} = DOMAIN old \ {s}
  /\ \A t \in DOMAIN old \ {s} : new[t].selector = old[t].selector /\ new[t].port = old[t].port

(* A Server matches, or does not, whatever becomes of another.              *)
LEMMA MatchesBut ==
  ASSUME NEW old, NEW new, NEW s, DifferAt(s, old, new),
         NEW ns, NEW labels, NEW ports, NEW p, NEW t, t # s
  PROVE  t \in MatchingServers(new, ns, labels, ports, p)
           <=> t \in MatchingServers(old, ns, labels, ports, p)
<1>1. /\ t \in DOMAIN new <=> t \in DOMAIN old
      /\ t \in DOMAIN old => new[t].selector = old[t].selector /\ new[t].port = old[t].port
  BY DEF DifferAt
<1> QED BY <1>1, MatchingServersAre

(* A pod after and before linking: a link is kept while some Server matches *)
(* and otherwise made to a Server that matches.                             *)
LinksAs(k, pod, new, srvs) ==
  /\ new.labels = pod.labels /\ DOMAIN new.ports = DOMAIN pod.ports
  /\ \A p \in DOMAIN pod.ports :
       LET matching == MatchingServers(srvs, k[1], pod.labels, pod.ports, p)
       IN  /\ new.ports[p].name = pod.ports[p].name
           /\ MatchingServers(srvs, k[1], new.labels, new.ports, p) = matching
           /\ \/ matching = {} /\ new.ports[p].server = None
              \/ /\ matching # {} /\ pod.ports[p].server # None
                 /\ new.ports[p].server = pod.ports[p].server
              \/ new.ports[p].server # None /\ <<k[1], new.ports[p].server>> \in matching

(* Pod::link_servers                                                        *)
LEMMA LinkPodLinks ==
  ASSUME NEW srvs, DOMAIN srvs \subseteq ServerKeys, NEW k, NEW pod \in Pod, NEW pick \in Picks
  PROVE  LinksAs(k, pod, LinkPod(k, pod, srvs, pick), srvs)
<1> DEFINE new == LinkPod(k, pod, srvs, pick)
           matching(p) == MatchingServers(srvs, k[1], pod.labels, pod.ports, p)
           link(p) == LinkPort(pod.ports[p], matching(p), pod.default, pick)
<1>1. IsPMap(pod.ports, PortNumbers, Port) BY PMapIs DEF Pod
<1>2. new.labels = pod.labels /\ new.ports = [p \in DOMAIN pod.ports |-> link(p)]
  BY DEF LinkPod, Pod
<1>3. \A p : matching(p) \in SUBSET {s \in DOMAIN srvs : s[1] = k[1]}
  BY MatchingServersIn
<1> HIDE DEF matching
<1>4. ASSUME NEW p \in DOMAIN pod.ports
      PROVE  /\ link(p).name = pod.ports[p].name
             /\ \/ matching(p) = {} /\ link(p).server = None
                \/ /\ matching(p) # {} /\ pod.ports[p].server # None
                   /\ link(p).server = pod.ports[p].server
                \/ link(p).server # None /\ <<k[1], link(p).server>> \in matching(p)
  <2>1. pod.ports[p] \in Port BY <1>1 DEF IsPMap
  <2>2. CASE matching(p) = {} \/ pod.ports[p].server # None
    BY <2>1, <2>2 DEF LinkPort, Port
  <2>3. CASE matching(p) # {} /\ pod.ports[p].server = None
    <3> DEFINE s == pick[matching(p)]
    <3>1. matching(p) \in (SUBSET ServerKeys) \ {{}} BY <1>3, <2>3
    <3>2. s \in matching(p) BY <3>1 DEF Picks
    <3>3. s[1] = k[1] /\ s = <<s[1], s[2]>> /\ s[2] \in ServerNames
      BY <1>3, <3>2 DEF ServerKeys
    <3>4. s[2] # None BY <3>3, NoneAssumption
    <3>5. link(p).server = s[2] /\ link(p).name = pod.ports[p].name
      BY <2>1, <2>3 DEF LinkPort, Port
    <3> QED BY <3>2, <3>3, <3>4, <3>5
  <2> QED BY <2>2, <2>3
<1> HIDE DEF link
<1>5. \A ref : CollectPort(new.ports, ref) = CollectPort(pod.ports, ref)
  BY <1>2, <1>4 DEF CollectPort
<1>6. \A p : MatchingServers(srvs, k[1], new.labels, new.ports, p) = matching(p)
  BY <1>2, <1>5 DEF MatchingServers, matching
<1>7. DOMAIN new.ports = DOMAIN pod.ports /\ \A p \in DOMAIN pod.ports : new.ports[p] = link(p)
  BY <1>2
<1> HIDE DEF new
<1>8. /\ new.labels = pod.labels /\ DOMAIN new.ports = DOMAIN pod.ports
      /\ \A p \in DOMAIN pod.ports :
           /\ new.ports[p].name = pod.ports[p].name
           /\ MatchingServers(srvs, k[1], new.labels, new.ports, p) = matching(p)
           /\ \/ matching(p) = {} /\ new.ports[p].server = None
              \/ /\ matching(p) # {} /\ pod.ports[p].server # None
                 /\ new.ports[p].server = pod.ports[p].server
              \/ new.ports[p].server # None /\ <<k[1], new.ports[p].server>> \in matching(p)
  BY <1>2, <1>4, <1>6, <1>7
<1> QED BY <1>8 DEF new, matching, LinksAs

(* The Vacant case of PodIndex::apply links every port that has a match.    *)
LEMMA NewPodLinked ==
  ASSUME NEW srvs, DOMAIN srvs \subseteq ServerKeys, NEW k, NEW obj \in PodObj, NEW pick \in Picks
  PROVE  /\ PodLinked(k, NewPod(k, obj, srvs, pick), srvs)
         /\ Depicts(NewPod(k, obj, srvs, pick), obj)
<1> DEFINE default == DefaultAllow(obj)
           ports == ExtractPorts(obj.ports, DefaultRx(default))
           shown == ExtractPorts(obj.ports, DefaultRx(ClusterDefault))
           pod == [labels |-> obj.labels, default |-> default, ports |-> ports]
           new == NewPod(k, obj, srvs, pick)
<1>1. default \in Modes BY ModeAssumption DEF DefaultAllow
<1>2. DefaultRx(default) \in Rx BY <1>1 DEF DefaultRx, Rx
<1>3. obj.ports \in PortLists /\ obj.labels \in PodLabels BY DEF PodObj
<1>4. IsPMap(ports, PortNumbers, Port) /\ \A p \in DOMAIN ports : ports[p].server = None
  BY <1>2, <1>3, ExtractPortsFacts
<1>5. DOMAIN ports = DOMAIN shown /\ \A p \in DOMAIN ports : ports[p].name = shown[p].name
  BY DEF ExtractPorts
<1> HIDE DEF default, ports, shown
<1>6. pod \in Pod BY <1>1, <1>3, <1>4, PMapIs DEF Pod
<1>7. new = LinkPod(k, pod, srvs, pick) BY DEF NewPod, default, ports
<1>8. pod.labels = obj.labels /\ pod.ports = ports OBVIOUS
<1> HIDE DEF pod, new
<1>9. LinksAs(k, pod, new, srvs) BY <1>6, <1>7, LinkPodLinks
<1>10. PodLinked(k, new, srvs) BY <1>4, <1>8, <1>9 DEF LinksAs, PodLinked, PortLinked
<1>11. Depicts(new, obj) BY <1>5, <1>8, <1>9 DEF LinksAs, Depicts, shown
<1> QED BY <1>10, <1>11 DEF new

(* Index::apply_server, for a pod of the server's namespace none of whose   *)
(* ports two servers match: a port whose server no longer matches it is     *)
(* matched by none.                                                         *)
LEMMA RelinkedPod ==
  ASSUME NEW old, NEW new, DOMAIN new \subseteq ServerKeys, NEW s, DifferAt(s, old, new),
         NEW k, NEW pod \in Pod, NEW pick \in Picks, PodLinked(k, pod, old),
         \A p \in DOMAIN pod.ports :
           \A t, u \in MatchingServers(old, k[1], pod.labels, pod.ports, p) : t = u
  PROVE  PodLinked(k, LinkPod(k, pod, new, pick), new)
<1> DEFINE linked == LinkPod(k, pod, new, pick)
           before(p) == MatchingServers(old, k[1], pod.labels, pod.ports, p)
           matching(p) == MatchingServers(new, k[1], pod.labels, pod.ports, p)
<1>0. LinksAs(k, pod, linked, new) BY LinkPodLinks
<1> HIDE DEF linked
<1>1. /\ DOMAIN linked.ports = DOMAIN pod.ports
      /\ \A p \in DOMAIN pod.ports :
           /\ MatchingServers(new, k[1], linked.labels, linked.ports, p) = matching(p)
           /\ \/ matching(p) = {} /\ linked.ports[p].server = None
              \/ /\ matching(p) # {} /\ pod.ports[p].server # None
                 /\ linked.ports[p].server = pod.ports[p].server
              \/ linked.ports[p].server # None /\ <<k[1], linked.ports[p].server>> \in matching(p)
  BY <1>0 DEF LinksAs
<1>2. \A p : \A t : t # s => (t \in matching(p) <=> t \in before(p))
  BY MatchesBut
<1>3. \A p \in DOMAIN pod.ports : \A t, u \in before(p) : t = u
  OBVIOUS
<1>4. \A p \in DOMAIN pod.ports :
        \/ before(p) = {} /\ pod.ports[p].server = None
        \/ pod.ports[p].server # None /\ <<k[1], pod.ports[p].server>> \in before(p)
  BY DEF PodLinked, PortLinked
<1> HIDE DEF before, matching
<1>5. ASSUME NEW p \in DOMAIN pod.ports, matching(p) # {}, pod.ports[p].server # None
      PROVE  <<k[1], pod.ports[p].server>> \in matching(p)
  <2> DEFINE t == <<k[1], pod.ports[p].server>>
  <2>1. t \in before(p) BY <1>4, <1>5
  <2>2. PICK u : u \in matching(p) BY <1>5
  <2>3. CASE t # s BY <1>2, <2>1, <2>3
  <2>4. CASE t = s /\ u = s BY <2>2, <2>4
  <2>5. CASE t = s /\ u # s
    <3>1. u \in before(p) BY <1>2, <2>2, <2>5
    <3> QED BY <1>3, <2>1, <2>5, <3>1
  <2> QED BY <2>3, <2>4, <2>5
<1>6. \A p \in DOMAIN pod.ports :
        \/ matching(p) = {} /\ linked.ports[p].server = None
        \/ linked.ports[p].server # None /\ <<k[1], linked.ports[p].server>> \in matching(p)
  BY <1>1, <1>5
<1>7. PodLinked(k, linked, new) BY <1>1, <1>6 DEF PodLinked, PortLinked
<1> QED BY <1>7 DEF linked

(* A pod of another namespace than the server's keeps its links.            *)
LEMMA OtherNamespaceLinked ==
  ASSUME NEW old, NEW new, NEW s, DifferAt(s, old, new),
         NEW k, k[1] # s[1], NEW pod, PodLinked(k, pod, old)
  PROVE  PodLinked(k, pod, new)
<1> DEFINE before(p) == MatchingServers(old, k[1], pod.labels, pod.ports, p)
           matching(p) == MatchingServers(new, k[1], pod.labels, pod.ports, p)
<1>1. \A p : \A t : t \in matching(p) \/ t \in before(p) => t # s
  BY MatchingServersAre
<1>2. \A p : \A t : t # s => (t \in matching(p) <=> t \in before(p))
  BY MatchesBut
<1>3. \A p \in DOMAIN pod.ports :
        \/ before(p) = {} /\ pod.ports[p].server = None
        \/ pod.ports[p].server # None /\ <<k[1], pod.ports[p].server>> \in before(p)
  BY DEF PodLinked, PortLinked
<1> HIDE DEF before, matching
<1>4. \A p \in DOMAIN pod.ports :
        \/ matching(p) = {} /\ pod.ports[p].server = None
        \/ pod.ports[p].server # None /\ <<k[1], pod.ports[p].server>> \in matching(p)
  BY <1>1, <1>2, <1>3
<1> QED BY <1>4 DEF PodLinked, PortLinked, matching

(* No port of an indexed pod is matched by two indexed Servers.             *)
PodsSole ==
  \A k \in DOMAIN pods : \A p \in DOMAIN pods[k].ports :
    \A s, t \in MatchingServers(servers, k[1], pods[k].labels, pods[k].ports, p) : s = t

LEMMA SolePods ==
  ASSUME IndexType, Indexed, Sole, Prior("pods") = {}
  PROVE  PodsSole
<1> SUFFICES ASSUME NEW k \in DOMAIN pods, NEW p \in DOMAIN pods[k].ports
             PROVE  \A s, t \in MatchingServers(servers, k[1], pods[k].labels, pods[k].ports, p) :
                      s = t
  BY DEF PodsSole
<1>1. k \in DOMAIN podObjs /\ Depicts(pods[k], podObjs[k]) BY DEF Indexed
<1>2. MatchingServers(servers, k[1], pods[k].labels, pods[k].ports, p)
        = MatchesOf(servers, k, podObjs[k], p)
  BY <1>1, DepictedMatches
<1>3. p \in PortNumbers
  <2>1. pods[k] \in Pod BY DEF IndexType, IsPMap
  <2>2. IsPMap(pods[k].ports, PortNumbers, Port) BY <2>1, PMapIs DEF Pod
  <2> QED BY <2>2 DEF IsPMap
<1> QED BY <1>1, <1>2, <1>3 DEF Sole

(* Index::apply_server                                                      *)
LEMMA IndexServerLinked ==
  ASSUME IndexType, DOMAIN servers' \subseteq ServerKeys, Linked, PodsSole,
         NEW s, NEW obj, IndexServer(s, obj)
  PROVE  Linked'
<1>1. PICK pick \in Picks : pods' = LinkServers(pods, s[1], servers', pick)
  BY DEF IndexServer
<1>2. DifferAt(s, servers, servers')
  BY DEF IndexServer, ApplyServer, Put, DifferAt
<1>3. DOMAIN pods' = DOMAIN pods BY <1>1 DEF LinkServers
<1> SUFFICES ASSUME NEW k \in DOMAIN pods PROVE PodLinked(k, pods'[k], servers')
  BY <1>3 DEF Linked
<1>4. pods'[k] = IF k[1] = s[1] THEN LinkPod(k, pods[k], servers', pick) ELSE pods[k]
  BY <1>1 DEF LinkServers
<1>5. pods[k] \in Pod /\ PodLinked(k, pods[k], servers) BY DEF IndexType, IsPMap, Linked
<1>6. CASE k[1] # s[1] BY <1>2, <1>4, <1>5, <1>6, OtherNamespaceLinked
<1>7. CASE k[1] = s[1]
  <2>1. \A p \in DOMAIN pods[k].ports :
          \A t, u \in MatchingServers(servers, k[1], pods[k].labels, pods[k].ports, p) : t = u
    BY DEF PodsSole
  <2>2. PodLinked(k, LinkPod(k, pods[k], servers', pick), servers')
    BY <1>2, <1>5, <2>1, RelinkedPod
  <2> QED BY <1>4, <1>7, <2>2
<1> QED BY <1>6, <1>7

(* PodIndex::reset_server, port by port.                                    *)
LEMMA ResetServerPorts ==
  ASSUME NEW s, NEW k \in DOMAIN pods, pods[k] \in Pod
  PROVE  LET new == ResetServer(pods, s)[k]
         IN  /\ new.labels = pods[k].labels /\ DOMAIN new.ports = DOMAIN pods[k].ports
             /\ \A p \in DOMAIN pods[k].ports :
                  /\ new.ports[p].name = pods[k].ports[p].name
                  /\ new.ports[p].server =
                       IF k[1] = s[1] /\ pods[k].ports[p].server = s[2]
                         THEN None ELSE pods[k].ports[p].server
<1> DEFINE new == ResetServer(pods, s)[k]
<1>1. CASE k[1] # s[1]
  <2>1. new = pods[k] BY <1>1 DEF ResetServer
  <2> HIDE DEF new
  <2>2. /\ new.labels = pods[k].labels /\ DOMAIN new.ports = DOMAIN pods[k].ports
        /\ \A p \in DOMAIN pods[k].ports :
             /\ new.ports[p].name = pods[k].ports[p].name
             /\ new.ports[p].server = pods[k].ports[p].server
    BY <2>1
  <2> QED BY <1>1, <2>2 DEF new
<1>2. CASE k[1] = s[1]
  <2>1. /\ new.labels = pods[k].labels
        /\ new.ports = [p \in DOMAIN pods[k].ports |->
                          ResetPort(pods[k].ports[p], s[2], pods[k].default)]
    BY <1>2 DEF ResetServer, Pod
  <2>2. IsPMap(pods[k].ports, PortNumbers, Port) BY PMapIs DEF Pod
  <2> HIDE DEF new
  <2>3. ASSUME NEW p \in DOMAIN pods[k].ports
        PROVE  /\ new.ports[p].name = pods[k].ports[p].name
               /\ new.ports[p].server
                    = IF pods[k].ports[p].server = s[2] THEN None ELSE pods[k].ports[p].server
    <3>1. pods[k].ports[p] \in Port BY <2>2 DEF IsPMap
    <3>2. new.ports[p] = ResetPort(pods[k].ports[p], s[2], pods[k].default) BY <2>1
    <3> QED BY <3>1, <3>2 DEF ResetPort, Port
  <2>4. DOMAIN new.ports = DOMAIN pods[k].ports BY <2>1
  <2> QED BY <1>2, <2>1, <2>3, <2>4 DEF new
<1> QED BY <1>1, <1>2

(* rm_server: a port that loses its server has no other.                    *)
LEMMA RmServerLinked ==
  ASSUME IndexType, Linked, PodsSole, NEW s \in ServerKeys, RmServer(s)
  PROVE  Linked'
<1>1. CASE UNCHANGED <<servers, pods>> BY <1>1 DEF Linked
<1>2. CASE servers' = Drop(servers, s) /\ pods' = ResetServer(pods, s)
  <2>1. DifferAt(s, servers, servers') /\ s \notin DOMAIN servers'
    BY <1>2 DEF Drop, Restrict, DifferAt
  <2>2. DOMAIN pods' = DOMAIN pods BY <1>2 DEF ResetServer
  <2> SUFFICES ASSUME NEW k \in DOMAIN pods PROVE PodLinked(k, pods'[k], servers')
    BY <2>2 DEF Linked
  <2>3. pods[k] \in Pod /\ PodLinked(k, pods[k], servers) BY DEF IndexType, IsPMap, Linked
  <2>4. CASE k[1] # s[1]
    <3>1. pods'[k] = pods[k] BY <1>2, <2>4 DEF ResetServer
    <3> QED BY <2>1, <2>3, <2>4, <3>1, OtherNamespaceLinked
  <2>5. CASE k[1] = s[1]
    <3> DEFINE pod == pods[k]
               new == pods'[k]
               before(p) == MatchingServers(servers, k[1], pod.labels, pod.ports, p)
               matching(p) == MatchingServers(servers', k[1], pod.labels, pod.ports, p)
    <3>1. /\ new.labels = pod.labels /\ DOMAIN new.ports = DOMAIN pod.ports
          /\ \A p \in DOMAIN pod.ports :
               /\ new.ports[p].name = pod.ports[p].name
               /\ new.ports[p].server =
                    IF pod.ports[p].server = s[2] THEN None ELSE pod.ports[p].server
      BY <1>2, <2>3, <2>5, ResetServerPorts
    <3> HIDE DEF pod, new
    <3>2. \A ref : CollectPort(new.ports, ref) = CollectPort(pod.ports, ref)
      BY <3>1 DEF CollectPort
    <3>3. \A p : MatchingServers(servers', k[1], new.labels, new.ports, p) = matching(p)
      BY <3>1, <3>2 DEF MatchingServers
    <3>4. \A p : \A t : (t \in matching(p) => t # s) /\ (t # s => (t \in matching(p) <=> t \in before(p)))
      BY <2>1, MatchesBut, MatchingServersAre
    <3>5. \A p \in DOMAIN pod.ports :
            /\ \A t, u \in before(p) : t = u
            /\ \/ before(p) = {} /\ pod.ports[p].server = None
               \/ pod.ports[p].server # None /\ <<k[1], pod.ports[p].server>> \in before(p)
      BY <2>3 DEF PodsSole, PodLinked, PortLinked, pod
    <3>6. s = <<k[1], s[2]>> /\ s[2] # None BY <2>5, NoneAssumption DEF ServerKeys
    <3> HIDE DEF before, matching
    <3>7. ASSUME NEW p \in DOMAIN pod.ports
          PROVE  \/ matching(p) = {} /\ new.ports[p].server = None
                 \/ new.ports[p].server # None /\ <<k[1], new.ports[p].server>> \in matching(p)
      <4>1. CASE pod.ports[p].server = None BY <3>1, <3>4, <3>5, <3>6, <4>1
      <4>2. CASE pod.ports[p].server = s[2]
        <5>1. s \in before(p) BY <3>5, <3>6, <4>2
        <5>2. matching(p) = {} BY <3>4, <3>5, <5>1
        <5> QED BY <3>1, <4>2, <5>2
      <4>3. CASE pod.ports[p].server \notin {None, s[2]}
        <5>1. <<k[1], pod.ports[p].server>> \in before(p) BY <3>5, <4>3
        <5>2. <<k[1], pod.ports[p].server>> # s BY <3>6, <4>3
        <5> QED BY <3>1, <3>4, <4>3, <5>1, <5>2
      <4> QED BY <4>1, <4>2, <4>3
    <3>8. PodLinked(k, new, servers') BY <3>1, <3>3, <3>7 DEF PodLinked, PortLinked, matching
    <3> QED BY <3>8 DEF new
  <2> QED BY <2>4, <2>5
<1> QED BY <1>1, <1>2 DEF RmServer

(* The events of nodes and pods only remove pods from the index and link    *)
(* the pods they add, where no pod is relabelled.                           *)
Grown ==
  \A k \in DOMAIN pods' :
    \/ k \in DOMAIN pods /\ pods'[k] = pods[k]
    \/ /\ k \in DOMAIN podObjs'
       /\ \E pick \in Picks : pods'[k] = NewPod(k, podObjs'[k], servers, pick)

(* PodIndex::apply, of pods that are not indexed.                           *)
LEMMA IndexPodsGrown ==
  ASSUME NEW new, NEW ips, NEW pick \in Picks, IndexPods(new, ips, pick),
         \A k \in DOMAIN new : k \notin DOMAIN pods /\ k \in DOMAIN podObjs' /\ new[k] = podObjs'[k]
  PROVE  Grown /\ DOMAIN pods' = DOMAIN pods \cup DOMAIN new
BY DEF IndexPods, Grown

(* apply_pod, of a pod whose labels, if it is indexed, are those it has.    *)
LEMMA ApplyPodGrown ==
  ASSUME NEW k, NEW obj, ApplyPod(k, obj), k \in DOMAIN podObjs', podObjs'[k] = obj,
         k \in DOMAIN pods => pods[k].labels = obj.labels
  PROVE  Grown /\ DOMAIN pods' \subseteq DOMAIN pods \cup {k}
<1>1. CASE /\ k \in DOMAIN pods
           /\ \E pick \in Picks :
                pods' = [pods EXCEPT ![k] = UpdatePod(k, pods[k], obj, servers, pick)]
  <2>1. PICK pick \in Picks :
          pods' = [pods EXCEPT ![k] = UpdatePod(k, pods[k], obj, servers, pick)]
    BY <1>1
  <2>2. UpdatePod(k, pods[k], obj, servers, pick) = pods[k] BY <1>1 DEF UpdatePod
  <2>3. DOMAIN pods' = DOMAIN pods /\ \A i \in DOMAIN pods : pods'[i] = pods[i]
    BY <2>1, <2>2
  <2> QED BY <2>3 DEF Grown
<1>2. CASE /\ k \notin DOMAIN pods
           /\ \E pick \in Picks : IndexPods([i \in {k} |-> obj], nodes[obj.node].ips, pick)
  <2> DEFINE new == [i \in {k} |-> obj]
  <2>1. DOMAIN new = {k} /\ new[k] = obj OBVIOUS
  <2>2. PICK pick \in Picks : IndexPods(new, nodes[obj.node].ips, pick) BY <1>2
  <2> HIDE DEF new
  <2> QED BY <1>2, <2>1, <2>2, IndexPodsGrown
<1>3. CASE UNCHANGED pods BY <1>3 DEF Grown
<1> QED BY <1>1, <1>2, <1>3 DEF ApplyPod

(* rm_pod                                                                   *)
LEMMA RmPodGrown ==
  ASSUME Waits, NEW k, RmPod(k)
  PROVE  Grown /\ DOMAIN pods' = DOMAIN pods \ {k}
<1>1. CASE PendingOn(nodes, k) # {}
  <2>1. PICK n \in PendingOn(nodes, k) : TRUE BY <1>1
  <2>2. k \notin DOMAIN pods BY DEF PendingOn, Waits, WaitsIn
  <2>3. UNCHANGED pods BY <1>1 DEF RmPod
  <2> QED BY <2>2, <2>3 DEF Grown
<1>2. CASE PendingOn(nodes, k) = {}
  BY <1>2 DEF RmPod, Drop, Restrict, Grown
<1> QED BY <1>1, <1>2

(* apply_node: the pods that waited are linked as they now are.             *)
LEMMA ApplyNodeGrown ==
  ASSUME Waits, NEW n, NEW obj, ApplyNode(n, obj), UNCHANGED podObjs
  PROVE  Grown /\ DOMAIN pods' \subseteq DOMAIN pods \cup DOMAIN podObjs
<1>1. CASE UNCHANGED pods BY <1>1 DEF Grown
<1>2. CASE /\ n \in PendingNodes(nodes)
           /\ \E pick \in Picks : IndexPods(nodes[n].pods, obj, pick)
  <2>1. PICK pick \in Picks : IndexPods(nodes[n].pods, obj, pick) BY <1>2
  <2>2. \A k \in DOMAIN nodes[n].pods :
          k \notin DOMAIN pods /\ k \in DOMAIN podObjs /\ nodes[n].pods[k] = podObjs[k]
    BY <1>2 DEF Waits, WaitsIn
  <2>3. Grown /\ DOMAIN pods' = DOMAIN pods \cup DOMAIN nodes[n].pods
    BY <2>1, <2>2, IndexPodsGrown
  <2> QED BY <2>2, <2>3
<1> QED BY <1>1, <1>2 DEF ApplyNode

(* What follows of a step that leaves the Servers alone.                    *)
LEMMA GrownLinked ==
  ASSUME IndexType, ObjsType', Indexed, Linked, Grown, KeepsPods, UNCHANGED servers,
         DOMAIN pods \cap DOMAIN podObjs' \subseteq DOMAIN podObjs
  PROVE  /\ Linked'
         /\ \A k \in DOMAIN pods' \cap DOMAIN podObjs' : Depicts(pods'[k], podObjs'[k])
<1>1. DOMAIN servers \subseteq ServerKeys BY DEF IndexType, IsPMap
<1>2. ASSUME NEW k \in DOMAIN podObjs', NEW pick \in Picks
      PROVE  /\ PodLinked(k, NewPod(k, podObjs'[k], servers, pick), servers)
             /\ Depicts(NewPod(k, podObjs'[k], servers, pick), podObjs'[k])
  <2>1. podObjs'[k] \in PodObj BY DEF ObjsType, IsPMap
  <2> QED BY <1>1, <2>1, NewPodLinked
<1>3. \A k \in DOMAIN pods' : PodLinked(k, pods'[k], servers)
  BY <1>2 DEF Grown, Linked
<1>4. ASSUME NEW k \in DOMAIN pods \cap DOMAIN podObjs'
      PROVE  Depicts(pods[k], podObjs'[k])
  BY DEF Indexed, KeepsPods, Depicts
<1> QED BY <1>2, <1>3, <1>4 DEF Grown, Linked

(* The events of nodes.                                                     *)
LEMMA NodeLinked ==
  ASSUME TypeOK, ObjsType', Waits, Indexed, Linked, KeepsPods, NodeNext
  PROVE  Indexed' /\ Linked'
<1>1. UNCHANGED <<servers, podObjs>>
  BY DEF NodeNext, NodeApplied, NodeDeleted, NodesRestarted, NodeListed, NodeDefunct, index, objs
<1>2. Todo("pods")' = Todo("pods") /\ Prior("pods")' = Prior("pods")
  <2>1. CASE UNCHANGED task BY <2>1 DEF Todo, Prior
  <2>2. ASSUME Idle \/ task.op = "nodes", NEW todo, NEW prior, task' = Resume("nodes", todo, prior)
        PROVE  Todo("pods")' = Todo("pods") /\ Prior("pods")' = Prior("pods")
    <3>1. Todo("pods")' = {} /\ Prior("pods")' = {} BY <2>2, Resumed
    <3>2. Todo("pods") = {} /\ Prior("pods") = {} BY <2>2, IdleDone DEF Todo, Prior
    <3> QED BY <3>1, <3>2
  <2> QED BY <2>1, <2>2 DEF NodeNext, NodeApplied, NodeDeleted, NodesRestarted, NodeListed,
                            NodeDefunct
<1>3. Grown /\ DOMAIN pods' \subseteq DOMAIN pods \cup DOMAIN podObjs
  <2>1. CASE UNCHANGED pods BY <2>1 DEF Grown
  <2>2. ASSUME NEW n, NEW obj, ApplyNode(n, obj)
        PROVE  Grown /\ DOMAIN pods' \subseteq DOMAIN pods \cup DOMAIN podObjs
    BY <1>1, <2>2, ApplyNodeGrown
  <2> QED BY <2>1, <2>2 DEF NodeNext, NodeApplied, NodeDeleted, NodesRestarted, NodeListed,
                            NodeDefunct, index
<1>4. IndexType BY DEF TypeOK, IndexType
<1>5. /\ Linked'
      /\ \A k \in DOMAIN pods' \cap DOMAIN podObjs' : Depicts(pods'[k], podObjs'[k])
  BY <1>1, <1>3, <1>4, GrownLinked
<1> QED BY <1>1, <1>2, <1>3, <1>5 DEF Indexed

(* The events of pods.                                                      *)
LEMMA PodsLinked ==
  ASSUME TypeOK, ObjsType', Waits, Sources, Indexed, Linked, KeepsPods, PodNext
  PROVE  Indexed' /\ Linked'
<1> DEFINE Goal == Indexed' /\ Linked'
<1>1. IndexType /\ UNCHANGED servers
  BY DEF TypeOK, IndexType, PodNext, PodApplied, PodDeleted, PodsRestarted, PodListed, PodDefunct
<1>2. ASSUME Grown, DOMAIN pods \cap DOMAIN podObjs' \subseteq DOMAIN podObjs,
             DOMAIN pods' \subseteq DOMAIN podObjs' \cup Prior("pods")',
             Prior("pods")' \cap DOMAIN podObjs' \subseteq Todo("pods")'
      PROVE  Goal
  BY <1>1, <1>2, GrownLinked DEF Indexed
<1>3. Idle => /\ DOMAIN pods \subseteq DOMAIN podObjs
              /\ UNCHANGED task => Prior("pods")' = {} /\ Todo("pods")' = {}
  BY IdleDone DEF Indexed, Todo, Prior
<1>4. ASSUME NEW k \in PodKeys, PodApplied(k) PROVE Goal
  <2>1. PICK obj \in PodObjs[k] : podObjs' = Put(podObjs, k, obj) /\ ApplyPod(k, obj)
    BY <1>4 DEF PodApplied
  <2>2. Idle /\ UNCHANGED task BY <1>4 DEF PodApplied
  <2>3. DOMAIN podObjs' = DOMAIN podObjs \cup {k} /\ podObjs'[k] = obj BY <2>1 DEF Put
  <2>4. k \in DOMAIN pods => pods[k].labels = obj.labels
    BY <1>3, <2>2, <2>3 DEF Indexed, Depicts, KeepsPods
  <2>5. Grown /\ DOMAIN pods' \subseteq DOMAIN pods \cup {k}
    BY <2>1, <2>3, <2>4, ApplyPodGrown
  <2> QED BY <1>2, <1>3, <2>2, <2>3, <2>5
<1>5. ASSUME NEW k \in PodKeys, PodDeleted(k) PROVE Goal
  <2>1. Idle /\ UNCHANGED task /\ RmPod(k) /\ podObjs' = Drop(podObjs, k)
    BY <1>5 DEF PodDeleted
  <2>2. DOMAIN podObjs' = DOMAIN podObjs \ {k} BY <2>1 DEF Drop, Restrict
  <2>3. Grown /\ DOMAIN pods' = DOMAIN pods \ {k} BY <2>1, RmPodGrown
  <2> QED BY <1>2, <1>3, <2>1, <2>2, <2>3
<1>6. ASSUME NEW k \in PodKeys, PodListed(k) PROVE Goal
  <2> DEFINE todo == Drop(task.todo, k)
  <2>1. /\ task.op = "pods" /\ k \in Todo("pods") /\ ApplyPod(k, task.todo[k])
        /\ task' = Resume("pods", todo, task.prior \ {k}) /\ UNCHANGED podObjs
    BY <1>6 DEF PodListed, ListedKeys, Todo, objs
  <2>2. k \in DOMAIN podObjs /\ task.todo[k] = podObjs[k] BY <2>1 DEF Sources
  <2>3. DOMAIN todo = Todo("pods") \ {k} BY <2>1 DEF Todo, Drop, Restrict
  <2> HIDE DEF todo
  <2>4. Todo("pods")' = Todo("pods") \ {k} /\ Prior("pods")' = Prior("pods") \ {k}
    <3>1. Todo("pods")' = DOMAIN todo /\ Prior("pods")' = task.prior \ {k} BY <2>1, Resumed
    <3>2. Prior("pods") = task.prior BY <2>1 DEF Prior
    <3> QED BY <2>3, <3>1, <3>2
  <2>5. k \in DOMAIN pods => pods[k].labels = podObjs[k].labels
    BY <2>2 DEF Indexed, Depicts
  <2>6. Grown /\ DOMAIN pods' \subseteq DOMAIN pods \cup {k}
    BY <2>1, <2>2, <2>5, ApplyPodGrown
  <2>7. DOMAIN pods \subseteq DOMAIN podObjs \cup Prior("pods")
    BY DEF Indexed
  <2>8. Prior("pods") \cap DOMAIN podObjs \subseteq Todo("pods")
    BY DEF Indexed
  <2> QED BY <1>2, <2>1, <2>2, <2>4, <2>6, <2>7, <2>8
<1>7. ASSUME NEW k \in PodKeys, PodDefunct(k) PROVE Goal
  <2>1. /\ task.op = "pods" /\ k \in Prior("pods") /\ Todo("pods") = {}
        /\ RmPod(k) /\ UNCHANGED podObjs
        /\ task' = Resume("pods", task.todo, task.prior \ {k})
    BY <1>7 DEF PodDefunct, DefunctKeys, ListedKeys, Todo, Prior, objs
  <2>2. Todo("pods")' = {} /\ Prior("pods")' = Prior("pods") \ {k}
    BY <2>1, Resumed DEF Todo, Prior
  <2>3. Grown /\ DOMAIN pods' = DOMAIN pods \ {k} BY <2>1, RmPodGrown
  <2>4. /\ DOMAIN pods \subseteq DOMAIN podObjs \cup Prior("pods")
        /\ Prior("pods") \cap DOMAIN podObjs \subseteq {}
    BY <2>1 DEF Indexed
  <2> QED BY <1>2, <2>1, <2>2, <2>3, <2>4
<1>8. ASSUME PodsRestarted PROVE Goal
  <2>1. UNCHANGED pods /\ Idle /\ task' = Resume("pods", podObjs', DOMAIN pods)
    BY <1>8 DEF PodsRestarted
  <2>2. Todo("pods")' = DOMAIN podObjs' /\ Prior("pods")' = DOMAIN pods
    BY <2>1, Resumed
  <2>3. Grown BY <2>1 DEF Grown
  <2> QED BY <1>2, <1>3, <2>1, <2>2, <2>3
<1> QED BY <1>4, <1>5, <1>6, <1>7, <1>8 DEF PodNext

(* The events of Servers link and unlink ports, and nothing else.           *)
LEMMA ServerDepicts ==
  ASSUME IndexType, DOMAIN servers' \subseteq ServerKeys, Indexed, UNCHANGED podObjs,
         NEW s, NEW obj, IndexServer(s, obj) \/ RmServer(s)
  PROVE  /\ DOMAIN pods' = DOMAIN pods
         /\ \A k \in DOMAIN pods' \cap DOMAIN podObjs' : Depicts(pods'[k], podObjs'[k])
<1>1. DOMAIN pods' = DOMAIN pods
  BY DEF IndexServer, LinkServers, RmServer, ResetServer
<1> SUFFICES ASSUME NEW k \in DOMAIN pods \cap DOMAIN podObjs
             PROVE  Depicts(pods'[k], podObjs[k])
  BY <1>1
<1>2. Depicts(pods[k], podObjs[k]) /\ pods[k] \in Pod BY DEF Indexed, IndexType, IsPMap
<1>3. \/ pods'[k] = pods[k]
      \/ \E pick \in Picks : pods'[k] = LinkPod(k, pods[k], servers', pick)
      \/ pods'[k] = ResetServer(pods, s)[k]
  BY DEF IndexServer, LinkServers, RmServer
<1>4. CASE pods'[k] = pods[k] BY <1>2, <1>4
<1>5. ASSUME NEW pick \in Picks, pods'[k] = LinkPod(k, pods[k], servers', pick)
      PROVE  Depicts(pods'[k], podObjs[k])
  <2>1. LinksAs(k, pods[k], pods'[k], servers') BY <1>2, <1>5, LinkPodLinks
  <2> QED BY <1>2, <2>1 DEF LinksAs, Depicts
<1>6. CASE pods'[k] = ResetServer(pods, s)[k]
  <2>1. /\ pods'[k].labels = pods[k].labels /\ DOMAIN pods'[k].ports = DOMAIN pods[k].ports
        /\ \A p \in DOMAIN pods[k].ports : pods'[k].ports[p].name = pods[k].ports[p].name
    BY <1>2, <1>6, ResetServerPorts
  <2> QED BY <1>2, <2>1 DEF Depicts
<1> QED BY <1>3, <1>4, <1>5, <1>6

LEMMA ServersLinked ==
  ASSUME TypeOK, IndexType', Indexed, Sole, Linked, ServerNext
  PROVE  Indexed' /\ Linked'
<1>1. IndexType /\ DOMAIN servers' \subseteq ServerKeys BY DEF TypeOK, IndexType, IsPMap
<1>2. /\ UNCHANGED podObjs
      /\ Todo("pods")' = Todo("pods") /\ Prior("pods")' = Prior("pods")
  BY OtherUnchanged
<1>3. Prior("pods") = {}
  BY IdleDone
     DEF ServerNext, ServerApplied, ServerDeleted, ServersRestarted, ServerListed, ServerDefunct,
         Prior
<1>4. PodsSole BY <1>1, <1>3, SolePods
<1>5. ASSUME NEW s \in ServerKeys, NEW obj, IndexServer(s, obj) \/ RmServer(s)
      PROVE  Indexed' /\ Linked'
  <2>1. Linked' BY <1>1, <1>4, <1>5, IndexServerLinked, RmServerLinked
  <2>2. /\ DOMAIN pods' = DOMAIN pods
        /\ \A k \in DOMAIN pods' \cap DOMAIN podObjs' : Depicts(pods'[k], podObjs'[k])
    BY <1>1, <1>2, <1>5, ServerDepicts
  <2> QED BY <1>2, <2>1, <2>2 DEF Indexed
<1>6. CASE UNCHANGED <<pods, servers>> BY <1>2, <1>6 DEF Indexed, Linked
<1> QED BY <1>5, <1>6 DEF ServerNext, ServerApplied, ServerDeleted, ServersRestarted, ServerListed,
                          ServerDefunct, index

(* The events of authorizations, which no link depends on, or no step.      *)
LEMMA AuthzsLinked ==
  ASSUME TypeOK, Indexed, Linked, AuthzNext \/ UNCHANGED vars
  PROVE  Indexed' /\ Linked'
<1>1. /\ UNCHANGED podObjs
      /\ Todo("pods")' = Todo("pods") /\ Prior("pods")' = Prior("pods")
  BY OtherUnchanged
<1>2. UNCHANGED pods
  BY DEF AuthzNext, AuthzApplied, AuthzDeleted, AuthzsRestarted, AuthzListed, AuthzDefunct, vars,
         index
<1>3. /\ DOMAIN servers' = DOMAIN servers
      /\ \A s \in DOMAIN servers :
           servers'[s].selector = servers[s].selector /\ servers'[s].port = servers[s].port
  <2>1. IndexType BY DEF TypeOK, IndexType
  <2>2. CASE UNCHANGED servers BY <2>2
  <2>3. ASSUME NEW a, NEW obj, ApplyAuthz(a, obj) \/ DeleteAuthz(a)
        PROVE  /\ DOMAIN servers' = DOMAIN servers
               /\ \A s \in DOMAIN servers :
                    servers'[s].selector = servers[s].selector /\ servers'[s].port = servers[s].port
    BY <2>1, <2>3, AuthzFields DEF SameFields, IsCurrent
  <2> QED BY <2>2, <2>3 DEF AuthzNext, AuthzApplied, AuthzDeleted, AuthzsRestarted, AuthzListed,
                            AuthzDefunct, vars, index
<1>4. \A ns, labels, ports, p :
        MatchingServers(servers', ns, labels, ports, p)
          = MatchingServers(servers, ns, labels, ports, p)
  BY <1>3, MatchesSame
<1> QED BY <1>1, <1>2, <1>4 DEF Indexed, Linked, PodLinked, PortLinked

(* What the environment promises of one state it keeps.                     *)
LEMMA StepPermitted ==
  ASSUME Permitted, [Next]_vars
  PROVE  Permitted'
<1>1. CASE UNCHANGED <<podObjs, serverObjs>> BY <1>1 DEF Permitted
<1>2. CASE Permitted' BY <1>2
<1>3. ASSUME DOMAIN podObjs' \subseteq DOMAIN podObjs, UNCHANGED serverObjs,
             \A k \in DOMAIN podObjs' : podObjs'[k] = podObjs[k]
      PROVE  Permitted'
  BY <1>3 DEF Permitted
<1>4. ASSUME NEW s, serverObjs' = Drop(serverObjs, s), UNCHANGED podObjs PROVE Permitted'
  <2>1. /\ DOMAIN serverObjs' \subseteq DOMAIN serverObjs
        /\ \A t \in DOMAIN serverObjs' : serverObjs'[t] = serverObjs[t]
    BY <1>4 DEF Drop, Restrict
  <2>2. \A ns, labels, ports, p :
          MatchingServers(serverObjs', ns, labels, ports, p)
            \subseteq MatchingServers(serverObjs, ns, labels, ports, p)
    BY <2>1 DEF MatchingServers, IterMatching
  <2> QED BY <1>4, <2>2 DEF Permitted
<1>5. CASE NodeNext
  BY <1>1, <1>5 DEF NodeNext, NodeApplied, NodeDeleted, NodesRestarted, NodeListed, NodeDefunct, objs
<1>6. CASE PodNext
  <2>1. ASSUME NEW k, PodDeleted(k) PROVE Permitted'
    BY <1>3, <2>1 DEF PodDeleted, Drop, Restrict
  <2> QED BY <1>1, <1>2, <1>6, <2>1 DEF PodNext, PodApplied, PodsRestarted, PodListed, PodDefunct, objs
<1>7. CASE ServerNext
  BY <1>1, <1>2, <1>4, <1>7
     DEF ServerNext, ServerApplied, ServerDeleted, ServersRestarted, ServerListed, ServerDefunct, objs
<1>8. CASE AuthzNext
  BY <1>1, <1>8
     DEF AuthzNext, AuthzApplied, AuthzDeleted, AuthzsRestarted, AuthzListed, AuthzDefunct, objs
<1>9. CASE UNCHANGED vars BY <1>1, <1>9 DEF vars, objs
<1> QED BY <1>5, <1>6, <1>7, <1>8, <1>9 DEF Next

(* It says that no port is matched by two of the Servers delivered.         *)
LEMMA PermittedSole ==
  ASSUME ConflictFree, Permitted', NEW k \in DOMAIN podObjs', NEW p,
         NEW s \in MatchesOf(serverObjs', k, podObjs'[k], p),
         NEW t \in MatchesOf(serverObjs', k, podObjs'[k], p)
  PROVE  s = t
<1> DEFINE ports == ExtractPorts(podObjs'[k].ports, DefaultRx(ClusterDefault))
           matching(i) == MatchingServers(serverObjs', k[1], podObjs'[k].labels, ports, i)
<1>1. \A i \in DOMAIN ports : \A a, b \in matching(i) : a = b BY DEF Permitted
<1>2. s \in matching(p) /\ t \in matching(p) BY DEF MatchesOf
<1>3. p \in DOMAIN ports
  <2>1. p \in CollectPort(ports, serverObjs'[s].port) BY <1>2, MatchingServersAre
  <2> HIDE DEF ports
  <2> QED BY <2>1 DEF CollectPort
<1> HIDE DEF ports, matching
<1> QED BY <1>1, <1>2, <1>3

(* Between events, and in every reset but one of Servers, those are the     *)
(* Servers in the index.                                                    *)
LEMMA SoleBetween ==
  ASSUME ConflictFree, Permitted', ServersInv', Todo("servers")' = {}, Prior("servers")' = {}
  PROVE  Sole'
<1>1. /\ DOMAIN servers' = DOMAIN serverObjs'
      /\ \A s \in DOMAIN serverObjs' :
           /\ servers'[s].selector = serverObjs'[s].selector
           /\ servers'[s].port = serverObjs'[s].port
  BY DEF ServersInv, IsCurrent
<1>2. \A k, obj, p : MatchesOf(servers', k, obj, p) = MatchesOf(serverObjs', k, obj, p)
  BY <1>1, MatchesSame DEF MatchesOf
<1> QED BY <1>2, PermittedSole DEF Sole

(* A list of Servers, while it is applied, brings no other match than those *)
(* of the Servers before and after it.                                      *)
LEMMA ListedSole ==
  ASSUME ServersInv, Sole, UNCHANGED <<podObjs, serverObjs>>, NEW s,
         \/ s \in Todo("servers") /\ IndexServer(s, task.todo[s])
         \/ RmServer(s)
  PROVE  Sole'
<1> SUFFICES ASSUME NEW k \in DOMAIN podObjs, NEW p,
                    NEW t \in MatchesOf(servers', k, podObjs[k], p)
             PROVE  \/ t \in MatchesOf(servers, k, podObjs[k], p)
                    \/ t \in MatchesOf(serverObjs, k, podObjs[k], p)
  BY DEF Sole
<1>1. CASE t # s
  <2>1. DifferAt(s, servers, servers')
    BY DEF IndexServer, ApplyServer, Put, RmServer, Drop, Restrict, DifferAt
  <2> QED BY <1>1, <2>1, MatchesBut DEF MatchesOf
<1>2. CASE t = s /\ s \in Todo("servers") /\ IndexServer(s, task.todo[s])
  <2>1. s \in DOMAIN serverObjs /\ IsCurrent(servers'[s], serverObjs[s])
    BY <1>2, IndexServerFields DEF ServersInv
  <2> QED BY <1>2, <2>1, MatchingServersAre DEF MatchesOf, IsCurrent
<1>3. CASE t = s /\ RmServer(s)
  <2>1. s \notin DOMAIN servers' BY <1>3 DEF RmServer, Drop, Restrict
  <2> QED BY <1>3, <2>1, MatchingServersAre DEF MatchesOf
<1> QED BY <1>1, <1>2, <1>3

LEMMA StepSole ==
  ASSUME ConflictFree, ServersInv, ServersInv', Permitted', Sole, [Next]_vars,
         [HandsOverNoPort]_vars
  PROVE  Sole'
<1>1. CASE Todo("servers")' = {} /\ Prior("servers")' = {} BY <1>1, SoleBetween
<1>2. ASSUME Idle, UNCHANGED task PROVE Sole'
  BY <1>1, <1>2, IdleDone DEF Todo, Prior
<1>3. ASSUME NEW op \in {"nodes", "pods", "authzs"}, NEW todo, NEW prior,
             task' = Resume(op, todo, prior)
      PROVE  Sole'
  BY <1>1, <1>3, Resumed
<1>4. CASE NodeNext
  BY <1>2, <1>3, <1>4
     DEF NodeNext, NodeApplied, NodeDeleted, NodesRestarted, NodeListed, NodeDefunct
<1>5. CASE PodNext
  BY <1>2, <1>3, <1>5 DEF PodNext, PodApplied, PodDeleted, PodsRestarted, PodListed, PodDefunct
<1>6. CASE AuthzNext
  BY <1>2, <1>3, <1>6
     DEF AuthzNext, AuthzApplied, AuthzDeleted, AuthzsRestarted, AuthzListed, AuthzDefunct
<1>7. CASE ServerNext
  <2>1. ASSUME NEW s, ServerApplied(s) \/ ServerDeleted(s) PROVE Sole'
    BY <1>2, <2>1 DEF ServerApplied, ServerDeleted
  <2>2. ASSUME NEW s, ServerListed(s) \/ ServerDefunct(s) PROVE Sole'
    BY <2>2, ListedSole DEF ServerListed, ServerDefunct, ListedKeys, Todo, objs
  <2>3. CASE ServersRestarted
    <3>1. UNCHANGED <<servers, podObjs>> BY <2>3 DEF ServersRestarted, index
    <3>2. /\ DOMAIN servers = DOMAIN serverObjs
          /\ \A s \in DOMAIN serverObjs :
               servers[s].selector = serverObjs[s].selector /\ servers[s].port = serverObjs[s].port
      <4>1. Todo("servers") = {} /\ Prior("servers") = {}
        BY <2>3, IdleDone DEF ServersRestarted
      <4> QED BY <4>1 DEF ServersInv, IsCurrent
    <3>3. \A k, obj, p : MatchesOf(servers, k, obj, p) = MatchesOf(serverObjs, k, obj, p)
      BY <3>2, MatchesSame DEF MatchesOf
    <3>4. HandsOverNoPort \/ UNCHANGED vars OBVIOUS
    <3>5. CASE UNCHANGED vars BY <3>5 DEF Sole, vars, index, objs
    <3>6. CASE HandsOverNoPort
      <4>1. \A k \in DOMAIN podObjs : \A p \in PortNumbers :
              \A s \in MatchesOf(servers, k, podObjs[k], p),
                 t \in MatchesOf(serverObjs', k, podObjs[k], p) : s = t
        BY <2>3, <3>3, <3>6 DEF HandsOverNoPort
      <4>2. \A k \in DOMAIN podObjs : \A p :
              \A s, t \in MatchesOf(serverObjs', k, podObjs[k], p) : s = t
        BY <3>1, PermittedSole
      <4> QED BY <3>1, <4>1, <4>2 DEF Sole
    <3> QED BY <3>4, <3>5, <3>6
  <2> QED BY <1>7, <2>1, <2>2, <2>3 DEF ServerNext
<1>8. CASE UNCHANGED vars BY <1>8 DEF Sole, vars, index, objs
<1> QED BY <1>4, <1>5, <1>6, <1>7, <1>8 DEF Next

(* Any step, where no pod is relabelled or replaced unseen and no list of   *)
(* Servers hands a port over.                                               *)
LEMMA StepLinked ==
  ASSUME ConflictFree, TypeOK, TypeOK', Waits, Sources, ServersInv, ServersInv', LinkInv,
         [Next]_vars, [KeepsPods /\ HandsOverNoPort]_vars
  PROVE  LinkInv'
<1>1. Permitted' BY StepPermitted DEF LinkInv
<1>2. Sole' BY <1>1, StepSole DEF LinkInv
<1>3. IndexType' /\ ObjsType' BY DEF TypeOK, IndexType, ObjsType
<1>4. KeepsPods \/ UNCHANGED vars OBVIOUS
<1>5. Indexed' /\ Linked'
  BY <1>3, <1>4, NodeLinked, PodsLinked, ServersLinked, AuthzsLinked DEF LinkInv, Next
<1> QED BY <1>1, <1>2, <1>5 DEF LinkInv

(* A port that exactly one Server matches is linked to it, whatever order   *)
(* pods and Servers come, change and go in (pod.rs:188-223, 273-349,        *)
(* server.rs:224-270), but for the two things the code does not do: relink  *)
(* a linked port of a pod that is relabelled (run relabel) or replaced, and *)
(* of a pod whose Server a list replaces by another.                        *)
THEOREM SoleMatchLinkedHolds ==
  ConflictFree =>
    (Spec /\ [][KeepsPods /\ HandsOverNoPort]_vars => []SoleMatchLinked)
<1>1. SUFFICES ASSUME ConflictFree
               PROVE  Spec /\ [][KeepsPods /\ HandsOverNoPort]_vars => []SoleMatchLinked
  OBVIOUS
<1>2. Init => ServersInv /\ LinkInv
  BY DEF Init, EmptyMap, NoTask, ServersInv, LinkInv, Indexed, Permitted, Sole, Linked, Todo, Prior
<1>3. TypeOK /\ ServersInv /\ [Next]_vars => ServersInv'
  BY StepServers
<1>4. /\ TypeOK /\ TypeOK' /\ Waits /\ Sources /\ ServersInv /\ ServersInv' /\ LinkInv
      /\ [Next]_vars /\ [KeepsPods /\ HandsOverNoPort]_vars
      => LinkInv'
  BY <1>1, StepLinked
<1>5. LinkInv => SoleMatchLinked BY LinkedSole DEF LinkInv
<1> QED BY <1>2, <1>3, <1>4, <1>5, TypeCorrect, WaitsInvariant, PTL DEF Spec

----------------------------------------------------------------------------
(* Authorizations.                                                          *)

(* The authorizations in the index, but for what a reset has yet to do.     *)
AuthzsInv ==
  /\ DOMAIN authzs \subseteq DOMAIN authzObjs \cup Prior("authzs")
  /\ DOMAIN authzObjs \cap Prior("authzs") \subseteq Todo("authzs")
  /\ \A a \in Todo("authzs") : a \in DOMAIN authzObjs /\ task.todo[a] = authzObjs[a]
  /\ \A a \in DOMAIN authzObjs :
       a \notin Todo("authzs") /\ ValidAuthz(authzObjs[a]) =>
         a \in DOMAIN authzs /\ authzs[a] = MkAuthz(authzObjs[a])

LEMMA AuthzsInvIdle == AuthzsInv => AuthzsCurrent
BY IdleDone DEF AuthzsInv, AuthzsCurrent

(* apply_authz: only the authorization itself changes.                      *)
LEMMA ApplyAuthzIndexed ==
  ASSUME NEW a, NEW obj, ApplyAuthz(a, obj)
  PROVE  /\ DOMAIN authzs' \subseteq DOMAIN authzs \cup {a}
         /\ \A b \in DOMAIN authzs \ {a} : b \in DOMAIN authzs' /\ authzs'[b] = authzs[b]
         /\ ValidAuthz(obj) => a \in DOMAIN authzs' /\ authzs'[a] = MkAuthz(obj)
BY DEF ApplyAuthz, Put

(* delete_authz                                                             *)
LEMMA DeleteAuthzIndexed ==
  ASSUME NEW a, DeleteAuthz(a)
  PROVE  /\ DOMAIN authzs' = DOMAIN authzs \ {a}
         /\ \A b \in DOMAIN authzs' : authzs'[b] = authzs[b]
BY DEF DeleteAuthz, Drop, Restrict

(* The events of authorizations.                                            *)
LEMMA AuthzCurrent ==
  ASSUME AuthzsInv, AuthzNext
  PROVE  AuthzsInv'
<1>1. ASSUME NEW a \in AuthzKeys, AuthzApplied(a) PROVE AuthzsInv'
  <2>1. PICK obj \in AuthzObjs[a] : authzObjs' = Put(authzObjs, a, obj) /\ ApplyAuthz(a, obj)
    BY <1>1 DEF AuthzApplied
  <2>2. /\ DOMAIN authzObjs' = DOMAIN authzObjs \cup {a} /\ authzObjs'[a] = obj
        /\ \A b \in DOMAIN authzObjs \ {a} : authzObjs'[b] = authzObjs[b]
    BY <2>1 DEF Put
  <2>3. /\ Todo("authzs") = {} /\ Prior("authzs") = {}
        /\ Todo("authzs")' = {} /\ Prior("authzs")' = {}
    BY <1>1, IdleDone DEF AuthzApplied, Todo, Prior
  <2> QED BY <2>1, <2>2, <2>3, ApplyAuthzIndexed DEF AuthzsInv
<1>2. ASSUME NEW a \in AuthzKeys, AuthzDeleted(a) PROVE AuthzsInv'
  <2>1. /\ DOMAIN authzObjs' = DOMAIN authzObjs \ {a}
        /\ \A b \in DOMAIN authzObjs' : authzObjs'[b] = authzObjs[b]
    BY <1>2 DEF AuthzDeleted, Drop, Restrict
  <2>2. /\ Todo("authzs") = {} /\ Prior("authzs") = {}
        /\ Todo("authzs")' = {} /\ Prior("authzs")' = {}
    BY <1>2, IdleDone DEF AuthzDeleted, Todo, Prior
  <2> QED BY <1>2, <2>1, <2>2, DeleteAuthzIndexed DEF AuthzsInv, AuthzDeleted
<1>3. ASSUME NEW a \in AuthzKeys, AuthzListed(a) PROVE AuthzsInv'
  <2>1. /\ task.op = "authzs" /\ a \in Todo("authzs") /\ UNCHANGED authzObjs
        /\ task' = Resume("authzs", Drop(task.todo, a), task.prior \ {a})
        /\ ApplyAuthz(a, task.todo[a])
    BY <1>3 DEF AuthzListed, ListedKeys, Todo, objs
  <2>2. task.todo[a] = authzObjs[a] /\ a \in DOMAIN authzObjs BY <2>1 DEF AuthzsInv
  <2>3. /\ Todo("authzs")' = Todo("authzs") \ {a}
        /\ Prior("authzs")' = Prior("authzs") \ {a}
        /\ \A b \in Todo("authzs")' : task'.todo[b] = task.todo[b]
    BY <2>1, Resumed DEF Todo, Prior, Drop, Restrict
  <2>4. /\ DOMAIN authzs' \subseteq DOMAIN authzs \cup {a}
        /\ \A b \in DOMAIN authzs \ {a} : b \in DOMAIN authzs' /\ authzs'[b] = authzs[b]
        /\ ValidAuthz(authzObjs[a]) => a \in DOMAIN authzs' /\ authzs'[a] = MkAuthz(authzObjs[a])
    BY <2>1, <2>2, ApplyAuthzIndexed
  <2> QED BY <2>1, <2>2, <2>3, <2>4 DEF AuthzsInv
<1>4. ASSUME NEW a \in AuthzKeys, AuthzDefunct(a) PROVE AuthzsInv'
  <2>1. /\ task.op = "authzs" /\ a \in Prior("authzs") /\ Todo("authzs") = {}
        /\ UNCHANGED authzObjs /\ DeleteAuthz(a)
        /\ task' = Resume("authzs", task.todo, task.prior \ {a})
    BY <1>4 DEF AuthzDefunct, DefunctKeys, ListedKeys, Todo, Prior, objs
  <2>2. Todo("authzs")' = {} /\ Prior("authzs")' = Prior("authzs") \ {a}
    BY <2>1, Resumed DEF Todo, Prior
  <2> QED BY <2>1, <2>2, DeleteAuthzIndexed DEF AuthzsInv
<1>5. ASSUME AuthzsRestarted PROVE AuthzsInv'
  <2>1. task' = Resume("authzs", authzObjs', DOMAIN authzs) /\ UNCHANGED authzs
    BY <1>5 DEF AuthzsRestarted, index
  <2>2. /\ Todo("authzs")' = DOMAIN authzObjs' /\ Prior("authzs")' = DOMAIN authzs
        /\ \A a \in DOMAIN authzObjs' : task'.todo[a] = authzObjs'[a]
    BY <2>1, Resumed
  <2> QED BY <2>1, <2>2 DEF AuthzsInv
<1> QED BY <1>1, <1>2, <1>3, <1>4, <1>5 DEF AuthzNext

(* Any step.                                                                *)
LEMMA StepAuthzs ==
  ASSUME AuthzsInv, [Next]_vars
  PROVE  AuthzsInv'
<1>1. ASSUME UNCHANGED <<authzs, authzObjs>>,
             UNCHANGED task \/ (\E op \in {"nodes", "pods", "servers"} : \E todo, prior :
                                  (Idle \/ task.op = op) /\ task' = Resume(op, todo, prior))
      PROVE  AuthzsInv'
  <2>1. CASE UNCHANGED task BY <1>1, <2>1 DEF AuthzsInv, Todo, Prior
  <2>2. CASE ~UNCHANGED task
    <3>1. /\ Todo("authzs") = {} /\ Prior("authzs") = {}
          /\ Todo("authzs")' = {} /\ Prior("authzs")' = {}
      BY <1>1, <2>2, Resumed, IdleDone DEF Todo, Prior
    <3> QED BY <1>1, <3>1 DEF AuthzsInv
  <2> QED BY <2>1, <2>2
<1>2. CASE NodeNext
  BY <1>1, <1>2 DEF NodeNext, NodeApplied, NodeDeleted, NodesRestarted, NodeListed,
                    NodeDefunct, index, objs
<1>3. CASE PodNext
  BY <1>1, <1>3 DEF PodNext, PodApplied, PodDeleted, PodsRestarted, PodListed, PodDefunct, objs
<1>4. CASE ServerNext
  BY <1>1, <1>4 DEF ServerNext, ServerApplied, ServerDeleted, ServersRestarted, ServerListed,
                    ServerDefunct, index, objs
<1>5. CASE AuthzNext BY <1>5, AuthzCurrent
<1>6. CASE UNCHANGED vars BY <1>1, <1>6 DEF vars, index, objs
<1> QED BY <1>2, <1>3, <1>4, <1>5, <1>6 DEF Next

(* An authorization leaves the index only when its object is gone.          *)
KeepsAuthz ==
  \A a \in DOMAIN authzs \cap DOMAIN authzObjs' :
    /\ a \in DOMAIN authzs'
    /\ authzs'[a] # authzs[a] =>
         ValidAuthz(authzObjs'[a]) /\ authzs'[a] = MkAuthz(authzObjs'[a])

LEMMA StepKeepsAuthz ==
  ASSUME AuthzsInv, [Next]_vars
  PROVE  [KeepsAuthz]_vars
<1>1. CASE UNCHANGED authzs BY <1>1 DEF KeepsAuthz
<1>2. ASSUME NEW a, NEW obj, ApplyAuthz(a, obj), a \in DOMAIN authzObjs' => authzObjs'[a] = obj
      PROVE  KeepsAuthz
  BY <1>2 DEF ApplyAuthz, Put, KeepsAuthz
<1>3. ASSUME NEW a, DeleteAuthz(a), a \notin DOMAIN authzObjs' PROVE KeepsAuthz
  BY <1>3, DeleteAuthzIndexed DEF KeepsAuthz
<1>4. ASSUME NEW a \in AuthzKeys, AuthzApplied(a) PROVE KeepsAuthz
  BY <1>2, <1>4 DEF AuthzApplied, Put
<1>5. ASSUME NEW a \in AuthzKeys, AuthzDeleted(a) PROVE KeepsAuthz
  BY <1>3, <1>5 DEF AuthzDeleted, Drop, Restrict
<1>6. ASSUME NEW a \in AuthzKeys, AuthzListed(a) PROVE KeepsAuthz
  <2>1. a \in Todo("authzs") /\ UNCHANGED authzObjs /\ ApplyAuthz(a, task.todo[a])
    BY <1>6 DEF AuthzListed, ListedKeys, Todo, objs
  <2> QED BY <1>2, <2>1 DEF AuthzsInv
<1>7. ASSUME NEW a \in AuthzKeys, AuthzDefunct(a) PROVE KeepsAuthz
  <2>1. /\ a \in Prior("authzs") /\ Todo("authzs") = {} /\ UNCHANGED authzObjs /\ DeleteAuthz(a)
    BY <1>7 DEF AuthzDefunct, DefunctKeys, ListedKeys, Todo, Prior, objs
  <2> QED BY <1>3, <2>1 DEF AuthzsInv
<1>8. CASE AuthzNext
  BY <1>1, <1>4, <1>5, <1>6, <1>7, <1>8 DEF AuthzNext, AuthzsRestarted, index
<1>9. CASE NodeNext
  BY <1>1, <1>9 DEF NodeNext, NodeApplied, NodeDeleted, NodesRestarted, NodeListed,
                    NodeDefunct, index
<1>10. CASE PodNext
  BY <1>1, <1>10 DEF PodNext, PodApplied, PodDeleted, PodsRestarted, PodListed, PodDefunct
<1>11. CASE ServerNext
  BY <1>1, <1>11 DEF ServerNext, ServerApplied, ServerDeleted, ServersRestarted, ServerListed,
                     ServerDefunct, index
<1>12. CASE UNCHANGED vars BY <1>1, <1>12 DEF vars, index
<1> QED BY <1>8, <1>9, <1>10, <1>11, <1>12 DEF Next

(* A reset takes for gone the authorizations it was not listed, not those   *)
(* it could not apply: these stay in force as they were (authz.rs:36,       *)
(* 141-157).                                                                *)
THEOREM AuthzsKeptHolds == Spec => AuthzsKept
<1>1. Init => AuthzsInv
  BY DEF Init, EmptyMap, NoTask, AuthzsInv, Todo, Prior
<1>2. AuthzsInv /\ [Next]_vars => AuthzsInv' /\ [KeepsAuthz]_vars
  BY StepAuthzs, StepKeepsAuthz
<1>3. Spec => [][KeepsAuthz]_vars
  BY <1>1, <1>2, PTL DEF Spec
<1> QED BY <1>3 DEF AuthzsKept, KeepsAuthz

(* Between events, what is authorized is what the valid authorizations that *)
(* exist say, or said when they last were valid (authz.rs:28-85).           *)
THEOREM AuthzsCurrentHolds == Spec => []AuthzsCurrent
<1>1. Init => AuthzsInv
  BY DEF Init, EmptyMap, NoTask, AuthzsInv, Todo, Prior
<1> QED BY <1>1, StepAuthzs, AuthzsInvIdle, PTL DEF Spec
=============================================================================
