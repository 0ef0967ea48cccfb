------------------------- MODULE PolicyIndexProofs -------------------------
(***************************************************************************)
(* Type correctness of the indexing task, and two of its invariants, for    *)
(* every cluster: LinksConsistent and LookupsMatchIndex.  There is a lemma  *)
(* per handler, which says what the handler does to the types and to the    *)
(* two invariants; an event and a step of a reset call the same handlers.   *)
(* At the end, what a step does to the links of pods (FirstLinkWins) and to *)
(* the channels that streams read (PortSends).                              *)
(***************************************************************************)
EXTENDS PolicyIndex, IndexLemmas

(* The part of TypeOK that is about the index.                              *)
IndexType ==
  /\ IsPMap(nodes, NodeNames, State)
  /\ IsPMap(pods, PodKeys, Pod)
  /\ IsPMap(servers, ServerKeys, Server)
  /\ IsPMap(authzs, AuthzKeys, Authz)
  /\ IsPMap(lookups, PodKeys, Lookup)

(* What each handler keeps.                                                 *)
Kept ==
  /\ IndexType'
  /\ LinksConsistent => LinksConsistent'
  /\ LookupsMatchIndex => LookupsMatchIndex'

----------------------------------------------------------------------------
(* Handlers of pods.                                                        *)

(* PodIndex::apply, for pods whose node is known.                           *)
LEMMA IndexPodsFacts ==
  ASSUME IndexType, NEW new, IsPMap(new, PodKeys, PodObj), NEW ips \in KubeletIps,
         NEW pick \in Picks, IndexPods(new, ips, pick), servers' = servers
  PROVE  /\ IsPMap(pods, PodKeys, Pod)'
         /\ IsPMap(lookups, PodKeys, Lookup)'
         /\ LinksConsistent => LinksConsistent'
         /\ LookupsMatchIndex => LookupsMatchIndex'
<1>1. DOMAIN servers \subseteq ServerKeys BY DEF IndexType, IsPMap
<1>2. DOMAIN pods' = DOMAIN pods \cup DOMAIN new BY DEF IndexPods
<1>3. DOMAIN lookups' = DOMAIN lookups \cup (DOMAIN new \ DOMAIN pods) BY DEF IndexPods
<1>4. ASSUME NEW k \in DOMAIN pods'
      PROVE  /\ k \in PodKeys
             /\ pods'[k] \in Pod
             /\ k \in DOMAIN pods => DOMAIN pods'[k].ports = DOMAIN pods[k].ports
             /\ LinksConsistent => PodConsistent(k, pods'[k], servers)
  <2>1. k \in PodKeys BY <1>2 DEF IndexType, IsPMap
  <2>2. CASE k \notin DOMAIN new
    BY <1>2, <2>1, <2>2 DEF IndexPods, IndexType, IsPMap, LinksConsistent
  <2>3. CASE k \in DOMAIN new /\ k \in DOMAIN pods
    <3>1. pods'[k] = UpdatePod(k, pods[k], new[k], servers, pick)
      BY <1>2, <2>3 DEF IndexPods
    <3>2. pods[k] \in Pod /\ new[k] \in PodObj BY <2>3 DEF IndexType, IsPMap
    <3> QED BY <1>1, <2>1, <2>3, <3>1, <3>2, UpdatePodFacts DEF LinksConsistent
  <2>4. CASE k \in DOMAIN new /\ k \notin DOMAIN pods
    <3>1. pods'[k] = NewPod(k, new[k], servers, pick)
      BY <1>2, <2>4 DEF IndexPods
    <3>2. new[k] \in PodObj BY <2>4 DEF IsPMap
    <3> QED BY <1>1, <2>1, <2>4, <3>1, <3>2, NewPodFacts
  <2> QED BY <2>2, <2>3, <2>4
<1>5. IsPMap(pods, PodKeys, Pod)'
  <2>1. pods' \in [DOMAIN pods' -> Pod] BY <1>4 DEF IndexPods
  <2> QED BY <1>4, <2>1 DEF IsPMap
<1>6. ASSUME NEW k \in DOMAIN lookups'
      PROVE  /\ k \in PodKeys
             /\ lookups'[k] \in Lookup
             /\ k \in DOMAIN new \ DOMAIN pods => lookups'[k].ports = DOMAIN pods'[k].ports
             /\ k \notin DOMAIN new \ DOMAIN pods => lookups'[k] = lookups[k]
  <2>1. CASE k \in DOMAIN new \ DOMAIN pods
    <3>1. lookups'[k] = [kubelet |-> ips, ports |-> DOMAIN pods'[k].ports]
      BY <1>3, <2>1 DEF IndexPods
    <3>2. pods'[k] \in Pod BY <1>2, <1>4, <2>1
    <3>3. DOMAIN pods'[k].ports \subseteq PortNumbers BY <3>2, PMapIs DEF Pod, IsPMap
    <3> QED BY <1>2, <1>4, <2>1, <3>1, <3>3 DEF Lookup
  <2>2. CASE k \notin DOMAIN new \ DOMAIN pods
    BY <1>3, <2>2 DEF IndexPods, IndexType, IsPMap
  <2> QED BY <2>1, <2>2
<1>7. IsPMap(lookups, PodKeys, Lookup)'
  <2>1. lookups' \in [DOMAIN lookups' -> Lookup] BY <1>6 DEF IndexPods
  <2> QED BY <1>6, <2>1 DEF IsPMap
<1>8. LinksConsistent => LinksConsistent'
  BY <1>4 DEF LinksConsistent
<1>9. LookupsMatchIndex => LookupsMatchIndex'
  BY <1>2, <1>3, <1>4, <1>6 DEF LookupsMatchIndex
<1> QED BY <1>5, <1>7, <1>8, <1>9

(* get_or_push_pending, for a pod whose node is not known.                  *)
LEMMA PushPendingType ==
  ASSUME IsPMap(nodes, NodeNames, State), NEW k \in PodKeys, NEW obj \in PodObj,
         obj.node \in NodeNames \ KnownNodes(nodes)
  PROVE  IsPMap(PushPending(nodes, k, obj), NodeNames, State)
<1> DEFINE n == obj.node
           waiting == IF n \in DOMAIN nodes THEN nodes[n].pods ELSE EmptyMap
<1>1. IsPMap(waiting, PodKeys, PodObj)
  <2>1. CASE n \in DOMAIN nodes
    <3>1. nodes[n] \in State /\ nodes[n].state # "known" BY <2>1 DEF IsPMap, KnownNodes
    <3> QED BY <2>1, <3>1, PMapIs DEF State
  <2>2. CASE n \notin DOMAIN nodes
    BY <2>2, EmptyMapType
  <2> QED BY <2>1, <2>2
<1>2. Pending(Put(waiting, k, obj)) \in State
  BY <1>1, PutFacts, PMapIs DEF Pending, State
<1> QED BY <1>2, PutFacts DEF PushPending

(* apply_pod                                                                *)
LEMMA ApplyPodFacts ==
  ASSUME IndexType, NEW k \in PodKeys, NEW obj \in PodObj, ApplyPod(k, obj),
         servers' = servers, authzs' = authzs
  PROVE  Kept
<1>1. CASE /\ k \in DOMAIN pods
           /\ \E pick \in Picks :
                pods' = [pods EXCEPT ![k] = UpdatePod(k, pods[k], obj, servers, pick)]
           /\ UNCHANGED <<nodes, lookups>>
  <2>1. PICK pick \in Picks :
          pods' = [pods EXCEPT ![k] = UpdatePod(k, pods[k], obj, servers, pick)]
    BY <1>1
  <2> DEFINE new == UpdatePod(k, pods[k], obj, servers, pick)
  <2>2. pods[k] \in Pod /\ DOMAIN servers \subseteq ServerKeys
    BY <1>1 DEF IndexType, IsPMap
  <2>3. /\ new \in Pod
        /\ DOMAIN new.ports = DOMAIN pods[k].ports
        /\ PodConsistent(k, pods[k], servers) => PodConsistent(k, new, servers)
    BY <2>2, UpdatePodFacts
  <2>4. /\ DOMAIN pods' = DOMAIN pods
        /\ pods'[k] = new
        /\ \A i \in DOMAIN pods \ {k} : pods'[i] = pods[i]
        /\ IsPMap(pods, PodKeys, Pod)'
    <3> HIDE DEF new
    <3> QED BY <1>1, <2>1, <2>3 DEF IndexType, IsPMap, new
  <2> HIDE DEF new
  <2>5. LinksConsistent => LinksConsistent' BY <1>1, <2>3, <2>4 DEF LinksConsistent
  <2>6. LookupsMatchIndex => LookupsMatchIndex'
    BY <1>1, <2>3, <2>4 DEF LookupsMatchIndex
  <2> QED BY <1>1, <2>4, <2>5, <2>6 DEF Kept, IndexType
<1>2. CASE /\ k \notin DOMAIN pods
           /\ obj.node \in KnownNodes(nodes)
           /\ \E pick \in Picks :
                IndexPods([i \in {k} |-> obj], nodes[obj.node].ips, pick)
           /\ UNCHANGED nodes
  <2>1. IsPMap([i \in {k} |-> obj], PodKeys, PodObj) BY DEF IsPMap
  <2>2. nodes[obj.node].ips \in KubeletIps
    BY <1>2 DEF IndexType, IsPMap, KnownNodes, State
  <2>3. PICK pick \in Picks : IndexPods([i \in {k} |-> obj], nodes[obj.node].ips, pick)
    BY <1>2
  <2>4. IsPMap(pods, PodKeys, Pod)' /\ IsPMap(lookups, PodKeys, Lookup)'
        /\ (LinksConsistent => LinksConsistent')
        /\ (LookupsMatchIndex => LookupsMatchIndex')
    BY <2>1, <2>2, <2>3, IndexPodsFacts
  <2> QED BY <1>2, <2>4 DEF Kept, IndexType
<1>3. CASE /\ obj.node \in NodeNames \ KnownNodes(nodes)
           /\ nodes' = PushPending(nodes, k, obj)
           /\ UNCHANGED <<pods, lookups>>
  BY <1>3, PushPendingType DEF Kept, IndexType, LinksConsistent, LookupsMatchIndex
<1>4. CASE UNCHANGED <<nodes, pods, lookups>>
  BY <1>4 DEF Kept, IndexType, LinksConsistent, LookupsMatchIndex
<1> QED BY <1>1, <1>2, <1>3, <1>4 DEF ApplyPod

(* rm_pod                                                                   *)
LEMMA RmPodFacts ==
  ASSUME IndexType, NEW k \in PodKeys, RmPod(k), servers' = servers, authzs' = authzs
  PROVE  Kept
<1>1. CASE /\ \E n \in PendingOn(nodes, k) : nodes' = ClearPendingPod(nodes, n, k)
           /\ UNCHANGED <<pods, lookups>>
  <2>1. PICK n \in PendingOn(nodes, k) : nodes' = ClearPendingPod(nodes, n, k) BY <1>1
  <2>2. n \in DOMAIN nodes /\ nodes[n].state # "known"
    BY DEF PendingOn, PendingNodes, KnownNodes
  <2>3. nodes[n] \in State BY <2>2 DEF IndexType, IsPMap
  <2>4. nodes[n] \in [state : {"pending"}, pods : PMap(PodKeys, PodObj)]
    BY <2>2, <2>3 DEF State
  <2>5. Drop(nodes[n].pods, k) \in PMap(PodKeys, PodObj)
    BY <2>4, PMapIs, DropFacts
  <2>6. [nodes[n] EXCEPT !.pods = Drop(nodes[n].pods, k)] \in State
    BY <2>4, <2>5 DEF State
  <2>7. IsPMap(nodes, NodeNames, State)'
    BY <2>1, <2>2, <2>6 DEF ClearPendingPod, IndexType, IsPMap
  <2> QED BY <1>1, <2>7 DEF Kept, IndexType, LinksConsistent, LookupsMatchIndex
<1>2. CASE /\ k \in DOMAIN pods
           /\ pods' = Drop(pods, k)
           /\ lookups' = Drop(lookups, k)
           /\ UNCHANGED nodes
  <2>1. IsPMap(Drop(pods, k), PodKeys, Pod) /\ IsPMap(Drop(lookups, k), PodKeys, Lookup)
    BY DropFacts DEF IndexType
  <2>2. IsPMap(pods, PodKeys, Pod)' /\ IsPMap(lookups, PodKeys, Lookup)'
    BY <1>2, <2>1 DEF IsPMap
  <2>3. /\ DOMAIN pods' = DOMAIN pods \ {k}
        /\ \A i \in DOMAIN pods' : pods'[i] = pods[i]
    BY <1>2 DEF Drop, Restrict
  <2>4. /\ DOMAIN lookups' = DOMAIN lookups \ {k}
        /\ \A i \in DOMAIN lookups' : lookups'[i] = lookups[i]
    BY <1>2 DEF Drop, Restrict
  <2>5. LinksConsistent => LinksConsistent' BY <2>3 DEF LinksConsistent
  <2>6. LookupsMatchIndex => LookupsMatchIndex' BY <2>3, <2>4 DEF LookupsMatchIndex
  <2>7. IndexType' BY <1>2, <2>2 DEF IndexType
  <2> QED BY <2>5, <2>6, <2>7 DEF Kept
<1>3. CASE UNCHANGED <<nodes, pods, lookups>>
  BY <1>3 DEF Kept, IndexType, LinksConsistent, LookupsMatchIndex
<1> QED BY <1>1, <1>2, <1>3 DEF RmPod

----------------------------------------------------------------------------
(* Handlers of nodes.                                                       *)

(* apply_node                                                               *)
LEMMA ApplyNodeFacts ==
  ASSUME IndexType, NEW n \in NodeNames, NEW obj \in NodeObj, ApplyNode(n, obj),
         servers' = servers, authzs' = authzs
  PROVE  Kept
<1>1. CASE UNCHANGED <<nodes, pods, lookups>>
  BY <1>1 DEF Kept, IndexType, LinksConsistent, LookupsMatchIndex
<1>2. ASSUME obj # None
      PROVE  IsPMap(Put(nodes, n, Known(obj)), NodeNames, State)
  <2>1. Known(obj) \in State BY <1>2 DEF Known, State, NodeObj
  <2> QED BY <2>1, PutFacts DEF IndexType
<1>3. CASE /\ obj # None
           /\ nodes' = Put(nodes, n, Known(obj))
           /\ UNCHANGED <<pods, lookups>>
  BY <1>2, <1>3 DEF Kept, IndexType, LinksConsistent, LookupsMatchIndex, IsPMap
<1>4. CASE /\ n \in PendingNodes(nodes)
           /\ obj # None
           /\ nodes' = Put(nodes, n, Known(obj))
           /\ \E pick \in Picks : IndexPods(nodes[n].pods, obj, pick)
  <2>1. IsPMap(nodes[n].pods, PodKeys, PodObj)
    <3>1. nodes[n] \in State /\ nodes[n].state # "known"
      BY <1>4 DEF PendingNodes, KnownNodes, IndexType, IsPMap
    <3> QED BY <3>1, PMapIs DEF State
  <2>2. obj \in KubeletIps BY <1>4 DEF NodeObj
  <2>3. PICK pick \in Picks : IndexPods(nodes[n].pods, obj, pick) BY <1>4
  <2>4. IsPMap(pods, PodKeys, Pod)' /\ IsPMap(lookups, PodKeys, Lookup)'
        /\ (LinksConsistent => LinksConsistent')
        /\ (LookupsMatchIndex => LookupsMatchIndex')
    BY <2>1, <2>2, <2>3, IndexPodsFacts
  <2>5. IsPMap(nodes, NodeNames, State)' BY <1>2, <1>4 DEF IsPMap
  <2> QED BY <2>4, <2>5 DEF Kept, IndexType
<1> QED BY <1>1, <1>3, <1>4 DEF ApplyNode

(* delete_node                                                              *)
LEMMA DeleteNodeFacts ==
  ASSUME IndexType, NEW n, DeleteNode(n), UNCHANGED <<pods, servers, authzs, lookups>>
  PROVE  Kept
<1>1. IsPMap(nodes, NodeNames, State)' BY DropFacts DEF DeleteNode, IndexType, IsPMap
<1> QED BY <1>1 DEF Kept, IndexType, LinksConsistent, LookupsMatchIndex

(* clear_pending_pods                                                       *)
LEMMA ClearPendingPodsType ==
  ASSUME IsPMap(nodes, NodeNames, State)
  PROVE  IsPMap(ClearPendingPods(nodes), NodeNames, State)
BY DEF ClearPendingPods, Restrict, KnownNodes, IsPMap

----------------------------------------------------------------------------
(* Handlers of servers.                                                     *)

(* Index::apply_server                                                      *)
LEMMA IndexServerFacts ==
  ASSUME IndexType, NEW s \in ServerKeys, NEW obj \in ServerObj, IndexServer(s, obj),
         UNCHANGED <<nodes, authzs, lookups>>
  PROVE  Kept
<1>1. servers' = ApplyServer(servers, authzs, s, obj) BY DEF IndexServer
<1>2. IsPMap(ApplyServer(servers, authzs, s, obj), ServerKeys, Server)
  BY ApplyServerType DEF IndexType
<1>3. IsPMap(servers, ServerKeys, Server)' BY <1>1, <1>2 DEF IsPMap
<1>4. DOMAIN servers \subseteq DOMAIN servers' BY <1>1 DEF ApplyServer, Put
<1>5. PICK pick \in Picks : pods' = LinkServers(pods, s[1], servers', pick)
  BY DEF IndexServer
<1>6. DOMAIN servers' \subseteq ServerKeys BY <1>3 DEF IsPMap
<1>7. IsPMap(pods, PodKeys, Pod) BY DEF IndexType
<1>8. /\ IsPMap(LinkServers(pods, s[1], servers', pick), PodKeys, Pod)
      /\ DOMAIN pods' = DOMAIN pods
      /\ \A k \in DOMAIN pods :
           /\ DOMAIN pods'[k].ports = DOMAIN pods[k].ports
           /\ PodConsistent(k, pods[k], servers') => PodConsistent(k, pods'[k], servers')
  BY <1>5, <1>6, <1>7, LinkServersFacts
<1>9. ASSUME LinksConsistent PROVE LinksConsistent'
  <2> SUFFICES ASSUME NEW k \in DOMAIN pods PROVE PodConsistent(k, pods'[k], servers')
    BY <1>8 DEF LinksConsistent
  <2>1. PodConsistent(k, pods[k], servers')
    BY <1>4, <1>9 DEF LinksConsistent, PodConsistent, PortConsistent
  <2> QED BY <1>8, <2>1
<1>10. LookupsMatchIndex => LookupsMatchIndex' BY <1>8 DEF LookupsMatchIndex
<1>11. IsPMap(pods, PodKeys, Pod)' BY <1>5, <1>8 DEF IsPMap
<1> QED BY <1>3, <1>9, <1>10, <1>11 DEF Kept, IndexType

(* rm_server                                                                *)
LEMMA RmServerFacts ==
  ASSUME IndexType, NEW s \in ServerKeys, RmServer(s), UNCHANGED <<nodes, authzs, lookups>>
  PROVE  Kept
<1>1. CASE UNCHANGED <<servers, pods>>
  BY <1>1 DEF Kept, IndexType, LinksConsistent, LookupsMatchIndex
<1>2. CASE /\ servers' = Drop(servers, s)
           /\ pods' = ResetServer(pods, s)
  <2>1. DOMAIN servers \subseteq ServerKeys /\ IsPMap(pods, PodKeys, Pod)
    BY DEF IndexType, IsPMap
  <2>2. /\ IsPMap(ResetServer(pods, s), PodKeys, Pod)
        /\ DOMAIN pods' = DOMAIN pods
        /\ \A k \in DOMAIN pods :
             /\ DOMAIN pods'[k].ports = DOMAIN pods[k].ports
             /\ PodConsistent(k, pods[k], servers) => PodConsistent(k, pods'[k], servers')
    BY <1>2, <2>1, ResetServerFacts
  <2>3. IsPMap(servers, ServerKeys, Server)' BY <1>2, DropFacts DEF IndexType, IsPMap
  <2>4. IsPMap(pods, PodKeys, Pod)' BY <1>2, <2>2 DEF IsPMap
  <2> QED BY <2>2, <2>3, <2>4 DEF Kept, IndexType, LinksConsistent, LookupsMatchIndex
<1> QED BY <1>1, <1>2 DEF RmServer

----------------------------------------------------------------------------
(* Handlers of authorizations: they change no link, since the servers they  *)
(* update stay in the index.                                                *)
LEMMA AuthzKept ==
  ASSUME IndexType, IsPMap(servers, ServerKeys, Server)', IsPMap(authzs, AuthzKeys, Authz)',
         DOMAIN servers' = DOMAIN servers, UNCHANGED <<nodes, pods, lookups>>
  PROVE  Kept
BY DEF Kept, IndexType, LinksConsistent, PodConsistent, PortConsistent, LookupsMatchIndex

(* apply_authz                                                              *)
LEMMA ApplyAuthzFacts ==
  ASSUME IndexType, NEW a \in AuthzKeys, NEW obj \in AuthzObj, ApplyAuthz(a, obj),
         UNCHANGED <<nodes, pods, lookups>>
  PROVE  Kept
<1>1. CASE UNCHANGED <<authzs, servers>>
  BY <1>1, AuthzKept DEF IndexType
<1>2. CASE /\ ValidAuthz(obj)
           /\ authzs' = Put(authzs, a, MkAuthz(obj))
           /\ servers' = AddAuthz(servers, a, MkAuthz(obj))
  <2>1. MkAuthz(obj) \in Authz BY <1>2, MkAuthzType
  <2>2. IsPMap(servers, ServerKeys, Server)'
    BY <1>2, <2>1, AddAuthzType DEF IndexType, IsPMap
  <2>3. IsPMap(authzs, AuthzKeys, Authz)'
    BY <1>2, <2>1, PutFacts DEF IndexType, IsPMap
  <2>4. DOMAIN servers' = DOMAIN servers BY <1>2 DEF AddAuthz
  <2> QED BY <2>2, <2>3, <2>4, AuthzKept
<1> QED BY <1>1, <1>2 DEF ApplyAuthz

(* delete_authz                                                             *)
LEMMA DeleteAuthzFacts ==
  ASSUME IndexType, NEW a \in AuthzKeys, DeleteAuthz(a), UNCHANGED <<nodes, pods, lookups>>
  PROVE  Kept
<1>1. IsPMap(servers, ServerKeys, Server)'
  BY RemoveAuthzType DEF DeleteAuthz, IndexType, IsPMap
<1>2. IsPMap(authzs, AuthzKeys, Authz)' BY DropFacts DEF DeleteAuthz, IndexType, IsPMap
<1>3. DOMAIN servers' = DOMAIN servers BY DEF DeleteAuthz, RemoveAuthz
<1> QED BY <1>1, <1>2, <1>3, AuthzKept

----------------------------------------------------------------------------
(* The events: what a watch has delivered, and the handlers of Restarted.   *)

(* The part of TypeOK that is about what the watches have delivered.        *)
ObjsType ==
  /\ IsPMap(nodeObjs, NodeNames, NodeObj)
  /\ IsPMap(podObjs, PodKeys, PodObj)
  /\ IsPMap(serverObjs, ServerKeys, ServerObj)
  /\ IsPMap(authzObjs, AuthzKeys, AuthzObj)

(* What each event and each step of a reset does.                           *)
Stepped == Kept /\ ObjsType' /\ TaskType'

(* A list of objects holds objects.                                         *)
LEMMA ListsOfType ==
  ASSUME NEW K, NEW T, NEW A \in [K -> SUBSET T], NEW f \in ListsOf(A)
  PROVE  IsPMap(f, K, T)
<1>1. PICK D \in SUBSET K :
        f \in {g \in [D -> UNION {A[k] : k \in D}] : \A k \in D : g[k] \in A[k]}
  BY DEF ListsOf
<1>2. DOMAIN f = D /\ f \in [D -> UNION {A[k] : k \in D}] /\ \A k \in D : f[k] \in A[k]
  BY <1>1
<1>3. \A k \in D : f[k] \in T BY <1>1, <1>2
<1> QED BY <1>1, <1>2, <1>3 DEF IsPMap

(* A handler is done, or resumes with what is left.                         *)
LEMMA ResumeType ==
  ASSUME NEW K, NEW T, NEW op, NEW todo, NEW prior,
         IsPMap(todo, K, T), prior \subseteq K, task' = Resume(op, todo, prior)
  PROVE  task' = NoTask \/ (task'.op = op /\ TaskOf(K, T)')
<1>1. CASE task' = [op |-> op, todo |-> todo, prior |-> prior]
  BY <1>1 DEF TaskOf, IsPMap
<1> QED BY <1>1 DEF Resume

(* A handler that has another object behind it still has a task.            *)
LEMMA ResumedType ==
  ASSUME NEW K, NEW T, TaskOf(K, T), NEW op, NEW k,
         task' = Resume(op, Drop(task.todo, k), task.prior \ {k})
           \/ task' = Resume(op, task.todo, task.prior \ {k})
  PROVE  task' = NoTask \/ (task'.op = op /\ TaskOf(K, T)')
<1>1. /\ IsPMap(task.todo, K, T)
      /\ IsPMap(Drop(task.todo, k), K, T)
      /\ task.prior \ {k} \subseteq K
  BY DropFacts DEF TaskOf
<1> QED BY <1>1, ResumeType

(* An event that is not a Restarted one leaves no handler behind.           *)
LEMMA TaskTypeKept ==
  ASSUME TaskType, UNCHANGED task
  PROVE  TaskType'
BY DEF TaskType, TaskOf, NoTask, IsPMap

(* The events of nodes.                                                     *)
LEMMA NodeStep ==
  ASSUME TypeOK, NodeNext
  PROVE  Stepped
<1> USE DEF Stepped
<1>1. IndexType /\ ObjsType /\ TaskType BY DEF TypeOK, IndexType, ObjsType
<1>2. ASSUME NEW n \in NodeNames, NodeApplied(n) PROVE Stepped
  <2>1. PICK obj \in NodeObjs[n] :
          nodeObjs' = Put(nodeObjs, n, obj) /\ ApplyNode(n, obj)
    BY <1>2 DEF NodeApplied
  <2>2. obj \in NodeObj BY ObjsAssumption
  <2>3. Kept BY <1>1, <1>2, <2>1, <2>2, ApplyNodeFacts DEF NodeApplied
  <2>4. IsPMap(Put(nodeObjs, n, obj), NodeNames, NodeObj)
    BY <1>1, <2>2, PutFacts DEF ObjsType
  <2>5. ObjsType' BY <1>1, <1>2, <2>1, <2>4 DEF NodeApplied, ObjsType, IsPMap
  <2>6. TaskType' BY <1>1, <1>2, TaskTypeKept DEF NodeApplied
  <2> QED BY <2>3, <2>5, <2>6
<1>3. ASSUME NEW n \in NodeNames, NodeDeleted(n) PROVE Stepped
  <2>1. Kept BY <1>1, <1>3, DeleteNodeFacts DEF NodeDeleted
  <2>2. IsPMap(Drop(nodeObjs, n), NodeNames, NodeObj) BY <1>1, DropFacts DEF ObjsType
  <2>3. ObjsType' BY <1>1, <1>3, <2>2 DEF NodeDeleted, ObjsType, IsPMap
  <2>4. TaskType' BY <1>1, <1>3, TaskTypeKept DEF NodeDeleted
  <2> QED BY <2>1, <2>3, <2>4
<1>4. ASSUME task.op = "nodes" PROVE TaskOf(NodeNames, NodeObj)
  BY <1>1, <1>4 DEF TaskType, NoTask
<1>5. ASSUME NEW n \in NodeNames, NodeListed(n) PROVE Stepped
  <2>1. TaskOf(NodeNames, NodeObj) BY <1>4, <1>5 DEF NodeListed
  <2>2. task.todo[n] \in NodeObj BY <1>5, <2>1 DEF NodeListed, ListedKeys, TaskOf, IsPMap
  <2>3. ASSUME ApplyNode(n, task.todo[n]) PROVE Kept
    BY <1>1, <1>5, <2>2, <2>3, ApplyNodeFacts DEF NodeListed
  <2>4. ASSUME UNCHANGED <<nodes, pods, lookups>> PROVE Kept
    BY <1>1, <1>5, <2>4
       DEF NodeListed, Kept, IndexType, LinksConsistent, LookupsMatchIndex
  <2>5. Kept BY <1>5, <2>3, <2>4 DEF NodeListed
  <2>6. TaskType' BY <1>5, <2>1, ResumedType DEF NodeListed, TaskType
  <2> QED BY <1>1, <1>5, <2>5, <2>6 DEF NodeListed, objs, ObjsType
<1>6. ASSUME NEW n \in NodeNames, NodeDefunct(n) PROVE Stepped
  <2>1. TaskOf(NodeNames, NodeObj) BY <1>4, <1>6 DEF NodeDefunct
  <2>2. Kept BY <1>1, <1>6, DeleteNodeFacts DEF NodeDefunct
  <2>3. TaskType' BY <1>6, <2>1, ResumedType DEF NodeDefunct, TaskType
  <2> QED BY <1>1, <1>6, <2>2, <2>3 DEF NodeDefunct, objs, ObjsType
<1>7. ASSUME NodesRestarted PROVE Stepped
  <2>1. Kept
    BY <1>1, <1>7 DEF NodesRestarted, index, Kept, IndexType, LinksConsistent,
                      LookupsMatchIndex
  <2>2. IsPMap(nodeObjs', NodeNames, NodeObj)
    BY <1>7, ListsOfType, ObjsAssumption DEF NodesRestarted
  <2>3. ObjsType' BY <1>1, <1>7, <2>2 DEF NodesRestarted, ObjsType, IsPMap
  <2>4. KnownNodes(nodes) \subseteq NodeNames BY <1>1 DEF KnownNodes, IndexType, IsPMap
  <2>5. TaskType' BY <1>7, <2>2, <2>4, ResumeType DEF NodesRestarted, TaskType
  <2> QED BY <2>1, <2>3, <2>5
<1> QED BY <1>2, <1>3, <1>5, <1>6, <1>7 DEF NodeNext

(* The events of pods.                                                      *)
LEMMA PodStep ==
  ASSUME TypeOK, PodNext
  PROVE  Stepped
<1> USE DEF Stepped
<1>1. IndexType /\ ObjsType /\ TaskType BY DEF TypeOK, IndexType, ObjsType
<1>2. ASSUME NEW k \in PodKeys, PodApplied(k) PROVE Stepped
  <2>1. PICK obj \in PodObjs[k] :
          podObjs' = Put(podObjs, k, obj) /\ ApplyPod(k, obj)
    BY <1>2 DEF PodApplied
  <2>2. obj \in PodObj BY ObjsAssumption
  <2>3. Kept BY <1>1, <1>2, <2>1, <2>2, ApplyPodFacts DEF PodApplied
  <2>4. IsPMap(Put(podObjs, k, obj), PodKeys, PodObj)
    BY <1>1, <2>2, PutFacts DEF ObjsType
  <2>5. ObjsType' BY <1>1, <1>2, <2>1, <2>4 DEF PodApplied, ObjsType, IsPMap
  <2>6. TaskType' BY <1>1, <1>2, TaskTypeKept DEF PodApplied
  <2> QED BY <2>3, <2>5, <2>6
<1>3. ASSUME NEW k \in PodKeys, PodDeleted(k) PROVE Stepped
  <2>1. Kept BY <1>1, <1>3, RmPodFacts DEF PodDeleted
  <2>2. IsPMap(Drop(podObjs, k), PodKeys, PodObj) BY <1>1, DropFacts DEF ObjsType
  <2>3. ObjsType' BY <1>1, <1>3, <2>2 DEF PodDeleted, ObjsType, IsPMap
  <2>4. TaskType' BY <1>1, <1>3, TaskTypeKept DEF PodDeleted
  <2> QED BY <2>1, <2>3, <2>4
<1>4. ASSUME task.op = "pods" PROVE TaskOf(PodKeys, PodObj)
  BY <1>1, <1>4 DEF TaskType, NoTask
<1>5. ASSUME NEW k \in PodKeys, PodListed(k) PROVE Stepped
  <2>1. TaskOf(PodKeys, PodObj) BY <1>4, <1>5 DEF PodListed
  <2>2. task.todo[k] \in PodObj BY <1>5, <2>1 DEF PodListed, ListedKeys, TaskOf, IsPMap
  <2>3. Kept BY <1>1, <1>5, <2>2, ApplyPodFacts DEF PodListed
  <2>4. TaskType' BY <1>5, <2>1, ResumedType DEF PodListed, TaskType
  <2> QED BY <1>1, <1>5, <2>3, <2>4 DEF PodListed, objs, ObjsType
<1>6. ASSUME NEW k \in PodKeys, PodDefunct(k) PROVE Stepped
  <2>1. TaskOf(PodKeys, PodObj) BY <1>4, <1>6 DEF PodDefunct
  <2>2. Kept BY <1>1, <1>6, RmPodFacts DEF PodDefunct
  <2>3. TaskType' BY <1>6, <2>1, ResumedType DEF PodDefunct, TaskType
  <2> QED BY <1>1, <1>6, <2>2, <2>3 DEF PodDefunct, objs, ObjsType
<1>7. ASSUME PodsRestarted PROVE Stepped
  <2>1. IsPMap(ClearPendingPods(nodes), NodeNames, State)
    BY <1>1, ClearPendingPodsType DEF IndexType
  <2>2. IsPMap(nodes, NodeNames, State)' BY <1>7, <2>1 DEF PodsRestarted, IsPMap
  <2>3. Kept
    BY <1>1, <1>7, <2>2 DEF PodsRestarted, Kept, IndexType, LinksConsistent,
                            LookupsMatchIndex
  <2>4. IsPMap(podObjs', PodKeys, PodObj)
    BY <1>7, ListsOfType, ObjsAssumption DEF PodsRestarted
  <2>5. ObjsType' BY <1>1, <1>7, <2>4 DEF PodsRestarted, ObjsType, IsPMap
  <2>6. DOMAIN pods \subseteq PodKeys BY <1>1 DEF IndexType, IsPMap
  <2>7. TaskType' BY <1>7, <2>4, <2>6, ResumeType DEF PodsRestarted, TaskType
  <2> QED BY <2>3, <2>5, <2>7
<1> QED BY <1>2, <1>3, <1>5, <1>6, <1>7 DEF PodNext

(* The events of servers.                                                   *)
LEMMA ServerStep ==
  ASSUME TypeOK, ServerNext
  PROVE  Stepped
<1> USE DEF Stepped
<1>1. IndexType /\ ObjsType /\ TaskType BY DEF TypeOK, IndexType, ObjsType
<1>2. ASSUME NEW s \in ServerKeys, ServerApplied(s) PROVE Stepped
  <2>1. PICK obj \in ServerObjs[s] :
          serverObjs' = Put(serverObjs, s, obj) /\ IndexServer(s, obj)
    BY <1>2 DEF ServerApplied
  <2>2. obj \in ServerObj BY ObjsAssumption
  <2>3. Kept BY <1>1, <1>2, <2>1, <2>2, IndexServerFacts DEF ServerApplied
  <2>4. IsPMap(Put(serverObjs, s, obj), ServerKeys, ServerObj)
    BY <1>1, <2>2, PutFacts DEF ObjsType
  <2>5. ObjsType' BY <1>1, <1>2, <2>1, <2>4 DEF ServerApplied, ObjsType, IsPMap
  <2>6. TaskType' BY <1>1, <1>2, TaskTypeKept DEF ServerApplied
  <2> QED BY <2>3, <2>5, <2>6
<1>3. ASSUME NEW s \in ServerKeys, ServerDeleted(s) PROVE Stepped
  <2>1. Kept BY <1>1, <1>3, RmServerFacts DEF ServerDeleted
  <2>2. IsPMap(Drop(serverObjs, s), ServerKeys, ServerObj) BY <1>1, DropFacts DEF ObjsType
  <2>3. ObjsType' BY <1>1, <1>3, <2>2 DEF ServerDeleted, ObjsType, IsPMap
  <2>4. TaskType' BY <1>1, <1>3, TaskTypeKept DEF ServerDeleted
  <2> QED BY <2>1, <2>3, <2>4
<1>4. ASSUME task.op = "servers" PROVE TaskOf(ServerKeys, ServerObj)
  BY <1>1, <1>4 DEF TaskType, NoTask
<1>5. ASSUME NEW s \in ServerKeys, ServerListed(s) PROVE Stepped
  <2>1. TaskOf(ServerKeys, ServerObj) BY <1>4, <1>5 DEF ServerListed
  <2>2. task.todo[s] \in ServerObj
    BY <1>5, <2>1 DEF ServerListed, ListedKeys, TaskOf, IsPMap
  <2>3. Kept BY <1>1, <1>5, <2>2, IndexServerFacts DEF ServerListed
  <2>4. TaskType' BY <1>5, <2>1, ResumedType DEF ServerListed, TaskType
  <2> QED BY <1>1, <1>5, <2>3, <2>4 DEF ServerListed, objs, ObjsType
<1>6. ASSUME NEW s \in ServerKeys, ServerDefunct(s) PROVE Stepped
  <2>1. TaskOf(ServerKeys, ServerObj) BY <1>4, <1>6 DEF ServerDefunct
  <2>2. Kept BY <1>1, <1>6, RmServerFacts DEF ServerDefunct
  <2>3. TaskType' BY <1>6, <2>1, ResumedType DEF ServerDefunct, TaskType
  <2> QED BY <1>1, <1>6, <2>2, <2>3 DEF ServerDefunct, objs, ObjsType
<1>7. ASSUME ServersRestarted PROVE Stepped
  <2>1. Kept
    BY <1>1, <1>7 DEF ServersRestarted, index, Kept, IndexType, LinksConsistent,
                      LookupsMatchIndex
  <2>2. IsPMap(serverObjs', ServerKeys, ServerObj)
    BY <1>7, ListsOfType, ObjsAssumption DEF ServersRestarted
  <2>3. ObjsType' BY <1>1, <1>7, <2>2 DEF ServersRestarted, ObjsType, IsPMap
  <2>4. DOMAIN servers \subseteq ServerKeys BY <1>1 DEF IndexType, IsPMap
  <2>5. TaskType' BY <1>7, <2>2, <2>4, ResumeType DEF ServersRestarted, TaskType
  <2> QED BY <2>1, <2>3, <2>5
<1> QED BY <1>2, <1>3, <1>5, <1>6, <1>7 DEF ServerNext

(* The events of authorizations.                                            *)
LEMMA AuthzStep ==
  ASSUME TypeOK, AuthzNext
  PROVE  Stepped
<1> USE DEF Stepped
<1>1. IndexType /\ ObjsType /\ TaskType BY DEF TypeOK, IndexType, ObjsType
<1>2. ASSUME NEW a \in AuthzKeys, AuthzApplied(a) PROVE Stepped
  <2>1. PICK obj \in AuthzObjs[a] :
          authzObjs' = Put(authzObjs, a, obj) /\ ApplyAuthz(a, obj)
    BY <1>2 DEF AuthzApplied
  <2>2. obj \in AuthzObj BY ObjsAssumption
  <2>3. Kept BY <1>1, <1>2, <2>1, <2>2, ApplyAuthzFacts DEF AuthzApplied
  <2>4. IsPMap(Put(authzObjs, a, obj), AuthzKeys, AuthzObj)
    BY <1>1, <2>2, PutFacts DEF ObjsType
  <2>5. ObjsType' BY <1>1, <1>2, <2>1, <2>4 DEF AuthzApplied, ObjsType, IsPMap
  <2>6. TaskType' BY <1>1, <1>2, TaskTypeKept DEF AuthzApplied
  <2> QED BY <2>3, <2>5, <2>6
<1>3. ASSUME NEW a \in AuthzKeys, AuthzDeleted(a) PROVE Stepped
  <2>1. Kept BY <1>1, <1>3, DeleteAuthzFacts DEF AuthzDeleted
  <2>2. IsPMap(Drop(authzObjs, a), AuthzKeys, AuthzObj) BY <1>1, DropFacts DEF ObjsType
  <2>3. ObjsType' BY <1>1, <1>3, <2>2 DEF AuthzDeleted, ObjsType, IsPMap
  <2>4. TaskType' BY <1>1, <1>3, TaskTypeKept DEF AuthzDeleted
  <2> QED BY <2>1, <2>3, <2>4
<1>4. ASSUME task.op = "authzs" PROVE TaskOf(AuthzKeys, AuthzObj)
  BY <1>1, <1>4 DEF TaskType, NoTask
<1>5. ASSUME NEW a \in AuthzKeys, AuthzListed(a) PROVE Stepped
  <2>1. TaskOf(AuthzKeys, AuthzObj) BY <1>4, <1>5 DEF AuthzListed
  <2>2. task.todo[a] \in AuthzObj
    BY <1>5, <2>1 DEF AuthzListed, ListedKeys, TaskOf, IsPMap
  <2>3. Kept BY <1>1, <1>5, <2>2, ApplyAuthzFacts DEF AuthzListed
  <2>4. TaskType' BY <1>5, <2>1, ResumedType DEF AuthzListed, TaskType
  <2> QED BY <1>1, <1>5, <2>3, <2>4 DEF AuthzListed, objs, ObjsType
<1>6. ASSUME NEW a \in AuthzKeys, AuthzDefunct(a) PROVE Stepped
  <2>1. TaskOf(AuthzKeys, AuthzObj) BY <1>4, <1>6 DEF AuthzDefunct
  <2>2. Kept BY <1>1, <1>6, DeleteAuthzFacts DEF AuthzDefunct
  <2>3. TaskType' BY <1>6, <2>1, ResumedType DEF AuthzDefunct, TaskType
  <2> QED BY <1>1, <1>6, <2>2, <2>3 DEF AuthzDefunct, objs, ObjsType
<1>7. ASSUME AuthzsRestarted PROVE Stepped
  <2>1. Kept
    BY <1>1, <1>7 DEF AuthzsRestarted, index, Kept, IndexType, LinksConsistent,
                      LookupsMatchIndex
  <2>2. IsPMap(authzObjs', AuthzKeys, AuthzObj)
    BY <1>7, ListsOfType, ObjsAssumption DEF AuthzsRestarted
  <2>3. ObjsType' BY <1>1, <1>7, <2>2 DEF AuthzsRestarted, ObjsType, IsPMap
  <2>4. DOMAIN authzs \subseteq AuthzKeys BY <1>1 DEF IndexType, IsPMap
  <2>5. TaskType' BY <1>7, <2>2, <2>4, ResumeType DEF AuthzsRestarted, TaskType
  <2> QED BY <2>1, <2>3, <2>5
<1> QED BY <1>2, <1>3, <1>5, <1>6, <1>7 DEF AuthzNext

----------------------------------------------------------------------------
(* The theorems.                                                            *)

(* A step of the index, or none, keeps the types and the two invariants.    *)
LEMMA StepFacts ==
  ASSUME TypeOK, [Next]_vars
  PROVE  /\ TypeOK'
         /\ LinksConsistent => LinksConsistent'
         /\ LookupsMatchIndex => LookupsMatchIndex'
<1>1. CASE Next
  <2>1. Stepped BY <1>1, NodeStep, PodStep, ServerStep, AuthzStep DEF Next
  <2> QED BY <2>1 DEF Stepped, Kept, IndexType, ObjsType, TypeOK
<1>2. CASE UNCHANGED vars
  <2>1. TaskType' BY <1>2, TaskTypeKept DEF TypeOK, vars
  <2> QED BY <1>2, <2>1 DEF vars, index, objs, TypeOK, LinksConsistent, LookupsMatchIndex
<1> QED BY <1>1, <1>2

(* The index is well typed in every cluster, whatever its watches deliver:  *)
(* in particular, every Rx a port holds and every Authz a server publishes  *)
(* is one the gRPC handlers can serve (lib.rs, lookup.rs).                  *)
THEOREM TypeCorrect == Spec => []TypeOK
<1>1. Init => TypeOK
  BY EmptyMapType DEF Init, TypeOK, TaskType
<1>2. TypeOK /\ [Next]_vars => TypeOK'
  BY StepFacts
<1> QED BY <1>1, <1>2, PTL DEF Spec

(* No port is ever linked to a server that is not in the index, and what a  *)
(* port's channel holds is always its server, or the default of its pod,    *)
(* for any number of pods, servers and ports and any conflicts between them *)
(* (pod.rs:273-349, server.rs:224-239).                                     *)
THEOREM LinksConsistentHolds == Spec => []LinksConsistent
<1>1. Init => LinksConsistent
  BY DEF Init, EmptyMap, LinksConsistent
<1>2. TypeOK /\ LinksConsistent /\ [Next]_vars => LinksConsistent'
  BY StepFacts
<1> QED BY <1>1, <1>2, TypeCorrect, PTL DEF Spec

(* The lookups map never fails a set or an unset of the index, and a gRPC   *)
(* handler finds a pod's port exactly if the pod is indexed and has it      *)
(* (lookup.rs:45-85, pod.rs:99, 199-201).                                   *)
THEOREM LookupsMatchIndexHolds == Spec => []LookupsMatchIndex
<1>1. Init => LookupsMatchIndex
  BY DEF Init, EmptyMap, LookupsMatchIndex
<1>2. TypeOK /\ LookupsMatchIndex /\ [Next]_vars => LookupsMatchIndex'
  BY StepFacts
<1> QED BY <1>1, <1>2, TypeCorrect, PTL DEF Spec

----------------------------------------------------------------------------
(* That the first link wins.                                                *)

(* What FirstLinkWins says of one pod, which keeps its ports and its default *)
(* policy.                                                                  *)
WinsFor(k, old, new, srvs) ==
  /\ new.default = old.default /\ DOMAIN new.ports = DOMAIN old.ports
  /\ \A p \in DOMAIN old.ports :
       old.ports[p].server # None /\ new.ports[p].server # old.ports[p].server =>
         /\ new.ports[p].server = None
         /\ \/ <<k[1], old.ports[p].server>> \notin DOMAIN srvs
            \/ MatchingServers(srvs, k[1], new.labels, new.ports, p) = {}

Wins == \A k \in DOMAIN pods \cap DOMAIN pods' : WinsFor(k, pods[k], pods'[k], servers')

(* Pod::link_servers unlinks a port only if no server matches it.           *)
LEMMA LinkPodWins ==
  ASSUME NEW k, NEW pod \in Pod, NEW srvs, NEW pick
  PROVE  WinsFor(k, pod, LinkPod(k, pod, srvs, pick), srvs)
<1> DEFINE new == LinkPod(k, pod, srvs, pick)
           matching(p) == MatchingServers(srvs, k[1], pod.labels, pod.ports, p)
           link(p) == LinkPort(pod.ports[p], matching(p), pod.default, pick)
<1>1. IsPMap(pod.ports, PortNumbers, Port) BY PMapIs DEF Pod
<1>2. /\ new.labels = pod.labels /\ new.default = pod.default
      /\ new.ports = [p \in DOMAIN pod.ports |-> link(p)]
  BY DEF LinkPod, Pod
<1>3. ASSUME NEW p \in DOMAIN pod.ports
      PROVE  /\ link(p).name = pod.ports[p].name
             /\ pod.ports[p].server # None /\ link(p).server # pod.ports[p].server =>
                  link(p).server = None /\ matching(p) = {}
  <2>1. pod.ports[p] \in Port BY <1>1 DEF IsPMap
  <2> HIDE DEF matching
  <2> QED BY <2>1 DEF LinkPort, Port
<1> HIDE DEF link
<1>4. ASSUME NEW p
      PROVE  MatchingServers(srvs, k[1], new.labels, new.ports, p) = matching(p)
  <2>1. \A ref : CollectPort(new.ports, ref) = CollectPort(pod.ports, ref)
    BY <1>2, <1>3 DEF CollectPort
  <2> QED BY <1>2, <2>1 DEF MatchingServers
<1> HIDE DEF new, matching
<1>5. /\ new.default = pod.default /\ DOMAIN new.ports = DOMAIN pod.ports
      /\ \A p \in DOMAIN pod.ports : new.ports[p] = link(p)
  BY <1>2
<1>6. WinsFor(k, pod, new, srvs) BY <1>3, <1>4, <1>5 DEF WinsFor
<1> QED BY <1>6 DEF new

(* The Occupied case of PodIndex::apply, too.                               *)
LEMMA UpdatePodWins ==
  ASSUME NEW k, NEW pod \in Pod, NEW obj \in PodObj, NEW srvs, NEW pick
  PROVE  WinsFor(k, pod, UpdatePod(k, pod, obj, srvs, pick), srvs)
<1> DEFINE relabelled == [pod EXCEPT !.labels = obj.labels]
<1>1. /\ relabelled \in Pod /\ relabelled.ports = pod.ports
      /\ relabelled.default = pod.default
  BY DEF Pod, PodObj
<1>2. WinsFor(k, relabelled, LinkPod(k, relabelled, srvs, pick), srvs)
  BY <1>1, LinkPodWins
<1>3. WinsFor(k, pod, LinkPod(k, relabelled, srvs, pick), srvs)
  <2> HIDE DEF relabelled
  <2> QED BY <1>1, <1>2 DEF WinsFor
<1>4. WinsFor(k, pod, pod, srvs) BY DEF WinsFor
<1> QED BY <1>3, <1>4 DEF UpdatePod

(* A step that keeps the pods it does not remove.                           *)
LEMMA KeptWins ==
  ASSUME \A k \in DOMAIN pods \cap DOMAIN pods' : pods'[k] = pods[k]
  PROVE  Wins
BY DEF Wins, WinsFor

(* PodIndex::apply                                                          *)
LEMMA IndexPodsWins ==
  ASSUME IndexType, NEW new, IsPMap(new, PodKeys, PodObj), NEW ips, NEW pick,
         IndexPods(new, ips, pick), UNCHANGED servers
  PROVE  Wins
<1>1. SUFFICES ASSUME NEW k \in DOMAIN pods PROVE WinsFor(k, pods[k], pods'[k], servers)
  BY DEF Wins
<1>2. CASE k \notin DOMAIN new
  <2>1. pods'[k] = pods[k] BY <1>2 DEF IndexPods
  <2> QED BY <2>1 DEF WinsFor
<1>3. CASE k \in DOMAIN new
  <2>1. pods'[k] = UpdatePod(k, pods[k], new[k], servers, pick) BY <1>3 DEF IndexPods
  <2>2. pods[k] \in Pod /\ new[k] \in PodObj BY <1>3 DEF IndexType, IsPMap
  <2> QED BY <2>1, <2>2, UpdatePodWins
<1> QED BY <1>2, <1>3

(* apply_pod and rm_pod                                                     *)
LEMMA ApplyPodWins ==
  ASSUME IndexType, NEW k \in PodKeys, NEW obj \in PodObj, ApplyPod(k, obj), UNCHANGED servers
  PROVE  Wins
<1>1. CASE /\ k \in DOMAIN pods
           /\ \E pick \in Picks :
                pods' = [pods EXCEPT ![k] = UpdatePod(k, pods[k], obj, servers, pick)]
  <2>1. PICK pick \in Picks :
          pods' = [pods EXCEPT ![k] = UpdatePod(k, pods[k], obj, servers, pick)]
    BY <1>1
  <2> DEFINE new == UpdatePod(k, pods[k], obj, servers, pick)
  <2>2. pods[k] \in Pod BY <1>1 DEF IndexType, IsPMap
  <2>3. WinsFor(k, pods[k], new, servers) BY <2>2, UpdatePodWins
  <2> HIDE DEF new
  <2>4. \A i \in DOMAIN pods : pods'[i] = IF i = k THEN new ELSE pods[i]
    BY <1>1, <2>1 DEF new
  <2>5. \A i \in DOMAIN pods : WinsFor(i, pods[i], pods[i], servers) BY DEF WinsFor
  <2> QED BY <2>3, <2>4, <2>5 DEF Wins
<1>2. CASE \E pick \in Picks : IndexPods([i \in {k} |-> obj], nodes[obj.node].ips, pick)
  <2>1. IsPMap([i \in {k} |-> obj], PodKeys, PodObj) BY DEF IsPMap
  <2> QED BY <1>2, <2>1, IndexPodsWins
<1>3. CASE UNCHANGED pods BY <1>3, KeptWins
<1> QED BY <1>1, <1>2, <1>3 DEF ApplyPod

LEMMA RmPodWins ==
  ASSUME NEW k, RmPod(k)
  PROVE  Wins
BY KeptWins DEF RmPod, Drop, Restrict

(* apply_node                                                               *)
LEMMA ApplyNodeWins ==
  ASSUME IndexType, NEW n, NEW obj, ApplyNode(n, obj), UNCHANGED servers
  PROVE  Wins
<1>1. CASE UNCHANGED pods BY <1>1, KeptWins
<1>2. CASE /\ n \in PendingNodes(nodes)
           /\ \E pick \in Picks : IndexPods(nodes[n].pods, obj, pick)
  <2>1. nodes[n] \in State /\ nodes[n].state # "known"
    BY <1>2 DEF PendingNodes, KnownNodes, IndexType, IsPMap
  <2>2. IsPMap(nodes[n].pods, PodKeys, PodObj) BY <2>1, PMapIs DEF State
  <2> QED BY <1>2, <2>2, IndexPodsWins
<1> QED BY <1>1, <1>2 DEF ApplyNode

(* Index::apply_server                                                      *)
LEMMA IndexServerWins ==
  ASSUME IndexType, NEW s, NEW obj, IndexServer(s, obj)
  PROVE  Wins
<1>1. PICK pick \in Picks : pods' = LinkServers(pods, s[1], servers', pick)
  BY DEF IndexServer
<1>2. SUFFICES ASSUME NEW k \in DOMAIN pods PROVE WinsFor(k, pods[k], pods'[k], servers')
  BY DEF Wins
<1>3. pods'[k] = IF k[1] = s[1] THEN LinkPod(k, pods[k], servers', pick) ELSE pods[k]
  BY <1>1 DEF LinkServers
<1>4. pods[k] \in Pod BY DEF IndexType, IsPMap
<1>5. WinsFor(k, pods[k], LinkPod(k, pods[k], servers', pick), servers')
  BY <1>4, LinkPodWins
<1>6. WinsFor(k, pods[k], pods[k], servers') BY DEF WinsFor
<1> QED BY <1>3, <1>5, <1>6

(* rm_server: only the removed server's ports are unlinked.                 *)
LEMMA RmServerWins ==
  ASSUME IndexType, NEW s \in ServerKeys, RmServer(s)
  PROVE  Wins
<1>1. CASE UNCHANGED pods BY <1>1, KeptWins
<1>2. CASE servers' = Drop(servers, s) /\ pods' = ResetServer(pods, s)
  <2>1. SUFFICES ASSUME NEW k \in DOMAIN pods PROVE WinsFor(k, pods[k], pods'[k], servers')
    BY DEF Wins
  <2>2. pods[k] \in Pod BY DEF IndexType, IsPMap
  <2>3. IsPMap(pods[k].ports, PortNumbers, Port) BY <2>2, PMapIs DEF Pod
  <2>4. s \notin DOMAIN servers' /\ s = <<s[1], s[2]>>
    BY <1>2 DEF Drop, Restrict, ServerKeys
  <2>5. CASE k[1] # s[1]
    <3>1. pods'[k] = pods[k] BY <1>2, <2>5 DEF ResetServer
    <3> QED BY <3>1 DEF WinsFor
  <2>6. CASE k[1] = s[1]
    <3>1. /\ pods'[k].default = pods[k].default
          /\ pods'[k].ports = [p \in DOMAIN pods[k].ports |->
                                 ResetPort(pods[k].ports[p], s[2], pods[k].default)]
      BY <1>2, <2>2, <2>6 DEF ResetServer, Pod
    <3>2. ASSUME NEW p \in DOMAIN pods[k].ports
          PROVE  pods'[k].ports[p].server
                   = IF pods[k].ports[p].server = s[2] THEN None ELSE pods[k].ports[p].server
      <4>1. pods[k].ports[p] \in Port BY <2>3 DEF IsPMap
      <4> QED BY <3>1, <4>1 DEF ResetPort, Port
    <3> QED BY <2>4, <2>6, <3>1, <3>2 DEF WinsFor
  <2> QED BY <2>5, <2>6
<1> QED BY <1>1, <1>2 DEF RmServer

(* Any step.                                                                *)
LEMMA StepWins ==
  ASSUME TypeOK, [Next]_vars
  PROVE  Wins
<1>1. IndexType /\ ObjsType /\ TaskType BY DEF TypeOK, IndexType, ObjsType
<1>2. CASE NodeNext
  BY <1>1, <1>2, ApplyNodeWins, KeptWins
     DEF NodeNext, NodeApplied, NodeDeleted, NodesRestarted, NodeListed, NodeDefunct, index
<1>3. CASE PodNext
  <2>1. ASSUME NEW k \in PodKeys, PodApplied(k) PROVE Wins
    BY <1>1, <2>1, ApplyPodWins, ObjsAssumption DEF PodApplied
  <2>2. ASSUME NEW k \in PodKeys, PodListed(k) PROVE Wins
    <3>1. TaskOf(PodKeys, PodObj) BY <1>1, <2>2 DEF PodListed, TaskType, NoTask
    <3>2. task.todo[k] \in PodObj BY <2>2, <3>1 DEF PodListed, ListedKeys, TaskOf, IsPMap
    <3> QED BY <1>1, <2>2, <3>2, ApplyPodWins DEF PodListed
  <2>3. ASSUME NEW k \in PodKeys, PodDeleted(k) \/ PodDefunct(k) PROVE Wins
    BY <2>3, RmPodWins DEF PodDeleted, PodDefunct
  <2>4. CASE PodsRestarted BY <2>4, KeptWins DEF PodsRestarted
  <2> QED BY <1>3, <2>1, <2>2, <2>3, <2>4 DEF PodNext
<1>4. CASE ServerNext
  BY <1>1, <1>4, IndexServerWins, RmServerWins, KeptWins
     DEF ServerNext, ServerApplied, ServerDeleted, ServersRestarted, ServerListed,
         ServerDefunct, index
<1>5. CASE AuthzNext
  BY <1>5, KeptWins
     DEF AuthzNext, AuthzApplied, AuthzDeleted, AuthzsRestarted, AuthzListed, AuthzDefunct,
         index
<1>6. CASE UNCHANGED vars BY <1>6, KeptWins DEF vars, index
<1> QED BY <1>2, <1>3, <1>4, <1>5, <1>6 DEF Next

(* No server ever takes a port from another that still is there, in any     *)
(* order of events and resets and of the servers in the hash map (pod.rs:   *)
(* 298-349).                                                                *)
THEOREM FirstLinkWinsHolds == Spec => FirstLinkWins
<1> DEFINE First == \A k \in DOMAIN pods \cap DOMAIN pods' :
                     \A p \in DOMAIN pods[k].ports :
                       LET old == pods[k].ports[p].server
                           new == pods'[k].ports[p].server
                       IN  old # None /\ new # old =>
                             /\ new = None
                             /\ \/ <<k[1], old>> \notin DOMAIN servers'
                                \/ MatchingServers(servers', k[1], pods'[k].labels,
                                                   pods'[k].ports, p) = {}
<1>1. TypeOK /\ [Next]_vars => [First]_vars
  BY StepWins DEF Wins, WinsFor
<1>2. Spec => [][First]_vars
  BY <1>1, TypeCorrect, PTL DEF Spec
<1> QED BY <1>2 DEF FirstLinkWins

----------------------------------------------------------------------------
(* What streams see: the sends of the handlers to the channel of one port.  *)

(* Between two steps, a port's channel keeps a receiver, of a server only   *)
(* if that is there before and after; is sent the default policy; or, when  *)
(* it had that, is sent the receiver of a server that is there.             *)
PortSends ==
  \A k \in DOMAIN pods \cap DOMAIN pods' :
    /\ DOMAIN pods'[k].ports = DOMAIN pods[k].ports
    /\ \A p \in DOMAIN pods[k].ports :
         LET old     == pods[k].ports[p].rx
             new     == pods'[k].ports[p].rx
             default == DefaultRx(pods[k].default)
         IN  \/ new = default
             \/ \E s \in DOMAIN servers' :
                  /\ new = ServerRx(s) /\ s[1] = k[1]
                  /\ old = default \/ (old = new /\ s \in DOMAIN servers)

(* The writer of LookupStream is the index: what a handler does to the      *)
(* channel of one port is nothing, UnlinkPort or ResetServer, or LinkPort,  *)
(* which it does to a port that has the default policy only; a receiver     *)
(* whose sender went with RemoveServer is never left in it (pod.rs:         *)
(* 273-349, server.rs:224-239).                                             *)
THEOREM PortSendsHold == Spec => [][PortSends]_vars
<1>1. ASSUME Wins, LinksConsistent, LinksConsistent', NEW k \in DOMAIN pods \cap DOMAIN pods',
             NEW p \in DOMAIN pods[k].ports
      PROVE  LET old     == pods[k].ports[p].rx
                 new     == pods'[k].ports[p].rx
                 default == DefaultRx(pods[k].default)
             IN  \/ new = default
                 \/ \E s \in DOMAIN servers' :
                      /\ new = ServerRx(s) /\ s[1] = k[1]
                      /\ old = default \/ (old = new /\ s \in DOMAIN servers)
  <2> DEFINE was == pods[k].ports[p]
             is  == pods'[k].ports[p]
             default == DefaultRx(pods[k].default)
  <2>1. /\ pods'[k].default = pods[k].default /\ p \in DOMAIN pods'[k].ports
        /\ was.server # None /\ is.server # was.server => is.server = None
    BY <1>1 DEF Wins, WinsFor
  <2>2. /\ was.server = None => was.rx = default
        /\ was.server # None => /\ <<k[1], was.server>> \in DOMAIN servers
                               /\ was.rx = ServerRx(<<k[1], was.server>>)
    BY <1>1 DEF LinksConsistent, PodConsistent, PortConsistent
  <2>3. /\ is.server = None => is.rx = default
        /\ is.server # None => /\ <<k[1], is.server>> \in DOMAIN servers'
                              /\ is.rx = ServerRx(<<k[1], is.server>>)
    BY <1>1, <2>1 DEF LinksConsistent, PodConsistent, PortConsistent
  <2> HIDE DEF was, is, default
  <2>4. CASE is.server = None BY <2>3, <2>4 DEF was, is, default
  <2>5. CASE is.server # None
    <3>1. was.server = None \/ was.server = is.server BY <2>1, <2>5
    <3>2. /\ is.rx = ServerRx(<<k[1], is.server>>) /\ <<k[1], is.server>> \in DOMAIN servers'
          /\ was.rx = default \/ (was.rx = is.rx /\ <<k[1], is.server>> \in DOMAIN servers)
      BY <2>2, <2>3, <2>5, <3>1
    <3>3. \E s \in DOMAIN servers' :
            /\ is.rx = ServerRx(s) /\ s[1] = k[1]
            /\ was.rx = default \/ (was.rx = is.rx /\ s \in DOMAIN servers)
      BY <3>2
    <3> QED BY <3>3 DEF was, is, default
  <2> QED BY <2>4, <2>5
<1>2. TypeOK /\ LinksConsistent /\ LinksConsistent' /\ [Next]_vars => [PortSends]_vars
  BY <1>1, StepWins DEF PortSends, Wins, WinsFor
<1> QED BY <1>2, TypeCorrect, LinksConsistentHolds, PTL DEF Spec
=============================================================================
