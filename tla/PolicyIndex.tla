---------------------------- MODULE PolicyIndex ----------------------------
(***************************************************************************)
(* The indexing task (controller/k8s/index/src/lib.rs): one task that takes *)
(* the events of four Kubernetes watches, in any order between watches, and *)
(* keeps the node, pod, server and authorization indexes and the lookups    *)
(* map that gRPC handlers read concurrently.                                *)
(*                                                                          *)
(* An Applied or Deleted event is one step.  A Restarted event replaces the *)
(* whole list; its handler goes through the listed objects and then through *)
(* those that are gone, and what it has done so far is visible to readers   *)
(* of lookups, so each of its iterations is a step.  Until the last one no  *)
(* other event is taken: the handler does not await.                        *)
(***************************************************************************)
EXTENDS PodIndex, NodeIndex

(* The objects the cluster may hold: for each key, the versions of it.      *)
CONSTANTS NodeObjs, PodObjs, ServerObjs, AuthzObjs

CONSTANTS
  Restarts,     \* the watches that may fall so far behind that they list anew
  ConflictFree  \* whether no two Servers ever match one port of a pod, as
                \* DESIGN.md asks of operators

ASSUME EnvironmentAssumption ==
  /\ Restarts \subseteq {"nodes", "pods", "servers", "authzs"}
  /\ ConflictFree \in BOOLEAN

ASSUME ObjsAssumption ==
  /\ NodeObjs   \in [NodeNames  -> SUBSET NodeObj]
  /\ PodObjs    \in [PodKeys    -> SUBSET PodObj]
  /\ ServerObjs \in [ServerKeys -> SUBSET ServerObj]
  /\ AuthzObjs  \in [AuthzKeys  -> SUBSET AuthzObj]

VARIABLES
  nodes,      \* NodeIndex
  pods,       \* PodIndex of each namespace
  servers,    \* SrvIndex of each namespace
  authzs,     \* AuthzIndex of each namespace
  lookups,    \* the shared map: pod -> kubelet addresses and ports
  task,       \* the Restarted handler in progress
  (* What each watch has delivered, the environment's side of its events:   *)
  nodeObjs, podObjs, serverObjs, authzObjs

index == <<nodes, pods, servers, authzs, lookups>>
objs  == <<nodeObjs, podObjs, serverObjs, authzObjs>>
vars  == <<index, task, objs>>

----------------------------------------------------------------------------

Lookup == [kubelet : KubeletIps, ports : SUBSET PortNumbers]

(* A handler of a Restarted event: the objects it has yet to apply and the  *)
(* keys it found in the index at the start and has not seen since.          *)
NoTask == [op |-> "idle", todo |-> EmptyMap, prior |-> {}]

Resume(op, todo, prior) ==
  IF DOMAIN todo = {} /\ prior = {}
    THEN NoTask
    ELSE [op |-> op, todo |-> todo, prior |-> prior]

Idle == task = NoTask

ListedKeys  == DOMAIN task.todo
DefunctKeys == {k \in task.prior : ListedKeys = {}}

Init ==
  /\ nodes = EmptyMap /\ pods = EmptyMap /\ servers = EmptyMap /\ authzs = EmptyMap
  /\ lookups = EmptyMap
  /\ task = NoTask
  /\ nodeObjs = EmptyMap /\ podObjs = EmptyMap
  /\ serverObjs = EmptyMap /\ authzObjs = EmptyMap

(* The Servers and pods delivered so far do not conflict, where the cluster *)
(* is kept free of conflicts.                                               *)
Permitted ==
  ConflictFree =>
    \A k \in DOMAIN podObjs :
      LET ports == ExtractPorts(podObjs[k].ports, DefaultRx(ClusterDefault))
      IN  \A p \in DOMAIN ports :
            \A s, t \in MatchingServers(serverObjs, k[1], podObjs[k].labels, ports, p) :
              s = t

----------------------------------------------------------------------------
(* Pods.                                                                    *)

(* PodIndex::apply for the pods in new, whose node is known to have these   *)
(* kubelet addresses: those in the index are relinked if their labels       *)
(* changed, the others are linked and made discoverable.                    *)
IndexPods(new, ips, pick) ==
  /\ pods' = [k \in DOMAIN pods \cup DOMAIN new |->
                IF k \notin DOMAIN new THEN pods[k]
                ELSE IF k \in DOMAIN pods
                  THEN UpdatePod(k, pods[k], new[k], servers, pick)
                  ELSE NewPod(k, new[k], servers, pick)]
  /\ lookups' = [k \in DOMAIN lookups \cup (DOMAIN new \ DOMAIN pods) |->
                   IF k \in DOMAIN new \ DOMAIN pods
                     THEN [kubelet |-> ips, ports |-> DOMAIN pods'[k].ports]
                     ELSE lookups[k]]

(* MUTANT: the node is looked up first, for pods in the index, too.         *)
ApplyPodNodeFirst(k, obj) ==
  \/ /\ obj.node \in KnownNodes(nodes)
     /\ \E pick \in Picks : IndexPods([i \in {k} |-> obj], nodes[obj.node].ips, pick)
     /\ UNCHANGED nodes
  \/ /\ obj.node \in NodeNames \ KnownNodes(nodes)
     /\ nodes' = PushPending(nodes, k, obj)
     /\ UNCHANGED <<pods, lookups>>
  \/ /\ obj.node = None
     /\ UNCHANGED <<nodes, pods, lookups>>

(* apply_pod                                                                *)
ApplyPod(k, obj) ==
  \/ /\ k \in DOMAIN pods
     /\ \E pick \in Picks :
          pods' = [pods EXCEPT ![k] = UpdatePod(k, pods[k], obj, servers, pick)]
     /\ UNCHANGED <<nodes, lookups>>
  \/ /\ k \notin DOMAIN pods
     /\ obj.node \in KnownNodes(nodes)
     /\ \E pick \in Picks :
          IndexPods([i \in {k} |-> obj], nodes[obj.node].ips, pick)
     /\ UNCHANGED nodes
  \/ /\ k \notin DOMAIN pods
     /\ obj.node \in NodeNames \ KnownNodes(nodes)
     /\ nodes' = PushPending(nodes, k, obj)
     /\ UNCHANGED <<pods, lookups>>
  \/ /\ k \notin DOMAIN pods
     /\ obj.node = None
     /\ UNCHANGED <<nodes, pods, lookups>>

(* MUTANT: a removed pod stays discoverable.                                *)
RmPodKeepsLookup(k) ==
  \/ /\ \E n \in PendingOn(nodes, k) : nodes' = ClearPendingPod(nodes, n, k)
     /\ UNCHANGED <<pods, lookups>>
  \/ /\ PendingOn(nodes, k) = {}
     /\ pods' = Drop(pods, k)
     /\ UNCHANGED <<lookups, nodes>>

(* MUTANT: a pod that waits for its node goes on waiting when it is gone.   *)
RmPodKeepsPending(k) ==
  /\ pods' = Drop(pods, k)
  /\ lookups' = Drop(lookups, k)
  /\ UNCHANGED nodes

(* rm_pod: a pod that is pending cannot be in the index; an unknown pod is  *)
(* an error that is logged.                                                 *)
RmPod(k) ==
  \/ /\ \E n \in PendingOn(nodes, k) : nodes' = ClearPendingPod(nodes, n, k)
     /\ UNCHANGED <<pods, lookups>>
  \/ /\ PendingOn(nodes, k) = {}
     /\ k \in DOMAIN pods
     /\ pods' = Drop(pods, k)
     /\ lookups' = Drop(lookups, k)
     /\ UNCHANGED nodes
  \/ /\ PendingOn(nodes, k) = {}
     /\ k \notin DOMAIN pods
     /\ UNCHANGED <<nodes, pods, lookups>>

----------------------------------------------------------------------------
(* Nodes.                                                                   *)

(* MUTANT: the pods that waited for the node are not applied.               *)
ApplyNodeDropsPending(n, obj) ==
  /\ nodes' = IF obj # None /\ n \notin KnownNodes(nodes)
                THEN Put(nodes, n, Known(obj)) ELSE nodes
  /\ UNCHANGED <<pods, lookups>>

(* apply_node: a node without addresses is an error; a known node is left   *)
(* alone; the pods that wait for a pending node are applied.                *)
ApplyNode(n, obj) ==
  \/ /\ n \in KnownNodes(nodes) \/ obj = None
     /\ UNCHANGED <<nodes, pods, lookups>>
  \/ /\ n \notin DOMAIN nodes
     /\ obj # None
     /\ nodes' = Put(nodes, n, Known(obj))
     /\ UNCHANGED <<pods, lookups>>
  \/ /\ n \in PendingNodes(nodes)
     /\ obj # None
     /\ nodes' = Put(nodes, n, Known(obj))
     /\ \E pick \in Picks : IndexPods(nodes[n].pods, obj, pick)

(* delete_node: whatever its state; an unknown node is an error.            *)
DeleteNode(n) == nodes' = Drop(nodes, n)

NodeApplied(n) ==
  /\ Idle
  /\ \E obj \in NodeObjs[n] :
       nodeObjs' = Put(nodeObjs, n, obj) /\ ApplyNode(n, obj)
  /\ UNCHANGED <<servers, authzs, task, podObjs, serverObjs, authzObjs>>

NodeDeleted(n) ==
  /\ Idle
  /\ n \in DOMAIN nodeObjs
  /\ nodeObjs' = Drop(nodeObjs, n)
  /\ DeleteNode(n)
  /\ UNCHANGED <<pods, servers, authzs, lookups, task, podObjs, serverObjs, authzObjs>>

(* reset_nodes: nodes that are known are not rebuilt.                       *)
NodesRestarted ==
  /\ Idle /\ "nodes" \in Restarts
  /\ nodeObjs' \in ListsOf(NodeObjs)
  /\ task' = Resume("nodes", nodeObjs', KnownNodes(nodes))
  /\ UNCHANGED <<index, podObjs, serverObjs, authzObjs>>

NodeListed(n) ==
  /\ task.op = "nodes" /\ n \in ListedKeys
  /\ task' = Resume("nodes", Drop(task.todo, n), task.prior \ {n})
  /\ IF n \in task.prior THEN UNCHANGED <<nodes, pods, lookups>>
                         ELSE ApplyNode(n, task.todo[n])
  /\ UNCHANGED <<servers, authzs, objs>>

NodeDefunct(n) ==
  /\ task.op = "nodes" /\ n \in DefunctKeys
  /\ task' = Resume("nodes", task.todo, task.prior \ {n})
  /\ DeleteNode(n)
  /\ UNCHANGED <<pods, servers, authzs, lookups, objs>>

----------------------------------------------------------------------------
(* Pods: events.                                                            *)

(* A pod keeps its spec once scheduled; its labels and annotations can be   *)
(* edited at any time.                                                      *)
SamePod(old, new) ==
  /\ old.ports = new.ports
  /\ old.node \in {None, new.node}

PodApplied(k) ==
  /\ Idle
  /\ \E obj \in PodObjs[k] :
       /\ k \in DOMAIN podObjs => SamePod(podObjs[k], obj)
       /\ podObjs' = Put(podObjs, k, obj)
       /\ ApplyPod(k, obj)
  /\ UNCHANGED <<servers, authzs, task, nodeObjs, serverObjs, authzObjs>>
  /\ Permitted'

PodDeleted(k) ==
  /\ Idle
  /\ k \in DOMAIN podObjs
  /\ podObjs' = Drop(podObjs, k)
  /\ RmPod(k)
  /\ UNCHANGED <<servers, authzs, task, nodeObjs, serverObjs, authzObjs>>

(* reset_pods: the pending pods are forgotten first.  A pod may have been   *)
(* deleted and created anew under its name since the last event.            *)
PodsRestarted ==
  /\ Idle /\ "pods" \in Restarts
  /\ podObjs' \in ListsOf(PodObjs)
  /\ nodes' = ClearPendingPods(nodes)
  /\ task' = Resume("pods", podObjs', DOMAIN pods)
  /\ UNCHANGED <<pods, servers, authzs, lookups, nodeObjs, serverObjs, authzObjs>>
  /\ Permitted'

PodListed(k) ==
  /\ task.op = "pods" /\ k \in ListedKeys
  /\ task' = Resume("pods", Drop(task.todo, k), task.prior \ {k})
  /\ ApplyPod(k, task.todo[k])
  /\ UNCHANGED <<servers, authzs, objs>>

PodDefunct(k) ==
  /\ task.op = "pods" /\ k \in DefunctKeys
  /\ task' = Resume("pods", task.todo, task.prior \ {k})
  /\ RmPod(k)
  /\ UNCHANGED <<servers, authzs, objs>>

----------------------------------------------------------------------------
(* Servers.                                                                 *)

(* Index::apply_server: update the server, then link every pod of its       *)
(* namespace.                                                               *)
IndexServer(s, obj) ==
  /\ servers' = ApplyServer(servers, authzs, s, obj)
  /\ \E pick \in Picks : pods' = LinkServers(pods, s[1], servers', pick)

(* rm_server: a server that is not in the index is an error.                *)
RmServer(s) ==
  \/ /\ s \in DOMAIN servers
     /\ servers' = Drop(servers, s)
     /\ pods' = ResetServer(pods, s)
  \/ /\ s \notin DOMAIN servers
     /\ UNCHANGED <<servers, pods>>

ServerApplied(s) ==
  /\ Idle
  /\ \E obj \in ServerObjs[s] :
       serverObjs' = Put(serverObjs, s, obj) /\ IndexServer(s, obj)
  /\ UNCHANGED <<nodes, authzs, lookups, task, nodeObjs, podObjs, authzObjs>>
  /\ Permitted'

ServerDeleted(s) ==
  /\ Idle
  /\ s \in DOMAIN serverObjs
  /\ serverObjs' = Drop(serverObjs, s)
  /\ RmServer(s)
  /\ UNCHANGED <<nodes, authzs, lookups, task, nodeObjs, podObjs, authzObjs>>

(* reset_servers                                                            *)
ServersRestarted ==
  /\ Idle /\ "servers" \in Restarts
  /\ serverObjs' \in ListsOf(ServerObjs)
  /\ task' = Resume("servers", serverObjs', DOMAIN servers)
  /\ UNCHANGED <<index, nodeObjs, podObjs, authzObjs>>
  /\ Permitted'

ServerListed(s) ==
  /\ task.op = "servers" /\ s \in ListedKeys
  /\ task' = Resume("servers", Drop(task.todo, s), task.prior \ {s})
  /\ IndexServer(s, task.todo[s])
  /\ UNCHANGED <<nodes, authzs, lookups, objs>>

ServerDefunct(s) ==
  /\ task.op = "servers" /\ s \in DefunctKeys
  /\ task' = Resume("servers", task.todo, task.prior \ {s})
  /\ RmServer(s)
  /\ UNCHANGED <<nodes, authzs, lookups, objs>>

----------------------------------------------------------------------------
(* Authorizations.                                                          *)

(* apply_authz: an invalid update is an error and leaves what was there; an *)
(* update that changes nothing is not sent.                                 *)
ApplyAuthz(a, obj) ==
  LET unchanged == a \in DOMAIN authzs /\ authzs[a] = MkAuthz(obj)
  IN  IF ValidAuthz(obj) /\ ~unchanged
        THEN /\ authzs'  = Put(authzs, a, MkAuthz(obj))
             /\ servers' = AddAuthz(servers, a, MkAuthz(obj))
        ELSE UNCHANGED <<authzs, servers>>

(* MUTANT: the authorization leaves the servers, but not the index.         *)
DeleteAuthzKeepsIndex(a) ==
  servers' = RemoveAuthz(servers, a) /\ UNCHANGED authzs

(* delete_authz                                                             *)
DeleteAuthz(a) ==
  /\ servers' = RemoveAuthz(servers, a)
  /\ authzs'  = Drop(authzs, a)

AuthzApplied(a) ==
  /\ Idle
  /\ \E obj \in AuthzObjs[a] :
       authzObjs' = Put(authzObjs, a, obj) /\ ApplyAuthz(a, obj)
  /\ UNCHANGED <<nodes, pods, lookups, task, nodeObjs, podObjs, serverObjs>>

AuthzDeleted(a) ==
  /\ Idle
  /\ a \in DOMAIN authzObjs
  /\ authzObjs' = Drop(authzObjs, a)
  /\ DeleteAuthz(a)
  /\ UNCHANGED <<nodes, pods, lookups, task, nodeObjs, podObjs, serverObjs>>

(* reset_authzs                                                             *)
AuthzsRestarted ==
  /\ Idle /\ "authzs" \in Restarts
  /\ authzObjs' \in ListsOf(AuthzObjs)
  /\ task' = Resume("authzs", authzObjs', DOMAIN authzs)
  /\ UNCHANGED <<index, nodeObjs, podObjs, serverObjs>>

(* MUTANT: a listed authorization that cannot be applied counts as gone.    *)
AuthzListedIfValid(a) ==
  /\ task.op = "authzs" /\ a \in ListedKeys
  /\ task' = Resume("authzs", Drop(task.todo, a),
                    IF ValidAuthz(task.todo[a]) THEN task.prior \ {a} ELSE task.prior)
  /\ ApplyAuthz(a, task.todo[a])
  /\ UNCHANGED <<nodes, pods, lookups, objs>>

AuthzListed(a) ==
  /\ task.op = "authzs" /\ a \in ListedKeys
  /\ task' = Resume("authzs", Drop(task.todo, a), task.prior \ {a})
  /\ ApplyAuthz(a, task.todo[a])
  /\ UNCHANGED <<nodes, pods, lookups, objs>>

AuthzDefunct(a) ==
  /\ task.op = "authzs" /\ a \in DefunctKeys
  /\ task' = Resume("authzs", task.todo, task.prior \ {a})
  /\ DeleteAuthz(a)
  /\ UNCHANGED <<nodes, pods, lookups, objs>>

----------------------------------------------------------------------------

NodeNext ==
  \/ \E n \in NodeNames :
       NodeApplied(n) \/ NodeDeleted(n) \/ NodeListed(n) \/ NodeDefunct(n)
  \/ NodesRestarted

PodNext ==
  \/ \E k \in PodKeys :
       PodApplied(k) \/ PodDeleted(k) \/ PodListed(k) \/ PodDefunct(k)
  \/ PodsRestarted

ServerNext ==
  \/ \E s \in ServerKeys :
       ServerApplied(s) \/ ServerDeleted(s) \/ ServerListed(s) \/ ServerDefunct(s)
  \/ ServersRestarted

AuthzNext ==
  \/ \E a \in AuthzKeys :
       AuthzApplied(a) \/ AuthzDeleted(a) \/ AuthzListed(a) \/ AuthzDefunct(a)
  \/ AuthzsRestarted

Next == NodeNext \/ PodNext \/ ServerNext \/ AuthzNext

Spec == Init /\ [][Next]_vars

----------------------------------------------------------------------------
(* Properties.                                                              *)

TaskOf(K, T) ==
  /\ task = [op |-> task.op, todo |-> task.todo, prior |-> task.prior]
  /\ IsPMap(task.todo, K, T)
  /\ task.prior \subseteq K

TaskType ==
  \/ task = NoTask
  \/ task.op = "nodes" /\ TaskOf(NodeNames, NodeObj)
  \/ task.op = "pods" /\ TaskOf(PodKeys, PodObj)
  \/ task.op = "servers" /\ TaskOf(ServerKeys, ServerObj)
  \/ task.op = "authzs" /\ TaskOf(AuthzKeys, AuthzObj)

(* The type of every variable: the indexes hold maps of the structures of   *)
(* pod.rs, server.rs, authz.rs and node.rs.                                 *)
TypeOK ==
  /\ IsPMap(nodes, NodeNames, State)
  /\ IsPMap(pods, PodKeys, Pod)
  /\ IsPMap(servers, ServerKeys, Server)
  /\ IsPMap(authzs, AuthzKeys, Authz)
  /\ IsPMap(lookups, PodKeys, Lookup)
  /\ IsPMap(nodeObjs, NodeNames, NodeObj)
  /\ IsPMap(podObjs, PodKeys, PodObj)
  /\ IsPMap(serverObjs, ServerKeys, ServerObj)
  /\ IsPMap(authzObjs, AuthzKeys, AuthzObj)
  /\ TaskType

(* A pod is discoverable, on each of its ports and no other, exactly while  *)
(* it is in the pod index, even halfway through a reset.  lookups.set and   *)
(* lookups.unset fail otherwise (pod.rs:199-201, 99).                       *)
LookupsMatchIndex ==
  /\ DOMAIN lookups = DOMAIN pods
  /\ \A k \in DOMAIN pods : lookups[k].ports = DOMAIN pods[k].ports

(* A pod waits for one node at most, the one it is scheduled on, and never  *)
(* while it is indexed: rm_pod stops at the first pending entry it finds    *)
(* and takes it that "it can't be in the main index" (pod.rs:84-88).        *)
PendingOnce ==
  \A n \in PendingNodes(nodes) : \A k \in DOMAIN nodes[n].pods :
    /\ nodes[n].pods[k].node = n
    /\ PendingOn(nodes, k) = {n}
    /\ k \notin DOMAIN pods

(* Between events, a pod is indexed or waiting exactly if it exists and has *)
(* been scheduled, and a pod that is waiting waits for a node that is not   *)
(* there or has no addresses, and will be indexed as it now is: the pod "is *)
(* saved to be processed later" (pod.rs:158-160), and no interleaving of    *)
(* the node and pod watches loses a pod or keeps one that is gone.          *)
PodsAccountedFor ==
  Idle =>
    /\ DOMAIN pods \subseteq DOMAIN podObjs
    /\ \A n \in PendingNodes(nodes) : DOMAIN nodes[n].pods \subseteq DOMAIN podObjs
    /\ \A k \in DOMAIN podObjs : podObjs[k].node # None =>
         \/ k \in DOMAIN pods
         \/ /\ PendingOn(nodes, k) = {podObjs[k].node}
            /\ nodes[podObjs[k].node].pods[k] = podObjs[k]
            /\ podObjs[k].node \in DOMAIN nodeObjs => nodeObjs[podObjs[k].node] = None

(* The name a port is linked to and what its channel holds agree, and no    *)
(* port is linked to a server that is gone, however removals, relabelling   *)
(* and resets interleave: no pod is left with the last policy of a deleted  *)
(* server (pod.rs:273-293, 298-349, server.rs:224-239).                     *)
LinksConsistent ==
  \A k \in DOMAIN pods : PodConsistent(k, pods[k], servers)

(* The authorizations of every server, the ones it publishes and the ones   *)
(* the next change starts from, are those of the indexed authorizations of  *)
(* its namespace that select it by name or by its current labels, whichever *)
(* of them came first and however either changed since (server.rs:36-56,    *)
(* 74-161, authz.rs:61-85).                                                 *)
AuthorizationsExact ==
  \A s \in DOMAIN servers :
    /\ servers[s].authorizations = FilterSelected(authzs, s, servers[s].labels)
    /\ servers[s].config.authorizations = servers[s].authorizations

(* Between events, the index holds exactly the Servers that exist, each     *)
(* with the labels, pod selector, port and protocol it now has, the         *)
(* protocol both as it is stored and as it is published: "If something      *)
(* about the server changed, we need to update the config to reflect the    *)
(* change" (server.rs:106-107).  So it is while no Server's protocol is     *)
(* edited: an edit never gets there (server.rs:114).                        *)
ServersCurrent ==
  Idle =>
    /\ DOMAIN servers = DOMAIN serverObjs
    /\ \A s \in DOMAIN servers :
         /\ servers[s].labels = serverObjs[s].labels
         /\ servers[s].selector = serverObjs[s].selector
         /\ servers[s].port = serverObjs[s].port
         /\ servers[s].protocol = MkProtocol(serverObjs[s].protocol)
         /\ servers[s].config.protocol = MkProtocol(serverObjs[s].protocol)

(* Between events, an authorization that exists and is valid is indexed as  *)
(* it now is, and nothing is authorized by one that is gone.  (One that is  *)
(* invalid now may still be indexed as it was when it last was valid.)      *)
AuthzsCurrent ==
  Idle =>
    /\ DOMAIN authzs \subseteq DOMAIN authzObjs
    /\ \A a \in DOMAIN authzObjs : ValidAuthz(authzObjs[a]) =>
         a \in DOMAIN authzs /\ authzs[a] = MkAuthz(authzObjs[a])

(* An authorization that is indexed stays so while its object exists, edits *)
(* into an invalid one and resets that list it as such included, and        *)
(* changes only into what a valid version of it says: a reset takes for     *)
(* gone what it was not listed, not what it could not apply                 *)
(* (authz.rs:36, 141-157).                                                  *)
AuthzsKept ==
  [][\A a \in DOMAIN authzs \cap DOMAIN authzObjs' :
       /\ a \in DOMAIN authzs'
       /\ authzs'[a] # authzs[a] =>
            ValidAuthz(authzObjs'[a]) /\ authzs'[a] = MkAuthz(authzObjs'[a])
    ]_vars

(* Between events, a port that exactly one Server matches is linked to it,  *)
(* and a port no Server matches has the default policy.                     *)
SoleMatchLinked ==
  Idle =>
    \A k \in DOMAIN pods : \A p \in DOMAIN pods[k].ports :
      LET matching ==
            MatchingServers(servers, k[1], pods[k].labels, pods[k].ports, p)
      IN  /\ matching = {} => pods[k].ports[p].server = None
          /\ \A s \in matching : matching = {s} => pods[k].ports[p].server = s[2]

(* A pod becomes discoverable only while it exists, and with the kubelet    *)
(* addresses of the node it is on: those of no node it waited for before,   *)
(* under the same name, however deletions and resets interleave with the    *)
(* nodes that come (node.rs:31-60, 136-150, pod.rs:188-206): connections    *)
(* "are _always_ permitted from the kubelet" (DESIGN.md:230).  Afterwards   *)
(* it keeps them, also when a reset finds another pod of its name on        *)
(* another node.                                                            *)
KubeletOfOwnNode ==
  [][\A k \in DOMAIN lookups' \ DOMAIN lookups :
       /\ k \in DOMAIN podObjs'
       /\ lookups'[k].kubelet \in NodeObjs[podObjs'[k].node]
    ]_vars

(* Between events, the kubelet a pod is discovered with is the one of the   *)
(* node it is on: "Unauthenticated connections are _always_ permitted from  *)
(* the kubelet" (DESIGN.md:230).                                            *)
KubeletCurrent ==
  Idle =>
    \A k \in DOMAIN lookups \cap DOMAIN podObjs :
      podObjs[k].node # None => lookups[k].kubelet \in NodeObjs[podObjs[k].node]

(* A step takes a port from one server to another only by way of the        *)
(* default policy, and unlinks it only if its server is removed or nothing  *)
(* matches the port any more: a second matching server never takes over     *)
(* ("In release mode, we log a warning and ignore the conflicting server",  *)
(* pod.rs:331-334).                                                         *)
FirstLinkWins ==
  [][\A k \in DOMAIN pods \cap DOMAIN pods' : \A p \in DOMAIN pods[k].ports :
       LET old == pods[k].ports[p].server
           new == pods'[k].ports[p].server
       IN  old # None /\ new # old =>
             /\ new = None
             /\ \/ <<k[1], old>> \notin DOMAIN servers'
                \/ MatchingServers(servers', k[1], pods'[k].labels, pods'[k].ports, p) = {}
    ]_vars
=============================================================================
