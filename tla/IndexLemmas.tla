---------------------------- MODULE IndexLemmas ----------------------------
(***************************************************************************)
(* Facts about the operators the indexes are made of: what the map helpers, *)
(* extract_ports, the linking of ports and the updates of a server return.  *)
(***************************************************************************)
EXTENDS PodIndex, NodeIndex, TLAPS, WellFoundedInduction

----------------------------------------------------------------------------
(* Partial maps.                                                            *)

(* The two forms of "f is a map from S to T" (HashMap<S, T>) agree.         *)
LEMMA PMapIs ==
  ASSUME NEW S, NEW T, NEW f
  PROVE  f \in PMap(S, T) <=> IsPMap(f, S, T)
BY DEF PMap, IsPMap

(* The empty map is a map of any type (HashMap::default).                   *)
LEMMA EmptyMapType ==
  ASSUME NEW S, NEW T
  PROVE  IsPMap(EmptyMap, S, T) /\ DOMAIN EmptyMap = {}
BY DEF IsPMap, EmptyMap

(* HashMap::insert.                                                         *)
LEMMA PutFacts ==
  ASSUME NEW S, NEW T, NEW f, IsPMap(f, S, T), NEW k \in S, NEW v \in T
  PROVE  /\ IsPMap(Put(f, k, v), S, T)
         /\ DOMAIN Put(f, k, v) = DOMAIN f \cup {k}
         /\ Put(f, k, v)[k] = v
         /\ \A i \in DOMAIN f \ {k} : Put(f, k, v)[i] = f[i]
BY DEF IsPMap, Put

(* HashMap::remove.                                                         *)
LEMMA DropFacts ==
  ASSUME NEW S, NEW T, NEW f, IsPMap(f, S, T), NEW k
  PROVE  /\ IsPMap(Drop(f, k), S, T)
         /\ DOMAIN Drop(f, k) = DOMAIN f \ {k}
         /\ \A i \in DOMAIN f \ {k} : Drop(f, k)[i] = f[i]
BY DEF IsPMap, Drop, Restrict

----------------------------------------------------------------------------
(* Authorizations and servers.                                              *)

(* A valid ServerAuthorization makes an Authz (mk_authz).                   *)
LEMMA MkAuthzType ==
  ASSUME NEW obj \in AuthzObj, ValidAuthz(obj)
  PROVE  MkAuthz(obj) \in Authz
<1>1. CASE obj.selector = None
  <2>1. obj.name \in ServerNames BY <1>1 DEF AuthzObj, ValidAuthz
  <2> QED BY <1>1, <2>1 DEF AuthzObj, ValidAuthz, MkAuthz, Authz, ServerSelector
<1>2. CASE obj.selector # None
  <2>1. obj.selector \in SUBSET ServerLabels BY <1>2 DEF AuthzObj
  <2> QED BY <1>2, <2>1 DEF AuthzObj, ValidAuthz, MkAuthz, Authz, ServerSelector
<1> QED BY <1>1, <1>2

(* filter_selected returns clients of authorizations of the index.          *)
LEMMA FilterSelectedType ==
  ASSUME NEW authzs, IsPMap(authzs, AuthzKeys, Authz), NEW s, NEW labels
  PROVE  FilterSelected(authzs, s, labels) \in Authorizations
<1> DEFINE D == DOMAIN FilterSelected(authzs, s, labels)
<1>1. D \subseteq AuthzNames BY DEF FilterSelected
<1>2. \A n \in D : FilterSelected(authzs, s, labels)[n] \in Clients
  BY DEF FilterSelected, IsPMap, Authz
<1>3. FilterSelected(authzs, s, labels) \in [D -> Clients]
  BY <1>2 DEF FilterSelected
<1> QED BY <1>1, <1>3, PMapIs DEF Authorizations, IsPMap

(* mk_protocol returns a ProxyProtocol of the core crate.                   *)
LEMMA MkProtocolType ==
  ASSUME NEW obj \in ServerObj
  PROVE  MkProtocol(obj.protocol) \in ProxyProtocol
BY DEF ServerObj, ProxyProtocol

(* SrvIndex::apply keeps the server index well formed.                      *)
LEMMA ApplyServerType ==
  ASSUME NEW servers, IsPMap(servers, ServerKeys, Server),
         NEW authzs, IsPMap(authzs, AuthzKeys, Authz),
         NEW s \in ServerKeys, NEW obj \in ServerObj
  PROVE  IsPMap(ApplyServer(servers, authzs, s, obj), ServerKeys, Server)
<1>1. NewServer(authzs, s, obj) \in Server
  BY MkProtocolType, FilterSelectedType
     DEF NewServer, Server, InboundServer, ServerObj
<1>2. ASSUME s \in DOMAIN servers
      PROVE  UpdateServer(authzs, s, servers[s], obj) \in Server
  <2>1. servers[s] \in Server BY <1>2 DEF IsPMap
  <2> QED BY <2>1, MkProtocolType, FilterSelectedType
          DEF UpdateServer, Server, InboundServer, ServerObj
<1> QED BY <1>1, <1>2, PutFacts DEF ApplyServer

(* Server::add_authz keeps a server well formed.                            *)
LEMMA ServerAddAuthzType ==
  ASSUME NEW srv \in Server, NEW n \in AuthzNames, NEW clients \in Clients
  PROVE  ServerAddAuthz(srv, n, clients) \in Server
<1>1. IsPMap(srv.authorizations, AuthzNames, Clients)
  BY PMapIs DEF Server, Authorizations
<1>2. Put(srv.authorizations, n, clients) \in Authorizations
  BY <1>1, PutFacts, PMapIs DEF Authorizations
<1> QED BY <1>2 DEF ServerAddAuthz, Server, InboundServer

(* Server::remove_authz keeps a server well formed.                         *)
LEMMA ServerRemoveAuthzType ==
  ASSUME NEW srv \in Server, NEW n
  PROVE  ServerRemoveAuthz(srv, n) \in Server
<1>1. IsPMap(srv.authorizations, AuthzNames, Clients)
  BY PMapIs DEF Server, Authorizations
<1>2. Drop(srv.authorizations, n) \in Authorizations
  BY <1>1, DropFacts, PMapIs DEF Authorizations
<1> QED BY <1>2 DEF ServerRemoveAuthz, Server, InboundServer

(* SrvIndex::add_authz keeps the server index well formed.                  *)
LEMMA AddAuthzType ==
  ASSUME NEW servers, IsPMap(servers, ServerKeys, Server),
         NEW a \in AuthzKeys, NEW authz \in Authz
  PROVE  IsPMap(AddAuthz(servers, a, authz), ServerKeys, Server)
<1>1. a[2] \in AuthzNames /\ authz.clients \in Clients BY DEF AuthzKeys, Authz
<1>2. \A s \in DOMAIN servers : AddAuthz(servers, a, authz)[s] \in Server
  BY <1>1, ServerAddAuthzType, ServerRemoveAuthzType DEF AddAuthz, IsPMap
<1> QED BY <1>2 DEF AddAuthz, IsPMap

(* SrvIndex::remove_authz keeps the server index well formed.               *)
LEMMA RemoveAuthzType ==
  ASSUME NEW servers, IsPMap(servers, ServerKeys, Server), NEW a \in AuthzKeys
  PROVE  IsPMap(RemoveAuthz(servers, a), ServerKeys, Server)
<1>1. \A s \in DOMAIN servers : RemoveAuthz(servers, a)[s] \in Server
  BY ServerRemoveAuthzType DEF RemoveAuthz, IsPMap
<1> QED BY <1>1 DEF RemoveAuthz, IsPMap

----------------------------------------------------------------------------
(* Ports and links.                                                         *)

(* Of the TCP container ports of one number there is a first one.           *)
LEMMA FirstPortIs ==
  ASSUME NEW ports \in PortLists, NEW i \in TcpPorts(ports)
  PROVE  FirstPort(ports, ports[i].number) \in TcpPorts(ports)
<1> DEFINE Same == {j \in TcpPorts(ports) : ports[j].number = ports[i].number}
<1>1. DOMAIN ports \subseteq Nat
  BY PortListAssumption
<1>2. Same \subseteq Nat /\ Same # {}
  BY <1>1 DEF TcpPorts
<1>3. PICK m \in Same : \A j \in Same : <<j, m>> \notin OpToRel(<, Nat)
  BY <1>2, WFMin, NatLessThanWellFounded, Zenon
<1>4. \A j \in Same : m <= j
  <2> SUFFICES ASSUME NEW j \in Same PROVE m <= j
    OBVIOUS
  <2>1. ~ (j < m) BY <1>2, <1>3 DEF OpToRel
  <2> QED BY <2>1, <1>2
<1> QED BY <1>4 DEF FirstPort

(* extract_ports yields well-formed ports, all on the given receiver.       *)
LEMMA ExtractPortsFacts ==
  ASSUME NEW ports \in PortLists, NEW rx \in Rx
  PROVE  LET new == ExtractPorts(ports, rx)
         IN  /\ IsPMap(new, PortNumbers, Port)
             /\ \A p \in DOMAIN new : new[p].server = None /\ new[p].rx = rx
<1> DEFINE new == ExtractPorts(ports, rx)
<1>1. \A i \in TcpPorts(ports) : ports[i] \in ContainerPort
  BY PortListAssumption DEF TcpPorts
<1>2. DOMAIN new = {ports[i].number : i \in TcpPorts(ports)}
  BY DEF ExtractPorts
<1>3. DOMAIN new \subseteq PortNumbers
  BY <1>1, <1>2 DEF ContainerPort
<1>4. ASSUME NEW p \in DOMAIN new
      PROVE  new[p] \in Port /\ new[p].server = None /\ new[p].rx = rx
  <2>1. PICK i \in TcpPorts(ports) : p = ports[i].number BY <1>2
  <2>2. ports[FirstPort(ports, p)] \in ContainerPort BY <1>1, <2>1, FirstPortIs
  <2>3. new[p] = [name |-> ports[FirstPort(ports, p)].name, server |-> None, rx |-> rx]
    BY <1>2 DEF ExtractPorts
  <2> QED BY <2>2, <2>3 DEF Port, ContainerPort
<1>5. new \in [DOMAIN new -> Port]
  BY <1>4 DEF ExtractPorts
<1> QED BY <1>3, <1>4, <1>5 DEF IsPMap

(* Linking one port keeps it well formed, and leaves it on the default      *)
(* policy or on a server that is in the index (Pod::link_servers).          *)
LEMMA LinkPortFacts ==
  ASSUME NEW servers, DOMAIN servers \subseteq ServerKeys, NEW k \in PodKeys,
         NEW port \in Port, NEW default \in Modes, NEW pick \in Picks,
         NEW matching \in SUBSET {s \in DOMAIN servers : s[1] = k[1]}
  PROVE  LET new == LinkPort(port, matching, default, pick)
         IN  /\ new \in Port
             /\ PortConsistent(k[1], port, default, servers) =>
                  PortConsistent(k[1], new, default, servers)
<1> DEFINE new == LinkPort(port, matching, default, pick)
<1>1. CASE matching = {}
  <2>1. new = [name |-> port.name, server |-> None, rx |-> DefaultRx(default)]
    BY <1>1 DEF LinkPort, Port
  <2>2. DefaultRx(default) \in Rx BY DEF DefaultRx, Rx
  <2> QED BY <2>1, <2>2 DEF Port, PortConsistent
<1>2. CASE matching # {} /\ port.server # None
  BY <1>2 DEF LinkPort
<1>3. CASE matching # {} /\ port.server = None
  <2> DEFINE s == pick[matching]
  <2>1. s \in matching BY <1>3 DEF Picks
  <2>2. s \in ServerKeys /\ s \in DOMAIN servers /\ s[1] = k[1] BY <2>1
  <2>3. s = <<k[1], s[2]>> /\ s[2] \in ServerNames BY <2>2 DEF ServerKeys
  <2>4. new = [name |-> port.name, server |-> s[2], rx |-> ServerRx(s)]
    BY <1>3 DEF LinkPort, Port
  <2>5. ServerRx(s) \in Rx BY <2>2 DEF ServerRx, Rx
  <2>6. new \in Port BY <2>3, <2>4, <2>5 DEF Port
  <2>7. s[2] # None BY <2>3, NoneAssumption
  <2> QED BY <2>2, <2>3, <2>4, <2>6, <2>7 DEF PortConsistent
<1> QED BY <1>1, <1>2, <1>3

(* The servers that match a port are in the index, in the pod's namespace.  *)
LEMMA MatchingServersIn ==
  ASSUME NEW servers, NEW ns, NEW labels, NEW ports, NEW p
  PROVE  MatchingServers(servers, ns, labels, ports, p)
           \in SUBSET {s \in DOMAIN servers : s[1] = ns}
BY DEF MatchingServers, IterMatching

(* Linking a pod keeps it well formed, with the same ports, and leaves each *)
(* of its links on a server that is in the index.                           *)
LEMMA LinkPodFacts ==
  ASSUME NEW servers, DOMAIN servers \subseteq ServerKeys, NEW k \in PodKeys,
         NEW pod \in Pod, NEW pick \in Picks
  PROVE  LET new == LinkPod(k, pod, servers, pick)
         IN  /\ new \in Pod
             /\ DOMAIN new.ports = DOMAIN pod.ports
             /\ PodConsistent(k, pod, servers) => PodConsistent(k, new, servers)
<1> DEFINE matching(p) == MatchingServers(servers, k[1], pod.labels, pod.ports, p)
           link(p) == LinkPort(pod.ports[p], matching(p), pod.default, pick)
           new == LinkPod(k, pod, servers, pick)
<1>1. new = [labels |-> pod.labels, default |-> pod.default,
             ports |-> [p \in DOMAIN pod.ports |-> link(p)]]
  BY DEF LinkPod, Pod
<1>2. pod.default \in Modes /\ pod.labels \in PodLabels /\ IsPMap(pod.ports, PortNumbers, Port)
  BY PMapIs DEF Pod
<1>3. ASSUME NEW p \in DOMAIN pod.ports
      PROVE  /\ link(p) \in Port
             /\ PortConsistent(k[1], pod.ports[p], pod.default, servers) =>
                  PortConsistent(k[1], link(p), pod.default, servers)
  <2>1. pod.ports[p] \in Port BY <1>2 DEF IsPMap
  <2>2. matching(p) \in SUBSET {s \in DOMAIN servers : s[1] = k[1]}
    BY MatchingServersIn
  <2> QED BY <1>2, <2>1, <2>2, LinkPortFacts
<1> HIDE DEF link
<1>4. IsPMap([p \in DOMAIN pod.ports |-> link(p)], PortNumbers, Port)
  BY <1>2, <1>3 DEF IsPMap
<1>5. new \in Pod
  BY <1>1, <1>2, <1>4, PMapIs DEF Pod
<1>6. PodConsistent(k, pod, servers) => PodConsistent(k, new, servers)
  BY <1>1, <1>3 DEF PodConsistent
<1> QED BY <1>1, <1>5, <1>6

(* The Vacant case of PodIndex::apply makes a well-formed, linked pod.      *)
LEMMA NewPodFacts ==
  ASSUME NEW servers, DOMAIN servers \subseteq ServerKeys, NEW k \in PodKeys,
         NEW obj \in PodObj, NEW pick \in Picks
  PROVE  /\ NewPod(k, obj, servers, pick) \in Pod
         /\ PodConsistent(k, NewPod(k, obj, servers, pick), servers)
<1> DEFINE default == DefaultAllow(obj)
           ports == ExtractPorts(obj.ports, DefaultRx(default))
           pod == [labels |-> obj.labels, default |-> default, ports |-> ports]
<1>1. default \in Modes BY ModeAssumption DEF DefaultAllow
<1>2. DefaultRx(default) \in Rx BY <1>1 DEF DefaultRx, Rx
<1>3. obj.ports \in PortLists /\ obj.labels \in PodLabels BY DEF PodObj
<1>4. /\ IsPMap(ports, PortNumbers, Port)
      /\ \A p \in DOMAIN ports : ports[p].server = None /\ ports[p].rx = DefaultRx(default)
  BY <1>2, <1>3, ExtractPortsFacts
<1>5. pod \in Pod BY <1>1, <1>3, <1>4, PMapIs DEF Pod
<1>6. PodConsistent(k, pod, servers) BY <1>4 DEF PodConsistent, PortConsistent
<1>7. NewPod(k, obj, servers, pick) = LinkPod(k, pod, servers, pick) BY DEF NewPod
<1> QED BY <1>5, <1>6, <1>7, LinkPodFacts

(* The Occupied case of PodIndex::apply keeps the pod well formed, with the *)
(* same ports, and its links on servers that are in the index.              *)
LEMMA UpdatePodFacts ==
  ASSUME NEW servers, DOMAIN servers \subseteq ServerKeys, NEW k \in PodKeys,
         NEW pod \in Pod, NEW obj \in PodObj, NEW pick \in Picks
  PROVE  LET new == UpdatePod(k, pod, obj, servers, pick)
         IN  /\ new \in Pod
             /\ DOMAIN new.ports = DOMAIN pod.ports
             /\ PodConsistent(k, pod, servers) => PodConsistent(k, new, servers)
<1> DEFINE relabelled == [pod EXCEPT !.labels = obj.labels]
<1>1. relabelled \in Pod BY DEF Pod, PodObj
<1>2. relabelled.ports = pod.ports /\ relabelled.default = pod.default BY DEF Pod
<1>3. PodConsistent(k, pod, servers) => PodConsistent(k, relabelled, servers)
  BY <1>2 DEF PodConsistent
<1>4. CASE pod.labels = obj.labels
  BY <1>4 DEF UpdatePod
<1>5. CASE pod.labels # obj.labels
  <2>1. UpdatePod(k, pod, obj, servers, pick) = LinkPod(k, relabelled, servers, pick)
    BY <1>5 DEF UpdatePod
  <2> HIDE DEF relabelled
  <2> QED BY <1>1, <1>2, <1>3, <2>1, LinkPodFacts
<1> QED BY <1>4, <1>5

(* PodIndex::link_servers keeps the pods well formed, with the same ports,  *)
(* and their links on servers that are in the index.                        *)
LEMMA LinkServersFacts ==
  ASSUME NEW servers, DOMAIN servers \subseteq ServerKeys,
         NEW pods, IsPMap(pods, PodKeys, Pod), NEW ns, NEW pick \in Picks
  PROVE  LET new == LinkServers(pods, ns, servers, pick)
         IN  /\ IsPMap(new, PodKeys, Pod)
             /\ DOMAIN new = DOMAIN pods
             /\ \A k \in DOMAIN pods :
                  /\ DOMAIN new[k].ports = DOMAIN pods[k].ports
                  /\ PodConsistent(k, pods[k], servers) => PodConsistent(k, new[k], servers)
<1> DEFINE new == LinkServers(pods, ns, servers, pick)
<1>1. DOMAIN new = DOMAIN pods BY DEF LinkServers
<1>2. ASSUME NEW k \in DOMAIN pods
      PROVE  /\ new[k] \in Pod
             /\ DOMAIN new[k].ports = DOMAIN pods[k].ports
             /\ PodConsistent(k, pods[k], servers) => PodConsistent(k, new[k], servers)
  <2>1. k \in PodKeys /\ pods[k] \in Pod BY DEF IsPMap
  <2>2. new[k] = IF k[1] = ns THEN LinkPod(k, pods[k], servers, pick) ELSE pods[k]
    BY DEF LinkServers
  <2> QED BY <2>1, <2>2, LinkPodFacts
<1>3. IsPMap(new, PodKeys, Pod) BY <1>1, <1>2 DEF IsPMap, LinkServers
<1> QED BY <1>1, <1>2, <1>3

(* A port stays well formed when a server is removed, and is left on the    *)
(* default policy or on a server that remains.                              *)
LEMMA ResetPortFacts ==
  ASSUME NEW servers, NEW s \in ServerKeys, NEW port \in Port, NEW default \in Modes
  PROVE  LET new == ResetPort(port, s[2], default)
         IN  /\ new \in Port
             /\ PortConsistent(s[1], port, default, servers) =>
                  PortConsistent(s[1], new, default, Drop(servers, s))
<1>1. DOMAIN Drop(servers, s) = DOMAIN servers \ {s} BY DEF Drop, Restrict
<1>2. s = <<s[1], s[2]>> BY DEF ServerKeys
<1>3. CASE port.server = s[2]
  <2>1. ResetPort(port, s[2], default)
          = [name |-> port.name, server |-> None, rx |-> DefaultRx(default)]
    BY <1>3 DEF ResetPort, Port
  <2>2. DefaultRx(default) \in Rx BY DEF DefaultRx, Rx
  <2> QED BY <2>1, <2>2 DEF Port, PortConsistent
<1>4. CASE port.server # s[2]
  <2>1. ResetPort(port, s[2], default) = port BY <1>4 DEF ResetPort
  <2>2. <<s[1], port.server>> # s BY <1>2, <1>4
  <2> QED BY <1>1, <2>1, <2>2 DEF PortConsistent
<1> QED BY <1>3, <1>4

(* PodIndex::reset_server keeps the pods well formed, with the same ports,  *)
(* and leaves no port on the server s.                                      *)
LEMMA ResetServerFacts ==
  ASSUME NEW servers, DOMAIN servers \subseteq ServerKeys,
         NEW pods, IsPMap(pods, PodKeys, Pod), NEW s \in ServerKeys
  PROVE  LET new == ResetServer(pods, s)
         IN  /\ IsPMap(new, PodKeys, Pod)
             /\ DOMAIN new = DOMAIN pods
             /\ \A k \in DOMAIN pods :
                  /\ DOMAIN new[k].ports = DOMAIN pods[k].ports
                  /\ PodConsistent(k, pods[k], servers) =>
                       PodConsistent(k, new[k], Drop(servers, s))
<1> DEFINE new == ResetServer(pods, s)
           portOf(k, p) == ResetPort(pods[k].ports[p], s[2], pods[k].default)
<1>1. DOMAIN new = DOMAIN pods BY DEF ResetServer
<1>2. DOMAIN Drop(servers, s) = DOMAIN servers \ {s} BY DEF Drop, Restrict
<1>3. s = <<s[1], s[2]>> BY DEF ServerKeys
<1>4. ASSUME NEW k \in DOMAIN pods
      PROVE  /\ new[k] \in Pod
             /\ DOMAIN new[k].ports = DOMAIN pods[k].ports
             /\ PodConsistent(k, pods[k], servers) =>
                  PodConsistent(k, new[k], Drop(servers, s))
  <2>1. pods[k] \in Pod BY DEF IsPMap
  <2>2. IsPMap(pods[k].ports, PortNumbers, Port) BY <2>1, PMapIs DEF Pod
  <2>3. CASE k[1] # s[1]
    <3>1. new[k] = pods[k] BY <2>3 DEF ResetServer
    <3>2. ASSUME NEW p \in DOMAIN pods[k].ports,
                 PortConsistent(k[1], pods[k].ports[p], pods[k].default, servers)
          PROVE  PortConsistent(k[1], pods[k].ports[p], pods[k].default, Drop(servers, s))
      BY <1>2, <1>3, <2>3, <3>2 DEF PortConsistent
    <3> QED BY <2>1, <3>1, <3>2 DEF PodConsistent
  <2>4. CASE k[1] = s[1]
    <3>1. new[k] = [labels |-> pods[k].labels, default |-> pods[k].default,
                    ports |-> [p \in DOMAIN pods[k].ports |-> portOf(k, p)]]
      BY <2>1, <2>4 DEF ResetServer, Pod
    <3>2. ASSUME NEW p \in DOMAIN pods[k].ports
          PROVE  /\ portOf(k, p) \in Port
                 /\ PortConsistent(k[1], pods[k].ports[p], pods[k].default, servers) =>
                      PortConsistent(k[1], portOf(k, p), pods[k].default, Drop(servers, s))
      BY <2>1, <2>2, <2>4, ResetPortFacts DEF IsPMap, Pod
    <3> HIDE DEF portOf
    <3>3. IsPMap([p \in DOMAIN pods[k].ports |-> portOf(k, p)], PortNumbers, Port)
      BY <2>2, <3>2 DEF IsPMap
    <3>4. new[k] \in Pod BY <2>1, <3>1, <3>3, PMapIs DEF Pod
    <3> QED BY <3>1, <3>2, <3>4 DEF PodConsistent
  <2> QED BY <2>3, <2>4
<1>5. IsPMap(new, PodKeys, Pod) BY <1>1, <1>4 DEF IsPMap, ResetServer
<1> QED BY <1>1, <1>4, <1>5
=============================================================================
