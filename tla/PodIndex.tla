----------------------------- MODULE PodIndex -----------------------------
(***************************************************************************)
(* The index of pods (controller/k8s/index/src/pod.rs): a map from keys to  *)
(* a pod's labels, its default policy and its ports.  A port holds its      *)
(* name, the name of the Server it is linked to (or None), and the value of *)
(* the watch channel server_tx sends to: the Rx of a default policy or of a *)
(* Server.  The lookups map holds the receiving half of that channel.       *)
(***************************************************************************)
EXTENDS ServerIndex

(* A ServerRx, the receiver of a Server's channel or of a default policy's. *)
DefaultRx(mode) == <<"default", mode>>
ServerRx(s)     == <<"server", s>>

Rx == ({"default"} \X Modes) \cup ({"server"} \X ServerKeys)

Port == [name : PortNames \cup {None}, server : ServerNames \cup {None}, rx : Rx]

Pod == [labels : PodLabels, default : Modes, ports : PMap(PortNumbers, Port)]

(* The mode of a pod: its annotation's, else the namespace's, which is      *)
(* always the cluster's.                                                    *)
DefaultAllow(obj) ==
  IF obj.annotation \in Modes THEN obj.annotation ELSE ClusterDefault

(* The container ports extract_ports keeps: TCP, and the first of each      *)
(* number.                                                                  *)
TcpPorts(ports) == {i \in DOMAIN ports : ports[i].tcp}

FirstPort(ports, p) ==
  CHOOSE i \in TcpPorts(ports) :
    /\ ports[i].number = p
    /\ \A j \in TcpPorts(ports) : ports[j].number = p => i <= j

ExtractPorts(ports, rx) ==
  [p \in {ports[i].number : i \in TcpPorts(ports)} |->
     [name |-> ports[FirstPort(ports, p)].name, server |-> None, rx |-> rx]]

(* The order a HashMap yields its entries in is arbitrary.  A Pick gives    *)
(* the first of every nonempty set of servers in one such order: the choice *)
(* from a set is the choice from each smaller set that still holds it.      *)
Picks ==
  {f \in [(SUBSET ServerKeys) \ {{}} -> ServerKeys] :
     /\ \A S \in DOMAIN f : f[S] \in S
     /\ \A S, T \in DOMAIN f : T \subseteq S /\ f[S] \in T => f[T] = f[S]}

(* collect_port: the ports of a pod a server's port reference designates    *)
(* (a number the pod does not have is skipped by link_server_port).         *)
CollectPort(ports, ref) ==
  {p \in DOMAIN ports : p = ref \/ (ref \in PortNames /\ ports[p].name = ref)}

(* The servers that select a pod of namespace ns with these labels, and p   *)
(* among its ports.                                                         *)
MatchingServers(servers, ns, labels, ports, p) ==
  {s \in IterMatching(servers, ns, labels) : p \in CollectPort(ports, servers[s].port)}

(* MUTANT: the last matching server wins, a link that exists or not.        *)
LinkPortRelinks(port, matching, default, pick) ==
  IF matching = {}
    THEN [port EXCEPT !.server = None, !.rx = DefaultRx(default)]
    ELSE [port EXCEPT !.server = pick[matching][2], !.rx = ServerRx(pick[matching])]

(* MUTANT: a port is never unlinked.                                        *)
LinkPortNeverUnlinks(port, matching, default, pick) ==
  IF matching = {} \/ port.server # None THEN port
  ELSE [port EXCEPT !.server = pick[matching][2], !.rx = ServerRx(pick[matching])]

(* What link_servers does with one port.  Unless some server matches it the *)
(* port gets the default policy; a port that is linked to a server already  *)
(* stays as it is, whichever servers match (link_server_port returns        *)
(* early); otherwise the first matching server gets it.                     *)
LinkPort(port, matching, default, pick) ==
  IF matching = {}
    THEN [port EXCEPT !.server = None, !.rx = DefaultRx(default)]
  ELSE IF port.server # None
    THEN port
    ELSE [port EXCEPT !.server = pick[matching][2], !.rx = ServerRx(pick[matching])]

(* Pod::link_servers                                                        *)
LinkPod(k, pod, servers, pick) ==
  [pod EXCEPT !.ports =
     [p \in DOMAIN pod.ports |->
        LinkPort(pod.ports[p],
                 MatchingServers(servers, k[1], pod.labels, pod.ports, p),
                 pod.default, pick)]]

(* PodIndex::link_servers, of namespace ns                                  *)
LinkServers(pods, ns, servers, pick) ==
  [k \in DOMAIN pods |->
     IF k[1] = ns THEN LinkPod(k, pods[k], servers, pick) ELSE pods[k]]

(* MUTANT: the port forgets its server, but is not sent the default policy. *)
ResetPortUnsent(port, name, default) ==
  IF port.server = name THEN [port EXCEPT !.server = None] ELSE port

(* A port linked to the server of this name gets the default policy.        *)
ResetPort(port, name, default) ==
  IF port.server = name
    THEN [port EXCEPT !.server = None, !.rx = DefaultRx(default)]
    ELSE port

(* PodIndex::reset_server, for the pods of s's namespace.                   *)
ResetServer(pods, s) ==
  [k \in DOMAIN pods |->
     IF k[1] # s[1] THEN pods[k]
     ELSE [pods[k] EXCEPT !.ports =
             [p \in DOMAIN pods[k].ports |->
                ResetPort(pods[k].ports[p], s[2], pods[k].default)]]]

(* The Vacant case of PodIndex::apply, once the node is known.              *)
NewPod(k, obj, servers, pick) ==
  LET default == DefaultAllow(obj)
  IN  LinkPod(k, [labels |-> obj.labels, default |-> default,
                  ports |-> ExtractPorts(obj.ports, DefaultRx(default))],
              servers, pick)

(* The Occupied case of PodIndex::apply: only labels may change.            *)
UpdatePod(k, pod, obj, servers, pick) ==
  IF pod.labels = obj.labels
    THEN pod
    ELSE LinkPod(k, [pod EXCEPT !.labels = obj.labels], servers, pick)

----------------------------------------------------------------------------

(* The server a port is linked to is in the index, and its receiver is what *)
(* the port's channel holds; a port that is not linked holds the default.   *)
PortConsistent(ns, port, default, servers) ==
  IF port.server = None
    THEN port.rx = DefaultRx(default)
    ELSE /\ <<ns, port.server>> \in DOMAIN servers
         /\ port.rx = ServerRx(<<ns, port.server>>)

PodConsistent(k, pod, servers) ==
  \A p \in DOMAIN pod.ports :
    PortConsistent(k[1], pod.ports[p], pod.default, servers)
=============================================================================
