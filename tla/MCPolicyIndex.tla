--------------------------- MODULE MCPolicyIndex ---------------------------
(***************************************************************************)
(* The object sets of the finite instances of PolicyIndex.  Each .cfg picks *)
(* the ones that make one part of the index interesting and keeps the rest  *)
(* of the cluster still or absent.                                          *)
(***************************************************************************)
EXTENDS PolicyIndex

CONSTANTS ns, n1, ip1, ip2, p, a, b, x, y, http, az

(* One TCP port; or: a UDP port, a named port, a second port of the same    *)
(* number that is skipped, and an unnamed one.                              *)
TcpPort(number, name) == [number |-> number, name |-> name, tcp |-> TRUE]
PlainPorts == <<TcpPort(80, None)>>
ManyPorts  == <<[number |-> 90, name |-> http, tcp |-> FALSE], TcpPort(80, http),
                TcpPort(80, None), TcpPort(90, None)>>
PlainLists == {PlainPorts}
ManyLists  == {ManyPorts}
AllLists   == {PlainPorts, ManyPorts}

NoObjs(K) == [k \in K |-> {}]

(* Nodes: none; with addresses that never change; that also may come        *)
(* without addresses.                                                       *)
OneCidr(n)    == IF n = n1 THEN ip1 ELSE ip2
NodesFixed    == [n \in NodeNames |-> {OneCidr(n)}]
NodesNoCidr   == [n \in NodeNames |-> {OneCidr(n), None}]
NodesNone     == NoObjs(NodeNames)

(* Pods: none; that may be on any node, or not scheduled yet, with labels   *)
(* of their own that never change; on n1 with any labels.                   *)
PodOn(n, l, ports) == [labels |-> l, annotation |-> None, node |-> n, ports |-> ports]
PodsAnyNode  == [k \in PodKeys |->
                   {PodOn(n, IF k[2] = p THEN x ELSE y, l) :
                      n \in NodeNames \cup {None}, l \in PortLists}]
PodsRelabel  == [k \in PodKeys |->
                   {[PodOn(n1, l, ports) EXCEPT !.annotation = m] :
                      l \in PodLabels, ports \in PortLists, m \in Modes \cup {None}}]
PodsNone     == NoObjs(PodKeys)

(* Servers: none; that select x, y or both on port 80, by number or name;   *)
(* a for x and b for y only; that differ in what authorizations look at in  *)
(* namespace ns and in other namespaces never change; whose protocol is     *)
(* edited; of which at most one is there, whichever it is.                  *)
Srv(labels, selector, port, protocol) ==
  [labels |-> labels, selector |-> selector, port |-> port, protocol |-> protocol]
ServersOverlap  == [s \in ServerKeys |->
                      {Srv(x, {x}, http, None), Srv(x, {x, y}, 80, None),
                       Srv(x, {y}, 80, None), Srv(x, {y}, 90, None)}]
ServersDisjoint == [s \in ServerKeys |->
                      LET l == IF s[2] = a THEN x ELSE y
                      IN  {Srv(x, {l}, http, None), Srv(x, {l}, 90, None), Srv(x, {}, 80, None)}]
ServersLabels   == [s \in ServerKeys |->
                      IF s[1] # ns THEN {Srv(x, {x}, 80, None)}
                      ELSE {Srv(l, {x}, n, "opaque") : l \in ServerLabels, n \in PortNumbers}]
ServersProtocol == [s \in ServerKeys |->
                      {Srv(x, {x}, n, m) : n \in PortNumbers, m \in ProxyProtocols \cup {None}}]
ServersOne      == [s \in ServerKeys |-> {Srv(x, {x}, 80, None)}]
ServersNone     == NoObjs(ServerKeys)

(* Authorizations: none; in ns by name, by selector, with other clients,    *)
(* and invalid in each of the ways mk_authz refuses, in other namespaces az *)
(* only.                                                                    *)
Auth(name, selector, clients) ==
  [name |-> name, selector |-> selector, clients |-> clients]
AuthzsAll  == [k \in AuthzKeys |->
                 IF k[1] # ns THEN IF k[2] = az THEN {Auth(a, None, "mtls")} ELSE {}
                 ELSE {Auth(a, None, "mtls"), Auth(None, {x}, "mtls"), Auth(None, {x}, "any"),
                       Auth(a, {x}, "mtls"), Auth(None, None, "any"), Auth(a, None, None)}]
AuthzsNone == NoObjs(AuthzKeys)
=============================================================================
