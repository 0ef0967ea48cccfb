----------------------------- MODULE Authorize -----------------------------
(***************************************************************************)
(* From a ServerAuthorization to the proxy's decision, as functions: what   *)
(* serde decodes (controller/k8s/api/src/polixy/authz.rs), what the index   *)
(* makes of it (mk_authz, mk_mtls_authn), the default policies              *)
(* (default_allow.rs), the kubelet's authorization (lookup.rs), what is     *)
(* sent (to_authz, controller/grpc), what the client makes of that and how  *)
(* it decides (client/src/lib.rs).                                          *)
(*                                                                          *)
(* An address is a member of V4 or V6, a network the set of its addresses.  *)
(* An identity is the sequence of its labels, so that "*.ns" is             *)
(* <<Star, ns>>; Domain is what follows a service account and its namespace *)
(* in an identity.  Lists whose order does not matter are sets.             *)
(***************************************************************************)
EXTENDS Labels, Naturals, Sequences

CONSTANTS
  V4, V6,      \* addresses of the two families
  BadCidr,     \* a CIDR that does not parse
  Parts,       \* the labels identities consist of
  Star,        \* the label "*"
  Domain,      \* serviceaccount.identity.linkerd.<identity domain>
  Namespace,   \* of the authorizations
  ClusterNets, \* --cluster-networks
  DefaultName, \* _all_authed and the like, among the names of authorizations,
  HealthCheck, \* and _health_check: numbers, in the order of the names
  None

(* The arguments of the controller: structopt takes no --cluster-networks   *)
(* without a network.                                                       *)
ASSUME ArgsAssumption == Domain \in Seq(Parts) /\ ClusterNets # {}

(* None is no label, so that an absent namespace is not one.                *)
ASSUME AbsentAssumption == None \notin Parts

ASSUME NameAssumption == DefaultName \in Nat /\ HealthCheck \in Nat /\ DefaultName < HealthCheck

IpNets == SUBSET V4 \cup SUBSET V6

Network(net, except) == [net |-> net, except |-> except]

AllNets == {Network(V4, {}), Network(V6, {})}

Unauthenticated    == [kind |-> "Unauthenticated"]
TlsUnauthenticated == [kind |-> "TlsUnauthenticated"]
TlsAuthenticated(identities, suffixes) ==
  [kind |-> "TlsAuthenticated", identities |-> identities, suffixes |-> suffixes]

----------------------------------------------------------------------------
(* The index.                                                               *)

Listed(list) == IF list = None THEN {} ELSE list

(* serde: identities, serviceAccounts and except are required, although     *)
(* the CRD does not require them; the other fields are optional.            *)
Decodes(o) ==
  /\ \A n \in Listed(o.client.networks) : n.except # None
  /\ o.client.meshTLS # None =>
       o.client.meshTLS.identities # None /\ o.client.meshTLS.serviceAccounts # None

(* mk_authz and mk_mtls_authn are Ok.                                       *)
Valid(o) ==
  /\ (o.server.name = None) # (o.server.selector = None)
  /\ \A n \in Listed(o.client.networks) : BadCidr \notin {n.net} \cup Listed(n.except)
  /\ ~o.client.unauthenticated =>
       LET m == o.client.meshTLS
       IN  /\ m # None
           /\ \/ m.unauthenticatedTLS
              \/ Listed(m.identities) # {} \/ Listed(m.serviceAccounts) # {}

(* MUTANT: a service account is taken to be of the authorization's own      *)
(* namespace.                                                               *)
ServiceAccountLocal(sa) == <<sa.name, Namespace>> \o Domain

(* The identity of a service account, in the authorization's namespace when *)
(* it names none.                                                           *)
ServiceAccount(sa) ==
  <<sa.name, IF sa.namespace = None THEN Namespace ELSE sa.namespace>> \o Domain

(* mk_mtls_authn: "*" and "*.s" are suffixes, with the star cut off.        *)
MkMtlsAuthn(m) ==
  IF m.unauthenticatedTLS THEN TlsUnauthenticated
  ELSE LET globs == {id \in m.identities : Head(id) = Star}
       IN  TlsAuthenticated(
             (m.identities \ globs) \cup {ServiceAccount(sa) : sa \in m.serviceAccounts},
             {Tail(id) : id \in globs})

(* mk_authz, of an authorization that decodes and is valid: its clients.    *)
MkClients(o) ==
  [networks       |-> IF o.client.networks = None THEN AllNets ELSE o.client.networks,
   authentication |-> IF o.client.unauthenticated THEN Unauthenticated
                                                  ELSE MkMtlsAuthn(o.client.meshTLS)]

(* filter_selected, of the server with this name and these labels.          *)
Selects(o, name, labels) ==
  IF o.server.name # None THEN o.server.name = name
                          ELSE Matches(o.server.selector, labels)

AnyIdentity == TlsAuthenticated({}, {<<>>})

(* MUTANT: cluster modes allow all networks.                                *)
ModePolicyAnyNet(mode) ==
  [n \in IF mode.allow = "none" THEN {} ELSE {DefaultName} |->
     [networks       |-> {Network(c, {}) : c \in {V4, V6}},
      authentication |-> IF mode.authenticated THEN AnyIdentity ELSE Unauthenticated]]

(* DefaultAllows::spawn and get: allow is "all" networks, the "cluster"'s   *)
(* or "none", which is deny.                                                *)
ModePolicy(mode) ==
  [n \in IF mode.allow = "none" THEN {} ELSE {DefaultName} |->
     [networks       |-> {Network(c, {}) :
                           c \in IF mode.allow = "cluster" THEN ClusterNets ELSE {V4, V6}},
      authentication |-> IF mode.authenticated THEN AnyIdentity ELSE Unauthenticated]]

(* mk_server: the policy with the kubelet's authorization.                  *)
WithKubelet(policy, kubelet) ==
  [n \in DOMAIN policy \cup {HealthCheck} |->
     IF n = HealthCheck
     THEN [networks |-> {Network({ip}, {}) : ip \in kubelet},
           authentication |-> Unauthenticated]
     ELSE policy[n]]

----------------------------------------------------------------------------
(* The message.                                                             *)

(* MUTANT: networks are sent as they are.                                   *)
ToAuthzAsIs(n, clients) ==
  [labels |-> [name |-> n, authn |-> clients.authentication.kind = "TlsAuthenticated",
               tls |-> clients.authentication.kind # "Unauthenticated"],
   networks |-> clients.networks, authentication |-> clients.authentication]

(* to_authz: no networks are all networks.                                  *)
ToAuthz(n, clients) ==
  [labels |-> [name |-> n, authn |-> clients.authentication.kind = "TlsAuthenticated",
               tls |-> clients.authentication.kind # "Unauthenticated"],
   networks |-> IF clients.networks = {} THEN AllNets ELSE clients.networks,
   authentication |-> clients.authentication]

(* to_server: in the order of the names.                                    *)
ToServer(policy) == [n \in DOMAIN policy |-> ToAuthz(n, policy[n])]

(* TryFrom<proto::Server>, which is an error for the whole message.  Its    *)
(* other errors are of parts that to_server always sends.                   *)
Converts(server) == \A n \in DOMAIN server : server[n].networks # {}

----------------------------------------------------------------------------
(* The client.                                                              *)

(* Network::contains.                                                       *)
Contains(network, ip) ==
  ip \in network.net /\ \A e \in network.except : ip \notin e

(* MUTANT: a suffix matches the name that it is.                            *)
SuffixContainsSelf(parts, id) ==
  \E k \in 0 .. Len(id) : SubSeq(id, k + 1, Len(id)) = parts

(* Suffix: ".parts" ends the name, or everything does if there are none.    *)
SuffixContains(parts, id) ==
  \/ parts = <<>>
  \/ \E k \in 1 .. Len(id) : SubSeq(id, k + 1, Len(id)) = parts

(* The loops of check_tls and check_non_tls, for one authorization.  tls is *)
(* None, or the connection's TLS, whose id is None without a certificate.   *)
Permits(authz, ip, tls) ==
  LET authn == authz.authentication
  IN  /\ \E network \in authz.networks : Contains(network, ip)
      /\ \/ authn.kind = "Unauthenticated"
         \/ tls # None /\ authn.kind = "TlsUnauthenticated"
         \/ /\ tls # None /\ authn.kind = "TlsAuthenticated" /\ tls.id # None
            /\ \/ tls.id \in authn.identities
               \/ \E parts \in authn.suffixes : SuffixContains(parts, tls.id)

(* check_tls and check_non_tls: the labels of the first one that permits.   *)
Check(inbound, ip, tls) ==
  LET permitting == {n \in DOMAIN inbound : Permits(inbound[n], ip, tls)}
  IN  IF permitting = {} THEN None
      ELSE inbound[CHOOSE n \in permitting : \A m \in permitting : n <= m].labels

Response(status) == [status |-> status, authorization |-> None]

(* http_api::serve, when ports are watched with these policies.  A body     *)
(* that does not decode has no port: serve is an error, and the connection  *)
(* is closed without an answer.                                             *)
Serve(ports, q) ==
  IF q.method # "POST" THEN Response("METHOD_NOT_ALLOWED")
  ELSE IF q.contentType # "application/json" THEN Response("BAD_REQUEST")
  ELSE IF q.port = None THEN Response("ABORTED")
  ELSE IF q.port \notin DOMAIN ports THEN Response("NOT_FOUND")
  ELSE [status |-> "OK", authorization |-> Check(ports[q.port], q.ip, q.tls)]
=============================================================================
