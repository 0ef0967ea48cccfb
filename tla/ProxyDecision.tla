--------------------------- MODULE ProxyDecision ---------------------------
(***************************************************************************)
(* What a proxy decides of a connection, given the ServerAuthorizations of  *)
(* the port's namespace and the Server, or else the default mode, that the  *)
(* port's policy comes from: the functions of Authorize applied one after   *)
(* the other, as a controller and a client that start now would, against    *)
(* what the design and the CRD say of each object.                          *)
(***************************************************************************)
EXTENDS Authorize

CONSTANTS
  Names,        \* of authorizations: numbers, in the order of the names
  Specs,        \* for each name, the specs it may have
  Modes,        \* default-allow modes
  ServerName,   \* of the Server
  ServerLabels, \* the labels it may have
  KubeletIps,   \* of the pod's node
  WatchedPort,
  HttpRequests  \* what the HTTP API may be asked

ASSUME NamesAssumption == Names \subseteq Nat \ {HealthCheck}

(* Absent values stand out here, too.                                       *)
ASSUME NoneAssumption ==
  /\ WatchedPort # None
  /\ \A n \in Names \cup {DefaultName, HealthCheck}, b, c \in BOOLEAN :
       [name |-> n, authn |-> b, tls |-> c] # None

(* What serde and split make of an authorization: a selector of the API's   *)
(* shape, and identities of at least one label.                             *)
ASSUME SpecsAssumption ==
  \A n \in Names : \A o \in Specs[n] :
    /\ o.server.selector \in Selectors \cup {None}
    /\ o.client.unauthenticated \in BOOLEAN
    /\ o.client.meshTLS # None =>
         /\ o.client.meshTLS.unauthenticatedTLS \in BOOLEAN
         /\ \A id \in Listed(o.client.meshTLS.identities) : id \in Seq(Parts) /\ id # <<>>

(* A node in the index has at least one address (try_from_node).            *)
ASSUME ServerAssumption == ServerLabels \subseteq LabelMaps /\ KubeletIps # {}

ASSUME ModesAssumption == \A m \in Modes : m.authenticated \in BOOLEAN

(* A connection is from an address; the name in a certificate is a name,    *)
(* not a pattern.                                                           *)
ASSUME RequestsAssumption ==
  \A q \in HttpRequests :
    /\ q.ip \in V4 \cup V6
    /\ q.tls # None /\ q.tls.id # None =>
         q.tls.id \in Seq(Parts) /\ q.tls.id # <<>> /\ Head(q.tls.id) # Star

VARIABLES
  objs,   \* a partial map from names to specs
  labels, \* the Server's
  mode    \* None when the port is linked to the Server

vars == <<objs, labels, mode>>

Init ==
  /\ objs = [n \in {} |-> None]
  /\ labels \in ServerLabels
  /\ mode \in Modes \cup {None}

Apply(n) ==
  /\ \E o \in Specs[n] : objs' = [k \in DOMAIN objs \cup {n} |-> IF k = n THEN o ELSE objs[k]]
  /\ UNCHANGED <<labels, mode>>

Delete(n) ==
  /\ n \in DOMAIN objs
  /\ objs' = [k \in DOMAIN objs \ {n} |-> objs[k]]
  /\ UNCHANGED <<labels, mode>>

(* The Server appears, is relabelled, or is gone.                           *)
Relink ==
  /\ labels' \in ServerLabels /\ mode' \in Modes \cup {None}
  /\ UNCHANGED objs

Next == Relink \/ \E n \in Names : Apply(n) \/ Delete(n)

Spec == Init /\ [][Next]_vars

----------------------------------------------------------------------------
(* The code.                                                                *)

(* reset_authzs with the list of objs: one object that serde refuses makes  *)
(* the list an error, and nothing is indexed.                               *)
Indexed ==
  IF \A n \in DOMAIN objs : Decodes(objs[n]) THEN {n \in DOMAIN objs : Valid(objs[n])}
                                             ELSE {}

ServerPolicy ==
  [n \in {k \in Indexed : Selects(objs[k], ServerName, labels)} |-> MkClients(objs[n])]

(* Rx::get.                                                                 *)
Policy == WithKubelet(IF mode = None THEN ServerPolicy ELSE ModePolicy(mode), KubeletIps)

Inbound == ToServer(Policy)

Answer(q) == Serve([p \in {WatchedPort} |-> Inbound], q)

Admitted(q) == Answer(q).authorization # None

----------------------------------------------------------------------------
(* The design (DESIGN.md) and the CRD (k8s/crds/authz.yml).                 *)

(* "The `*` prefix can be used to match all identities in a domain.  An     *)
(* identity string of `*` indicates that all authentication clients are     *)
(* authorized."                                                             *)
Globs(pattern, id) ==
  \/ pattern = id \/ pattern = <<Star>>
  \/ \E prefix \in {SubSeq(id, 1, k) : k \in 1 .. Len(id)} :
       id = prefix \o Tail(pattern) /\ Head(pattern) = Star

(* "<serviceaccount>.<namespace>.serviceaccount.identity.linkerd.<domain>", *)
(* where "if unset, the authorization's namespace is used".                 *)
IsOf(sa, id) ==
  \E ns \in {Namespace} \cup {sa.namespace} :
    /\ id = <<sa.name, ns>> \o Domain
    /\ sa.namespace \in {None, ns}

Authenticates(m, tls) ==
  \/ m.unauthenticatedTLS
  \/ /\ tls.id # None
     /\ \/ \E pattern \in Listed(m.identities) : Globs(pattern, tls.id)
        \/ \E sa \in Listed(m.serviceAccounts) : IsOf(sa, tls.id)

(* "If no networks are specified, the authorization applies to clients in   *)
(* all networks."                                                           *)
Covers(networks, ip) ==
  Listed(networks) # {} =>
    \E n \in networks : ip \in n.net /\ \A e \in Listed(n.except) : ip \notin e

Authorizes(o, q) ==
  /\ Covers(o.client.networks, q.ip)
  /\ \/ o.client.unauthenticated
     \/ q.tls # None /\ Authenticates(o.client.meshTLS, q.tls)

(* "References servers in the same namespace by name or label selector."    *)
References(o) ==
  IF o.server.name # None THEN o.server.name = ServerName
                          ELSE Selected(o.server.selector, labels)

(* "Allow [un|mesh-]authenticated from everywhere | within the cluster",    *)
(* "Deny".                                                                  *)
ModeAllows(q) ==
  /\ mode.allow # "none"
  /\ mode.allow = "cluster" => \E net \in ClusterNets : q.ip \in net
  /\ mode.authenticated => q.tls # None /\ q.tls.id # None

Asks(q) ==
  q.method = "POST" /\ q.contentType = "application/json" /\ q.port = WatchedPort

----------------------------------------------------------------------------
(* Properties.                                                              *)

(* A connection to a port of a Server is admitted if and only if it is from *)
(* the kubelet, or a valid authorization that references the Server         *)
(* authorizes it: for every list of authorizations, networks and their      *)
(* exceptions, TLS, identities, globs and service accounts ("clients must   *)
(* be explicitly authorized", DESIGN.md:125; authz.rs:163-258,              *)
(* client/src/lib.rs:226-293).                                              *)
DecisionsRight ==
  mode = None =>
    \A q \in HttpRequests :
      Admitted(q) <=>
        /\ Asks(q)
        /\ \/ q.ip \in KubeletIps
           \/ \E n \in DOMAIN objs :
                Valid(objs[n]) /\ References(objs[n]) /\ Authorizes(objs[n], q)

(* A connection to a port without a Server is admitted as the design's list *)
(* of default modes says, and always from the kubelet (DESIGN.md:132-138,   *)
(* 230; default_allow.rs:79-148).                                           *)
DefaultsRight ==
  mode # None =>
    \A q \in HttpRequests :
      Admitted(q) <=> Asks(q) /\ (q.ip \in KubeletIps \/ ModeAllows(q))

(* The authorization an answer names is one that by itself admits the       *)
(* connection, and what it says of it is true: that it has TLS, and that    *)
(* its client is known by its identity (controller/grpc/src/lib.rs:217-305).*)
NamesItsReason ==
  mode = None =>
    \A q \in HttpRequests :
      LET reason == Answer(q).authorization
      IN  reason # None =>
            /\ IF reason.name = HealthCheck THEN q.ip \in KubeletIps
               ELSE References(objs[reason.name]) /\ Authorizes(objs[reason.name], q)
            /\ reason.tls => q.tls # None
            /\ reason.authn => q.tls # None /\ q.tls.id # None

(* A client never takes a policy the controller sends for an error, which   *)
(* would make it start its watch anew at once, and for ever (client/src/    *)
(* lib.rs:330-332, watch_ports.rs:55-66).                                   *)
ClientConverts == Converts(Inbound)
=============================================================================
