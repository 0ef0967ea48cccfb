-------------------------- MODULE MCProxyDecision --------------------------
(***************************************************************************)
(* Two authorizations: one of every combination of what a spec can say, the *)
(* other of a few that overlap with it and with the kubelet, before and     *)
(* after _health_check in the order of the names.                           *)
(***************************************************************************)
EXTENDS ProxyDecision

CONSTANTS
  kubelet, inside, outside, six,      \* addresses, the last of IPv6
  web, sa, ours, theirs, cluster_local,
  app, tier,                          \* label keys
  front, back,                        \* label values
  srv, other                          \* Servers

IPv4 == {kubelet, inside, outside}
Pods == {kubelet, inside}
ClusterPods == {Pods}
LocalDomain == <<cluster_local>>
IdentityLabels == {Star, web, sa, ours, theirs, cluster_local}

Label(k, v)    == [x \in {k} |-> v]
NoLabels       == [x \in {} |-> None]
LabelChoices   == {NoLabels, Label(app, front), Label(app, back), Label(tier, front)}

ByName(n)      == [name |-> n, selector |-> None]
ByLabels(m, e) == [name |-> None, selector |-> [matchLabels |-> m, matchExpressions |-> e]]
Expr(op, vs)   == [key |-> app, operator |-> op, values |-> vs]

ServerRefs ==
  {ByName(srv), ByName(other), ByName(None),
   [name |-> srv, selector |-> [matchLabels |-> NoLabels, matchExpressions |-> {}]],
   ByLabels(NoLabels, {}), ByLabels(Label(app, front), {})}
  \cup {ByLabels(m, {Expr(op, vs)}) :
        m \in {NoLabels, Label(app, front)}, op \in Operators, vs \in {{}, {front}, {front, back}}}

NetworkLists ==
  {None, {}, {Network(IPv4, {}), Network({six}, {})},
   {Network(IPv4, {Pods})}, {Network(IPv4, {{inside}, {outside}}), Network({inside}, {})},
   {Network(BadCidr, {})}, {Network({six}, {BadCidr})}}

(* Both lists are there, as serde has it.                                   *)
Mtls(tls, ids, sas) ==
  [unauthenticatedTLS |-> tls, identities |-> ids, serviceAccounts |-> sas]

MtlsChoices ==
  {None, Mtls(TRUE, {}, {}), Mtls(FALSE, {}, {})}
  \cup {Mtls(FALSE, ids, {}) :
        ids \in {{<<Star>>}, {<<Star, ours, cluster_local>>}, {<<web, ours, cluster_local>>},
                 {<<Star, cluster_local>>, <<sa>>}}}
  \cup {Mtls(FALSE, ids, {[name |-> web, namespace |-> ns]}) :
        ids \in {{}, {<<sa>>}}, ns \in {None, theirs}}

SpecsOf(refs, nets, mtls) ==
  {[server |-> r, client |-> [networks |-> n, unauthenticated |-> u, meshTLS |-> m]] :
   r \in refs, n \in nets, u \in BOOLEAN, m \in mtls}

AnySpec ==
  SpecsOf({ByName(srv)}, NetworkLists, MtlsChoices)
    \cup SpecsOf(ServerRefs, {None, {Network(IPv4, {Pods})}}, {Mtls(FALSE, {<<Star>>}, {})})

FewSpecs ==
  SpecsOf({ByName(srv), ByLabels(Label(app, front), {})}, {None, {Network(IPv4, {Pods})}},
          {Mtls(FALSE, {<<Star>>}, {})})

(* What the CRD admits: one list, and no exceptions unless there are some.  *)
CrdSpecs ==
  {[server |-> ByName(srv), client |-> [networks |-> n, unauthenticated |-> FALSE, meshTLS |-> m]] :
     n \in {None, {Network(IPv4, None), Network({six}, None)}},
     m \in {Mtls(FALSE, {<<Star>>}, None),
            Mtls(FALSE, None, {[name |-> web, namespace |-> None]})}}
  \cup {[server |-> ByName(srv),
         client |-> [networks |-> None, unauthenticated |-> TRUE, meshTLS |-> None]]}

Two == [n \in {1, 3} |-> IF n = 3 THEN AnySpec ELSE FewSpecs]
Crd == [n \in {1, 3} |-> CrdSpecs]

AllModes == [allow : {"all", "cluster"}, authenticated : BOOLEAN]
              \cup {[allow |-> "none", authenticated |-> FALSE]}

Ids ==
  {<<web, ours, cluster_local>>, <<web, theirs, cluster_local>>,
   <<ours, cluster_local>>, <<cluster_local>>, <<sa>>}

Requests ==
  {q \in [method : {"POST", "GET"}, contentType : {"application/json", "text/plain", None},
          port : {80, 81, None}, ip : IPv4 \cup {six},
          tls : {None} \cup {[id |-> i] : i \in Ids \cup {None}}] :
     \/ (q.method = "POST" /\ q.contentType = "application/json" /\ q.port = 80)
     \/ (q.ip = kubelet /\ q.tls = None)}
=============================================================================
