--------------------------- MODULE DecisionProofs ---------------------------
(***************************************************************************)
(* The proxy's decision, for every input: that selectors match what         *)
(* Kubernetes selects, but for NotIn; that the suffixes the client compares *)
(* are the globs of the design; that no policy of the controller is an      *)
(* error for the client; and, from these, that the decision is the one the  *)
(* design asks for and names the authorization that explains it.            *)
(***************************************************************************)
EXTENDS ProxyDecision, SequenceTheorems, WellFoundedInduction, TLAPS

----------------------------------------------------------------------------
(* Selectors.                                                               *)

(* An expression that is In matches as it should.                           *)
LEMMA InMatches ==
  ASSUME NEW e, e.operator = "In", NEW l
  PROVE  ExpressionMatches(e, l) <=> Holds(e, l)
BY DEF ExpressionMatches, Holds, Has

(* The matchLabels of a selector, as requirements.                          *)
LEMMA MatchLabelsHold ==
  ASSUME NEW m, NEW l
  PROVE  (\A k \in DOMAIN m : Has(l, k, {m[k]}))
           <=> \A r \in {[key |-> k, operator |-> "In", values |-> {m[k]}] : k \in DOMAIN m} :
                 Holds(r, l)
<1>1. ASSUME NEW k
      PROVE  Holds([key |-> k, operator |-> "In", values |-> {m[k]}], l)
               <=> Has(l, k, {m[k]})
  BY DEF Holds
<1> QED BY <1>1

(* A selector none of whose expressions is NotIn matches exactly the labels *)
(* that Kubernetes would select with it (labels.rs:61-73, 132-147).         *)
THEOREM SelectorsRight ==
  ASSUME NEW s \in Selectors, \A e \in s.matchExpressions : e.operator = "In",
         NEW l \in LabelMaps
  PROVE  Matches(s, l) <=> Selected(s, l)
<1> DEFINE byLabels == {[key |-> k, operator |-> "In", values |-> {s.matchLabels[k]}] :
                        k \in DOMAIN s.matchLabels}
<1>1. (\A e \in s.matchExpressions : ExpressionMatches(e, l))
        <=> \A e \in s.matchExpressions : Holds(e, l)
  BY InMatches
<1>2. (\A k \in DOMAIN s.matchLabels : Has(l, k, {s.matchLabels[k]}))
        <=> \A r \in byLabels : Holds(r, l)
  BY MatchLabelsHold
<1>3. Requirements(s) = s.matchExpressions \cup byLabels BY DEF Requirements
<1> HIDE DEF byLabels
<1> QED BY <1>1, <1>2, <1>3 DEF Matches, Selected

(* A NotIn expression about a label that is there matches exactly when it   *)
(* should not, whatever the values: it is In (labels.rs:141-145).           *)
THEOREM NotInInverted ==
  ASSUME NEW e \in Expressions, e.operator = "NotIn", NEW l \in LabelMaps, e.key \in DOMAIN l
  PROVE  ExpressionMatches(e, l) <=> ~Holds(e, l)
BY DEF ExpressionMatches, Holds, Has

----------------------------------------------------------------------------
(* Identities.                                                              *)

(* Cutting an identity at k.                                                *)
LEMMA CutAt ==
  ASSUME NEW S, NEW id \in Seq(S), NEW parts \in Seq(S), NEW k \in 1 .. Len(id)
  PROVE  id = SubSeq(id, 1, k) \o parts <=> SubSeq(id, k + 1, Len(id)) = parts
<1> DEFINE head == SubSeq(id, 1, k)
           tail == SubSeq(id, k + 1, Len(id))
<1>1. head \in Seq(S) /\ Len(head) = k /\ \A i \in 1 .. k : head[i] = id[i]
  OBVIOUS
<1>2. tail \in Seq(S) /\ Len(tail) = Len(id) - k
      /\ \A i \in 1 .. Len(id) - k : tail[i] = id[k + i]
  OBVIOUS
<1> HIDE DEF head, tail
<1>3. id = head \o tail
  <2>1. /\ head \o tail \in Seq(S)
        /\ Len(head \o tail) = Len(head) + Len(tail)
        /\ \A i \in 1 .. Len(head) + Len(tail) :
             (head \o tail)[i] = IF i <= Len(head) THEN head[i] ELSE tail[i - Len(head)]
    BY <1>1, <1>2, ConcatProperties
  <2>2. Len(head \o tail) = Len(id) BY <1>1, <1>2, <2>1
  <2>3. ASSUME NEW i \in 1 .. Len(id) PROVE (head \o tail)[i] = id[i]
    <3>1. CASE i <= k BY <1>1, <1>2, <2>1, <3>1
    <3>2. CASE i > k
      <4>1. i - k \in 1 .. Len(id) - k BY <3>2
      <4>2. tail[i - k] = id[k + (i - k)] BY <1>2, <4>1
      <4> QED BY <1>1, <1>2, <2>1, <3>2, <4>2
    <3>3. i <= k \/ i > k
      <4>1. i \in Int /\ k \in Int BY LenProperties
      <4> QED BY <4>1
    <3> QED BY <3>1, <3>2, <3>3, Zenon
  <2> QED BY <2>1, <2>2, <2>3, SeqEqual
<1>4. head \o parts = head \o tail => parts = tail
  <2>1. \A s, t, v \in Seq(S) : s \o t = s \o v => t = v BY ConcatSimplifications
  <2> QED BY <1>1, <1>2, <2>1
<1> QED BY <1>3, <1>4 DEF head, tail

(* The suffix that mk_mtls_authn makes of "*" or "*.parts" contains an      *)
(* identity exactly if the design's glob matches it (authz.rs:224-236,      *)
(* client/src/lib.rs:414-438): neither what equals the parts themselves nor *)
(* what merely ends with their characters.                                  *)
THEOREM SuffixesAreGlobs ==
  ASSUME NEW S, NEW id \in Seq(S), id # <<>>, Head(id) # Star,
         NEW pattern \in Seq(S), pattern # <<>>, Head(pattern) = Star
  PROVE  SuffixContains(Tail(pattern), id) <=> Globs(pattern, id)
<1> DEFINE parts == Tail(pattern)
<1>1. parts \in Seq(S) BY HeadTailProperties
<1>2. pattern = <<Star>> <=> parts = <<>>
  <2>1. Len(parts) = Len(pattern) - 1 /\ Len(pattern) \in Nat \ {0}
    BY HeadTailProperties, EmptySeq
  <2>2. parts = <<>> => Len(pattern) = 1
    <3> HIDE DEF parts
    <3> QED BY <2>1, EmptySeq
  <2>3. Len(pattern) = 1 => pattern = <<Star>>
    <3>1. <<Star>> \in Seq(S) /\ Len(<<Star>>) = 1 BY HeadTailProperties
    <3>2. Len(pattern) = 1 => \A i \in 1 .. Len(pattern) : pattern[i] = <<Star>>[i] OBVIOUS
    <3> QED BY <3>1, <3>2, SeqEqual
  <2>4. pattern = <<Star>> => parts = <<>> OBVIOUS
  <2> QED BY <2>2, <2>3, <2>4
<1>3. pattern # id OBVIOUS
<1>4. (\E k \in 1 .. Len(id) : SubSeq(id, k + 1, Len(id)) = parts)
        <=> \E k \in 1 .. Len(id) : id = SubSeq(id, 1, k) \o parts
  BY <1>1, CutAt
<1> QED BY <1>2, <1>3, <1>4 DEF SuffixContains, Globs

----------------------------------------------------------------------------
(* One authorization.                                                       *)

(* The runs decode and not_in show what happens without these two.          *)
AllDecode == \A n \in Names : \A o \in Specs[n] : Decodes(o)
NoNotIn   == "NotIn" \notin Operators

(* The state: objects of the watch, and labels of the Server.               *)
ObjsType ==
  /\ DOMAIN objs \subseteq Names
  /\ \A n \in DOMAIN objs : objs[n] \in Specs[n]
  /\ labels \in ServerLabels

LEMMA ObjsTyped == Spec => []ObjsType
<1>1. Init => ObjsType BY DEF Init, ObjsType
<1>2. ObjsType /\ [Next]_vars => ObjsType'
  <2>1. ASSUME ObjsType, NEW n \in Names, Apply(n) PROVE ObjsType'
    BY <2>1 DEF Apply, ObjsType
  <2>2. ASSUME ObjsType, NEW n \in Names, Delete(n) PROVE ObjsType'
    BY <2>2 DEF Delete, ObjsType
  <2>3. ASSUME ObjsType, Relink PROVE ObjsType' BY <2>3 DEF Relink, ObjsType
  <2>4. ASSUME ObjsType, UNCHANGED vars PROVE ObjsType' BY <2>4 DEF vars, ObjsType
  <2> QED BY <2>1, <2>2, <2>3, <2>4 DEF Next
<1> QED BY <1>1, <1>2, PTL DEF Spec

(* filter_selected selects the Server that the authorization references.    *)
LEMMA SelectsReferenced ==
  ASSUME NoNotIn, ObjsType, NEW n \in Names, NEW o \in Specs[n], Valid(o)
  PROVE  Selects(o, ServerName, labels) <=> References(o)
<1>1. CASE o.server.name # None BY <1>1 DEF Selects, References
<1>2. CASE o.server.name = None
  <2>1. o.server.selector \in Selectors BY <1>2, SpecsAssumption DEF Valid
  <2>2. labels \in LabelMaps BY ServerAssumption DEF ObjsType
  <2>3. \A e \in o.server.selector.matchExpressions : e.operator = "In"
    BY <2>1, OperatorAssumption DEF NoNotIn, Selectors, Expressions
  <2>4. Matches(o.server.selector, labels) <=> Selected(o.server.selector, labels)
    BY <2>1, <2>2, <2>3, SelectorsRight
  <2> QED BY <1>2, <2>4 DEF Selects, References
<1> QED BY <1>1, <1>2

(* Every address is in the networks that stand for all.                     *)
LEMMA AllNetsContain ==
  ASSUME NEW ip \in V4 \cup V6
  PROVE  \E network \in AllNets : Contains(network, ip)
BY DEF AllNets, Contains, Network

(* The networks that are sent contain what the object's networks cover.     *)
LEMMA NetworksCovered ==
  ASSUME NEW o, Decodes(o), NEW n, NEW ip \in V4 \cup V6
  PROVE  (\E network \in ToAuthz(n, MkClients(o)).networks : Contains(network, ip))
           <=> Covers(o.client.networks, ip)
<1> DEFINE nets == IF o.client.networks = None THEN AllNets ELSE o.client.networks
<1>1. MkClients(o).networks = nets BY DEF MkClients
<1>2. ToAuthz(n, MkClients(o)).networks = IF nets = {} THEN AllNets ELSE nets
  BY <1>1 DEF ToAuthz
<1>3. CASE Listed(o.client.networks) = {}
  <2>1. (IF nets = {} THEN AllNets ELSE nets) = AllNets BY <1>3 DEF Listed
  <2> QED BY <1>2, <1>3, <2>1, AllNetsContain DEF Covers
<1>4. CASE Listed(o.client.networks) # {}
  <2>1. nets = o.client.networks /\ nets # {} BY <1>4 DEF Listed
  <2>2. \A network \in nets : Listed(network.except) = network.except
    BY <1>4, <2>1 DEF Decodes, Listed
  <2> QED BY <1>2, <1>4, <2>1, <2>2 DEF Covers, Contains
<1> QED BY <1>3, <1>4

(* A service account has the identity of the design, and no other.          *)
LEMMA ServiceAccountIs ==
  ASSUME NEW sa, NEW id \in Seq(Parts)
  PROVE  IsOf(sa, id) <=> id = ServiceAccount(sa)
<1>1. id # <<sa.name, None>> \o Domain
  <2> DEFINE S == Parts \cup {sa.name, None}
  <2>1. <<sa.name, None>> \in Seq(S) /\ Domain \in Seq(S)
    <3>1. Domain \in Seq(Parts) BY ArgsAssumption
    <3> QED BY <3>1
  <2> HIDE DEF S
  <2>2. /\ Len(<<sa.name, None>> \o Domain) >= 2
        /\ (<<sa.name, None>> \o Domain)[2] = None
    <3>1. /\ Len(<<sa.name, None>> \o Domain) = Len(<<sa.name, None>>) + Len(Domain)
          /\ \A i \in 1 .. Len(<<sa.name, None>>) + Len(Domain) :
               (<<sa.name, None>> \o Domain)[i]
                 = IF i <= Len(<<sa.name, None>>) THEN <<sa.name, None>>[i]
                   ELSE Domain[i - Len(<<sa.name, None>>)]
      BY <2>1, ConcatProperties
    <3>2. Len(<<sa.name, None>>) = 2 /\ Len(Domain) \in Nat BY <2>1, LenProperties
    <3> QED BY <3>1, <3>2
  <2>3. Len(id) >= 2 => id[2] \in Parts BY LenProperties, ElementOfSeq
  <2> QED BY <2>2, <2>3, AbsentAssumption
<1>2. CASE sa.namespace = None BY <1>1, <1>2 DEF IsOf, ServiceAccount
<1>3. CASE sa.namespace # None BY <1>3 DEF IsOf, ServiceAccount
<1> QED BY <1>2, <1>3

(* The identities and suffixes of mk_mtls_authn contain the identities that *)
(* the design's patterns and service accounts do.                           *)
LEMMA IdentitiesMatch ==
  ASSUME NEW m, m.unauthenticatedTLS = FALSE, m.identities # None, m.serviceAccounts # None,
         \A pattern \in m.identities : pattern \in Seq(Parts) /\ pattern # <<>>,
         NEW id \in Seq(Parts), id # <<>>, Head(id) # Star
  PROVE  LET authn == MkMtlsAuthn(m)
         IN  /\ authn.kind = "TlsAuthenticated"
             /\ (id \in authn.identities \/ \E parts \in authn.suffixes : SuffixContains(parts, id))
                  <=> \/ \E pattern \in m.identities : Globs(pattern, id)
                      \/ \E sa \in m.serviceAccounts : IsOf(sa, id)
<1> DEFINE globs    == {pattern \in m.identities : Head(pattern) = Star}
           exact    == (m.identities \ globs) \cup {ServiceAccount(sa) : sa \in m.serviceAccounts}
           suffixes == {Tail(pattern) : pattern \in globs}
<1>1. /\ MkMtlsAuthn(m).kind = "TlsAuthenticated"
      /\ MkMtlsAuthn(m).identities = exact
      /\ MkMtlsAuthn(m).suffixes = suffixes
  BY DEF MkMtlsAuthn, TlsAuthenticated
<1>2. (\E parts \in suffixes : SuffixContains(parts, id))
        <=> \E pattern \in globs : Globs(pattern, id)
  <2>1. \A pattern \in globs : SuffixContains(Tail(pattern), id) <=> Globs(pattern, id)
    BY SuffixesAreGlobs
  <2> QED BY <2>1
<1>3. \A pattern \in m.identities \ globs : Globs(pattern, id) <=> pattern = id
  <2>1. Head(<<Star>>) = Star OBVIOUS
  <2> QED BY <2>1 DEF Globs
<1>4. id \notin globs OBVIOUS
<1>5. id \in exact
        <=> \/ \E pattern \in m.identities \ globs : Globs(pattern, id)
            \/ \E sa \in m.serviceAccounts : IsOf(sa, id)
  BY <1>3, <1>4, ServiceAccountIs
<1> HIDE DEF exact, suffixes
<1> QED BY <1>1, <1>2, <1>5

(* The client permits by a valid authorization what it authorizes.          *)
LEMMA PermitsAuthorized ==
  ASSUME NEW n \in Names, NEW o \in Specs[n], Decodes(o), Valid(o), NEW q \in HttpRequests
  PROVE  Permits(ToAuthz(n, MkClients(o)), q.ip, q.tls) <=> Authorizes(o, q)
<1> DEFINE authz == ToAuthz(n, MkClients(o))
           m == o.client.meshTLS
<1>1. (\E network \in authz.networks : Contains(network, q.ip)) <=> Covers(o.client.networks, q.ip)
  BY RequestsAssumption, NetworksCovered
<1>2. authz.authentication
        = IF o.client.unauthenticated THEN Unauthenticated ELSE MkMtlsAuthn(m)
  BY DEF ToAuthz, MkClients
<1> HIDE DEF authz
<1>3. CASE o.client.unauthenticated
  <2>1. authz.authentication.kind = "Unauthenticated" BY <1>2, <1>3 DEF Unauthenticated
  <2> QED BY <1>1, <1>3, <2>1 DEF Permits, Authorizes, authz
<1>4. CASE ~o.client.unauthenticated
  <2>1. m # None BY <1>4 DEF Valid
  <2>2. m.unauthenticatedTLS \in BOOLEAN
        /\ \A id \in Listed(m.identities) : id \in Seq(Parts) /\ id # <<>>
    BY <2>1, SpecsAssumption
  <2>3. m.identities # None /\ m.serviceAccounts # None BY <2>1 DEF Decodes
  <2>4. CASE m.unauthenticatedTLS
    <3>1. authz.authentication.kind = "TlsUnauthenticated"
      BY <1>2, <1>4, <2>4 DEF MkMtlsAuthn, TlsUnauthenticated
    <3> QED BY <1>1, <1>4, <2>4, <3>1 DEF Permits, Authorizes, Authenticates, authz
  <2>5. CASE ~m.unauthenticatedTLS
    <3>1. authz.authentication = MkMtlsAuthn(m) BY <1>2, <1>4
    <3>2. authz.authentication.kind = "TlsAuthenticated"
      BY <2>5, <3>1 DEF MkMtlsAuthn, TlsAuthenticated
    <3>3. CASE q.tls = None \/ q.tls.id = None
      BY <1>4, <2>5, <3>2, <3>3 DEF Permits, Authorizes, Authenticates, authz
    <3>4. CASE q.tls # None /\ q.tls.id # None
      <4>1. q.tls.id \in Seq(Parts) /\ q.tls.id # <<>> /\ Head(q.tls.id) # Star
        BY <3>4, RequestsAssumption
      <4>2. /\ Listed(m.identities) = m.identities
            /\ Listed(m.serviceAccounts) = m.serviceAccounts
        BY <2>3 DEF Listed
      <4>3. (\/ q.tls.id \in authz.authentication.identities
             \/ \E parts \in authz.authentication.suffixes : SuffixContains(parts, q.tls.id))
              <=> \/ \E pattern \in m.identities : Globs(pattern, q.tls.id)
                  \/ \E sa \in m.serviceAccounts : IsOf(sa, q.tls.id)
        <5>1. m.unauthenticatedTLS = FALSE BY <2>2, <2>5
        <5> HIDE DEF m
        <5> QED BY <2>2, <2>3, <3>1, <4>1, <4>2, <5>1, IdentitiesMatch
      <4>4. Authenticates(m, q.tls)
              <=> \/ \E pattern \in m.identities : Globs(pattern, q.tls.id)
                  \/ \E sa \in m.serviceAccounts : IsOf(sa, q.tls.id)
        BY <2>5, <3>4, <4>2 DEF Authenticates
      <4>5. Permits(authz, q.ip, q.tls)
              <=> Covers(o.client.networks, q.ip) /\ Authenticates(m, q.tls)
        BY <1>1, <3>2, <3>4, <4>3, <4>4 DEF Permits
      <4> QED BY <1>4, <3>4, <4>5 DEF Authorizes, authz
    <3> QED BY <3>3, <3>4
  <2> QED BY <2>2, <2>4, <2>5
<1> QED BY <1>3, <1>4

----------------------------------------------------------------------------
(* All authorizations, in the order of their names.                         *)

(* Names are ordered as numbers are: the client's loop finds a first one.   *)
LEMMA FirstExists ==
  ASSUME NEW T \in SUBSET Nat, T # {}
  PROVE  \E n \in T : \A m \in T : n <= m
<1> DEFINE R == {ss \in Nat \X Nat : ss[1] < ss[2]}
<1>1. IsWellFoundedOn(R, Nat) BY NatLessThanWellFounded, Zenon DEF OpToRel
<1>2. \A n, m \in T : <<m, n>> \notin R => n <= m OBVIOUS
<1> HIDE DEF R
<1>3. \E n \in T : \A m \in T : <<m, n>> \notin R BY <1>1, WFMin
<1> QED BY <1>2, <1>3

(* check_tls and check_non_tls answer with the labels of an authorization   *)
(* that permits, and with none exactly if none does.                        *)
LEMMA CheckFinds ==
  ASSUME NEW inbound, DOMAIN inbound \subseteq Nat, NEW ip, NEW tls
  PROVE  \/ /\ \A n \in DOMAIN inbound : ~Permits(inbound[n], ip, tls)
            /\ Check(inbound, ip, tls) = None
         \/ \E n \in DOMAIN inbound :
              Permits(inbound[n], ip, tls) /\ Check(inbound, ip, tls) = inbound[n].labels
<1> DEFINE permitting == {n \in DOMAIN inbound : Permits(inbound[n], ip, tls)}
           first == CHOOSE n \in permitting : \A m \in permitting : n <= m
<1>1. Check(inbound, ip, tls) = IF permitting = {} THEN None ELSE inbound[first].labels
  BY DEF Check
<1>2. permitting # {} => first \in permitting
  <2>1. permitting \in SUBSET Nat OBVIOUS
  <2> HIDE DEF permitting
  <2> QED BY <2>1, FirstExists
<1> QED BY <1>1, <1>2

(* The health check's authorization permits the kubelet, on any connection, *)
(* and nobody else.                                                         *)
LEMMA KubeletPermitted ==
  ASSUME NEW policy, NEW ip, NEW tls
  PROVE  LET authz == ToAuthz(HealthCheck, WithKubelet(policy, KubeletIps)[HealthCheck])
         IN  /\ Permits(authz, ip, tls) <=> ip \in KubeletIps
             /\ ~authz.labels.tls /\ ~authz.labels.authn
<1> DEFINE nets == {Network({kubelet}, {}) : kubelet \in KubeletIps}
           clients == [networks |-> nets, authentication |-> Unauthenticated]
           authz == ToAuthz(HealthCheck, clients)
<1>1. WithKubelet(policy, KubeletIps)[HealthCheck] = clients BY DEF WithKubelet
<1>2. nets # {} BY ServerAssumption
<1>3. authz.networks = nets /\ authz.authentication = Unauthenticated
      /\ ~authz.labels.tls /\ ~authz.labels.authn
  <2>1. Unauthenticated.kind = "Unauthenticated" BY DEF Unauthenticated
  <2> HIDE DEF nets
  <2> QED BY <1>2, <2>1 DEF ToAuthz
<1>4. (\E network \in nets : Contains(network, ip)) <=> ip \in KubeletIps
  <2>1. \A kubelet : Contains(Network({kubelet}, {}), ip) <=> ip = kubelet
    BY DEF Contains, Network
  <2> QED BY <2>1
<1> HIDE DEF authz, nets
<1>5. Permits(authz, ip, tls) <=> ip \in KubeletIps
  BY <1>3, <1>4 DEF Permits, Unauthenticated
<1> QED BY <1>1, <1>3, <1>5 DEF authz

(* The HTTP API answers with the check of the connection if it is asked as  *)
(* it should be, and with no authorization otherwise.                       *)
LEMMA AnswerIs ==
  ASSUME NEW q
  PROVE  Answer(q).authorization = IF Asks(q) THEN Check(Inbound, q.ip, q.tls) ELSE None
<1> DEFINE ports == [p \in {WatchedPort} |-> Inbound]
<1>1. Answer(q) = Serve(ports, q) BY DEF Answer
<1>2. DOMAIN ports = {WatchedPort} /\ ports[WatchedPort] = Inbound OBVIOUS
<1> HIDE DEF ports
<1>3. CASE Asks(q)
  <2>1. Answer(q) = [status |-> "OK", authorization |-> Check(Inbound, q.ip, q.tls)]
    BY <1>1, <1>2, <1>3, NoneAssumption DEF Asks, Serve
  <2> QED BY <1>3, <2>1
<1>4. CASE ~Asks(q)
  <2>1. \E status : Answer(q) = Response(status) BY <1>1, <1>2, <1>4 DEF Asks, Serve
  <2> QED BY <1>4, <2>1 DEF Response
<1> QED BY <1>3, <1>4

(* What reaches the client, by name.                                        *)
LEMMA InboundIs ==
  ASSUME NEW policy, Policy = WithKubelet(policy, KubeletIps), HealthCheck \notin DOMAIN policy
  PROVE  /\ DOMAIN Inbound = DOMAIN policy \cup {HealthCheck}
         /\ Inbound[HealthCheck] = ToAuthz(HealthCheck, WithKubelet(policy, KubeletIps)[HealthCheck])
         /\ \A n \in DOMAIN policy : Inbound[n] = ToAuthz(n, policy[n])
<1>1. /\ DOMAIN WithKubelet(policy, KubeletIps) = DOMAIN policy \cup {HealthCheck}
      /\ \A n \in DOMAIN policy : WithKubelet(policy, KubeletIps)[n] = policy[n]
  BY DEF WithKubelet
<1> QED BY <1>1 DEF Inbound, ToServer

(* The labels of an authorization that is sent are not None.                *)
LEMMA LabelsThere ==
  ASSUME NEW n \in Names \cup {DefaultName, HealthCheck}, NEW clients
  PROVE  ToAuthz(n, clients).labels # None
<1> DEFINE authn == clients.authentication.kind = "TlsAuthenticated"
           tls   == clients.authentication.kind # "Unauthenticated"
<1>1. ToAuthz(n, clients).labels = [name |-> n, authn |-> authn, tls |-> tls] BY DEF ToAuthz
<1>2. authn \in BOOLEAN /\ tls \in BOOLEAN OBVIOUS
<1> HIDE DEF authn, tls
<1> QED BY <1>1, <1>2, NoneAssumption

(* A connection is admitted by the kubelet's or another authorization, and  *)
(* the answer names the one that permitted it.                              *)
LEMMA Decided ==
  ASSUME NEW policy, Policy = WithKubelet(policy, KubeletIps),
         DOMAIN policy \subseteq (Names \cup {DefaultName}) \ {HealthCheck},
         NEW q
  PROVE  /\ Admitted(q) <=>
              /\ Asks(q)
              /\ \/ q.ip \in KubeletIps
                 \/ \E n \in DOMAIN policy : Permits(ToAuthz(n, policy[n]), q.ip, q.tls)
         /\ Admitted(q) =>
              LET reason == Answer(q).authorization
              IN  \/ /\ reason.name = HealthCheck /\ q.ip \in KubeletIps
                     /\ ~reason.tls /\ ~reason.authn
                  \/ \E n \in DOMAIN policy :
                       /\ reason = ToAuthz(n, policy[n]).labels
                       /\ Permits(ToAuthz(n, policy[n]), q.ip, q.tls)
<1> DEFINE kubelet == ToAuthz(HealthCheck, WithKubelet(policy, KubeletIps)[HealthCheck])
           permits(n) == Permits(Inbound[n], q.ip, q.tls)
<1>1. /\ DOMAIN Inbound = DOMAIN policy \cup {HealthCheck} /\ Inbound[HealthCheck] = kubelet
      /\ \A n \in DOMAIN policy : Inbound[n] = ToAuthz(n, policy[n])
  BY InboundIs
<1>2. DOMAIN Inbound \subseteq Nat BY <1>1, NamesAssumption, NameAssumption
<1>3. /\ permits(HealthCheck) <=> q.ip \in KubeletIps
      /\ ~kubelet.labels.tls /\ ~kubelet.labels.authn
  BY <1>1, KubeletPermitted
<1>4. kubelet.labels.name = HealthCheck BY DEF ToAuthz
<1>5. \A n \in DOMAIN Inbound : Inbound[n].labels # None
  BY <1>1, LabelsThere
<1>6. \/ (\A n \in DOMAIN Inbound : ~permits(n)) /\ Check(Inbound, q.ip, q.tls) = None
      \/ \E n \in DOMAIN Inbound : permits(n) /\ Check(Inbound, q.ip, q.tls) = Inbound[n].labels
  BY <1>2, CheckFinds
<1>7. Answer(q).authorization = IF Asks(q) THEN Check(Inbound, q.ip, q.tls) ELSE None
  BY AnswerIs
<1> HIDE DEF kubelet
<1>8. Admitted(q) <=> Asks(q) /\ \E n \in DOMAIN Inbound : permits(n)
  BY <1>5, <1>6, <1>7 DEF Admitted
<1>9. (\E n \in DOMAIN Inbound : permits(n))
        <=> \/ q.ip \in KubeletIps
            \/ \E n \in DOMAIN policy : Permits(ToAuthz(n, policy[n]), q.ip, q.tls)
  BY <1>1, <1>3
<1>10. ASSUME Admitted(q)
       PROVE  \E n \in DOMAIN Inbound : permits(n) /\ Answer(q).authorization = Inbound[n].labels
  BY <1>5, <1>6, <1>7, <1>10 DEF Admitted
<1> QED BY <1>1, <1>3, <1>4, <1>8, <1>9, <1>10

(* Where every object decodes, exactly the valid authorizations that        *)
(* reference the Server are in its policy.                                  *)
LEMMA PolicyIs ==
  ASSUME NoNotIn, ObjsType
  PROVE  /\ DOMAIN ServerPolicy \subseteq DOMAIN objs /\ DOMAIN ServerPolicy \subseteq Names
         /\ \A n \in DOMAIN ServerPolicy :
              /\ ServerPolicy[n] = MkClients(objs[n])
              /\ Decodes(objs[n]) /\ Valid(objs[n]) /\ References(objs[n])
         /\ AllDecode =>
              \A n \in DOMAIN objs :
                n \in DOMAIN ServerPolicy <=> Valid(objs[n]) /\ References(objs[n])
<1>1. \A n \in Indexed : n \in DOMAIN objs /\ Decodes(objs[n]) /\ Valid(objs[n])
  BY DEF Indexed
<1>2. AllDecode => \A n \in DOMAIN objs : n \in Indexed <=> Valid(objs[n])
  BY DEF Indexed, AllDecode, ObjsType
<1>3. \A n \in DOMAIN objs : Valid(objs[n]) =>
        (Selects(objs[n], ServerName, labels) <=> References(objs[n]))
  BY SelectsReferenced DEF ObjsType
<1>4. /\ DOMAIN ServerPolicy = {k \in Indexed : Selects(objs[k], ServerName, labels)}
      /\ \A n \in DOMAIN ServerPolicy : ServerPolicy[n] = MkClients(objs[n])
  BY DEF ServerPolicy
<1> QED BY <1>1, <1>2, <1>3, <1>4 DEF ObjsType

----------------------------------------------------------------------------

(* Clients are authorized exactly as the valid authorizations that          *)
(* reference the Server say, by any list of networks, identities, globs and *)
(* service accounts, for every connection: unless an object does not decode *)
(* (decode.cfg) or selects with NotIn (not_in.cfg).                         *)
THEOREM DecisionsRightHolds == AllDecode /\ NoNotIn => (Spec => []DecisionsRight)
<1>1. ASSUME AllDecode, NoNotIn, ObjsType PROVE DecisionsRight
  <2>1. SUFFICES ASSUME mode = None, NEW q \in HttpRequests
                 PROVE  Admitted(q) <=>
                          /\ Asks(q)
                          /\ \/ q.ip \in KubeletIps
                             \/ \E n \in DOMAIN objs :
                                  Valid(objs[n]) /\ References(objs[n]) /\ Authorizes(objs[n], q)
    BY DEF DecisionsRight
  <2>2. /\ DOMAIN ServerPolicy \subseteq DOMAIN objs /\ DOMAIN ServerPolicy \subseteq Names
        /\ \A n \in DOMAIN ServerPolicy :
             ServerPolicy[n] = MkClients(objs[n]) /\ Decodes(objs[n]) /\ Valid(objs[n])
        /\ \A n \in DOMAIN objs :
             n \in DOMAIN ServerPolicy <=> Valid(objs[n]) /\ References(objs[n])
    BY <1>1, PolicyIs
  <2>3. Policy = WithKubelet(ServerPolicy, KubeletIps) BY <2>1 DEF Policy
  <2>4. \A n \in DOMAIN ServerPolicy :
          Permits(ToAuthz(n, ServerPolicy[n]), q.ip, q.tls) <=> Authorizes(objs[n], q)
    BY <1>1, <2>2, PermitsAuthorized DEF ObjsType
  <2>5. Admitted(q) <=>
          /\ Asks(q)
          /\ \/ q.ip \in KubeletIps
             \/ \E n \in DOMAIN ServerPolicy :
                  Permits(ToAuthz(n, ServerPolicy[n]), q.ip, q.tls)
    BY <2>2, <2>3, NamesAssumption, Decided
  <2> QED BY <2>2, <2>4, <2>5
<1>2. SUFFICES ASSUME AllDecode, NoNotIn PROVE Spec => []DecisionsRight
  OBVIOUS
<1>3. ObjsType => DecisionsRight BY <1>1, <1>2
<1> QED BY <1>3, ObjsTyped, PTL

(* A default policy permits the connections its mode allows.                *)
LEMMA ModePermits ==
  ASSUME mode \in Modes, NEW q \in HttpRequests
  PROVE  (\E n \in DOMAIN ModePolicy(mode) :
            Permits(ToAuthz(n, ModePolicy(mode)[n]), q.ip, q.tls))
           <=> ModeAllows(q)
<1>1. CASE mode.allow = "none" BY <1>1 DEF ModePolicy, ModeAllows
<1>2. CASE mode.allow # "none"
  <2> DEFINE nets == {Network(c, {}) :
                        c \in IF mode.allow = "cluster" THEN ClusterNets ELSE {V4, V6}}
             authn == IF mode.authenticated THEN AnyIdentity ELSE Unauthenticated
             clients == [networks |-> nets, authentication |-> authn]
             authz == ToAuthz(DefaultName, clients)
  <2>1. DOMAIN ModePolicy(mode) = {DefaultName} /\ ModePolicy(mode)[DefaultName] = clients
    BY <1>2 DEF ModePolicy
  <2>2. nets # {} BY ArgsAssumption
  <2>3. authz.networks = nets /\ authz.authentication = authn BY <2>2 DEF ToAuthz
  <2>4. (\E network \in nets : Contains(network, q.ip))
          <=> (mode.allow = "cluster" => \E net \in ClusterNets : q.ip \in net)
    <3>1. q.ip \in V4 \/ q.ip \in V6 BY RequestsAssumption
    <3>2. \A c : Contains(Network(c, {}), q.ip) <=> q.ip \in c BY DEF Contains, Network
    <3> QED BY <3>1, <3>2
  <2>5. SuffixContains(<<>>, q.tls.id) BY DEF SuffixContains
  <2> HIDE DEF nets, authz
  <2>6. CASE mode.authenticated
    <3>1. authz.authentication = TlsAuthenticated({}, {<<>>}) BY <2>3, <2>6 DEF AnyIdentity
    <3>2. Permits(authz, q.ip, q.tls)
            <=> /\ \E network \in nets : Contains(network, q.ip)
                /\ q.tls # None /\ q.tls.id # None
      BY <2>3, <2>5, <3>1 DEF Permits, TlsAuthenticated
    <3> QED BY <1>2, <2>1, <2>4, <2>6, <3>2 DEF ModeAllows, authz
  <2>7. CASE ~mode.authenticated
    <3>1. authz.authentication = Unauthenticated BY <2>3, <2>7
    <3>2. Permits(authz, q.ip, q.tls) <=> \E network \in nets : Contains(network, q.ip)
      BY <2>3, <3>1 DEF Permits, Unauthenticated
    <3> QED BY <1>2, <2>1, <2>4, <2>7, <3>2 DEF ModeAllows, authz
  <2> QED BY <2>6, <2>7, ModesAssumption
<1> QED BY <1>1, <1>2

(* Every default mode admits what the design's list of them says, for any   *)
(* networks of the cluster, and the kubelet (default_allow.rs:79-148).      *)
THEOREM DefaultsRightHolds == Spec => []DefaultsRight
<1> DEFINE ModeType == mode \in Modes \cup {None}
<1>1. Init => ModeType BY DEF Init
<1>2. ModeType /\ [Next]_vars => ModeType'
  BY DEF Next, Apply, Delete, Relink, vars
<1>3. ASSUME ModeType PROVE DefaultsRight
  <2>1. SUFFICES ASSUME mode # None, NEW q \in HttpRequests
                 PROVE  Admitted(q) <=> Asks(q) /\ (q.ip \in KubeletIps \/ ModeAllows(q))
    BY DEF DefaultsRight
  <2>2. mode \in Modes BY <1>3, <2>1
  <2>3. Policy = WithKubelet(ModePolicy(mode), KubeletIps) BY <2>1 DEF Policy
  <2>4. DOMAIN ModePolicy(mode) \subseteq {DefaultName} BY DEF ModePolicy
  <2>5. DefaultName # HealthCheck BY NameAssumption
  <2>6. DOMAIN ModePolicy(mode) \subseteq (Names \cup {DefaultName}) \ {HealthCheck}
    BY <2>4, <2>5
  <2>7. Admitted(q) <=>
          /\ Asks(q)
          /\ \/ q.ip \in KubeletIps
             \/ \E n \in DOMAIN ModePolicy(mode) :
                  Permits(ToAuthz(n, ModePolicy(mode)[n]), q.ip, q.tls)
    BY <2>3, <2>6, Decided
  <2> QED BY <2>2, <2>7, ModePermits
<1> HIDE DEF ModeType
<1>4. ModeType => DefaultsRight BY <1>3
<1> QED BY <1>1, <1>2, <1>4, PTL DEF Spec

(* The labels of an authorization say how the clients it permits are known. *)
LEMMA LabelsTrue ==
  ASSUME NEW n, NEW clients, NEW ip, NEW tls, Permits(ToAuthz(n, clients), ip, tls)
  PROVE  LET said == ToAuthz(n, clients).labels
         IN  /\ said.name = n
             /\ said.tls => tls # None
             /\ said.authn => tls # None /\ tls.id # None
BY DEF Permits, ToAuthz

(* An answer names an authorization that by itself admits the connection,   *)
(* whichever others there are, and tells the truth about TLS and identity   *)
(* (client/src/lib.rs:226-293, controller/grpc/src/lib.rs:217-305).         *)
THEOREM NamesItsReasonHolds == NoNotIn => (Spec => []NamesItsReason)
<1>1. ASSUME NoNotIn, ObjsType PROVE NamesItsReason
  <2>1. SUFFICES ASSUME mode = None, NEW q \in HttpRequests, Admitted(q)
                 PROVE  LET reason == Answer(q).authorization
                        IN  /\ IF reason.name = HealthCheck THEN q.ip \in KubeletIps
                               ELSE References(objs[reason.name]) /\ Authorizes(objs[reason.name], q)
                            /\ reason.tls => q.tls # None
                            /\ reason.authn => q.tls # None /\ q.tls.id # None
    BY DEF NamesItsReason, Admitted
  <2> DEFINE reason == Answer(q).authorization
  <2>2. /\ DOMAIN ServerPolicy \subseteq DOMAIN objs /\ DOMAIN ServerPolicy \subseteq Names
        /\ \A n \in DOMAIN ServerPolicy :
             /\ ServerPolicy[n] = MkClients(objs[n])
             /\ Decodes(objs[n]) /\ Valid(objs[n]) /\ References(objs[n])
    BY <1>1, PolicyIs
  <2>3. Policy = WithKubelet(ServerPolicy, KubeletIps) BY <2>1 DEF Policy
  <2>4. \/ /\ reason.name = HealthCheck /\ q.ip \in KubeletIps
           /\ ~reason.tls /\ ~reason.authn
        \/ \E n \in DOMAIN ServerPolicy :
             /\ reason = ToAuthz(n, ServerPolicy[n]).labels
             /\ Permits(ToAuthz(n, ServerPolicy[n]), q.ip, q.tls)
    BY <2>1, <2>2, <2>3, NamesAssumption, Decided
  <2> HIDE DEF reason
  <2>5. ASSUME NEW n \in DOMAIN ServerPolicy,
               reason = ToAuthz(n, ServerPolicy[n]).labels,
               Permits(ToAuthz(n, ServerPolicy[n]), q.ip, q.tls)
        PROVE  /\ reason.name = n /\ n # HealthCheck
               /\ References(objs[n]) /\ Authorizes(objs[n], q)
               /\ reason.tls => q.tls # None
               /\ reason.authn => q.tls # None /\ q.tls.id # None
    <3>1. Authorizes(objs[n], q) BY <1>1, <2>2, <2>5, PermitsAuthorized DEF ObjsType
    <3>2. n # HealthCheck BY <2>2, NamesAssumption
    <3>3. References(objs[n]) BY <2>2
    <3> QED BY <2>5, <3>1, <3>2, <3>3, LabelsTrue
  <2> QED BY <2>4, <2>5 DEF reason
<1>2. SUFFICES ASSUME NoNotIn PROVE Spec => []NamesItsReason
  OBVIOUS
<1>3. ObjsType => NamesItsReason BY <1>1, <1>2
<1> QED BY <1>3, ObjsTyped, PTL

----------------------------------------------------------------------------
(* Every network list the controller sends has a network in it, whatever    *)
(* was applied, so that the client takes every update (client/src/lib.rs:   *)
(* 330-332, controller/grpc/src/lib.rs:217-246).                            *)
THEOREM ClientConvertsHolds == Spec => []ClientConverts
<1>1. ClientConverts
  <2>1. \A n, clients : ToAuthz(n, clients).networks # {} BY DEF ToAuthz, AllNets
  <2> QED BY <2>1 DEF ClientConverts, Converts, Inbound, ToServer
<1> QED BY <1>1, PTL
=============================================================================
