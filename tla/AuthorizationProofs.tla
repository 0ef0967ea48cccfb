------------------------ MODULE AuthorizationProofs ------------------------
(***************************************************************************)
(* AuthorizationsExact for every cluster: the authorizations a server       *)
(* publishes are kept up to date by small changes (one added, one removed), *)
(* and are always what a computation from scratch would give.               *)
(***************************************************************************)
EXTENDS PolicyIndexProofs

(* Removing what is not there changes nothing (BTreeMap::remove).           *)
LEMMA DropAbsent ==
  ASSUME NEW f, f = [x \in DOMAIN f |-> f[x]], NEW k, k \notin DOMAIN f
  PROVE  Drop(f, k) = f
BY DEF Drop, Restrict

(* An authorization that is added or changed changes filter_selected as     *)
(* SrvIndex::add_authz changes a server's authorizations.                   *)
LEMMA FilterSelectedPut ==
  ASSUME NEW f, NEW a \in AuthzKeys, NEW authz, NEW s, NEW labels
  PROVE  LET old == FilterSelected(f, s, labels)
             new == FilterSelected(Put(f, a, authz), s, labels)
         IN  /\ s[1] # a[1] => new = old
             /\ s[1] = a[1] =>
                  IF Selects(authz.servers, s[2], labels)
                    THEN new = Put(old, a[2], authz.clients)
                    ELSE new = Drop(old, a[2])
<1> DEFINE old == FilterSelected(f, s, labels)
           new == FilterSelected(Put(f, a, authz), s, labels)
<1>1. a = <<a[1], a[2]>> /\ a[2] \in AuthzNames BY DEF AuthzKeys
<1>2. ASSUME NEW m
      PROVE  /\ <<s[1], m>> # a =>
                  /\ <<s[1], m>> \in DOMAIN Put(f, a, authz)
                       <=> <<s[1], m>> \in DOMAIN f
                  /\ <<s[1], m>> \in DOMAIN f =>
                       Put(f, a, authz)[<<s[1], m>>] = f[<<s[1], m>>]
             /\ a \in DOMAIN Put(f, a, authz) /\ Put(f, a, authz)[a] = authz
  BY DEF Put
<1>3. CASE s[1] # a[1]
  <2>1. \A m : <<s[1], m>> # a BY <1>1, <1>3
  <2>2. DOMAIN new = DOMAIN old BY <1>2, <2>1 DEF FilterSelected
  <2>3. \A m \in DOMAIN old : new[m] = old[m] BY <1>2, <2>1, <2>2 DEF FilterSelected
  <2>4. new = old BY <2>2, <2>3 DEF FilterSelected
  <2> QED BY <1>3, <2>4
<1>4. CASE s[1] = a[1]
  <2>1. \A m : <<s[1], m>> = a <=> m = a[2] BY <1>1, <1>4
  <2>2. ASSUME Selects(authz.servers, s[2], labels)
        PROVE  new = Put(old, a[2], authz.clients)
    <3>1. DOMAIN new = DOMAIN old \cup {a[2]}
      BY <1>1, <1>2, <2>1, <2>2 DEF FilterSelected
    <3>2. \A m \in DOMAIN new : new[m] = IF m = a[2] THEN authz.clients ELSE old[m]
      BY <1>2, <2>1, <3>1 DEF FilterSelected
    <3>3. new = [m \in DOMAIN new |-> new[m]] BY DEF FilterSelected
    <3> HIDE DEF new, old
    <3> QED BY <3>1, <3>2, <3>3 DEF Put
  <2>3. ASSUME ~Selects(authz.servers, s[2], labels)
        PROVE  new = Drop(old, a[2])
    <3>1. DOMAIN new = DOMAIN old \ {a[2]}
      BY <1>1, <1>2, <2>1, <2>3 DEF FilterSelected
    <3>2. \A m \in DOMAIN new : new[m] = old[m]
      BY <1>2, <2>1, <3>1 DEF FilterSelected
    <3>3. new = [m \in DOMAIN new |-> new[m]] BY DEF FilterSelected
    <3> HIDE DEF new, old
    <3> QED BY <3>1, <3>2, <3>3 DEF Drop, Restrict
  <2> QED BY <1>4, <2>2, <2>3
<1> QED BY <1>3, <1>4

(* An authorization that is removed leaves filter_selected as               *)
(* SrvIndex::remove_authz leaves a server's authorizations.                 *)
LEMMA FilterSelectedDrop ==
  ASSUME NEW f, NEW a \in AuthzKeys, NEW s, NEW labels
  PROVE  LET old == FilterSelected(f, s, labels)
             new == FilterSelected(Drop(f, a), s, labels)
         IN  /\ s[1] # a[1] => new = old
             /\ s[1] = a[1] => new = Drop(old, a[2])
<1> DEFINE old == FilterSelected(f, s, labels)
           new == FilterSelected(Drop(f, a), s, labels)
<1>1. a = <<a[1], a[2]>> BY DEF AuthzKeys
<1>2. \A m : (<<s[1], m>> = a) <=> (s[1] = a[1] /\ m = a[2]) BY <1>1
<1>3. DOMAIN new = DOMAIN old \ {m \in AuthzNames : s[1] = a[1] /\ m = a[2]}
  BY <1>2 DEF FilterSelected, Drop, Restrict
<1>4. \A m \in DOMAIN new : new[m] = old[m]
  BY <1>2, <1>3 DEF FilterSelected, Drop, Restrict
<1>5. new = [m \in DOMAIN new |-> new[m]] /\ old = [m \in DOMAIN old |-> old[m]]
  BY DEF FilterSelected
<1>6. DOMAIN old \subseteq AuthzNames BY DEF FilterSelected
<1>7. ASSUME s[1] # a[1] PROVE new = old
  <2> HIDE DEF new, old
  <2>1. DOMAIN new = DOMAIN old BY <1>3, <1>7
  <2> QED BY <1>4, <1>5, <2>1
<1>8. ASSUME s[1] = a[1] PROVE new = Drop(old, a[2])
  <2> HIDE DEF new, old
  <2>1. DOMAIN new = DOMAIN old \ {a[2]} BY <1>3, <1>6, <1>8
  <2> QED BY <1>4, <1>5, <2>1 DEF Drop, Restrict
<1> QED BY <1>7, <1>8

(* What the property says of one server.                                    *)
Exact(s, srv, az) ==
  /\ srv.authorizations = FilterSelected(az, s, srv.labels)
  /\ srv.config.authorizations = srv.authorizations

(* Server::add_authz and Server::remove_authz publish what they change.     *)
LEMMA ServerAuthzExact ==
  ASSUME NEW srv \in Server, srv.config.authorizations = srv.authorizations, NEW n
  PROVE  /\ LET new == ServerRemoveAuthz(srv, n)
            IN  /\ new.labels = srv.labels
                /\ new.authorizations = Drop(srv.authorizations, n)
                /\ new.config.authorizations = new.authorizations
         /\ \A clients :
              LET new == ServerAddAuthz(srv, n, clients)
              IN  /\ new.labels = srv.labels
                  /\ new.authorizations = Put(srv.authorizations, n, clients)
                  /\ new.config.authorizations = new.authorizations
<1>1. IsPMap(srv.authorizations, AuthzNames, Clients)
  BY PMapIs DEF Server, Authorizations
<1>2. srv.authorizations = [x \in DOMAIN srv.authorizations |-> srv.authorizations[x]]
  BY <1>1 DEF IsPMap
<1>3. n \notin DOMAIN srv.authorizations => Drop(srv.authorizations, n) = srv.authorizations
  BY <1>2, DropAbsent
<1> QED BY <1>3 DEF ServerRemoveAuthz, ServerAddAuthz, Server, InboundServer

(* Index::apply_server                                                      *)
LEMMA IndexServerExact ==
  ASSUME AuthorizationsExact, NEW s \in ServerKeys, NEW obj, IndexServer(s, obj),
         UNCHANGED authzs
  PROVE  AuthorizationsExact'
<1>1. servers' = ApplyServer(servers, authzs, s, obj) BY DEF IndexServer
<1>2. Exact(s, NewServer(authzs, s, obj), authzs) BY DEF Exact, NewServer
<1>3. ASSUME s \in DOMAIN servers
      PROVE  Exact(s, UpdateServer(authzs, s, servers[s], obj), authzs)
  BY <1>3 DEF Exact, UpdateServer, AuthorizationsExact
<1>4. ASSUME NEW t \in DOMAIN servers' PROVE Exact(t, servers'[t], authzs)
  BY <1>1, <1>2, <1>3 DEF ApplyServer, Put, AuthorizationsExact, Exact
<1> QED BY <1>4 DEF AuthorizationsExact, Exact

(* rm_server                                                                *)
LEMMA RmServerExact ==
  ASSUME AuthorizationsExact, NEW s, RmServer(s), UNCHANGED authzs
  PROVE  AuthorizationsExact'
BY DEF RmServer, AuthorizationsExact, Drop, Restrict

(* apply_authz                                                              *)
LEMMA ApplyAuthzExact ==
  ASSUME IndexType, AuthorizationsExact, NEW a \in AuthzKeys, NEW obj, ApplyAuthz(a, obj)
  PROVE  AuthorizationsExact'
<1>1. CASE UNCHANGED <<authzs, servers>>
  BY <1>1 DEF AuthorizationsExact
<1>2. CASE /\ authzs' = Put(authzs, a, MkAuthz(obj))
           /\ servers' = AddAuthz(servers, a, MkAuthz(obj))
  <2> DEFINE z == MkAuthz(obj)
  <2>1. ASSUME NEW s \in DOMAIN servers
        PROVE  Exact(s, servers'[s], Put(authzs, a, z))
    <3> DEFINE old == FilterSelected(authzs, s, servers[s].labels)
               new == FilterSelected(Put(authzs, a, z), s, servers[s].labels)
    <3>1. /\ servers[s] \in Server
          /\ servers[s].config.authorizations = servers[s].authorizations
          /\ servers[s].authorizations = old
      BY DEF AuthorizationsExact, IndexType, IsPMap
    <3>2. /\ s[1] # a[1] => new = old
          /\ s[1] = a[1] => IF Selects(z.servers, s[2], servers[s].labels)
                              THEN new = Put(old, a[2], z.clients)
                              ELSE new = Drop(old, a[2])
      BY FilterSelectedPut
    <3>3. servers'[s] = IF s[1] # a[1] THEN servers[s]
                        ELSE IF Selects(z.servers, s[2], servers[s].labels)
                          THEN ServerAddAuthz(servers[s], a[2], z.clients)
                          ELSE ServerRemoveAuthz(servers[s], a[2])
      BY <1>2 DEF AddAuthz
    <3>4. /\ servers'[s].labels = servers[s].labels
          /\ servers'[s].authorizations = new
          /\ servers'[s].config.authorizations = servers'[s].authorizations
      <4> HIDE DEF z, old, new
      <4> QED BY <3>1, <3>2, <3>3, ServerAuthzExact
    <3> QED BY <3>4 DEF Exact
  <2>2. DOMAIN servers' = DOMAIN servers BY <1>2 DEF AddAuthz
  <2> QED BY <1>2, <2>1, <2>2 DEF AuthorizationsExact, Exact
<1> QED BY <1>1, <1>2 DEF ApplyAuthz

(* delete_authz                                                             *)
LEMMA DeleteAuthzExact ==
  ASSUME IndexType, AuthorizationsExact, NEW a \in AuthzKeys, DeleteAuthz(a)
  PROVE  AuthorizationsExact'
<1>1. ASSUME NEW s \in DOMAIN servers
      PROVE  Exact(s, servers'[s], Drop(authzs, a))
  <2> DEFINE old == FilterSelected(authzs, s, servers[s].labels)
             new == FilterSelected(Drop(authzs, a), s, servers[s].labels)
  <2>1. /\ servers[s] \in Server
        /\ servers[s].config.authorizations = servers[s].authorizations
        /\ servers[s].authorizations = old
    BY DEF AuthorizationsExact, IndexType, IsPMap
  <2>2. (s[1] # a[1] => new = old) /\ (s[1] = a[1] => new = Drop(old, a[2]))
    BY FilterSelectedDrop
  <2>3. servers'[s] = IF s[1] = a[1] THEN ServerRemoveAuthz(servers[s], a[2])
                                     ELSE servers[s]
    BY DEF DeleteAuthz, RemoveAuthz
  <2>4. /\ servers'[s].labels = servers[s].labels
        /\ servers'[s].authorizations = new
        /\ servers'[s].config.authorizations = servers'[s].authorizations
    <3> HIDE DEF old, new
    <3> QED BY <2>1, <2>2, <2>3, ServerAuthzExact
  <2> QED BY <2>4 DEF Exact
<1>2. DOMAIN servers' = DOMAIN servers BY DEF DeleteAuthz, RemoveAuthz
<1>3. authzs' = Drop(authzs, a) BY DEF DeleteAuthz
<1> QED BY <1>1, <1>2, <1>3 DEF AuthorizationsExact, Exact

(* A step of the index, or none, keeps the property.                        *)
LEMMA StepExact ==
  ASSUME TypeOK, AuthorizationsExact, [Next]_vars
  PROVE  AuthorizationsExact'
<1>1. IndexType BY DEF TypeOK, IndexType
<1>2. CASE UNCHANGED <<servers, authzs>> BY <1>2 DEF AuthorizationsExact
<1>3. CASE NodeNext
  BY <1>2, <1>3 DEF NodeNext, NodeApplied, NodeDeleted, NodesRestarted, NodeListed,
                    NodeDefunct, index
<1>4. CASE PodNext
  BY <1>2, <1>4 DEF PodNext, PodApplied, PodDeleted, PodsRestarted, PodListed, PodDefunct
<1>5. CASE ServerNext
  <2>1. ASSUME NEW s \in ServerKeys, ServerApplied(s) PROVE AuthorizationsExact'
    BY <2>1, IndexServerExact DEF ServerApplied
  <2>2. ASSUME NEW s \in ServerKeys, ServerDeleted(s) PROVE AuthorizationsExact'
    BY <2>2, RmServerExact DEF ServerDeleted
  <2>3. ASSUME NEW s \in ServerKeys, ServerListed(s) PROVE AuthorizationsExact'
    BY <2>3, IndexServerExact DEF ServerListed
  <2>4. ASSUME NEW s \in ServerKeys, ServerDefunct(s) PROVE AuthorizationsExact'
    BY <2>4, RmServerExact DEF ServerDefunct
  <2>5. CASE ServersRestarted BY <1>2, <2>5 DEF ServersRestarted, index
  <2> QED BY <1>5, <2>1, <2>2, <2>3, <2>4, <2>5 DEF ServerNext
<1>6. CASE AuthzNext
  <2>1. ASSUME NEW a \in AuthzKeys, AuthzApplied(a) PROVE AuthorizationsExact'
    BY <1>1, <2>1, ApplyAuthzExact DEF AuthzApplied
  <2>2. ASSUME NEW a \in AuthzKeys, AuthzDeleted(a) PROVE AuthorizationsExact'
    BY <1>1, <2>2, DeleteAuthzExact DEF AuthzDeleted
  <2>3. ASSUME NEW a \in AuthzKeys, AuthzListed(a) PROVE AuthorizationsExact'
    BY <1>1, <2>3, ApplyAuthzExact DEF AuthzListed
  <2>4. ASSUME NEW a \in AuthzKeys, AuthzDefunct(a) PROVE AuthorizationsExact'
    BY <1>1, <2>4, DeleteAuthzExact DEF AuthzDefunct
  <2>5. CASE AuthzsRestarted BY <1>2, <2>5 DEF AuthzsRestarted, index
  <2> QED BY <1>6, <2>1, <2>2, <2>3, <2>4, <2>5 DEF AuthzNext
<1>7. CASE UNCHANGED vars BY <1>2, <1>7 DEF vars, index
<1> QED BY <1>3, <1>4, <1>5, <1>6, <1>7 DEF Next

(* Every server publishes exactly the authorizations that select it, for    *)
(* any number of servers, authorizations and clients and any order of their *)
(* creation, change and removal, resets included (server.rs:36-56, 74-182,  *)
(* authz.rs:28-85).                                                         *)
THEOREM AuthorizationsExactHolds == Spec => []AuthorizationsExact
<1>1. Init => AuthorizationsExact
  BY DEF Init, EmptyMap, AuthorizationsExact
<1>2. TypeOK /\ AuthorizationsExact /\ [Next]_vars => AuthorizationsExact'
  BY StepExact
<1> QED BY <1>1, <1>2, TypeCorrect, PTL DEF Spec
=============================================================================
