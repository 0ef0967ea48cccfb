---------------------------- MODULE ServerIndex ----------------------------
(***************************************************************************)
(* The index of Servers (controller/k8s/index/src/server.rs): a map from    *)
(* keys to a server's metadata, the authorizations that apply to it, and    *)
(* config, the InboundServer its watch channel holds, which is what clients *)
(* of its ports are sent.                                                   *)
(***************************************************************************)
EXTENDS AuthzIndex

(* mk_protocol: an absent or unknown protocol is detected.                  *)
MkProtocol(p) == IF p \in {None, "unknown"} THEN "detect" ELSE p

ProxyProtocol == {MkProtocol(p) : p \in ProxyProtocols \cup {None}}

Authorizations == PMap(AuthzNames, Clients)

InboundServer == [protocol : ProxyProtocol, authorizations : Authorizations]

Server ==
  [labels : ServerLabels, selector : SUBSET PodLabels, port : PortRef,
   protocol : ProxyProtocol, authorizations : Authorizations,
   config : InboundServer]

NewServer(authzs, s, obj) ==
  LET selected == FilterSelected(authzs, s, obj.labels)
      protocol == MkProtocol(obj.protocol)
  IN  [labels |-> obj.labels, selector |-> obj.selector, port |-> obj.port,
       protocol |-> protocol, authorizations |-> selected,
       config |-> [protocol |-> protocol, authorizations |-> selected]]

(* MUTANT: a change of labels is not sent to the channel.                   *)
UpdateServerUnsent(authzs, s, old, obj) ==
  [old EXCEPT !.labels = obj.labels, !.selector = obj.selector, !.port = obj.port,
              !.authorizations = FilterSelected(authzs, s, obj.labels)]

(* MUTANT: a change of the port is dropped when the selector is the same.   *)
UpdateServerKeepsPort(authzs, s, old, obj) ==
  [old EXCEPT
     !.labels = obj.labels, !.selector = obj.selector,
     !.port = IF obj.selector = old.selector THEN old.port ELSE obj.port,
     !.authorizations = FilterSelected(authzs, s, obj.labels),
     !.config.authorizations = FilterSelected(authzs, s, obj.labels)]

(* The Occupied case of SrvIndex::apply.  new_protocol is Some exactly when *)
(* the protocol equals the one already there, as the code has it, so the    *)
(* update below never changes the protocol.                                 *)
UpdateServer(authzs, s, old, obj) ==
  LET relabeled    == old.labels # obj.labels
      selected     == FilterSelected(authzs, s, obj.labels)
      protocol     == MkProtocol(obj.protocol)
      new_protocol == old.protocol = protocol
  IN  [labels         |-> obj.labels,
       selector       |-> obj.selector,
       port           |-> obj.port,
       protocol       |-> IF new_protocol THEN protocol ELSE old.protocol,
       authorizations |-> IF relabeled THEN selected ELSE old.authorizations,
       config         |->
         [protocol       |-> IF new_protocol THEN protocol ELSE old.config.protocol,
          authorizations |-> IF relabeled THEN selected
                                          ELSE old.config.authorizations]]

(* SrvIndex::apply.                                                         *)
ApplyServer(servers, authzs, s, obj) ==
  Put(servers, s, IF s \in DOMAIN servers THEN UpdateServer(authzs, s, servers[s], obj)
                                          ELSE NewServer(authzs, s, obj))

(* Server::add_authz                                                        *)
ServerAddAuthz(srv, n, clients) ==
  LET added == Put(srv.authorizations, n, clients)
  IN  [srv EXCEPT !.authorizations = added, !.config.authorizations = added]

(* Server::remove_authz                                                     *)
ServerRemoveAuthz(srv, n) ==
  LET rest == Drop(srv.authorizations, n)
  IN  IF n \in DOMAIN srv.authorizations
        THEN [srv EXCEPT !.authorizations = rest, !.config.authorizations = rest]
        ELSE srv

(* SrvIndex::add_authz on the servers of a's namespace: added where it      *)
(* selects the server, removed where it does not (any more).                *)
AddAuthz(servers, a, authz) ==
  [s \in DOMAIN servers |->
     IF s[1] # a[1] THEN servers[s]
     ELSE IF Selects(authz.servers, s[2], servers[s].labels)
       THEN ServerAddAuthz(servers[s], a[2], authz.clients)
       ELSE ServerRemoveAuthz(servers[s], a[2])]

(* SrvIndex::remove_authz on the servers of a's namespace.                  *)
RemoveAuthz(servers, a) ==
  [s \in DOMAIN servers |->
     IF s[1] = a[1] THEN ServerRemoveAuthz(servers[s], a[2]) ELSE servers[s]]

(* iter_matching: the servers of namespace ns that select pods with these   *)
(* labels.                                                                  *)
IterMatching(servers, ns, labels) ==
  {s \in DOMAIN servers : s[1] = ns /\ labels \in servers[s].selector}
=============================================================================
