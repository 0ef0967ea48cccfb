---------------------------- MODULE AuthzIndex ----------------------------
(***************************************************************************)
(* The index of ServerAuthorizations (controller/k8s/index/src/authz.rs): a *)
(* map from keys to [servers, clients].  A ServerSelector is <<"name", n>>  *)
(* or <<"selector", s>>.                                                    *)
(***************************************************************************)
EXTENDS Resources

ServerSelector ==
  ({"name"} \X ServerNames) \cup ({"selector"} \X SUBSET ServerLabels)

Authz == [servers : ServerSelector, clients : Clients]

(* MUTANT: the client section is not checked.                               *)
ValidAuthzAnyClients(obj) == (obj.name = None) # (obj.selector = None)

(* mk_authz fails unless exactly one of name and selector is given and the  *)
(* client section is valid.                                                 *)
ValidAuthz(obj) ==
  /\ (obj.name = None) # (obj.selector = None)
  /\ obj.clients # None

MkAuthz(obj) ==
  [servers |-> IF obj.selector = None THEN <<"name", obj.name>>
                                      ELSE <<"selector", obj.selector>>,
   clients |-> obj.clients]

(* Whether a selector selects the server named n that has these labels.     *)
Selects(sel, n, labels) ==
  \/ sel = <<"name", n>>
  \/ sel[1] = "selector" /\ labels \in sel[2]

(* filter_selected: the clients of the authorizations of server s's         *)
(* namespace that select it.                                                *)
FilterSelected(authzs, s, labels) ==
  [n \in {m \in AuthzNames : /\ <<s[1], m>> \in DOMAIN authzs
                             /\ Selects(authzs[<<s[1], m>>].servers, s[2], labels)}
     |-> authzs[<<s[1], n>>].clients]
=============================================================================
