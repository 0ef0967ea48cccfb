----------------------------- MODULE Resources -----------------------------
(***************************************************************************)
(* The Kubernetes objects the four watches deliver, reduced to what the     *)
(* index reads of them, and the partial maps (HashMap, BTreeMap, DashMap)   *)
(* the index is made of.                                                    *)
(*                                                                          *)
(* An object's label map is one abstract value.  A label selector is the    *)
(* set of the label values it matches, so that s.matches(labels) is         *)
(* labels \in s.  An Option::None is None.                                  *)
(***************************************************************************)
EXTENDS Naturals, Sequences, Functions

CONSTANTS
  Namespaces,    \* namespaces of the cluster
  PodNames, NodeNames, ServerNames, AuthzNames,
  PodLabels,     \* label maps a pod can carry
  ServerLabels,  \* label maps a Server can carry
  PortNumbers,   \* container ports (1..65535 by the API's validation)
  PortNames,     \* names of container ports
  PortLists,     \* the lists of container ports pods may have
  Modes,         \* default-allow modes
  ClusterDefault,\* the mode the controller was started with
  ProxyProtocols,\* spec.proxyProtocol, "unknown" among them
  Clients,       \* what a ServerAuthorization's client section authorizes
  KubeletIps,    \* addresses a node's pod CIDRs give its kubelet
  None

(* A None stands for an absent value of each of the optional fields.        *)
ASSUME NoneAssumption ==
  /\ None \notin NodeNames \cup ServerNames \cup PortNames \cup Modes
  /\ None \notin ProxyProtocols \cup Clients \cup KubeletIps
  /\ \A s \in SUBSET ServerLabels : None # s

(* The --default-allow argument is one of the modes; a port reference is a  *)
(* number or a name, never both.                                            *)
ASSUME ModeAssumption == ClusterDefault \in Modes
ASSUME PortAssumption == PortNumbers \cap PortNames = {}

ContainerPort ==
  [number : PortNumbers, name : PortNames \cup {None}, tcp : BOOLEAN]

ASSUME PortListAssumption == PortLists \subseteq Seq(ContainerPort)

----------------------------------------------------------------------------
(* Partial maps.                                                            *)

PMap(S, T) == UNION {[D -> T] : D \in SUBSET S}

(* f \in PMap(S, T), as TLC evaluates it without building the set.          *)
IsPMap(f, S, T) == DOMAIN f \subseteq S /\ f \in [DOMAIN f -> T]

EmptyMap == [x \in {} |-> x]

Put(f, k, v) == [x \in DOMAIN f \cup {k} |-> IF x = k THEN v ELSE f[x]]

Drop(f, k) == Restrict(f, DOMAIN f \ {k})

(* The lists a watch may return when each object k is one of A[k].          *)
ListsOf(A) ==
  UNION {{f \in [D -> UNION {A[k] : k \in D}] : \A k \in D : f[k] \in A[k]} :
         D \in SUBSET DOMAIN A}

----------------------------------------------------------------------------
(* Objects.  Pods, Servers and ServerAuthorizations are keyed by namespace  *)
(* and name, nodes by name.                                                 *)

PodKeys    == Namespaces \X PodNames
ServerKeys == Namespaces \X ServerNames
AuthzKeys  == Namespaces \X AuthzNames

(* A node is what try_from_node makes of its spec: None when it has no      *)
(* usable pod CIDR (yet).                                                   *)
NodeObj == KubeletIps \cup {None}

(* node is None for a pod that is not scheduled (or has no spec);           *)
(* annotation is None when the default-allow annotation is absent or        *)
(* invalid, which the index treats alike (a warning aside).                 *)
PodObj ==
  [labels : PodLabels, annotation : Modes \cup {None},
   node : NodeNames \cup {None}, ports : PortLists]

PortRef == PortNumbers \cup PortNames

ServerObj ==
  [labels : ServerLabels, selector : SUBSET PodLabels, port : PortRef,
   protocol : ProxyProtocols \cup {None}]

(* server.name and server.selector are both optional in the object; clients *)
(* is None when the client section is invalid (a bad CIDR, no mTLS section, *)
(* an empty list of identities).                                            *)
AuthzObj ==
  [name : ServerNames \cup {None}, selector : {None} \cup SUBSET ServerLabels,
   clients : Clients \cup {None}]
=============================================================================
