----------------------------- MODULE NodeIndex -----------------------------
(***************************************************************************)
(* The index of nodes (controller/k8s/index/src/node.rs): a node is known,  *)
(* with its kubelet's addresses, or pending, with the pods that wait for it.*)
(***************************************************************************)
EXTENDS Resources

Known(ips)    == [state |-> "known", ips |-> ips]
Pending(pods) == [state |-> "pending", pods |-> pods]

State ==
  [state : {"known"}, ips : KubeletIps] \cup
  [state : {"pending"}, pods : PMap(PodKeys, PodObj)]

KnownNodes(nodes)   == {n \in DOMAIN nodes : nodes[n].state = "known"}
PendingNodes(nodes) == DOMAIN nodes \ KnownNodes(nodes)

(* The nodes on which pod k is waiting.                                     *)
PendingOn(nodes, k) == {n \in PendingNodes(nodes) : k \in DOMAIN nodes[n].pods}

(* The pending cases of get_or_push_pending: a node that is not in the      *)
(* index enters it with the pods that wait for it.                          *)
PushPending(nodes, k, pod) ==
  Put(nodes, pod.node,
      Pending(Put(IF pod.node \in DOMAIN nodes THEN nodes[pod.node].pods ELSE EmptyMap,
                  k, pod)))

(* clear_pending_pod, for a pod found on node n.                            *)
ClearPendingPod(nodes, n, k) == [nodes EXCEPT ![n].pods = Drop(nodes[n].pods, k)]

(* clear_pending_pods                                                       *)
ClearPendingPods(nodes) == Restrict(nodes, KnownNodes(nodes))
=============================================================================
