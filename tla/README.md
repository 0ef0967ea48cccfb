# Verification of the polixy policy controller

Polixy's controller watches Nodes, Pods, Servers and ServerAuthorizations in a
Kubernetes cluster and serves each proxy, over gRPC, the policy of each of its
pod's ports: which protocol to expect and which clients to admit. What can go
wrong is almost always a matter of order: four watches that are not ordered with
each other, lists that stand for everything that was missed, indexes that refer
to each other, and streams that read them on other threads while they change.

These modules model that, the runs check it on small clusters, and the proofs
establish the central invariants for every cluster. Paths below are relative to
the repository; `index/` is `controller/k8s/index/src/`, `api/` is
`controller/k8s/api/src/`.

## 1. Inventory

| Part | Source | State | Operations |
|---|---|---|---|
| Node index | `index/node.rs` | name -> Known(kubelet IPs) or Pending(pods that wait) | apply, delete, reset; push and clear pending pods |
| Pod index | `index/pod.rs` | per namespace: pod -> labels, default policy, ports; a port has the name of its Server and a channel | apply, delete, reset; link servers, reset server |
| Server index | `index/server.rs` | per namespace: server -> labels, selector, port, protocol, authorizations, channel | apply, delete, reset; add and remove an authorization |
| Authorization index | `index/authz.rs` | per namespace: authorization -> which servers, which clients | apply, delete, reset; filter by server |
| Namespace index | `index/namespace.rs` | the three above, per namespace, created on first use | get or create |
| Default policies | `index/default_allow.rs` | five channels that never change | get by mode |
| Lookups, streams | `index/lookup.rs` | shared map pod -> port -> receiver; per stream, two receivers and the last value | set, unset, lookup; get, into_stream |
| Indexing task | `index/lib.rs` | the indexes, `ready` | dispatch of events, readiness |
| API watches | `api/watch.rs`, `api/lib.rs` | `ready`, the stream below | recv |
| Selectors, resource types | `api/labels.rs`, `api/polixy/` | none | matches, decode |
| Core types | `controller/core/src/` | none | matching of networks and identities |
| gRPC server | `controller/grpc/src/lib.rs` | one response stream per call | get_port, watch_port, conversions |
| Process | `controller/src/main.rs` | tasks, drain channel | start, shut down |
| Admin server | `controller/src/admin.rs` | the receiver of `ready` | GET /ready |
| Deployment | `k8s/controller/deploy.yml` | the kubelet's count of failed probes | probe, restart |
| Client | `client/src/` | per port, a stream and a channel | watch and retry, conversions, connection checks, HTTP API, CLI |

How they interact. One task owns the indexes: `Index::index` selects over the
four `Watch::recv` futures, handles one event to its end without awaiting, and
then recomputes readiness. It alone writes `lookups` and the watch channels; gRPC
handlers on other threads read them at any moment, also halfway through a
handler. A port's policy is behind two channels: the port's own holds the
*receiver* of a Server's (or of a default policy's) channel, and that one holds
the InboundServer. A stream follows both. Readiness goes through one more channel
to the admin server, which the kubelet probes.

What is hard, part by part, and what makes each correct:

- *Nodes and pods*: a pod may precede its node, be deleted while it waits, or see
  the node fail or go. Correct when a pod is either indexed or waiting exactly if
  it exists and is scheduled, in one place only, and discoverable exactly while it
  is indexed.
- *Servers and pods*: links are made, kept and undone by four functions. Correct
  when the name a port is linked to, its channel and the server index agree; when
  a link never moves to a conflicting server; and when the one Server that matches
  a port is the one it is linked to.
- *Authorizations and servers*: two paths compute which apply to which, depending
  on who comes first. Correct when both copies a server keeps are always those of
  the authorizations that select it now.
- *Streams*: the index sends between any two steps of a stream. Correct when no
  last value is missed, the stream settles, does not spin for good, and ends.
- *Readiness*: an error does not return from `recv`, and the futures of the other
  watches are dropped on every event. Correct when the controller is ready no
  earlier and no later than all lists are in, ready again once a failed watch
  works again, and not ready when it is cut off.
- *Client*: retries after a stream's end or error, against a controller that
  drains, dies and starts with an empty index. Correct when the channel it fills
  ends up with the port's current policy whatever happened, it gives up only where
  no controller will ever answer, rests between calls, and neither it nor the
  controller keeps the other from stopping.
- *Decisions*: an authorization is decoded, validated, converted three times and
  interpreted by code that shares nothing with the code that wrote it. Correct when
  a connection is admitted exactly if the objects, read as the design and the CRD
  define them, say so.

## 2. Modules

| Module | What it models |
|---|---|
| `Resources` | the objects the watches deliver, reduced to what the index reads; partial maps |
| `AuthzIndex` | `authz.rs`: which authorizations are valid and what they select |
| `ServerIndex` | `server.rs`: a server's record and what each operation does to it |
| `PodIndex` | `pod.rs`: ports, links, resets |
| `NodeIndex` | `node.rs`: known and pending nodes |
| `PolicyIndex` | the indexing task: the state, one action per event and per iteration of a reset, the properties |
| `PolicyStream` | what a stream promises its client, without the channels it is made of |
| `LookupStream` | one policy stream, `lookup.rs` and `grpc/src/lib.rs`, against the sends of the index; implements `PolicyStream` |
| `PortWatch` | `PolicyStream` composed with the client (`watch_ports.rs`), a connection that fails and a controller that drains, exits, is killed and restarted (`main.rs`) |
| `Readiness` | the watches, the select! loop's readiness, the admin server, the kubelet |
| `Labels` | `labels.rs`: how a selector matches |
| `Authorize` | decoding, `mk_authz`, the default policies, `to_authz`, the client's decoding and checks, the HTTP API: pure functions |
| `ProxyDecision` | the functions of `Authorize` one after the other over changing authorizations, and the design they are compared with |
| `MCPolicyIndex`, `MCLookupStream`, `MCPortWatch`, `MCReadiness`, `MCProxyDecision` | the constants of the finite instances |
| `IndexLemmas` | what the operators of the index return and preserve |
| `PolicyIndexProofs`, `AuthorizationProofs`, `DeliveryProofs`, `LookupStreamProofs`, `PortWatchProofs`, `ReadinessProofs`, `DecisionProofs` | the theorems |

The index is split as the code is: the operators of each index are in its module,
without state, and `PolicyIndex` composes them into handlers, because every
handler touches several indexes.

### How the index corresponds to the code

- A map per namespace is a map keyed by `<<namespace, name>>`. A namespace's entry
  is made on first use and never removed, which the flat maps cannot tell.
- A label map is one abstract value and a selector is the set of values it
  matches; `Labels` is how it matches them. What an authorization admits is one
  abstract value, valid or not; `Authorize` is what it means.
- An Applied or Deleted event is one step: readers could see inside it, but each
  handler's writes to one pod's lookups and channels are in `LookupStream`.
- A Restarted event is `...Restarted`, one `...Listed` per listed object and one
  `...Defunct` per object that is gone, in any order within each phase (the list's
  order is the API's, the other a hash map's). `task` holds what is left, and no
  other event is taken until it is done. So invariants are checked in the states
  that readers can see halfway through a reset.
- `Picks` is the order in which a hash map yields servers: any order, the same one
  for all the ports that one handler links.
- `nodeObjs` ... `authzObjs` hold what each watch has delivered. They are the
  environment's: the handlers do not read them, the properties compare the index
  with them.
- The environment: any object of the instance's sets may be applied, deleted and
  listed at any time. A pod keeps its ports, and its node once it has one, unless
  it was deleted; a list may stand for a deletion and a creation that were missed.
- `debug_assert!` is left out, as in a release build: in a debug build a port that
  meets a second Server stops the task.
- `Put`, `Drop`, `PMap` are the standard maps. `LinkPort` models what
  `Pod::link_servers` and `link_server_port` do to one port, the final clearing of
  unmatched ports included; `IndexPods` and `ApplyPod` call it for every port.
- The lookups map holds, for a pod, its kubelet's addresses and its ports; the
  value of the port's channel is kept with the port.

### How the stream corresponds to the code

A tokio watch channel keeps its last value; each receiver knows whether it has
seen it. `outer` is what the port's channel holds and `outerNew` whether this
stream's receiver has yet to see it; `inner` is the receiver the stream holds, with
the value of its channel and whether the channel is still open. `changed()` reports
an unseen value before it reports the end, and so do `InnerChanged`, `OuterChanged`
and `OuterClosed`. Each await, borrow and yield of `into_stream` is a step: between
`outer.changed()` and `outer.borrow()`, and between that and the new inner
receiver's `borrow_and_update()`, the index may do anything. When `inner.changed()`
is an error the code does nothing and selects again; such a step changes nothing and
is left to stuttering, and `SpinsOnlyWhileRemoving` says when it can happen.
`response_stream` contributes the drain (`Drained`) and the end; `Cancel` is the
client's. `removing` is the point inside `rm_server` where the server, with its
channel's sender, is gone and the ports are not reset yet.

The writer's actions are the sends of the index's handlers to this one port's
channels: that `PolicyIndex` makes no other is `PortSendsHold`, proved.

`Promise` is the refinement: `LookupStream` as `PolicyStream`, which has one policy,
whether the pod is there, what was told last, and `lag`, how much the stream has yet
to look at. `Behind` computes the lag from the step a stream is in and what it has
not seen; 7 is the most it can be. What `PolicyStream` adds to a plain "some policy,
some time" is that only the index's changes put a stream further behind, each step
of its own brings it closer, and at 0 it has told the current policy.

### How the client corresponds to the code

`PortWatch` extends `PolicyStream`: its steps of the controller are those of the
stream, each with what it does to the connection. `task` is where `watch_port`,
`start_watch` and `recover` are: about to call, waiting for the first value of a new
stream, asleep in `recover`, waiting in the loop of the task, failed, or ended by
`tx.closed()`. `rx` is the value of the channel, which exists from the first policy
on. `wire` is what is sent and not read, at most `Window` messages: the server polls
its stream only while the connection takes more, and the end of a stream is read
after what precedes it. `server` is `up`, `closing` (the drain is signaled, no more
streams are taken, `release_after` waits for those there are) or `down`.

The connection fails in two ways. `Break` is a failure that both ends notice. `Sever`
cuts a stream (`cut`) and neither notices: the client goes on waiting, since it sends
nothing and no keepalive is configured (`client/src/lib.rs:80`,
`controller/grpc/src/lib.rs:34`), and the controller goes on polling its stream. From
there the network may come back (`Heal`), TCP may give up what the controller has
sent and then closes the controller's end only (`GiveUp`), and the controller may be
killed without the client being told (`Vanish`). A client that drops a stream that is
cut tells the controller when the network comes back. A stream whose end only the
controller still holds is not kept beside the client's next one, which is a call and
finds the network back.

A kill or an exit forgets the index: a restarted controller answers NotFound until
the pod has been listed. The end of the index task or of the admin server ends
`main` too, and is a `Kill`. Requests of the client have a 16-bit port;
`TargetExact` is about any 32-bit one, as another client may send.

### How decisions correspond to the code

`Decodes` is serde, `Valid` and `MkClients` are `mk_authz` and `mk_mtls_authn` with
the errors apart from the value, `ToAuthz` the message, `Converts`, `Permits` and
`Check` the client's. An address is a value, a network the set of its addresses, an
identity the sequence of its labels: string functions (`split('.')`, `starts_with`,
`ends_with`) are what they do to such sequences. `Check` takes the first
authorization in the order of the names, of which the kubelet's `_health_check` is
one; names are numbers. In `ProxyDecision` the authorizations of a namespace, the
Server's labels and the port's link change freely, and the decision is what a
controller and a client that start now would come to: that running ones come to the
same is what the other modules show. `Globs`, `IsOf`, `Covers`, `References` and
`ModeAllows` restate the sentences of `DESIGN.md` and `authz.yml` that they quote;
nothing of the code is in them.

### How readiness corresponds to the code

`phase[w]` is where the `recv()` of a watch is: waiting, or asleep after an error.
`Loop` is the rest of a round of `Index::index` after one `recv()` has returned: the
other three futures are dropped (`phase` is reset for all, since the next round
calls `recv` anew), the event is handled, readiness is recomputed. `RecvError` is the
other branch of `recv`: the watch is not ready, and does not return.

The streams below are external; they are those of the kube-runtime that `Cargo.lock`
names (0.58.1). One that starts lists, and its list is a Restarted event (`RecvList`);
a list that fails is tried again (`relist` stays). One that has listed and fails
(`StreamFails`) *resumes*: it lists anew only when the API says that it is too far
behind (410), and has no event of its own otherwise. `pending` holds the watches with
changes that have yet to arrive as Applied or Deleted events (`RecvUpdate`), so an
event is always of a change. `malformed` holds the custom resources of which some
object does not decode: their lists fail like a lost connection (`ListFails`), and the
event of such an object is an error (`bad`, `EventFails`), after which the stream goes
on to the next.

## 3. Properties and runs

`tlc -config <run>.cfg <module>` in this directory repeats a run. All pass runs
explore their whole state space; none needs a bound on a counter, since the
indexes are functions of finite sets and the only count, of failed probes, is
bounded by the kubelet.

| Run (module) | Instance | Shows |
|---|---|---|
| `pods` (`MCPolicyIndex`) | 2 pods, each with labels of its own and the same list of ports (named, unnamed, UDP and a duplicate), unscheduled or on either of 2 nodes; 2 Servers that never both match a port; lists of nodes and pods | `LookupsMatchIndex`, `PendingOnce`, `PodsAccountedFor`: no order of node and pod events, deletions and lists loses a pod, keeps a dead one, or leaves it in two places; `KubeletOfOwnNode`: a pod that becomes discoverable has its own node's kubelet; `SoleMatchLinked`: the one Server that matches a port is linked |
| `links` | 1 pod of 2 label maps, 2 modes, one or two ports, one of them named; 2 Servers of 4 shapes that overlap by number and by name | `LinksConsistent`; `FirstLinkWins`: a link only goes through the default policy, and never to a conflicting server |
| `authzs` | 1 Server of 2 label maps and 2 ports; 2 authorizations of 6 shapes, three of them invalid; a second namespace with an authorization and a Server of the same names, the Server opaque | `TypeOK`, `AuthorizationsExact`, `AuthzsCurrent`; `AuthzsKept`: an authorization edited into an invalid one stays as it was, also through resets; `ServersCurrent`: labels, selector, port and protocol are those of the object |
| `stream` (`MCLookupStream`) | 2 servers, 2 policies, 1 stream at a time | `KeepsPromise`: the refinement, its fairness included; `NoLostUpdate`, `SpinsOnlyWhileRemoving`; liveness: `Settles`, `EndsWithPod`, `EndsOnShutdown` |
| `client` (`MCPortWatch`) | 3 policies, a lag of 3, 2 messages in the connection, which may be cut unnoticed; requests well formed and not, ports 0, 80, 65535, 65536 and 65616 (80 when narrowed) | `TargetExact`, `EndToEnd`, `GivesUpOnlyIfInvalid`; liveness: `Converges`, `Rests`, `ShutsDown`, `LetsGo` |
| `ready` (`MCReadiness`) | 3 watches, one of a custom resource, each with changes; a threshold of 2 | `ReadyAfterLists`, `ReadyWhenAllAre`; liveness: `BecomesReady` |
| `decisions` (`MCProxyDecision`) | 2 authorizations, one of every combination of fields, before and after `_health_check`; 4 addresses of 2 families, 5 identities; every default mode; HTTP requests of every kind | `DecisionsRight`, `DefaultsRight`, `NamesItsReason`, `ClientConverts` |

Why these bounds are enough: two pods or two nodes are what it takes for a pod to
wait in two places or for an order of pending pods to matter; two Servers and two
label maps for a conflict, a handover or a replacement; two authorizations for one
to survive the other's removal; two namespaces for one to leak into the other. A
stream only tells servers apart by whether it holds the one its port is linked to,
and two policies let every send change or keep a value. A client needs three: one
read, one on the way, one current; a window of 2 lets a connection hold several and
be full; the lag of 3 has a stream that is told of a change while it looks at one.
An authorization is independent of the others but for the order of names and a
common server, so one of every shape beside one of a few covers what two can do to
each other; five identities have zero to three labels more than the suffixes.
Restricting each run to a part of the cluster keeps the others still, which is sound
because the runs that combine them (`links`, `authzs`) exercise the cross-index
calls and the theorems hold for all of them at once.

Five runs end in a violation, each of a sentence the repository says of itself:

| Run | What the code does | What is said |
|---|---|---|
| `relabel` | a port that is linked keeps its Server although the pod's labels now match another Server only (`pod.rs:335`) | "we relink servers to pods in case label selections have changed" (`pod.rs:214`) |
| `no_cidr` | deleting a node that is still pending, because it has no CIDR, forgets the pods that wait for it (`node.rs:138`) | "the pod is saved to be processed later" (`pod.rs:159`) |
| `protocol` | `proxyProtocol` is replaced only by itself: the comparison is inverted (`server.rs:114`) | "If something about the server changed, we need to update the config to reflect the change" (`server.rs:106`) |
| `disconnected` | readiness is recomputed after events only; with no connection there is none (`lib.rs:183`) | "Allow the controller to reman disconnected [...] for 2 minutes before failing the container" (`deploy.yml:64`) |
| `decode` | serde requires `identities`, `serviceAccounts` and `except`, which the CRD does not: an object with one of them fails its whole list (`api/polixy/authz.rs:51`) | "Exactly one of `identities` and `service_accounts` should be set" (`api/polixy/authz.rs:43`) |

Five more configurations do, which are variations on these runs: of the same module,
an instance or a property apart (`tlc -config <name>.cfg <module>` as above).

| Configuration (module, property) | What the code does | What is said |
|---|---|---|
| `handover` (`MCPolicyIndex`, `SoleMatchLinked`) | a reset applies new servers before it removes old ones: a port whose Server was replaced while the watch was away ignores the new one and is then reset to its default policy (`server.rs:263`) | "Either this port is using a default allow policy, and the server name is unset, or multiple servers select this pod" (`pod.rs:331`) |
| `recreated` (`MCPolicyIndex`, `KubeletCurrent`) | a pod that is indexed keeps its kubelet: one recreated on another node between two lists has the old node's (`pod.rs:208`) | "Unauthenticated connections are _always_ permitted from the kubelet" (`DESIGN.md:230`) |
| `quiet` (`MCReadiness`, `ResetAfterFailure`) | a watch that failed and resumes is ready only after its next event (`watch.rs:49`) | "sleep for 1s before polling for a reset event" (`watch.rs:35`) |
| `absent` (`MCPortWatch`, `GivesUpIfAbsent`) | the client gives up on InvalidArgument, the controller answers NotFound (`watch_ports.rs:95`) | "we assume that InvalidArgument means we're querying about a workload or port that doesn't exist" (`watch_ports.rs:92`) |
| `not_in` (`MCProxyDecision`, `DecisionsRight`) | `NotIn` matches the values it lists (`labels.rs:143`) | authorizations reference servers by "label selector" (`DESIGN.md:196`) |

`pods` and `links` show how far the first goes: without relabelled pods and
conflicts `SoleMatchLinked` holds, and with all of them a port is never left with
the channel of a server that is gone.

The instances of the passing runs leave out what these are about, and no more:
`pods` has neither relabelled pods nor lists of Servers (`relabel`, `handover`) and
nodes with addresses (`no_cidr`); in `authzs` a Server keeps its protocol (`protocol`),
and in `decisions` every object decodes and no selector uses NotIn (`decode`,
`not_in`). `KubeletOfOwnNode` is about pods that become discoverable, and holds in `pods`;
that the kubelet is right ever after is `KubeletCurrent`, violated in `recreated`.

### Fairness

`PolicyIndex` has safety properties only; its specification assumes no fairness.

`LookupStream`: a handler that has begun goes on (`ResetServer`); a stream that is
polled runs on to its next yield or wait; a client reads what it is sent, or
cancels. The branches of the two select!s are strongly fair: tokio picks a random
one to poll first each time, so a branch that is ready again and again is taken
although another is always ready, too. Nothing is assumed of clients starting
streams, of the events of the cluster, or of a shutdown. `Settles` supposes that
the port's link and policy settle and the stream stays open; an update of another
server, to which the port was linked before, may still occur forever.

`PolicyStream` promises that a stream that is behind advances and one that has its
end to tell ends; the stream keeps that by its strongly fair branches (`KeepsPromise`).

`PortWatch`: the client's task runs (`Receive` strongly, since a connection may be cut
again and again), and a connection that takes more polls its stream. `EndStream` is
strongly fair: a full connection keeps disabling it. The server closes and `main`
returns when they can. TCP gives up in the end what it sends and does not get across
(`GiveUp`); an end that has nothing to send never notices. Nothing is assumed of the
index, of failures, restarts, the network's repair or the owner of the receivers:
`Converges` states the stability it needs, among it that the client is not cut off from
its stream for good: the code has nothing that would tell it. `LetsGo` says that the
task ends in any case, and its stream if the controller can be told. `Rests` leaves out
a controller that is restarted for ever, since a new process may drain at once each
time. `ShutsDown` needs the fairness of the client only in that a client reads or goes,
and of TCP that a full connection that is cut is given up.

`Readiness`: a stream without a connection fails in the end, a sleep ends, and a
list, change or error that is there is delivered (select! polls all the watches in a
random order, and a round ends every sleep). Connections, changes and probes are
unconstrained in `Spec`; `ProbedSpec` adds that the kubelet probes and restarts for
ever, which is what `disconnected` needs to be a fair counterexample. `BecomesReady`
supposes that each watch has a change again and again: in a quiet cluster a watch that
failed once stays not ready (`quiet`). It leaves out a cluster in which the liveness
probe goes on restarting the controller before it has listed: there is no clock to say
that two minutes suffice.

## 4. Proofs

`tlapm <module>.tla` checks them. The assumptions are those on the constants,
stated in the modules that declare them: sets of names that do not contain `None`,
container ports that are records, object sets of the right type, a default mode
that is a mode, at least one watch, a port of 16 bits, a window and a lag of at
least one; for decisions, selectors, identities and requests of the shape that serde,
`split('.')` and TLS give them, a cluster network and kubelet that have addresses, and
labels of identities that do not contain `None`. No set is assumed finite.

- `PolicyIndexProofs!TypeCorrect` (`TypeOK`), `LinksConsistentHolds`
  (`LinksConsistent`), `LookupsMatchIndexHolds` (`LookupsMatchIndex`). The three are
  one induction: types are needed for the links, and the ports that lookups list
  are those of the pod index, which linking must not change. `IndexLemmas` says of
  each operator on pods and servers that it keeps types and port sets and makes a
  pod consistent with the server index it is given; a lemma per handler combines
  them; the theorem has one step per event. What makes the invariant inductive is
  that a handler which removes a server resets every port linked to it in the same
  step, and that linking goes over every pod of the namespace after an update.
- `FirstLinkWinsHolds` (`FirstLinkWins`), an action property: `WinsFor` compares a
  pod before and after linking, a lemma per handler says that it holds of every pod
  the handler touches, and those it does not touch satisfy it trivially.
- `PortSendsHold` ties `PolicyIndex` to `LookupStream`: from that comparison and
  `LinksConsistent` on both sides of a step, what the index does to a port's channel
  is one of the sends `LookupStream` gives its writer, so that the guard of its
  `LinkPort` (the port has the default policy) and its `ResetServer` are not
  assumptions. A handler of `PolicyIndex` is one step where the writer takes two, as in
  `RemoveServer` and `ResetServer`; hence a statement about steps and no INSTANCE.
- `AuthorizationProofs!AuthorizationsExactHolds` (`AuthorizationsExact`): on top of
  the types, that `add_authz`, `remove_authz` and the recomputation on relabelling
  each keep both copies equal to `FilterSelected`. It is inductive by itself given
  types: the code's incremental updates agree with the definition from scratch.
- `DeliveryProofs`: the index against what the watches delivered. `PendingOnceHolds`
  and `KubeletOfOwnNodeHolds` rest on `Waits`, which says where every waiting pod is
  *and* that the pods a reset has yet to list are those of the objects.
  `PodsAccountedForHolds` (`PodsAccountedFor`) assumes `NodesHaveAddresses`, without
  which it is false (`no_cidr`); on top of `Waits`, `PodsInv` says that every
  scheduled pod is indexed, waiting or still to be listed, and `NodesInv` that a node
  which exists is known or still to be listed, so that neither a deletion nor the end
  of a reset takes a pending node, and its pods, away. `AuthzsKeptHolds`
  (`AuthzsKept`) follows from `AuthzsInv`: what a reset removes in the end was not
  listed. `ServersCurrentHolds` and `AuthzsCurrentHolds` are about states between
  events, while a list takes many steps: the invariants (`ServersInv`, `AuthzsInv`)
  say of every key whether it is current, still to be applied or still to be removed,
  and the two are what is left when nothing is to be done. `ServersCurrentHolds`
  assumes `KeepsProtocols`, that no step, a list included, changes the protocol of a
  Server that is there; `protocol` is the counterexample without. Under it
  `ProtocolsInv`, the stored protocol is the object's, holds at every step.
  `SoleMatchLinkedHolds` (`SoleMatchLinked`) is about every way in which pods and
  Servers come, change and go, lists of both included. Its hypotheses are what the
  code cannot do without: `ConflictFree`; `KeepsPods`, that no pod there is relabelled
  (`relabel` is the counterexample) or, between two lists, replaced by one of other
  ports; and `HandsOverNoPort`, that no list replaces a port's Server by another.
  `pods` is an instance where all three hold. The invariant is `LinkInv`. `Linked`
  alone, that every port is linked to a Server that matches it if there is one, is not
  inductive: when a Server goes or stops matching, its port is right to fall back to
  the default only because no other Server matches it. `Sole` says so of the Servers
  in the index *and* of those a reset is still to apply, together, and follows from
  `Permitted`, which is about the objects delivered, since `Indexed` says that a pod
  in the index has the labels and ports of its object, and `Waits` that one that waits
  will be indexed with them.
- `LookupStreamProofs!NoUpdateIsLost` (`NoLostUpdate`) and `SpinsAreBounded`
  (`SpinsOnlyWhileRemoving`). Neither is inductive: at "select" they depend on what
  the stream knew at each of the points before it. The invariant `IInv` says what a
  stream that has seen the port's last value knows: that its inner receiver *is*
  the port's, and that, unless the inner receiver has something new, what it
  yielded or is about to compare is that receiver's value. `StreamKeepsPromise` is
  the step simulation of `PolicyStream` under the same invariant: the index's steps
  are changes or stutters, the stream's advance, finish or stutter.
- `PortWatchProofs!EndToEndHolds` (`EndToEnd`), `GivesUpOnlyIfInvalidHolds`,
  `TargetExactHolds`, `TypeCorrect`. `EndToEnd` needs `Delivered`: the last policy on
  the wire, or in the channel when the wire is empty, is the last one told; and
  `CaughtUp`, an invariant of `PolicyStream`. `Answerable` says that a task which has
  a channel has a request that is well formed.
- `DecisionProofs`: the decision as a whole. `DecisionsRightHolds`
  (`DecisionsRight`) and `NamesItsReasonHolds` (`NamesItsReason`) assume `NoNotIn`, no
  selector with `NotIn`, and the first also `AllDecode`, no object that serde refuses:
  `not_in` and `decode` are the counterexamples without. `DefaultsRightHolds`
  (`DefaultsRight`) and `ClientConvertsHolds` (`ClientConverts`) assume nothing. They
  are proved along the path of an authorization: `SelectsReferenced` (the index
  selects the Servers the object references, by `SelectorsRight`: without `NotIn`,
  `Selector::matches` is Kubernetes' definition), `NetworksCovered` and
  `IdentitiesMatch` (by `SuffixesAreGlobs`: the star cut off by `mk_mtls_authn` and
  matched by `Suffix::contains` is the glob of the design, for identities of any
  length, and `ServiceAccountIs`) give `PermitsAuthorized`, one authorization.
  `PolicyIs` says which are in the policy, `CheckFinds` that the client's loop finds
  one that permits if there is one (names are well ordered), `KubeletPermitted` that
  `_health_check` is for the kubelet, `AnswerIs` that the HTTP API tells what was
  found, and `Decided` puts them together. `NotInInverted`: with `NotIn` and the key
  there, a selector does the opposite of what it should.
- `ReadinessProofs!ReadyAfterListsHolds` and `ReadyWhenAllAreHolds`: a ready watch
  has listed because a stream lists before anything else (`ListsFirst`).

Every invariant and every action property of the passing runs is proved, under the
hypotheses named above. Only model-checked are the liveness properties and, in
`KeepsPromise`, the fairness of `PolicyStream`: they are out of the prover's reach,
as ENABLED and induction over data are. The violations are TLC's, but for `NotInInverted`.

## 5. Not modelled

- CIDR arithmetic and parsing (external crates); logging and tracing; the manifests
  apart from the probe and what the CRDs admit; argument parsing and the printing
  commands of the client, which keep no state.
- The conversion of protocols to the message and back, which is one to one.
- `watch_ports` of several ports: they are independent but for the join at start,
  where one port that does not exist keeps the HTTP API from starting.
- Panics of `expect`: those on channels cannot happen while `lookups` and the pod
  index agree (`LookupsMatchIndex`), since `lookups` holds the receivers; those on
  missing namespaces and names cannot for objects from the API.
- Real time: sleeps and probes are events whose order is free. That select! cuts the
  second's sleep of a failed watch short when another watch delivers, against the
  comment at `watch.rs:35`, is in the model (`Loop`), not in a property. The client's
  `recover` never backs off further than its one second.
- `container_port as u16` (`pod.rs:241`) narrows only values that the API refuses.
- `matchExpressions` of `authz.yml` requires a property `value` that no object has a
  use for: a slip of the manifest, outside the program.

## 6. Plan

Done, in this order, as the policy a proxy gets depends on it most: the index
(`Resources` ... `PolicyIndex`), the stream (`LookupStream`), readiness
(`Readiness`); then the abstract stream and the client at its end (`PolicyStream`,
`PortWatch`), and decisions (`Labels`, `Authorize`, `ProxyDecision`); with their
proofs.

Then the proofs of what had only been checked: `SoleMatchLinked`, the decisions, and
that the index makes the sends of `LookupStream`'s writer. And, last, what the streams
and connections below the program do when they fail: watches that resume without an
event, connections that are cut unnoticed.

Next: the join of `watch_ports` over several ports at the start of the HTTP API, which
one port that does not exist holds up for ever (the one hazard without a property).
