---------------------------- MODULE LookupStream ----------------------------
(***************************************************************************)
(* One WatchPort stream (controller/k8s/index/src/lookup.rs, into_stream,   *)
(* under controller/grpc/src/lib.rs, response_stream), on a thread of its   *)
(* own, against the indexing task.                                          *)
(*                                                                          *)
(* A port's policy is behind two watch channels: the pod port's, which      *)
(* holds the receiver of the channel of a Server or of a default policy,    *)
(* and that one, which holds an InboundServer.  A watch channel keeps its   *)
(* last value only; a receiver remembers whether it has seen it.  The       *)
(* stream holds a receiver of each and yields what it reads of the second   *)
(* when that differs from what it yielded last.                             *)
(***************************************************************************)
EXTENDS Naturals

CONSTANTS
  Servers,       \* names of Servers of the pod's namespace
  Policies,      \* InboundServers, the kubelet's authorization left out
  DefaultPolicy, \* the policy of the pod's default-allow mode
  Default        \* stands for the default policy where a Server's name could

ASSUME DefaultAssumption == Default \notin Servers
ASSUME PolicyAssumption  == DefaultPolicy \in Policies

VARIABLES
  (* The indexing task.                                                     *)
  indexed,    \* Servers in the index
  policy,     \* the last value of each one's channel
  indexedPod, \* whether the pod is in the index
  outer,      \* the receiver the pod port's channel holds
  removing,   \* rm_server has yet to reset this port
  draining,   \* the controller is shutting down
  (* The stream.                                                            *)
  pc,
  outerNew,   \* outer has been sent since its receiver last looked
  inner,      \* the inner receiver
  innerNew,   \* its channel has been sent since it last looked
  server      \* what the stream yielded last

writer == <<indexed, policy, indexedPod, outer, removing, draining>>
stream == <<pc, outerNew, inner, innerNew, server>>
vars   == <<writer, stream>>

(* A receiver: of whose channel, whether the sender still exists, and the   *)
(* channel's last value.  A Server that is removed and comes back has a new *)
(* channel; receivers of the old one stay as they were.                     *)
Rx == [of : Servers \cup {Default}, open : BOOLEAN, value : Policies]

(* MUTANT: the default policy's channel is created without a policy.        *)
DefaultRxUnset == [of |-> Default, open |-> TRUE, value |-> Default]

DefaultRx == [of |-> Default, open |-> TRUE, value |-> DefaultPolicy]
ServerRx(s) == [of |-> s, open |-> TRUE, value |-> policy[s]]

Receives(rx, s) == rx.of = s /\ rx.open
Sent(rx, s, v)  == IF Receives(rx, s) THEN [rx EXCEPT !.value = v] ELSE rx
Closed(rx, s)   == IF Receives(rx, s) THEN [rx EXCEPT !.open = FALSE] ELSE rx

Init ==
  /\ indexed = {} /\ policy = [s \in Servers |-> DefaultPolicy]
  /\ indexedPod = TRUE /\ outer = DefaultRx /\ removing = FALSE /\ draining = FALSE
  /\ pc = "ended" /\ outerNew = FALSE
  /\ inner = DefaultRx /\ innerNew = FALSE
  /\ server = DefaultPolicy

----------------------------------------------------------------------------
(* The indexing task: the steps of its handlers that this port's channels   *)
(* can tell apart.  Which ports a Server links is the business of PodIndex. *)

(* SrvIndex::apply for a server that is new: it gets a new channel.         *)
CreateServer(s) ==
  /\ ~removing /\ s \notin indexed
  /\ indexed' = indexed \cup {s}
  /\ \E v \in Policies : policy' = [policy EXCEPT ![s] = v]
  /\ UNCHANGED <<indexedPod, outer, removing, draining, stream>>

(* SrvIndex::apply, add_authz and remove_authz for a server that is there:  *)
(* they send, whether or not the value is another.                          *)
UpdateServer(s) ==
  /\ ~removing /\ s \in indexed
  /\ \E v \in Policies :
       /\ policy' = [policy EXCEPT ![s] = v]
       /\ outer' = Sent(outer, s, v)
       /\ inner' = Sent(inner, s, v)
  /\ innerNew' = (innerNew \/ Receives(inner, s))
  /\ UNCHANGED <<indexed, indexedPod, removing, draining, pc, outerNew, server>>

SendOuter(rx) ==
  /\ outer' = rx
  /\ outerNew' = (pc # "ended")
  /\ UNCHANGED <<indexed, policy, indexedPod, draining, pc, inner, innerNew, server>>

(* link_server_port, for a port that has no server.                         *)
LinkPort(s) ==
  /\ ~removing /\ indexedPod
  /\ outer.of = Default /\ s \in indexed
  /\ SendOuter(ServerRx(s)) /\ UNCHANGED removing

(* Pod::link_servers, for a port that no server matches (any more): it is   *)
(* sent the default policy, even if that is what it has.                    *)
UnlinkPort ==
  /\ ~removing /\ indexedPod
  /\ SendOuter(DefaultRx) /\ UNCHANGED removing

DropServer(s) ==
  /\ ~removing /\ s \in indexed
  /\ indexed' = indexed \ {s}
  /\ outer' = Closed(outer, s)
  /\ inner' = Closed(inner, s)
  /\ UNCHANGED <<policy, indexedPod, draining, pc, outerNew, innerNew, server>>

(* MUTANT: the ports of a server that is removed are not reset.             *)
RemoveServerOnly(s) == DropServer(s) /\ UNCHANGED removing

(* rm_server drops the server, and its channel's sender with it, before it  *)
(* resets the ports that are linked to it.                                  *)
RemoveServer(s) ==
  /\ DropServer(s)
  /\ removing' = (indexedPod /\ Receives(outer, s))

ResetServer ==
  /\ removing
  /\ SendOuter(DefaultRx) /\ removing' = FALSE

(* rm_pod: the sender of the port's channel goes with the pod.              *)
RemovePod ==
  /\ ~removing /\ indexedPod
  /\ indexedPod' = FALSE
  /\ UNCHANGED <<indexed, policy, outer, removing, draining, stream>>

(* shutdown signals drain.                                                  *)
Shutdown ==
  /\ ~draining /\ draining' = TRUE
  /\ UNCHANGED <<indexed, policy, indexedPod, outer, removing, stream>>

----------------------------------------------------------------------------
(* The stream.                                                              *)

Goto(label) == pc' = label /\ UNCHANGED writer

(* watch_port and into_stream; a pod that is not in lookups is NotFound.    *)
WatchPort ==
  /\ pc = "ended" /\ indexedPod
  /\ inner' = outer /\ outerNew' = FALSE
  /\ UNCHANGED <<innerNew, server>>
  /\ Goto("first")

(* The first value is yielded when the stream is first polled.              *)
First ==
  /\ pc = "first"
  /\ server' = inner.value /\ innerNew' = FALSE
  /\ UNCHANGED <<outerNew, inner>>
  /\ Goto("yielded")

(* The client takes what was yielded, and the stream is polled again.       *)
Poll ==
  /\ pc = "yielded"
  /\ UNCHANGED <<outerNew, inner, innerNew, server>>
  /\ Goto("select")

(* inner.changed() is Ok.                                                   *)
InnerChanged ==
  /\ pc = "select" /\ innerNew
  /\ innerNew' = FALSE
  /\ UNCHANGED <<outerNew, inner, server>>
  /\ Goto("inner")

Yield ==
  /\ server' = inner.value
  /\ Goto(IF inner.value # server THEN "yielded" ELSE "select")

ReadInner ==
  /\ pc = "inner"
  /\ Yield
  /\ UNCHANGED <<outerNew, inner, innerNew>>

(* MUTANT: the select! is biased to the inner channel.                      *)
OuterChangedBiased ==
  /\ pc = "select" /\ outerNew /\ ~innerNew
  /\ outerNew' = FALSE
  /\ UNCHANGED <<inner, innerNew, server>>
  /\ Goto("outer")

(* outer.changed() is Ok.                                                   *)
OuterChanged ==
  /\ pc = "select" /\ outerNew
  /\ outerNew' = FALSE
  /\ UNCHANGED <<inner, innerNew, server>>
  /\ Goto("outer")

(* outer.borrow(): it may hold a newer receiver than the one that changed() *)
(* told of, which stays unseen.                                             *)
ReadOuter ==
  /\ pc = "outer"
  /\ inner' = outer
  /\ UNCHANGED <<outerNew, innerNew, server>>
  /\ Goto("newInner")

(* MUTANT: the port's channel is marked as seen only now.                   *)
ReadNewInnerMarksOuter ==
  /\ pc = "newInner"
  /\ innerNew' = FALSE /\ outerNew' = FALSE
  /\ Yield
  /\ UNCHANGED inner

(* MUTANT: the value of a new inner receiver is left to its next change.    *)
ReadNewInnerSilent ==
  /\ pc = "newInner"
  /\ innerNew' = FALSE
  /\ UNCHANGED <<outerNew, inner, server>>
  /\ Goto("select")

(* The value of the new inner receiver is read, and marked as seen.         *)
ReadNewInner ==
  /\ pc = "newInner"
  /\ innerNew' = FALSE
  /\ Yield
  /\ UNCHANGED <<outerNew, inner>>

(* The stream's receivers are dropped.                                      *)
End ==
  /\ outerNew' = FALSE /\ inner' = DefaultRx /\ innerNew' = FALSE
  /\ server' = DefaultPolicy
  /\ Goto("ended")

(* MUTANT: the end of the port's channel is ignored, like the inner one's.  *)
OuterClosedIgnored ==
  /\ pc = "select" /\ ~indexedPod /\ ~outerNew
  /\ UNCHANGED vars

(* outer.changed() is Err, once the last value has been seen.  (When        *)
(* inner.changed() is Err, the stream does nothing and selects again.)      *)
OuterClosed ==
  /\ pc = "select" /\ ~indexedPod /\ ~outerNew
  /\ End

(* MUTANT: the drain signal is looked at before the first value only.       *)
DrainedAtStart == pc = "first" /\ draining /\ End

(* response_stream's own select!: the stream is dropped.                    *)
Drained == pc \in {"first", "select"} /\ draining /\ End

(* The client goes away.                                                    *)
Cancel == pc # "ended" /\ End

----------------------------------------------------------------------------

Index ==
  \/ \E s \in Servers :
       CreateServer(s) \/ UpdateServer(s) \/ LinkPort(s) \/ RemoveServer(s)
  \/ UnlinkPort \/ ResetServer \/ RemovePod \/ Shutdown

Stream ==
  \/ WatchPort \/ First \/ Poll \/ InnerChanged \/ ReadInner
  \/ OuterChanged \/ ReadOuter \/ ReadNewInner \/ OuterClosed \/ Drained

Next == Index \/ Stream \/ Cancel

(* A handler that has begun to remove a server goes on to reset its ports,  *)
(* a client reads on (or cancels), and a stream that is polled runs to its  *)
(* next yield or wait.  Each select! tries its branches in a random order,  *)
(* so a branch that is ready again and again is taken, in the end, however  *)
(* often the others are ready.                                              *)
Fairness ==
  /\ WF_vars(ResetServer)
  /\ WF_vars(First) /\ WF_vars(Poll)
  /\ WF_vars(ReadInner) /\ WF_vars(ReadOuter) /\ WF_vars(ReadNewInner)
  /\ SF_vars(InnerChanged) /\ SF_vars(OuterChanged)
  /\ SF_vars(OuterClosed) /\ SF_vars(Drained)

Spec == Init /\ [][Next]_vars /\ Fairness

----------------------------------------------------------------------------
(* Properties.                                                              *)

(* The type of every variable.                                              *)
TypeOK ==
  /\ indexed \subseteq Servers /\ policy \in [Servers -> Policies]
  /\ {indexedPod, removing, draining, outerNew, innerNew} \subseteq BOOLEAN
  /\ pc \in {"ended", "first", "yielded", "select", "inner", "outer", "newInner"}
  /\ outer \in Rx /\ inner \in Rx /\ server \in Policies

(* What the port's policy is now (Rx::get, which GetPort serves).           *)
Current == outer.value

(* How far the stream is behind: by the step it is in, and by what it has   *)
(* not seen.  A change of the port's channel takes three steps to see (that *)
(* it changed, the new receiver, its value), one of the inner channel two.  *)
Behind ==
  (IF pc \in {"first", "inner", "newInner"} THEN 1 ELSE IF pc = "outer" THEN 2 ELSE 0)
  + (IF innerNew THEN 2 ELSE 0) + (IF outerNew THEN 3 ELSE 0)

Promise == INSTANCE PolicyStream WITH
  MaxLag  <- 7,
  current <- Current,
  exists  <- indexedPod,
  state   <- IF pc = "ended" THEN "closed" ELSE IF pc = "first" THEN "starting" ELSE "open",
  orphan  <- ~indexedPod /\ pc # "ended",
  sent    <- IF pc \in {"ended", "first"} THEN <<>> ELSE <<server>>,
  lag     <- IF pc = "ended" THEN 0 ELSE Behind

(* The stream over two layers of watch channels keeps what PolicyStream     *)
(* promises: what it told last is the port's current policy once it has     *)
(* looked at everything, no step of its own puts it further behind,         *)
(* whatever the index does meanwhile, it gets there, and it ends with its   *)
(* pod, its client or the controller (lookup.rs:130-174).                   *)
KeepsPromise == Promise!StreamSpec

(* No update is lost: a stream that is about to wait, with nothing unseen,  *)
(* has yielded the port's current policy, however the changes of its link   *)
(* and of its servers fell between the steps of the stream (lookup.rs:      *)
(* 137-171).                                                                *)
NoLostUpdate ==
  pc = "select" /\ ~innerNew /\ ~outerNew => server = Current

(* A stream waits on a server's channel that is closed only as long as the  *)
(* index is in the middle of removing the server, or to see the end of the  *)
(* port's own channel: inner.changed() is an error then, at once, so        *)
(* the stream's thread is kept busy (lookup.rs:155).                        *)
SpinsOnlyWhileRemoving ==
  pc = "select" /\ ~innerNew /\ ~inner.open => outerNew \/ removing \/ ~indexedPod

(* When a port's link and its policy settle, what an open stream yielded    *)
(* last is that policy, even if other servers, which the port was linked to *)
(* before, are updated forever ("When the port is updated with a new        *)
(* server, update the server watch", controller/grpc/src/lib.rs:128).       *)
Settles ==
  \A c \in Servers \cup {Default}, v \in Policies :
    <>[](pc # "ended" /\ indexedPod /\ outer.of = c /\ Current = v)
      => <>[](pc \in {"yielded", "select"} => server = v)

(* A stream ends once its pod is gone (lookup.rs:167).                      *)
EndsWithPod == ~indexedPod ~> pc = "ended"

(* "If the server starts shutting down, close the stream so that it doesn't *)
(* hold the server open" (controller/grpc/src/lib.rs:136-140).              *)
EndsOnShutdown == draining ~> pc = "ended"
=============================================================================
