----------------------------- MODULE Readiness -----------------------------
(***************************************************************************)
(* Whether the controller is ready: the four Watch wrappers                 *)
(* (controller/k8s/api/src/watch.rs), the select! loop that drives them     *)
(* (Index::index, controller/k8s/index/src/lib.rs), the admin server's      *)
(* /ready (controller/src/admin.rs) and the kubelet's liveness probe of it  *)
(* (k8s/controller/deploy.yml).  The streams under the wrappers, of         *)
(* kube_runtime::watcher (0.58.1 by Cargo.lock), are external.  A stream    *)
(* that has yet to list is Restarted by its list.  One that has listed and  *)
(* fails goes on from the last event it has decoded, without any event of   *)
(* its own, unless it is so far behind that the API has it list anew (410). *)
(***************************************************************************)
EXTENDS Naturals

CONSTANTS
  Watches,         \* nodes, pods, servers, authorizations
  Custom,          \* those of custom resources: servers, authorizations
  FailureThreshold \* failed probes in a row that restart the container

ASSUME WatchesAssumption == Watches # {} /\ Custom \subseteq Watches
ASSUME FailureThresholdAssumption == FailureThreshold \in Nat \ {0}

VARIABLES
  (* The cluster.                                                           *)
  connected,  \* watches that can reach the API
  malformed,  \* watches with an object among theirs that does not decode
  pending,    \* watches with changes that their stream has yet to deliver
  bad,        \* and those with a change to deliver that does not decode
  (* The container's process.                                               *)
  relist,     \* watches whose stream has yet to list
  phase,      \* of each recv(): waiting for an item, or asleep after an error
  readyWatch, \* Watch.ready
  listed,     \* watches whose first list has been applied to the index
  ready,      \* the loop's, and what it last sent to the admin server
  (* The kubelet.                                                           *)
  failures    \* failed probes in a row

process == <<relist, phase, readyWatch, listed, ready>>
events  == <<pending, bad>>
cluster == <<connected, malformed, events>>
vars    == <<cluster, process, failures>>

Init ==
  /\ connected \in SUBSET Watches /\ malformed \in SUBSET Custom
  /\ pending = {} /\ bad = {}
  /\ relist = Watches
  /\ phase = [w \in Watches |-> "waiting"]
  /\ readyWatch = {} /\ listed = {} /\ ready = FALSE
  /\ failures = 0

----------------------------------------------------------------------------

Disconnect(w) ==
  /\ w \in connected /\ connected' = connected \ {w}
  /\ UNCHANGED <<malformed, events, process, failures>>

Reconnect(w) ==
  /\ w \in Watches \ connected /\ connected' = connected \cup {w}
  /\ UNCHANGED <<malformed, events, process, failures>>

(* An object of w is applied or deleted.                                    *)
Change(w) ==
  /\ pending' = pending \cup {w}
  /\ UNCHANGED <<connected, malformed, bad, process, failures>>

(* An object is applied that the CRD admits and serde does not: a watch has *)
(* one type for all it lists, so this object is an error of the whole list, *)
(* and its event one of the stream.                                         *)
Malform(w) ==
  /\ w \in Custom \ malformed /\ malformed' = malformed \cup {w}
  /\ bad' = bad \cup {w}
  /\ UNCHANGED <<connected, pending, process, failures>>

(* It is edited, or deleted: the event of that has the object as it was.    *)
Repair(w) ==
  /\ w \in malformed /\ malformed' = malformed \ {w}
  /\ \/ pending' = pending \cup {w} /\ UNCHANGED bad
     \/ bad' = bad \cup {w} /\ UNCHANGED pending
  /\ UNCHANGED <<connected, process, failures>>

(* Watch::recv on an error: the watch is not ready and sleeps.  recv does   *)
(* not return, so the loop does not get to its end.                         *)
RecvError(w) ==
  /\ phase[w] = "waiting"
  /\ readyWatch' = readyWatch \ {w}
  /\ phase' = [phase EXCEPT ![w] = "asleep"]
  /\ UNCHANGED <<connected, malformed, pending, listed, ready, failures>>

(* The list or the stream fails; the stream may be told to list anew, or    *)
(* get again what it could not decode.                                      *)
StreamFails(w) ==
  /\ w \notin connected
  /\ relist' \in {relist, relist \cup {w}}
  /\ bad' \in {bad, bad \cup ({w} \cap malformed)}
  /\ RecvError(w)

(* The list does not decode; the stream stays where it is.                  *)
ListFails(w) ==
  /\ w \in connected \cap relist \cap malformed
  /\ RecvError(w)
  /\ UNCHANGED <<relist, bad>>

(* An event does not decode; the stream goes on to the next.                *)
EventFails(w) ==
  /\ w \in (connected \cap bad) \ relist
  /\ bad' = bad \ {w}
  /\ RecvError(w)
  /\ UNCHANGED relist

(* The second is over, and the stream is polled again.                      *)
Wake(w) ==
  /\ phase[w] = "asleep"
  /\ phase' = [phase EXCEPT ![w] = "waiting"]
  /\ UNCHANGED <<cluster, relist, readyWatch, listed, ready, failures>>

(* MUTANT: readiness is computed before the watches are polled.             *)
LoopReadyBefore(w) ==
  /\ readyWatch' = readyWatch \cup {w}
  /\ phase' = [v \in Watches |-> "waiting"]
  /\ ready' = (readyWatch = Watches)

(* MUTANT: one watch that is ready is enough.                               *)
LoopReadyAny(w) ==
  /\ readyWatch' = readyWatch \cup {w}
  /\ phase' = [v \in Watches |-> "waiting"]
  /\ ready' = (readyWatch' # {})

(* One round of the loop: recv() of w is first to return an event, which    *)
(* sets its ready; select! drops the other watches' recv(), their sleeps    *)
(* included; the event is handled; readiness is computed, and sent if it    *)
(* has changed.                                                             *)
Loop(w) ==
  /\ readyWatch' = readyWatch \cup {w}
  /\ phase' = [v \in Watches |-> "waiting"]
  /\ ready' = (readyWatch' = Watches)

(* Restarted: the list stands for every change before it.                   *)
RecvList(w) ==
  /\ w \in (connected \cap relist) \ malformed /\ phase[w] = "waiting"
  /\ relist' = relist \ {w}
  /\ pending' = pending \ {w} /\ bad' = bad \ {w}
  /\ listed' = listed \cup {w}
  /\ Loop(w)
  /\ UNCHANGED <<connected, malformed, failures>>

(* MUTANT: only a list makes its watch ready.                               *)
RecvUpdateUnready(w) ==
  /\ w \in (connected \cap pending) \ relist /\ phase[w] = "waiting"
  /\ pending' = pending \ {w}
  /\ phase' = [v \in Watches |-> "waiting"]
  /\ ready' = (readyWatch = Watches)
  /\ UNCHANGED <<connected, malformed, bad, relist, readyWatch, listed, failures>>

(* Applied or Deleted.                                                      *)
RecvUpdate(w) ==
  /\ w \in (connected \cap pending) \ relist /\ phase[w] = "waiting"
  /\ pending' = pending \ {w}
  /\ Loop(w)
  /\ UNCHANGED <<connected, malformed, bad, relist, listed, failures>>

(* MUTANT: the count of failed probes goes on past the threshold.           *)
ProbeUnbounded ==
  /\ failures' = IF ready THEN 0 ELSE failures + 1
  /\ UNCHANGED <<cluster, process>>

(* GET /ready: 200, or 500 when the admin server was last sent FALSE.       *)
Probe ==
  /\ failures < FailureThreshold
  /\ failures' = IF ready THEN 0 ELSE failures + 1
  /\ UNCHANGED <<cluster, process>>

(* The container starts afresh.                                             *)
Restart ==
  /\ failures = FailureThreshold
  /\ relist' = Watches
  /\ phase' = [w \in Watches |-> "waiting"]
  /\ readyWatch' = {} /\ listed' = {} /\ ready' = FALSE
  /\ failures' = 0
  /\ UNCHANGED cluster

Next ==
  \/ \E w \in Watches :
       \/ Disconnect(w) \/ Reconnect(w) \/ Change(w) \/ Malform(w) \/ Repair(w)
       \/ StreamFails(w) \/ ListFails(w) \/ EventFails(w) \/ Wake(w)
       \/ RecvList(w) \/ RecvUpdate(w)
  \/ Probe \/ Restart

(* Nothing is assumed of connections and changes.  A stream that cannot     *)
(* reach the API fails in the end, and one that can delivers what it has;   *)
(* the loop never blocks on one watch only: select! polls all four, in a    *)
(* random order.                                                            *)
Fairness ==
  \A w \in Watches :
    /\ WF_vars(StreamFails(w)) /\ WF_vars(ListFails(w)) /\ WF_vars(EventFails(w))
    /\ WF_vars(Wake(w)) /\ WF_vars(RecvList(w)) /\ WF_vars(RecvUpdate(w))

Spec == Init /\ [][Next]_vars /\ Fairness

(* And the kubelet probes, and restarts, for ever.                          *)
ProbedSpec == Spec /\ WF_vars(Probe) /\ WF_vars(Restart)

----------------------------------------------------------------------------
(* Properties.                                                              *)

(* The type of every variable.                                              *)
TypeOK ==
  /\ connected \subseteq Watches /\ malformed \subseteq Custom
  /\ pending \subseteq Watches /\ bad \subseteq Custom /\ relist \subseteq Watches
  /\ readyWatch \subseteq Watches /\ listed \subseteq Watches
  /\ phase \in [Watches -> {"waiting", "asleep"}]
  /\ ready \in BOOLEAN
  /\ failures \in 0 .. FailureThreshold

(* The controller is never ready before the first list of every watch has   *)
(* been applied to the index, so that no discovery request of a ready       *)
(* controller is answered from part of the cluster (lib.rs:182-191).        *)
ReadyAfterLists == ready => listed = Watches

(* The loop never waits with all four watches ready and the controller not: *)
(* readiness is computed after each event, so the event that makes the last *)
(* watch ready is the one that makes the controller ready, and a quiet      *)
(* cluster cannot leave it unready (lib.rs:182-191, watch.rs:44-47).        *)
ReadyWhenAllAre == readyWatch = Watches => ready

(* Once every watch reaches the API and every object decodes, both for      *)
(* good, and each watch has a change now and then, the controller gets and  *)
(* stays ready, whatever the watches went through, unless the liveness      *)
(* probe goes on restarting it (lib.rs:131-193, watch.rs:36-55).  Without   *)
(* the changes it does not (ResetAfterFailure).                             *)
BecomesReady ==
  /\ <>[](connected = Watches /\ malformed = {} /\ failures < FailureThreshold)
  /\ \A w \in Watches : []<>(w \in pending)
  => <>[]ready

(* "If the stream fails, log the error and sleep for 1s before polling for  *)
(* a reset event" (watch.rs:35): a watch that failed and reaches the API    *)
(* again gets that event, which makes it ready.                             *)
ResetAfterFailure ==
  \A w \in Watches :
    <>[](w \in connected \ malformed) => (phase[w] = "asleep" ~> w \in readyWatch)

(* "Allow the controller to reman disconnected from the k8s API for 2       *)
(* minutes before failing the container" (deploy.yml:64-65): one that is    *)
(* disconnected for good is failed.                                         *)
FailedWhenDisconnected == <>[](connected = {}) => <>(failures = FailureThreshold)
=============================================================================
