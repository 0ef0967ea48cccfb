---------------------------- MODULE PolicyStream ----------------------------
(***************************************************************************)
(* What one WatchPort stream promises its client, without the channels that *)
(* LookupStream shows it to be made of: it first tells a policy of the      *)
(* port, then only policies that differ from the one told before; it may be *)
(* late and may skip policies, but once it has caught up it has told the    *)
(* port's current one; and it ends when its pod is gone or the controller   *)
(* drains (DiscoverInboundServer::watch_inbound_server, controller/core;    *)
(* response_stream, controller/grpc).                                       *)
(*                                                                          *)
(* LookupStream implements this specification, and PortWatch puts a client  *)
(* at its other end.                                                        *)
(***************************************************************************)
EXTENDS Naturals

CONSTANTS
  Policies, \* InboundServers, the kubelet's authorization left out
  MaxLag    \* how far behind a stream can be

ASSUME LagAssumption == MaxLag \in Nat \ {0}

VARIABLES
  current,  \* the port's policy
  exists,   \* whether the pod is in lookups
  draining, \* the controller is shutting down
  state,    \* of the stream
  orphan,   \* the pod the stream was opened for is gone
  sent,     \* what the stream told last, if anything
  lag       \* how much the stream has yet to look at

streamVars == <<current, exists, draining, state, orphan, sent, lag>>

Close == state' = "closed" /\ orphan' = FALSE /\ sent' = <<>> /\ lag' = 0

StreamInit ==
  /\ current \in Policies /\ exists = TRUE /\ draining = FALSE
  /\ state = "closed" /\ orphan = FALSE /\ sent = <<>> /\ lag = 0

(* The port's policy, or the channels it is behind, change.                 *)
Change ==
  /\ current' \in Policies
  /\ lag' \in IF state = "closed" THEN {0} ELSE {l \in lag .. MaxLag : l > 0}
  /\ UNCHANGED <<exists, draining, state, orphan, sent>>

RemovePod ==
  /\ exists /\ exists' = FALSE
  /\ orphan' = (state # "closed")
  /\ UNCHANGED <<current, draining, state, sent, lag>>

Shutdown ==
  /\ ~draining /\ draining' = TRUE
  /\ UNCHANGED <<current, exists, state, orphan, sent, lag>>

(* A client opens the stream.                                               *)
Start ==
  /\ state = "closed" /\ exists
  /\ state' = "starting" /\ orphan' = FALSE /\ sent' = <<>> /\ lag' = 1
  /\ UNCHANGED <<current, exists, draining>>

(* The stream looks at some of what it is behind by, and may tell a policy. *)
Advance ==
  /\ state # "closed" /\ lag > 0
  /\ lag' \in 0 .. (lag - 1)
  /\ state' = "open"
  /\ sent' \in {sent} \cup {<<p>> : p \in Policies}
  /\ sent' # <<>>
  /\ lag' = 0 /\ ~orphan => sent' = <<current>>
  /\ UNCHANGED <<current, exists, draining, orphan>>

(* MUTANT: the drain signal is looked at before the first policy only.      *)
FinishDrainedAtStart ==
  /\ state # "closed"
  /\ (draining /\ state = "starting") \/ (orphan /\ state = "open")
  /\ Close
  /\ UNCHANGED <<current, exists, draining>>

(* The stream ends by itself.                                               *)
Finish ==
  /\ state # "closed"
  /\ draining \/ (orphan /\ state = "open")
  /\ Close
  /\ UNCHANGED <<current, exists, draining>>

(* The client goes away.                                                    *)
Cancel ==
  /\ state # "closed" /\ Close
  /\ UNCHANGED <<current, exists, draining>>

StreamNext ==
  \/ Change \/ RemovePod \/ Shutdown
  \/ Start \/ Advance \/ Finish \/ Cancel

StreamFairness == WF_streamVars(Advance) /\ WF_streamVars(Finish)

StreamSpec == StreamInit /\ [][StreamNext]_streamVars /\ StreamFairness

----------------------------------------------------------------------------
(* Properties.                                                              *)

(* The type of every variable.                                              *)
StreamTypeOK ==
  /\ current \in Policies
  /\ exists \in BOOLEAN /\ draining \in BOOLEAN /\ orphan \in BOOLEAN
  /\ state \in {"closed", "starting", "open"}
  /\ sent \in {<<>>} \cup {<<p>> : p \in Policies} /\ lag \in 0 .. MaxLag

(* A stream that has caught up has told its port's policy.                  *)
CaughtUp == state = "open" /\ lag = 0 /\ ~orphan => sent = <<current>>
=============================================================================
