----------------------------- MODULE PortWatch -----------------------------
(***************************************************************************)
(* A client's watch of one port (client/src/watch_ports.rs) at the end of a *)
(* PolicyStream, over a connection that can be lost, with a controller that *)
(* drains, exits, is killed and starts again with an empty index            *)
(* (controller/src/main.rs).  The connection, of tonic and hyper, is        *)
(* external: it delivers in order what it does not lose, polls a stream     *)
(* only while it can send, and connects anew when it is called.  It sends   *)
(* no keepalives (client/src/lib.rs:80, controller/grpc/src/lib.rs:34-37    *)
(* configure none): an end that waits does not notice that it is cut off.   *)
(***************************************************************************)
EXTENDS PolicyStream, Sequences

CONSTANTS
  Workloads, \* well-formed workloads, "namespace:pod"
  Malformed, \* one without a colon, or with an empty part
  Pod, Port, \* the workload and the port in lookups, when exists
  Ports,     \* ports a request can have: 32-bit numbers
  Window     \* messages the connection takes before it is read from

MaxPort == 2^16 - 1

ASSUME TargetAssumption ==
  /\ Pod \in Workloads /\ Malformed \notin Workloads
  /\ Port \in 1 .. MaxPort /\ Ports \subseteq Nat
ASSUME WindowAssumption == Window \in Nat \ {0}

VARIABLES
  server,  \* the controller: up, closing (takes no more streams) or down
  net,     \* the client can reach it
  cut,     \* nothing passes between the ends of the stream, unnoticed
  conn,    \* the client's end of the stream: none, ok, eof or error
  wire,    \* policies sent and not read
  request, \* the PortSpec the client sends
  task,    \* where the watch is: call, first, sleep, watch, failed or closed
  rx,      \* the watch channel's value: nothing until there is a channel
  dropped  \* the channel's receivers are gone

link   == <<net, cut, conn, wire>>
client == <<request, task, rx, dropped>>
vars   == <<streamVars, server, link, client>>

Requests == [workload : Workloads \cup {Malformed}, port : Ports]

(* A client is watch_ports', whose ports are 16 bits wide.                  *)
Init ==
  /\ current \in Policies /\ exists = FALSE /\ draining = FALSE
  /\ state = "closed" /\ orphan = FALSE /\ sent = <<>> /\ lag = 0
  /\ server = "up" /\ net = TRUE /\ cut = FALSE /\ conn = "none" /\ wire = <<>>
  /\ request \in {r \in Requests : r.port <= MaxPort}
  /\ task = "call" /\ rx = <<>> /\ dropped = FALSE

----------------------------------------------------------------------------
(* The controller.                                                          *)

(* MUTANT: the port's range is not checked.                                 *)
WellFormedAnyPort(r) == r.workload # Malformed /\ r.port # 0

(* check_target.                                                            *)
WellFormed(r) == r.workload # Malformed /\ r.port # 0 /\ r.port <= MaxPort

(* check_target narrows the port to 16 bits; Reader::lookup.                *)
Found(r) == exists /\ r.workload = Pod /\ r.port % (MaxPort + 1) = Port

(* get_port and watch_port.                                                 *)
Answer(r) ==
  IF ~WellFormed(r) THEN "InvalidArgument" ELSE IF Found(r) THEN "Ok" ELSE "NotFound"

Running(A) == server # "down" /\ A /\ UNCHANGED <<server, link, client>>

(* Handlers of the index.                                                   *)
ChangePolicy == Running(Change)
DeletePod    == Running(RemovePod)
AddPod ==
  /\ ~exists /\ exists' = TRUE
  /\ current' \in Policies
  /\ UNCHANGED <<draining, state, orphan, sent, lag>>
ApplyPod     == Running(AddPod)

(* MUTANT: the stream is polled whether or not the connection takes more.   *)
PollStreamAlways ==
  /\ Advance
  /\ wire' = IF sent' = sent THEN wire ELSE wire \o sent'
  /\ UNCHANGED <<server, net, cut, conn, client>>

(* The stream is polled.                                                    *)
PollStream ==
  /\ Len(wire) < Window /\ Advance
  /\ wire' = IF sent' = sent THEN wire ELSE wire \o sent'
  /\ UNCHANGED <<server, net, cut, conn, client>>

EndStream ==
  /\ Len(wire) < Window /\ Finish
  /\ conn' = IF conn = "none" THEN "none" ELSE "eof"
  /\ UNCHANGED <<server, net, cut, wire, client>>

(* SIGTERM: shutdown signals drain.                                         *)
Terminate == server = "up" /\ Shutdown /\ UNCHANGED <<server, link, client>>

(* MUTANT: the server goes on listening until there is no stream.           *)
CloseServerLast ==
  /\ server = "up" /\ draining /\ state = "closed"
  /\ server' = "closing"
  /\ UNCHANGED <<streamVars, link, client>>

(* grpc: drain is signaled, and the server takes no more streams.           *)
CloseServer ==
  /\ server = "up" /\ draining
  /\ server' = "closing"
  /\ UNCHANGED <<streamVars, link, client>>

Down ==
  /\ server' = "down"
  /\ exists' = FALSE /\ draining' = FALSE /\ Close
  /\ UNCHANGED <<current, net, client>>

(* The last stream has ended, drain() returns and so does main.             *)
Exit ==
  /\ server = "closing" /\ state = "closed" /\ Down
  /\ UNCHANGED <<cut, conn, wire>>

(* What was sent and not read may be lost with the connection.              *)
Lose ==
  /\ conn' = IF conn = "none" THEN "none" ELSE "error"
  /\ wire' \in {SubSeq(wire, 1, n) : n \in 0 .. Len(wire)}
  /\ cut' = FALSE

(* The controller's end is gone, with what it has not got across, and the   *)
(* client, cut off from it, is not told.                                    *)
Vanish ==
  /\ cut
  /\ conn' = IF conn = "none" THEN "none" ELSE "ok"
  /\ wire' = <<>>
  /\ UNCHANGED cut

Kill == server # "down" /\ Down /\ (IF cut THEN Vanish ELSE Lose)

Boot ==
  /\ server = "down" /\ server' = "up"
  /\ current' \in Policies
  /\ UNCHANGED <<exists, draining, state, orphan, sent, lag, link, client>>

(* The network fails, and both ends of the stream notice.                   *)
Break ==
  /\ net /\ net' = FALSE
  /\ Close /\ Lose
  /\ UNCHANGED <<current, exists, draining, server, client>>

(* It fails under a stream, and neither end notices.                        *)
Sever ==
  /\ ~cut /\ conn \in {"ok", "eof"} /\ cut' = TRUE
  /\ UNCHANGED <<streamVars, server, net, conn, wire, client>>

(* It comes back, while what it separates is there: what was sent gets      *)
(* across, be it only the end that the client has put to its stream.        *)
Heal ==
  /\ cut /\ (state # "closed" \/ conn # "ok")
  /\ cut' = FALSE
  /\ IF conn = "none" THEN Close /\ wire' = <<>> /\ UNCHANGED <<current, exists, draining>>
                      ELSE UNCHANGED <<streamVars, wire>>
  /\ UNCHANGED <<server, net, conn, client>>

(* TCP gives up what it has sent again and again without an answer; an end  *)
(* that has nothing to send never does.                                     *)
GiveUp ==
  /\ wire # <<>> \/ conn = "eof"
  /\ Close /\ Vanish
  /\ UNCHANGED <<current, exists, draining, server, net, client>>

Mend ==
  /\ ~net /\ net' = TRUE
  /\ UNCHANGED <<streamVars, server, cut, conn, wire, client>>

----------------------------------------------------------------------------
(* The client.                                                              *)

Goto(label) == task' = label /\ UNCHANGED <<request, dropped>>

(* start_watch, when client.watch_port is Ok.                               *)
CallOk ==
  /\ task = "call" /\ net /\ server = "up" /\ Answer(request) = "Ok"
  /\ Start
  /\ conn' = "ok" /\ wire' = <<>>
  /\ Goto("first")
  /\ UNCHANGED <<server, net, cut, rx>>

(* MUTANT: recover gives up on NotFound, and not on InvalidArgument.        *)
RecoverNotFound(error) == Goto(IF error = "NotFound" THEN "failed" ELSE "sleep")

(* recover: only InvalidArgument is returned to the caller.                 *)
Recover(error) == Goto(IF error = "InvalidArgument" THEN "failed" ELSE "sleep")

(* start_watch, when it is an error.                                        *)
CallError ==
  /\ task = "call"
  /\ IF net /\ server = "up"
     THEN Answer(request) # "Ok" /\ Recover(Answer(request))
     ELSE Recover("Unavailable")
  /\ UNCHANGED <<streamVars, server, link, rx>>

(* MUTANT: the value a new stream starts with is not sent.                  *)
ReceiveUpdatesOnly ==
  /\ task \in {"first", "watch"} /\ ~cut /\ wire # <<>>
  /\ rx' = IF task = "watch" \/ rx = <<>> THEN <<Head(wire)>> ELSE rx
  /\ wire' = Tail(wire)
  /\ Goto("watch")
  /\ UNCHANGED <<streamVars, server, net, cut, conn>>

(* updates.try_next() is Ok(Some): the channel is created, or sent to.      *)
Receive ==
  /\ task \in {"first", "watch"} /\ ~cut /\ wire # <<>>
  /\ rx' = <<Head(wire)>>
  /\ wire' = Tail(wire)
  /\ Goto("watch")
  /\ UNCHANGED <<streamVars, server, net, cut, conn>>

(* MUTANT: the end of a stream is the end of its watch.                     *)
ReceiveEndStops ==
  /\ task \in {"first", "watch"} /\ ~cut /\ wire = <<>> /\ conn \in {"eof", "error"}
  /\ conn' = "none"
  /\ Goto(IF conn = "eof" /\ task = "watch" THEN "closed" ELSE "call")
  /\ UNCHANGED <<streamVars, server, net, cut, wire, rx>>

(* It is Ok(None), or Err: the stream is started again, at once unless it   *)
(* was an error in the place of the first value.                            *)
ReceiveEnd ==
  /\ task \in {"first", "watch"} /\ ~cut /\ wire = <<>> /\ conn \in {"eof", "error"}
  /\ conn' = "none"
  /\ Goto(IF conn = "error" /\ task = "first" THEN "sleep" ELSE "call")
  /\ UNCHANGED <<streamVars, server, net, cut, wire, rx>>

(* recover has slept a second.                                              *)
Wake ==
  /\ task = "sleep" /\ Goto("call")
  /\ UNCHANGED <<streamVars, server, link, rx>>

(* The PortWatch is dropped: there is none before the first value.          *)
DropReceivers ==
  /\ rx # <<>> /\ ~dropped /\ dropped' = TRUE
  /\ UNCHANGED <<streamVars, server, link, request, task, rx>>

(* The client's end of the stream is dropped; the controller's, when that   *)
(* gets across.                                                             *)
CancelStream ==
  /\ conn' = "none"
  /\ IF cut THEN UNCHANGED <<streamVars, wire>>
            ELSE Close /\ wire' = <<>> /\ UNCHANGED <<current, exists, draining>>
  /\ UNCHANGED <<net, cut>>

(* MUTANT: tx.closed() is looked at next to updates only.                   *)
TxClosedWatching ==
  /\ dropped /\ task = "watch"
  /\ CancelStream
  /\ Goto("closed")
  /\ UNCHANGED <<server, rx>>

(* tx.closed(): each select! of the task has this branch; the stream, or    *)
(* the start_watch that is on its way to one, is dropped.                   *)
TxClosed ==
  /\ dropped /\ task # "closed"
  /\ CancelStream
  /\ Goto("closed")
  /\ UNCHANGED <<server, rx>>

----------------------------------------------------------------------------

Controller ==
  \/ ChangePolicy \/ DeletePod \/ ApplyPod \/ PollStream \/ EndStream
  \/ Terminate \/ CloseServer \/ Exit \/ Kill \/ Boot

Network == Break \/ Mend \/ Sever \/ Heal \/ GiveUp

Client ==
  \/ CallOk \/ CallError \/ Receive \/ ReceiveEnd \/ Wake
  \/ DropReceivers \/ TxClosed

Next == Controller \/ Network \/ Client

(* Nothing is assumed of the index, of faults, nor of the client's owner,   *)
(* nor that a waiting client ever learns that it is cut off.                *)
(* A stream that has its end to tell, and is polled again and again, tells  *)
(* it: each select! tries its branches in a random order (LookupStream).    *)
(* The server closes and main returns when they can, and the client's task  *)
(* runs.  TCP gets across what it can send again and again, and gives up    *)
(* what it cannot.                                                          *)
Fairness ==
  /\ WF_vars(PollStream) /\ SF_vars(EndStream)
  /\ WF_vars(CloseServer) /\ WF_vars(Exit)
  /\ WF_vars(CallOk \/ CallError) /\ SF_vars(Receive) /\ WF_vars(ReceiveEnd)
  /\ WF_vars(Wake) /\ WF_vars(TxClosed) /\ WF_vars(GiveUp)

Spec == Init /\ [][Next]_vars /\ Fairness

----------------------------------------------------------------------------
(* Properties.                                                              *)

(* The type of every variable.                                              *)
TypeOK ==
  /\ StreamTypeOK
  /\ server \in {"up", "closing", "down"} /\ net \in BOOLEAN /\ cut \in BOOLEAN /\ dropped \in BOOLEAN
  /\ conn \in {"none", "ok", "eof", "error"}
  /\ wire \in Seq(Policies) /\ Len(wire) <= Window
  /\ request \in Requests
  /\ task \in {"call", "first", "sleep", "watch", "failed", "closed"}
  /\ rx \in {<<>>} \cup {<<p>> : p \in Policies}

(* A request is answered with a port's policy only if it names that port,   *)
(* whatever 32-bit number it asks for: none is narrowed to the port of      *)
(* another ("Ensure that the port is in the valid range", controller/grpc/  *)
(* src/lib.rs:61-70).                                                       *)
TargetExact ==
  \A r \in Requests : Answer(r) = "Ok" => r = [workload |-> Pod, port |-> Port]

(* From the index to the client's channel: once the stream has looked at    *)
(* everything and the client has read everything, the channel holds the     *)
(* port's current policy, whichever streams, processes and connections came *)
(* before (watch_ports.rs:38-66).                                           *)
EndToEnd ==
  task = "watch" /\ conn = "ok" /\ wire = <<>> /\ state = "open" /\ lag = 0 /\ ~orphan
    => rx = <<current>>

(* The watch fails only for a request that no controller ever answers, and  *)
(* before it has a channel: a channel that HTTP requests are decided by     *)
(* never goes stale because its task has returned an error                  *)
(* (watch_ports.rs:44-66, 91-98).                                           *)
GivesUpOnlyIfInvalid == task = "failed" => rx = <<>> /\ ~WellFormed(request)

(* "For now, we assume that InvalidArgument means we're querying about a    *)
(* workload or port that doesn't exist" (watch_ports.rs:92-93), and that is *)
(* an error the caller gets: a watch of one that never exists fails.        *)
GivesUpIfAbsent ==
  <>[](net /\ server = "up") /\ []~Found(request) => <>(task = "failed")

(* If the controller stays up and reachable, with the pod in its index and  *)
(* the port's policy settled, and the client is not cut off from its stream *)
(* for good, the channel comes to hold that policy, and keeps it, whatever  *)
(* happened before (watch_ports.rs:74-104).                                 *)
Converges ==
  \A p \in Policies :
    /\ <>[](net /\ server = "up" /\ exists /\ current = p /\ Found(request) /\ ~dropped)
    /\ <>[]~cut
    /\ <>[][~Change]_streamVars
    => <>[](rx = <<p>>)

(* The client does not call a controller in a loop without rest, although   *)
(* start_watch calls again at once when a stream ends without a value, as   *)
(* every stream does that is opened while the controller drains             *)
(* (watch_ports.rs:83; controller/src/main.rs:102-110), unless the          *)
(* controller is restarted for ever.  (A client that is cut off waits.)     *)
Rests ==
  <>[](server # "down") =>
    []<>(task \in {"sleep", "watch", "failed", "closed"} \/ cut)

(* "If the server starts shutting down, close the stream so that it doesn't *)
(* hold the server open" (controller/grpc/src/lib.rs:136-140): it exits,    *)
(* although its clients open new streams as soon as theirs end, and may be  *)
(* cut off from it with a stream that is full.                              *)
ShutsDown == draining ~> server = "down"

(* A task whose channel nobody holds ends, whatever it is waiting for, and  *)
(* its stream with it, as soon as the controller can be told                *)
(* (watch_ports.rs:32-61).                                                  *)
LetsGo ==
  /\ dropped ~> task = "closed"
  /\ []<>~cut => (dropped ~> task = "closed" /\ state = "closed")
=============================================================================
