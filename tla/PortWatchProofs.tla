-------------------------- MODULE PortWatchProofs --------------------------
(***************************************************************************)
(* What a client's channel holds, for any policies, requests and window of  *)
(* the connection, and however far behind a stream can be.                  *)
(***************************************************************************)
EXTENDS PortWatch, TLAPS

(* A controller that is down has no pods, streams or drain.                 *)
DownIsEmpty == server = "down" => ~exists /\ ~draining /\ state = "closed"

(* A stream whose pod is not in lookups was opened for one that is gone.    *)
Orphaned == state # "closed" /\ ~exists => orphan

(* What is under way from the stream to the channel: what was told last is  *)
(* the last message of the wire, or else what the channel holds.            *)
Delivered ==
  conn = "ok" =>
    /\ state = "starting" => sent = <<>> /\ wire = <<>>
    /\ state = "open" =>
         IF wire = <<>> THEN rx = sent ELSE sent = <<wire[Len(wire)]>>

(* Only a request that can be answered gets a stream, and a channel.        *)
Answerable ==
  task \in {"first", "watch"} \/ rx # <<>> => WellFormed(request)

IInv ==
  /\ TypeOK /\ CaughtUp /\ DownIsEmpty /\ Orphaned /\ Delivered
  /\ Answerable /\ GivesUpOnlyIfInvalid

----------------------------------------------------------------------------
(* Sequences of policies.                                                   *)

(* A told policy goes to the end of the wire.                               *)
LEMMA WireGrows ==
  ASSUME NEW S, NEW w \in Seq(S), NEW p \in S
  PROVE  /\ w \o <<p>> \in Seq(S) /\ Len(w \o <<p>>) = Len(w) + 1
         /\ (w \o <<p>>)[Len(w) + 1] = p /\ w \o <<p>> # <<>>
OBVIOUS

(* What is read is taken from its head.                                     *)
LEMMA WireShrinks ==
  ASSUME NEW S, NEW w \in Seq(S), w # <<>>
  PROVE  /\ Head(w) \in S /\ Tail(w) \in Seq(S) /\ Len(Tail(w)) = Len(w) - 1
         /\ Tail(w) = <<>> => Head(w) = w[Len(w)]
         /\ Tail(w) # <<>> => Tail(w)[Len(Tail(w))] = w[Len(w)]
OBVIOUS

(* What is lost is its end.                                                 *)
LEMMA WireLost ==
  ASSUME NEW S, NEW w \in Seq(S), NEW n \in 0 .. Len(w)
  PROVE  SubSeq(w, 1, n) \in Seq(S) /\ Len(SubSeq(w, 1, n)) = n
OBVIOUS

----------------------------------------------------------------------------
(* The invariant.                                                           *)

LEMMA InitIInv == Init => IInv
<1> SUFFICES ASSUME Init PROVE IInv
  OBVIOUS
<1>1. TypeOK
  <2>1. StreamTypeOK
    <3>1. exists \in BOOLEAN /\ draining \in BOOLEAN /\ orphan \in BOOLEAN
      BY Zenon DEF Init
    <3> QED BY <3>1, LagAssumption DEF Init, StreamTypeOK
  <2>2. wire \in Seq(Policies) /\ Len(wire) <= Window BY WindowAssumption DEF Init
  <2>3. net \in BOOLEAN /\ cut \in BOOLEAN /\ dropped \in BOOLEAN BY Zenon DEF Init
  <2> QED BY <2>1, <2>2, <2>3 DEF Init, TypeOK
<1> QED
  BY <1>1 DEF Init, IInv, CaughtUp, DownIsEmpty, Orphaned, Delivered, Answerable,
     GivesUpOnlyIfInvalid

(* The steps of the index's handlers, and of the controller's start.        *)
LEMMA IndexKeeps ==
  ASSUME IInv, ChangePolicy \/ DeletePod \/ ApplyPod \/ Terminate \/ CloseServer \/ Boot
  PROVE  IInv'
<1> USE DEF IInv, TypeOK, StreamTypeOK, CaughtUp, DownIsEmpty, Orphaned, Delivered,
            Answerable, WellFormed, GivesUpOnlyIfInvalid, link, client, Running
<1>1. CASE ChangePolicy BY <1>1, LagAssumption DEF ChangePolicy, Change
<1>2. CASE DeletePod
  <2>1. exists' \in BOOLEAN /\ orphan' \in BOOLEAN
    BY <1>2, Zenon DEF DeletePod, RemovePod
  <2>2. ~exists' /\ (orphan' <=> state # "closed") BY <1>2 DEF DeletePod, RemovePod
  <2> QED BY <1>2, <2>1, <2>2 DEF DeletePod, RemovePod
<1>3. CASE ApplyPod BY <1>3 DEF ApplyPod, AddPod
<1>4. CASE Terminate BY <1>4 DEF Terminate, Shutdown
<1>5. CASE CloseServer BY <1>5 DEF CloseServer, streamVars
<1>6. CASE Boot BY <1>6 DEF Boot
<1> QED BY <1>1, <1>2, <1>3, <1>4, <1>5, <1>6

(* The steps of the stream.                                                 *)
LEMMA StreamKeeps ==
  ASSUME IInv, PollStream \/ EndStream
  PROVE  IInv'
<1> USE DEF IInv, TypeOK, StreamTypeOK, CaughtUp, DownIsEmpty, Orphaned, Delivered,
            Answerable, WellFormed, GivesUpOnlyIfInvalid, client
<1>1. CASE PollStream
  <2>1. /\ wire' \in Seq(Policies) /\ Len(wire') <= Window
        /\ sent' # sent => wire' # <<>> /\ sent' = <<wire'[Len(wire')]>>
        /\ sent' = sent => wire' = wire
    <3>1. CASE sent' = sent BY <1>1, <3>1 DEF PollStream
    <3>2. CASE sent' # sent
      <4>1. PICK p \in Policies : sent' = <<p>> BY <1>1, <3>2 DEF PollStream, Advance
      <4>2. wire' = wire \o <<p>> BY <1>1, <3>2, <4>1 DEF PollStream
      <4> QED BY <1>1, <3>2, <4>1, <4>2, WireGrows, WindowAssumption DEF PollStream
    <3> QED BY <3>1, <3>2
  <2>2. lag' \in 0 .. MaxLag BY <1>1, LagAssumption DEF PollStream, Advance
  <2>3. sent' \in {<<>>} \cup {<<p>> : p \in Policies} BY <1>1 DEF PollStream, Advance
  <2>4. state' = "open" /\ UNCHANGED <<current, exists, draining, orphan, server, net, cut, conn, client>>
    BY <1>1 DEF PollStream, Advance
  <2>5. TypeOK' BY <2>1, <2>2, <2>3, <2>4
  <2>6. Delivered' BY <1>1, <2>1 DEF PollStream, Advance
  <2>7. CaughtUp' BY <1>1 DEF PollStream, Advance
  <2>8. Orphaned' /\ DownIsEmpty' BY <1>1 DEF PollStream, Advance
  <2> QED BY <2>4, <2>5, <2>6, <2>7, <2>8
<1>2. CASE EndStream
  <2>1. orphan' \in BOOLEAN BY <1>2, Zenon DEF EndStream, Finish, Close
  <2> QED BY <1>2, <2>1, LagAssumption DEF EndStream, Finish, Close
<1> QED BY <1>1, <1>2

(* Faults, and the end of the process.                                      *)
LEMMA FaultsKeep ==
  ASSUME IInv, Exit \/ Kill \/ Network
  PROVE  IInv'
<1> USE DEF IInv, TypeOK, StreamTypeOK, CaughtUp, DownIsEmpty, Orphaned, Delivered,
            Answerable, WellFormed, GivesUpOnlyIfInvalid, client, Close
<1>1. ASSUME Lose
      PROVE  /\ conn' \in {"none", "error"} /\ wire' \in Seq(Policies) /\ Len(wire') <= Window
             /\ cut' \in BOOLEAN
  <2>1. PICK n \in 0 .. Len(wire) : wire' = SubSeq(wire, 1, n) BY <1>1 DEF Lose
  <2>2. wire' \in Seq(Policies) /\ Len(wire') <= Window
    BY <2>1, WireLost, WindowAssumption
  <2>3. cut' \in BOOLEAN BY <1>1, Zenon DEF Lose
  <2> QED BY <1>1, <2>2, <2>3 DEF Lose
<1>2. ASSUME Vanish
      PROVE  /\ conn' \in {"none", "ok"} /\ wire' \in Seq(Policies) /\ Len(wire') <= Window
             /\ cut' \in BOOLEAN
  BY <1>2, WindowAssumption DEF Vanish
<1>3. ASSUME Down
      PROVE  exists' \in BOOLEAN /\ draining' \in BOOLEAN /\ orphan' \in BOOLEAN
  BY <1>3, Zenon DEF Down
<1>4. ASSUME Down, conn' \in {"none", "ok", "eof", "error"}, cut' \in BOOLEAN,
             wire' \in Seq(Policies), Len(wire') <= Window
      PROVE  IInv'
  <2>1. /\ state' = "closed" /\ sent' = <<>> /\ lag' \in 0 .. MaxLag /\ server' = "down"
        /\ UNCHANGED <<current, net, request, task, rx, dropped>>
    BY <1>4, LagAssumption DEF Down
  <2>2. TypeOK' BY <1>3, <1>4, <2>1
  <2> QED BY <1>4, <2>2 DEF Down
<1>5. CASE Exit BY <1>4, <1>5 DEF Exit
<1>6. CASE Kill
  <2>1. conn' \in {"none", "ok", "eof", "error"} /\ cut' \in BOOLEAN
        /\ wire' \in Seq(Policies) /\ Len(wire') <= Window
    <3>1. CASE cut BY <1>2, <1>6, <3>1 DEF Kill
    <3>2. CASE ~cut BY <1>1, <1>6, <3>2 DEF Kill
    <3> QED BY <3>1, <3>2
  <2> QED BY <1>4, <1>6, <2>1 DEF Kill
<1>7. CASE Break
  <2>1. net' \in BOOLEAN /\ orphan' \in BOOLEAN BY <1>7, Zenon DEF Break
  <2> QED BY <1>1, <1>7, <2>1, LagAssumption DEF Break
<1>8. CASE Mend BY <1>8 DEF Mend, streamVars
<1>9. CASE Sever BY <1>9 DEF Sever, streamVars
<1>10. CASE Heal
  <2>1. cut' \in BOOLEAN /\ UNCHANGED <<current, exists, draining, server, net, conn, client>>
    BY <1>10, Zenon DEF Heal, streamVars
  <2>2. CASE conn = "none"
    <3>1. /\ state' = "closed" /\ sent' = <<>> /\ lag' = 0 /\ wire' = <<>> /\ conn' = "none"
          /\ orphan' = FALSE
      BY <1>10, <2>2 DEF Heal
    <3>2. orphan' \in BOOLEAN BY <3>1, Zenon
    <3> QED BY <2>1, <3>1, <3>2, LagAssumption, WindowAssumption
  <2>3. CASE conn # "none"
    <3>1. UNCHANGED <<streamVars, wire>> BY <1>10, <2>3 DEF Heal
    <3> QED BY <2>1, <3>1 DEF streamVars
  <2> QED BY <2>2, <2>3
<1>11. CASE GiveUp
  <2>1. orphan' \in BOOLEAN BY <1>11, Zenon DEF GiveUp
  <2> QED BY <1>2, <1>11, <2>1, LagAssumption DEF GiveUp
<1> QED BY <1>5, <1>6, <1>7, <1>8, <1>9, <1>10, <1>11 DEF Network

(* The steps of the client.                                                 *)
LEMMA ClientKeeps ==
  ASSUME IInv, Client
  PROVE  IInv'
<1> USE DEF IInv, TypeOK, StreamTypeOK, CaughtUp, DownIsEmpty, Orphaned, Delivered,
            Answerable, GivesUpOnlyIfInvalid, Goto
<1>1. CASE CallOk
  <2>1. WellFormed(request) BY <1>1 DEF CallOk, Answer
  <2>2. WellFormed(request)' BY <1>1, <2>1 DEF CallOk, WellFormed
  <2>3. orphan' \in BOOLEAN BY <1>1, Zenon DEF CallOk, Start
  <2> QED BY <1>1, <2>2, <2>3, LagAssumption, WindowAssumption DEF CallOk, Start
<1>2. CASE CallError
  <2>1. task' = "failed" => ~WellFormed(request)
    BY <1>2 DEF CallError, Recover, Answer
  <2>2. task' \in {"failed", "sleep"} BY <1>2 DEF CallError, Recover
  <2> QED BY <1>2, <2>1, <2>2 DEF CallError, Recover, streamVars, link, WellFormed
<1>3. CASE Receive
  <2>1. /\ Head(wire) \in Policies /\ wire' \in Seq(Policies) /\ Len(wire') = Len(wire) - 1
        /\ wire' = <<>> => Head(wire) = wire[Len(wire)]
        /\ wire' # <<>> => wire'[Len(wire')] = wire[Len(wire)]
    BY <1>3, WireShrinks DEF Receive
  <2> QED BY <1>3, <2>1, WindowAssumption DEF Receive, streamVars, WellFormed
<1>4. CASE ReceiveEnd BY <1>4 DEF ReceiveEnd, streamVars, WellFormed
<1>5. CASE Wake BY <1>5 DEF Wake, streamVars, link, WellFormed
<1>6. CASE DropReceivers BY <1>6 DEF DropReceivers, streamVars, link, WellFormed
<1>7. CASE TxClosed
  <2>1. /\ UNCHANGED <<current, exists, draining, server, net, cut, request, rx, dropped>>
        /\ conn' = "none" /\ task' = "closed"
    BY <1>7 DEF TxClosed, CancelStream, streamVars
  <2>2. CASE cut
    <3>1. UNCHANGED <<streamVars, wire>> BY <1>7, <2>2 DEF TxClosed, CancelStream
    <3> QED BY <2>1, <3>1 DEF streamVars, WellFormed
  <2>3. CASE ~cut
    <3>1. Close /\ wire' = <<>> BY <1>7, <2>3 DEF TxClosed, CancelStream
    <3>2. orphan' \in BOOLEAN BY <3>1, Zenon DEF Close
    <3> QED BY <2>1, <3>1, <3>2, LagAssumption, WindowAssumption DEF Close, WellFormed
  <2> QED BY <2>2, <2>3
<1> QED BY <1>1, <1>2, <1>3, <1>4, <1>5, <1>6, <1>7 DEF Client

(* The invariant of the watch.                                              *)
THEOREM WatchInvariant == Spec => []IInv
<1>1. IInv /\ [Next]_vars => IInv'
  <2> SUFFICES ASSUME IInv, [Next]_vars PROVE IInv'
    OBVIOUS
  <2>1. CASE UNCHANGED vars
    BY <2>1 DEF vars, streamVars, link, client, IInv, TypeOK, StreamTypeOK, CaughtUp,
       DownIsEmpty, Orphaned, Delivered, Answerable, WellFormed, GivesUpOnlyIfInvalid
  <2> QED
    BY <2>1, IndexKeeps, StreamKeeps, FaultsKeep, ClientKeeps
    DEF Next, Controller
<1> QED BY <1>1, InitIInv, PTL DEF Spec

(* The variables keep their types: in particular the connection never holds *)
(* more than its window (PollStream), whatever is lost and sent again.      *)
THEOREM TypeCorrect == Spec => []TypeOK
<1>1. IInv => TypeOK BY DEF IInv
<1> QED BY <1>1, WatchInvariant, PTL

(* From the index to the client's channel no policy is stale once all is    *)
(* read (watch_ports.rs:38-66).                                             *)
THEOREM EndToEndHolds == Spec => []EndToEnd
<1>1. IInv => EndToEnd BY DEF IInv, CaughtUp, Delivered, EndToEnd
<1> QED BY <1>1, WatchInvariant, PTL

(* The task gives up for no fault and no absence of the pod, and never      *)
(* once it has a channel (watch_ports.rs:91-104).                           *)
THEOREM GivesUpOnlyIfInvalidHolds == Spec => []GivesUpOnlyIfInvalid
<1>1. IInv => GivesUpOnlyIfInvalid BY DEF IInv
<1> QED BY <1>1, WatchInvariant, PTL

(* No 32-bit port is taken for another, narrowed to 16 bits (controller/    *)
(* grpc/src/lib.rs:61-70).                                                  *)
THEOREM TargetExactHolds == Spec => []TargetExact
<1>1. TargetExact
  <2> SUFFICES ASSUME NEW r \in Requests, Answer(r) = "Ok"
               PROVE  r = [workload |-> Pod, port |-> Port]
    BY DEF TargetExact
  <2>1. r.port \in Nat BY TargetAssumption DEF Requests
  <2>2. r.port # 0 /\ r.port <= MaxPort /\ r.workload = Pod /\ r.port % (MaxPort + 1) = Port
    BY DEF Answer, WellFormed, Found
  <2>3. r.port % (MaxPort + 1) = r.port BY <2>1, <2>2 DEF MaxPort
  <2> QED BY <2>2, <2>3 DEF Requests
<1> QED BY <1>1, PTL
=============================================================================
