------------------------- MODULE LookupStreamProofs -------------------------
(***************************************************************************)
(* A stream loses no update, and its steps are those of PolicyStream, for   *)
(* any number of servers and policies.                                      *)
(***************************************************************************)
EXTENDS LookupStream, TLAPS

(* Unless the port's channel has something unseen, the stream's inner       *)
(* receiver is the one it holds.                                            *)
Synced == pc \notin {"ended", "outer"} /\ ~outerNew => inner = outer

(* Unless the inner channel has something unseen, it is what was yielded.   *)
Read == pc \in {"yielded", "select"} /\ ~innerNew => server = inner.value

(* The port of a pod in the index holds an open channel, except while its   *)
(* server is being removed.                                                 *)
OuterOpen == indexedPod /\ ~removing => outer.open

(* A stream that ended holds no receiver that has something unseen.         *)
Dropped == pc = "ended" => inner.of = Default /\ ~innerNew /\ ~outerNew

IInv == TypeOK /\ Synced /\ Read /\ OuterOpen /\ Dropped

(* The receivers have the same type after a server sends or is dropped, and *)
(* stay the same where they were.                                           *)
LEMMA RxType ==
  ASSUME TypeOK
  PROVE  /\ DefaultRx \in Rx
         /\ \A s \in Servers : ServerRx(s) \in Rx
         /\ \A rx \in Rx, s \in Servers, v \in Policies : Sent(rx, s, v) \in Rx
         /\ \A rx \in Rx, s \in Servers : Closed(rx, s) \in Rx
BY PolicyAssumption DEF TypeOK, Rx, DefaultRx, ServerRx, Sent, Closed

(* The steps of the indexing task.                                          *)
LEMMA IndexStep ==
  ASSUME IInv, Index
  PROVE  IInv'
<1> USE DEF IInv, stream
<1>1. ASSUME NEW s \in Servers, CreateServer(s) PROVE IInv'
  BY <1>1 DEF CreateServer, TypeOK, Synced, Read, OuterOpen, Dropped
<1>2. ASSUME NEW s \in Servers, UpdateServer(s) PROVE IInv'
  <2>1. PICK v \in Policies :
          /\ policy' = [policy EXCEPT ![s] = v]
          /\ outer' = Sent(outer, s, v)
          /\ inner' = Sent(inner, s, v)
    BY <1>2 DEF UpdateServer
  <2>2. TypeOK' BY <1>2, <2>1, RxType DEF UpdateServer, TypeOK
  <2>3. Synced' BY <1>2, <2>1 DEF UpdateServer, Synced
  <2>4. Read' BY <1>2, <2>1 DEF UpdateServer, Read, Sent
  <2>5. OuterOpen'
    <3>1. outer'.open = outer.open BY <2>1 DEF Sent, TypeOK, Rx
    <3> QED BY <1>2, <3>1 DEF UpdateServer, OuterOpen
  <2>6. Dropped'
    BY <1>2, <2>1, DefaultAssumption DEF UpdateServer, Dropped, Receives, Sent
  <2> QED BY <2>2, <2>3, <2>4, <2>5, <2>6
<1>3. ASSUME NEW rx \in Rx, rx.open, SendOuter(rx), removing' \in BOOLEAN PROVE IInv'
  BY <1>3 DEF SendOuter, TypeOK, Synced, Read, OuterOpen, Dropped
<1>4. ASSUME NEW s \in Servers, LinkPort(s) PROVE IInv'
  BY <1>3, <1>4, RxType DEF LinkPort, ServerRx, TypeOK
<1>5. CASE UnlinkPort BY <1>3, <1>5, RxType DEF UnlinkPort, DefaultRx, TypeOK
<1>6. CASE ResetServer BY <1>3, <1>6, RxType DEF ResetServer, DefaultRx, TypeOK
<1>7. ASSUME NEW s \in Servers, RemoveServer(s) PROVE IInv'
  <2>1. TypeOK' BY <1>7, RxType DEF RemoveServer, DropServer, Receives, TypeOK, Rx
  <2>2. Synced' BY <1>7 DEF RemoveServer, DropServer, Synced
  <2>3. Read'
    <3>1. inner'.value = inner.value BY <1>7 DEF RemoveServer, DropServer, Closed, TypeOK, Rx
    <3> QED BY <1>7, <3>1 DEF RemoveServer, DropServer, Read
  <2>4. OuterOpen' BY <1>7 DEF RemoveServer, DropServer, Closed, OuterOpen
  <2>5. Dropped' BY <1>7 DEF RemoveServer, DropServer, Closed, Dropped
  <2> QED BY <2>1, <2>2, <2>3, <2>4, <2>5
<1>8. CASE RemovePod BY <1>8 DEF RemovePod, TypeOK, Synced, Read, OuterOpen, Dropped
<1>9. CASE Shutdown BY <1>9 DEF Shutdown, TypeOK, Synced, Read, OuterOpen, Dropped
<1> QED BY <1>1, <1>2, <1>4, <1>5, <1>6, <1>7, <1>8, <1>9 DEF Index

(* The steps of the stream and of its client.                               *)
LEMMA StreamStep ==
  ASSUME IInv, Stream \/ Cancel
  PROVE  IInv'
<1> USE DEF IInv, Goto, writer
<1>1. CASE WatchPort BY <1>1 DEF WatchPort, TypeOK, Synced, Read, OuterOpen, Dropped
<1>2. CASE First BY <1>2 DEF First, TypeOK, Synced, Read, OuterOpen, Dropped, Rx
<1>3. CASE Poll BY <1>3 DEF Poll, TypeOK, Synced, Read, OuterOpen, Dropped
<1>4. CASE InnerChanged BY <1>4 DEF InnerChanged, TypeOK, Synced, Read, OuterOpen, Dropped
<1>5. CASE ReadInner BY <1>5 DEF ReadInner, Yield, TypeOK, Synced, Read, OuterOpen, Dropped, Rx
<1>6. CASE OuterChanged BY <1>6 DEF OuterChanged, TypeOK, Synced, Read, OuterOpen, Dropped
<1>7. CASE ReadOuter BY <1>7 DEF ReadOuter, TypeOK, Synced, Read, OuterOpen, Dropped
<1>8. CASE ReadNewInner
  BY <1>8 DEF ReadNewInner, Yield, TypeOK, Synced, Read, OuterOpen, Dropped, Rx
<1>9. CASE End
  BY <1>9, RxType, PolicyAssumption DEF End, DefaultRx, TypeOK, Synced, Read, OuterOpen, Dropped
<1>10. \/ WatchPort \/ First \/ Poll \/ InnerChanged \/ ReadInner
       \/ OuterChanged \/ ReadOuter \/ ReadNewInner \/ End
  BY DEF Stream, OuterClosed, Drained, Cancel
<1> QED BY <1>1, <1>2, <1>3, <1>4, <1>5, <1>6, <1>7, <1>8, <1>9, <1>10

(* The invariant the two theorems rest on.                                  *)
THEOREM StreamInvariant == Spec => []IInv
<1>1. Init => IInv
  <2>1. DefaultRx \in Rx /\ DefaultRx.open /\ DefaultRx.value = DefaultPolicy
    BY PolicyAssumption DEF DefaultRx, Rx
  <2>2. Init => TypeOK BY <2>1, PolicyAssumption DEF Init, TypeOK
  <2> QED BY <2>1, <2>2 DEF Init, IInv, Synced, Read, OuterOpen, Dropped, DefaultRx
<1>2. IInv /\ [Next]_vars => IInv'
  <2> SUFFICES ASSUME IInv, [Next]_vars PROVE IInv'
    OBVIOUS
  <2>1. CASE UNCHANGED vars
    BY <2>1 DEF vars, writer, stream, IInv, TypeOK, Synced, Read, OuterOpen, Dropped
  <2> QED BY <2>1, IndexStep, StreamStep DEF Next
<1> QED BY <1>1, <1>2, PTL DEF Spec

(* A stream only ever holds a receiver of a channel that its port was given *)
(* (lookup.rs:137-171).                                                     *)
THEOREM TypeCorrect == Spec => []TypeOK
<1>1. IInv => TypeOK BY DEF IInv
<1> QED BY <1>1, StreamInvariant, PTL

(* No interleaving of a stream's steps with the index's loses an update     *)
(* (lookup.rs:137-171).                                                     *)
THEOREM NoUpdateIsLost == Spec => []NoLostUpdate
<1>1. IInv => NoLostUpdate
  BY DEF IInv, Synced, Read, NoLostUpdate, Current
<1> QED BY <1>1, StreamInvariant, PTL

(* A stream is busy on a closed channel only until the index has reset the  *)
(* port, or the stream sees that its pod is gone (lookup.rs:155).           *)
THEOREM SpinsAreBounded == Spec => []SpinsOnlyWhileRemoving
<1>1. IInv => SpinsOnlyWhileRemoving
  BY DEF IInv, Synced, OuterOpen, SpinsOnlyWhileRemoving
<1> QED BY <1>1, StreamInvariant, PTL

----------------------------------------------------------------------------
(* The refinement.                                                          *)

(* What the index does is a change of the port, or nothing, to the client.  *)
LEMMA IndexImplements ==
  ASSUME IInv, IInv', Index
  PROVE  [Promise!StreamNext]_Promise!streamVars
<1> USE DEF IInv, stream, Current, Behind
<1>1. ASSUME NEW s \in Servers, CreateServer(s) PROVE UNCHANGED Promise!streamVars
  BY <1>1 DEF CreateServer, Promise!streamVars
<1>2. ASSUME NEW s \in Servers, UpdateServer(s)
      PROVE  Promise!Change \/ UNCHANGED Promise!streamVars
  <2>1. PICK v \in Policies : outer' = Sent(outer, s, v) /\ inner' = Sent(inner, s, v)
    BY <1>2 DEF UpdateServer
  <2>2. outer'.value \in Policies BY DEF TypeOK, Rx
  <2>3. CASE Receives(inner, s) \/ outer' # outer
    <3>1. pc # "ended" => innerNew' \/ outerNew \/ pc = "outer"
      BY <1>2, <2>1, <2>3 DEF UpdateServer, Synced, Sent
    <3>2. Promise!Change
      BY <1>2, <2>2, <3>1 DEF UpdateServer, Promise!Change, TypeOK
    <3> QED BY <3>2
  <2>4. CASE ~Receives(inner, s) /\ outer' = outer
    BY <1>2, <2>4 DEF UpdateServer, Promise!streamVars, TypeOK
  <2> QED BY <2>3, <2>4
<1>3. ASSUME NEW rx \in Rx, SendOuter(rx) PROVE Promise!Change
  <2>1. outer'.value \in Policies BY DEF TypeOK, Rx
  <2>2. pc # "ended" => outerNew' BY <1>3 DEF SendOuter
  <2>3. pc' = pc /\ innerNew' = innerNew /\ indexedPod' = indexedPod
        /\ draining' = draining /\ server' = server
    BY <1>3 DEF SendOuter
  <2> QED BY <2>1, <2>2, <2>3 DEF Promise!Change, TypeOK
<1>4. ASSUME NEW s \in Servers, LinkPort(s) PROVE Promise!Change
  BY <1>3, <1>4, RxType DEF LinkPort
<1>5. CASE UnlinkPort BY <1>3, <1>5, RxType DEF UnlinkPort, Promise!StreamNext
<1>6. CASE ResetServer BY <1>3, <1>6, RxType DEF ResetServer, Promise!StreamNext
<1>7. ASSUME NEW s \in Servers, RemoveServer(s) PROVE UNCHANGED Promise!streamVars
  <2>1. outer'.value = outer.value
    BY <1>7 DEF RemoveServer, DropServer, Closed, TypeOK, Rx
  <2> QED BY <1>7, <2>1 DEF RemoveServer, DropServer, Promise!streamVars
<1>8. CASE RemovePod
  <2>1. Promise!RemovePod BY <1>8 DEF RemovePod, Promise!RemovePod, TypeOK
  <2> QED BY <2>1 DEF Promise!StreamNext
<1>9. CASE Shutdown
  <2>1. Promise!Shutdown BY <1>9 DEF Shutdown, Promise!Shutdown, TypeOK
  <2> QED BY <2>1 DEF Promise!StreamNext
<1> QED
  BY <1>1, <1>2, <1>4, <1>5, <1>6, <1>7, <1>8, <1>9 DEF Index, Promise!StreamNext

(* Each step of the stream is one that catches up, or waits, or ends.       *)
LEMMA StreamImplements ==
  ASSUME IInv, IInv', Stream \/ Cancel
  PROVE  [Promise!StreamNext]_Promise!streamVars
<1> USE DEF IInv, Goto, writer, Current, Behind
<1>1. CASE WatchPort
  <2>1. Promise!Start BY <1>1 DEF WatchPort, Promise!Start, Dropped, TypeOK
  <2> QED BY <2>1 DEF Promise!StreamNext
<1>2. ASSUME First \/ InnerChanged \/ ReadInner \/ OuterChanged \/ ReadOuter \/ ReadNewInner
      PROVE  Promise!Advance
  <2> USE DEF Promise!Advance, TypeOK, Synced, Rx
  <2>1. CASE First BY <2>1 DEF First
  <2>2. CASE InnerChanged BY <2>2 DEF InnerChanged
  <2>3. CASE ReadInner BY <2>3 DEF ReadInner, Yield
  <2>4. CASE OuterChanged BY <2>4 DEF OuterChanged
  <2>5. CASE ReadOuter BY <2>5 DEF ReadOuter
  <2>6. CASE ReadNewInner BY <2>6 DEF ReadNewInner, Yield
  <2> QED BY <1>2, <2>1, <2>2, <2>3, <2>4, <2>5, <2>6
<1>3. CASE Poll BY <1>3 DEF Poll, Promise!streamVars
<1>4. CASE OuterClosed \/ Drained
  <2>1. Promise!Finish
    BY <1>4 DEF OuterClosed, Drained, End, Promise!Finish, Promise!Close, TypeOK
  <2> QED BY <2>1 DEF Promise!StreamNext
<1>5. CASE Cancel
  <2>1. Promise!Cancel BY <1>5 DEF Cancel, End, Promise!Cancel, Promise!Close, TypeOK
  <2> QED BY <2>1 DEF Promise!StreamNext
<1> QED BY <1>1, <1>2, <1>3, <1>4, <1>5 DEF Stream, Promise!StreamNext

(* The two layers of watch channels of lookup.rs:130-174 implement the      *)
(* stream of policies the client is promised, its fairness aside: whatever  *)
(* holds of PolicyStream's steps holds of the code's.                       *)
THEOREM StreamKeepsPromise ==
  Spec => Promise!StreamInit /\ [][Promise!StreamNext]_Promise!streamVars
<1>1. Init => Promise!StreamInit
  BY PolicyAssumption DEF Init, DefaultRx, Current, Promise!StreamInit
<1>2. IInv /\ IInv' /\ [Next]_vars => [Promise!StreamNext]_Promise!streamVars
  <2> SUFFICES ASSUME IInv, IInv', [Next]_vars
               PROVE  [Promise!StreamNext]_Promise!streamVars
    OBVIOUS
  <2>1. CASE UNCHANGED vars
    BY <2>1 DEF vars, writer, stream, Current, Behind, Promise!streamVars
  <2> QED BY <2>1, IndexImplements, StreamImplements DEF Next
<1> QED BY <1>1, <1>2, StreamInvariant, PTL DEF Spec
=============================================================================
