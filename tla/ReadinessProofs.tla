-------------------------- MODULE ReadinessProofs --------------------------
(***************************************************************************)
(* That the controller's readiness is right in every state, for any number  *)
(* of watches and any threshold of the kubelet's.                           *)
(*                                                                          *)
(* ReadyAfterLists is not inductive: it rests on a watch being ready only   *)
(* once its first list is applied, and that on a watch's stream listing     *)
(* before it delivers anything else.                                        *)
(***************************************************************************)
EXTENDS Readiness, TLAPS

(* A stream that has nothing to list has listed before; so has a watch that *)
(* is ready.                                                                *)
ListsFirst ==
  /\ Watches \ relist \subseteq listed
  /\ readyWatch \subseteq listed

IInv == TypeOK /\ ListsFirst /\ ReadyAfterLists /\ ReadyWhenAllAre

(* No watch is ready at first, and there is one.                            *)
LEMMA InitIInv == Init => IInv
<1> SUFFICES ASSUME Init PROVE IInv OBVIOUS
<1>1. TypeOK
  <2>1. ready \in BOOLEAN BY Zenon DEF Init
  <2>2. phase \in [Watches -> {"waiting", "asleep"}] BY DEF Init
  <2>3. failures \in 0 .. FailureThreshold BY FailureThresholdAssumption DEF Init
  <2> QED BY <2>1, <2>2, <2>3 DEF Init, TypeOK
<1>2. ReadyWhenAllAre BY WatchesAssumption DEF Init, ReadyWhenAllAre
<1> QED BY <1>1, <1>2 DEF Init, IInv, ListsFirst, ReadyAfterLists

(* A round of the loop, for a watch whose list has been applied.            *)
LEMMA LoopIInv ==
  ASSUME IInv, NEW w \in Watches, Loop(w), w \in listed', listed \subseteq listed',
         listed' \subseteq Watches, relist' \subseteq Watches,
         Watches \ relist' \subseteq listed', UNCHANGED <<connected, malformed, failures>>,
         pending' \subseteq Watches, bad' \subseteq Custom
  PROVE  IInv'
<1>1. TypeOK' BY DEF IInv, TypeOK, Loop
<1>2. ListsFirst' BY DEF IInv, ListsFirst, Loop
<1>3. ReadyAfterLists' BY <1>2 DEF ListsFirst, ReadyAfterLists, Loop
<1>4. ReadyWhenAllAre' BY DEF ReadyWhenAllAre, Loop
<1> QED BY <1>1, <1>2, <1>3, <1>4 DEF IInv

(* Every step keeps the invariant.                                          *)
LEMMA NextIInv == IInv /\ [Next]_vars => IInv'
<1> SUFFICES ASSUME IInv, [Next]_vars PROVE IInv' OBVIOUS
<1> USE DEF IInv, TypeOK, ListsFirst, ReadyAfterLists, ReadyWhenAllAre
<1>1. CASE UNCHANGED vars BY <1>1 DEF vars, process, cluster, events
<1>2. ASSUME NEW w \in Watches, Disconnect(w) \/ Reconnect(w) \/ Change(w) PROVE IInv'
  BY <1>2 DEF Disconnect, Reconnect, Change, process, events
<1>3. ASSUME NEW w \in Watches, Malform(w) \/ Repair(w) PROVE IInv'
  BY <1>3, WatchesAssumption DEF Malform, Repair, process
<1>4. ASSUME NEW w \in Watches, StreamFails(w) \/ ListFails(w) \/ EventFails(w) \/ Wake(w)
      PROVE  IInv'
  <2>1. CASE StreamFails(w) \/ ListFails(w) \/ EventFails(w)
    BY <1>4, <2>1 DEF StreamFails, ListFails, EventFails, RecvError
  <2>2. CASE Wake(w) BY <2>2 DEF Wake, cluster, events
  <2> QED BY <1>4, <2>1, <2>2
<1>5. ASSUME NEW w \in Watches, RecvList(w) PROVE IInv'
  BY <1>5, LoopIInv DEF RecvList
<1>6. ASSUME NEW w \in Watches, RecvUpdate(w) PROVE IInv'
  BY <1>6, LoopIInv DEF RecvUpdate
<1>7. CASE Probe
  BY <1>7, FailureThresholdAssumption DEF Probe, process, cluster, events
<1>8. CASE Restart
  <2>1. ready' = FALSE /\ ready' \in BOOLEAN BY <1>8, Zenon DEF Restart
  <2>2. phase' \in [Watches -> {"waiting", "asleep"}] BY <1>8 DEF Restart
  <2>3. failures' \in 0 .. FailureThreshold
    BY <1>8, FailureThresholdAssumption DEF Restart
  <2>4. readyWatch' = {} /\ listed' = {} /\ relist' = Watches /\ cluster' = cluster
    BY <1>8 DEF Restart
  <2>5. TypeOK' BY <2>1, <2>2, <2>3, <2>4 DEF cluster, events
  <2>6. ReadyAfterLists' /\ ReadyWhenAllAre' BY <2>1, <2>4, WatchesAssumption
  <2> QED BY <2>4, <2>5, <2>6
<1> QED BY <1>1, <1>2, <1>3, <1>4, <1>5, <1>6, <1>7, <1>8 DEF Next

(* The invariant of the readiness loop.                                     *)
THEOREM ReadinessInvariant == Spec => []IInv
BY InitIInv, NextIInv, PTL DEF Spec

(* The watches, the loop and the probe keep their types, the count of       *)
(* failed probes its bound (lib.rs:131-193, deploy.yml:63-69).              *)
THEOREM TypeCorrect == Spec => []TypeOK
<1>1. IInv => TypeOK BY DEF IInv
<1> QED BY <1>1, ReadinessInvariant, PTL

(* A ready controller has applied the first list of every watch (lib.rs:    *)
(* 182-191): no discovery request it is sent is answered from less.         *)
THEOREM ReadyAfterListsHolds == Spec => []ReadyAfterLists
<1>1. IInv => ReadyAfterLists BY DEF IInv
<1> QED BY <1>1, ReadinessInvariant, PTL

(* The event that makes the last watch ready makes the controller ready     *)
(* (lib.rs:182-191).                                                        *)
THEOREM ReadyWhenAllAreHolds == Spec => []ReadyWhenAllAre
<1>1. IInv => ReadyWhenAllAre BY DEF IInv
<1> QED BY <1>1, ReadinessInvariant, PTL
=============================================================================
