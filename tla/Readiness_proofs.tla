--------------------------- MODULE Readiness_proofs ---------------------------
(***************************************************************************)
(* WaitReady loses no wakeup, for any set of replicas and any quorum.      *)
(* NoLostWakeup speaks of the moment the waiter sleeps; what makes it      *)
(* inductive is SnapshotCurrent, which holds all through the scan: a       *)
(* replica read in this round is as it was read unless its channel has     *)
(* been closed since.                                                      *)
(***************************************************************************)
EXTENDS Readiness, FiniteSetTheorems, TLAPS

\* Most leaves are first-order reasoning; the ones that need arithmetic cite SMT.
USE Zenon

\* A replica with an unchanged channel is in the state the waiter has read.
SnapshotCurrent == \A r \in scanned \ changed : r \in ready <=> r \in connected

\* A waiter that goes to sleep has read all replicas and found too few.
Asleep == waiter = "select" => scanned = Replicas /\ Cardinality(ready) < Quorum

ReadinessInv ==
  /\ TypeOK
  /\ connected \cap closed = {}
  /\ SnapshotCurrent
  /\ Asleep

\* The goroutines of the replicas keep the invariant: whatever they change, they
\* close the channel of that replica under the same lock.
LEMMA ReplicaSteps ==
  ASSUME ReadinessInv, NEW r \in Replicas, Publish(r) \/ Clear(r) \/ MarkClosed(r)
  PROVE  ReadinessInv'
<1> USE DEF ReadinessInv, NotifyStateChange, waitVars
<1>1. TypeOK'
  BY DEF TypeOK, Publish, Clear, MarkClosed
<1>2. (connected \cap closed = {})'
  BY DEF Publish, Clear, MarkClosed
<1>3. SnapshotCurrent'
  BY DEF SnapshotCurrent, Publish, Clear, MarkClosed
<1>4. Asleep'
  BY DEF Asleep, Publish, Clear, MarkClosed
<1> QED BY <1>1, <1>2, <1>3, <1>4

\* So do the steps of WaitReady.
LEMMA WaiterSteps ==
  ASSUME ReadinessInv, WaitReady
  PROVE  ReadinessInv'
<1> USE DEF ReadinessInv
<1>1. CASE Check
  BY <1>1 DEF TypeOK, SnapshotCurrent, Asleep, Check
<1>2. ASSUME NEW r \in Replicas, Scan(r)
      PROVE  ReadinessInv'
  <2>1. UNCHANGED <<connected, closed, canceled, waiter, changed>> /\ waiter = "scan"
    BY <1>2 DEF Scan
  <2>2. scanned' = scanned \cup {r} /\ (r \in ready' <=> r \in connected)
    BY <1>2 DEF Scan, IsReady, TypeOK
  <2>3. \A q : q # r => (q \in ready' <=> q \in ready)
    BY <1>2 DEF Scan
  <2>4. ready' \subseteq scanned'
    BY <2>2, <2>3 DEF TypeOK
  <2>5. TypeOK'
    BY <2>1, <2>2, <2>4 DEF TypeOK
  <2>6. SnapshotCurrent'
    BY <2>1, <2>2, <2>3 DEF SnapshotCurrent
  <2> QED BY <2>1, <2>5, <2>6 DEF Asleep
<1>3. CASE Decide
  <2>1. Cardinality(ready) < Quorum \/ Cardinality(ready) >= Quorum
    <3>1. ready \subseteq Replicas
      BY DEF TypeOK
    <3>2. Cardinality(ready) \in Nat /\ Cardinality(Replicas) \in Nat
      BY <3>1, ReadinessAssumption, FS_Subset, FS_CardinalityType
    <3> QED BY <3>2, ReadinessAssumption, SMT
  <2> QED BY <1>3, <2>1 DEF TypeOK, SnapshotCurrent, Asleep, Decide
<1>4. CASE Wake
  BY <1>4 DEF TypeOK, SnapshotCurrent, Asleep, Wake
<1> QED BY <1>1, <1>2, <1>3, <1>4 DEF WaitReady

\* The invariant is inductive, and NoLostWakeup is what it says of a sleeping waiter
\* with no channel closed.
THEOREM NoLostWakeupHolds == Spec => []NoLostWakeup
<1>1. Init => ReadinessInv
  BY DEF Init, ReadinessInv, TypeOK, SnapshotCurrent, Asleep
<1>2. ReadinessInv /\ [Next]_vars => ReadinessInv'
  <2> SUFFICES ASSUME ReadinessInv, [Next]_vars
               PROVE  ReadinessInv'
    OBVIOUS
  <2>1. CASE Cancel
    BY <2>1 DEF ReadinessInv, TypeOK, SnapshotCurrent, Asleep, Cancel, waitVars
  <2>2. CASE UNCHANGED vars
    BY <2>2 DEF ReadinessInv, TypeOK, SnapshotCurrent, Asleep, vars
  <2> QED BY <2>1, <2>2, ReplicaSteps, WaiterSteps DEF Next
<1>3. ReadinessInv => NoLostWakeup
  <2> SUFFICES ASSUME ReadinessInv, waiter = "select", changed = {}
               PROVE  ready = connected \ closed /\ Cardinality(connected) < Quorum
    BY DEF ReadinessInv, NoLostWakeup
  <2>1. scanned = Replicas /\ Cardinality(ready) < Quorum
    BY DEF ReadinessInv, Asleep
  <2>2. \A r : r \in ready <=> r \in connected
    BY <2>1 DEF ReadinessInv, SnapshotCurrent, TypeOK
  <2>3. ready = connected /\ connected = connected \ closed
    BY <2>2 DEF ReadinessInv
  <2> QED BY <2>1, <2>3
<1> QED BY <1>1, <1>2, <1>3, PTL DEF Spec
=============================================================================
