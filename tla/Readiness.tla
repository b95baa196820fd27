------------------------------ MODULE Readiness ------------------------------
(***************************************************************************)
(* Client.WaitReady and the state it watches: client/client.go and         *)
(* readiness, publish, clear and markClosed in client/replica_conn.go.     *)
(* The waiter reads one replica after the other, each under its mutex, and *)
(* then sleeps on the channels it was given, which the next change of      *)
(* state closes.                                                           *)
(***************************************************************************)
EXTENDS Naturals, FiniteSets

CONSTANTS
  Replicas,
  Quorum  \* parameters.size

ASSUME ReadinessAssumption ==
  IsFiniteSet(Replicas) /\ Quorum \in 1..Cardinality(Replicas)

VARIABLES
  connected,  \* replicas with a published generation
  closed,     \* replicas whose closed flag is set
  canceled,   \* Client.Close has canceled the client's context
  waiter,     \* where WaitReady is
  scanned,    \* replicas it has read in this round
  ready,      \* those that were ready when it read them
  changed     \* those whose channel it holds has been closed since

vars == <<connected, closed, canceled, waiter, scanned, ready, changed>>
waitVars == <<waiter, scanned, ready>>

\* The type of every variable.
TypeOK ==
  /\ connected \subseteq Replicas /\ closed \subseteq Replicas /\ canceled \in BOOLEAN
  /\ waiter \in {"check", "scan", "select", "ready", "closed"}
  /\ ready \subseteq scanned /\ changed \subseteq scanned /\ scanned \subseteq Replicas

Init ==
  /\ connected = {} /\ closed = {} /\ canceled = FALSE
  /\ waiter = "check" /\ scanned = {} /\ ready = {} /\ changed = {}

\* Mutation of NotifyStateChange: makes a new channel and leaves the old one open.
NotifyNobody(r) == UNCHANGED changed

\* notifyStateChangeLocked: whoever holds the channel of r is woken up.
NotifyStateChange(r) == changed' = changed \cup ({r} \cap scanned)

Publish(r) ==
  /\ r \notin connected /\ r \notin closed
  /\ connected' = connected \cup {r}
  /\ NotifyStateChange(r)
  /\ UNCHANGED <<closed, canceled, waitVars>>

\* A terminated generation is cleared.
Clear(r) ==
  /\ r \in connected
  /\ connected' = connected \ {r}
  /\ NotifyStateChange(r)
  /\ UNCHANGED <<closed, canceled, waitVars>>

\* Client.Close: cancels the context, then closes every replica.
Cancel ==
  /\ ~canceled
  /\ canceled' = TRUE
  /\ UNCHANGED <<connected, closed, changed, waitVars>>

MarkClosed(r) ==
  /\ canceled /\ r \notin closed
  /\ closed' = closed \cup {r}
  /\ connected' = connected \ {r}
  /\ NotifyStateChange(r)
  /\ UNCHANGED <<canceled, waitVars>>

\* WaitReady, from the top of its loop.  The caller's context stays alive.
Check ==
  /\ waiter = "check"
  /\ waiter' = IF canceled THEN "closed" ELSE "scan"
  /\ scanned' = {} /\ ready' = {} /\ changed' = {}
  /\ UNCHANGED <<connected, closed, canceled>>

IsReady(r) == r \in connected /\ r \notin closed

\* Mutation of Woken: only the client's context ends the sleep.
NeverWoken == FALSE

\* readiness: the snapshot and the channel of the next change, under one lock.
Scan(r) ==
  /\ waiter = "scan" /\ r \notin scanned
  /\ scanned' = scanned \cup {r}
  /\ ready' = IF IsReady(r) THEN ready \cup {r} ELSE ready
  /\ UNCHANGED <<connected, closed, canceled, waiter, changed>>

Decide ==
  /\ waiter = "scan" /\ scanned = Replicas
  /\ waiter' = IF Cardinality(ready) >= Quorum THEN "ready" ELSE "select"
  /\ UNCHANGED <<connected, closed, canceled, scanned, ready, changed>>

Woken == changed # {}

\* reflect.Select: the client's context, or the channel of some replica.
Wake ==
  /\ waiter = "select"
  /\ \/ canceled /\ waiter' = "closed"
     \/ Woken /\ waiter' = "check"
  /\ UNCHANGED <<connected, closed, canceled, scanned, ready, changed>>

WaitReady == Check \/ Decide \/ Wake \/ \E r \in Replicas : Scan(r)

Next ==
  \/ \E r \in Replicas : Publish(r) \/ Clear(r) \/ MarkClosed(r)
  \/ Cancel \/ WaitReady

\* The waiting goroutine runs; nothing is assumed of the connections.
Spec == Init /\ [][Next]_vars /\ WF_vars(WaitReady)

-----------------------------------------------------------------------------
(* Properties. *)

\* WaitReady never sleeps through a quorum: asleep with no channel closed, it has
\* the present state of every replica, and too few of them are connected.
NoLostWakeup ==
  /\ TypeOK
  /\ waiter = "select" /\ changed = {} =>
       ready = connected \ closed /\ Cardinality(connected) < Quorum

\* Once the same quorum of replicas stays connected, whatever the others do, or the
\* client is closed, WaitReady returns.  (The scan is not atomic: a quorum made of
\* different replicas from moment to moment may stay unnoticed.)
WaitReadyReturns ==
  \A R \in SUBSET Replicas :
    Cardinality(R) = Quorum =>
      (<>[](R \subseteq connected) \/ <>canceled => <>(waiter \in {"ready", "closed"}))
=============================================================================
