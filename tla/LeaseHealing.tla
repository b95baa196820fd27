---------------------------- MODULE LeaseHealing ----------------------------
(***************************************************************************)
(* The background work on one acquired lease of the quorum client:         *)
(* client/healing.go, client/release.go, and the parts of client/lease.go, *)
(* client/acquire.go and client/renew.go it races with.  The healing       *)
(* goroutine, the goroutines that collect the late responses of Acquire    *)
(* and Renew, the caller's Renew and Release, and Client.Close share the   *)
(* lease under stateMu.  A step is one critical section, one submit or one *)
(* result.  What servers do is in RedLease, the queues are in ReplicaConn; *)
(* here a submit may be refused and a call may fail at any time.           *)
(***************************************************************************)
EXTENDS Naturals, FiniteSets

CONSTANTS
  Replicas,
  Quorum,     \* parameters.size
  TTL,        \* requestedTTL less the safety margin, in clock ticks
  MaxTime,    \* bound: on the clock
  MaxRenews   \* bound: calls of Renew

ASSUME BoundsAssumption == TTL \in Nat /\ MaxTime \in Nat /\ MaxRenews \in Nat

Healers == {1, 2}  \* goroutines that run backgroundHeal; one more than there should be

VARIABLES
  clock,
  canceled,    \* Client.Close has canceled the client's context
  lifecycle,   \* Lease.lifecycle
  start,       \* Lease.now: when the last Acquire or Renew began
  validUntil,
  confirmedUntil,
  healing,     \* Lease.healing
  batches,     \* Lease.healingBatches: the healers between its Add and its Done
  releaseDone, \* the channel is closed
  healer,      \* where a healing goroutine is
  targets,     \* replicas it has still to submit to
  waiting,     \* replicas it waits for
  began,       \* its operationStart
  renewing,    \* the caller is in Renew
  renews,
  collectors,  \* goroutines that collect the late responses of an operation
  releasePc,   \* where the caller's Release is
  toRelease,   \* replicas releaseAll has still to submit to
  lastSent     \* the last Acquire or Release of the lease that a replica's queue took

leaseVars == <<lifecycle, start, validUntil, confirmedUntil>>
healerVars == <<healing, batches, healer, targets, waiting, began>>
callerVars == <<renewing, renews, collectors, releasePc, toRelease, releaseDone>>
vars == <<clock, canceled, leaseVars, healerVars, callerVars, lastSent>>

\* The type of every variable.
TypeOK ==
  /\ clock \in 0..MaxTime /\ canceled \in BOOLEAN
  /\ lifecycle \in {"active", "released"} /\ start \in 0..MaxTime
  /\ validUntil \in Nat /\ confirmedUntil \in [Replicas -> Nat]
  /\ healing \in BOOLEAN /\ batches \in SUBSET Healers /\ releaseDone \in BOOLEAN
  /\ healer \in [Healers -> {"off", "check", "wait", "recheck", "begin", "submit", "collect",
                             "finish"}]
  /\ targets \in [Healers -> SUBSET Replicas] /\ waiting \in [Healers -> SUBSET Replicas]
  /\ began \in [Healers -> 0..MaxTime]
  /\ renewing \in BOOLEAN /\ renews \in 0..MaxRenews /\ collectors \in 0..MaxRenews + 1
  /\ releasePc \in {"none", "wait", "send", "done"} /\ toRelease \subseteq Replicas
  /\ lastSent \in [Replicas -> {"acquire", "release"}]

\* Acquire has just returned the lease: a quorum confirmed it, and the goroutine
\* that collects the other responses, or Acquire's own deferred function, has still
\* to call startBackgroundHealing.
Init ==
  /\ clock = 0 /\ canceled = FALSE
  /\ lifecycle = "active" /\ start = 0 /\ validUntil = TTL
  /\ \E R \in SUBSET Replicas :
       /\ Cardinality(R) >= Quorum
       /\ confirmedUntil = [r \in Replicas |-> IF r \in R THEN TTL ELSE 0]
  /\ healing = FALSE /\ batches = {} /\ releaseDone = FALSE
  /\ healer = [h \in Healers |-> "off"] /\ began = [h \in Healers |-> 0]
  /\ targets = [h \in Healers |-> {}] /\ waiting = [h \in Healers |-> {}]
  /\ renewing = FALSE /\ renews = 0 /\ collectors = 1
  /\ releasePc = "none" /\ toRelease = {}
  /\ lastSent = [r \in Replicas |-> "acquire"]

Goto(h, label) == healer' = [healer EXCEPT ![h] = label]

\* backgroundHealingNeededLocked
Needed ==
  /\ lifecycle = "active" /\ clock < validUntil
  /\ \E r \in Replicas : confirmedUntil[r] < validUntil

-----------------------------------------------------------------------------
(* startBackgroundHealing, markConfirmed and clearConfirmed. *)

\* Mutation of Start: does not look whether a goroutine is already healing.
StartAnother ==
  IF Needed
    THEN /\ healing' = TRUE
         /\ \E h \in Healers : healer[h] = "off" /\ Goto(h, "check")
    ELSE UNCHANGED <<healing, healer>>

Start ==
  IF ~healing /\ Needed
    THEN /\ healing' = TRUE
         /\ \E h \in Healers : healer[h] = "off" /\ Goto(h, "check")
    ELSE UNCHANGED <<healing, healer>>

\* A successful response to an operation that began at t, if it comes in time; the
\* server grants the whole TTL or what remains of it.
Granted(t) == {u \in 1..t + TTL : clock < u}

MarkConfirmed(r, u) ==
  confirmedUntil' = IF lifecycle = "active" /\ u > confirmedUntil[r]
                      THEN [confirmedUntil EXCEPT ![r] = u] ELSE confirmedUntil

ClearConfirmed(r) ==
  confirmedUntil' = IF lifecycle = "active" THEN [confirmedUntil EXCEPT ![r] = 0] ELSE confirmedUntil

-----------------------------------------------------------------------------
(* The healing goroutine: backgroundHeal and healReplicas. *)

\* The first healingTargets.
Check(h) ==
  /\ healer[h] = "check"
  /\ Goto(h, IF Needed THEN "wait" ELSE "finish")
  /\ UNCHANGED <<clock, canceled, leaseVars, healing, batches, targets, waiting, began,
                 callerVars, lastSent>>

\* waitForHealingRetry: the timer, or the channel that ends the wait.
Waited(h) ==
  /\ healer[h] = "wait"
  /\ \/ Goto(h, "recheck")
     \/ (releaseDone \/ canceled) /\ Goto(h, "finish")
  /\ UNCHANGED <<clock, canceled, leaseVars, healing, batches, targets, waiting, began,
                 callerVars, lastSent>>

\* The second healingTargets: the replicas whose confirmation has run out.
Recheck(h) ==
  LET out == {r \in Replicas : clock >= confirmedUntil[r]} IN
  /\ healer[h] = "recheck"
  /\ \/ ~Needed /\ Goto(h, "finish") /\ UNCHANGED targets
     \/ Needed /\ out = {} /\ Goto(h, "check") /\ UNCHANGED targets
     \/ Needed /\ out # {} /\ Goto(h, "begin") /\ targets' = [targets EXCEPT ![h] = out]
  /\ UNCHANGED <<clock, canceled, leaseVars, healing, batches, waiting, began, callerVars, lastSent>>

\* healReplicas, under stateMu.
Begin(h) ==
  /\ healer[h] = "begin"
  /\ \/ /\ lifecycle = "active" /\ clock < validUntil
        /\ batches' = batches \cup {h}
        /\ began' = [began EXCEPT ![h] = start]
        /\ Goto(h, "submit")
        /\ UNCHANGED targets
     \/ /\ lifecycle # "active" \/ clock >= validUntil
        /\ targets' = [targets EXCEPT ![h] = {}]
        /\ Goto(h, "check")
        /\ UNCHANGED <<batches, began>>
  /\ UNCHANGED <<clock, canceled, leaseVars, healing, waiting, callerVars, lastSent>>

\* One submit of the loop; the queue may be full, and a done context is refused.
Submit(h) ==
  /\ healer[h] = "submit"
  /\ \E r \in targets[h] :
       /\ targets' = [targets EXCEPT ![h] = @ \ {r}]
       /\ \/ /\ ~canceled
             /\ waiting' = [waiting EXCEPT ![h] = @ \cup {r}]
             /\ lastSent' = [lastSent EXCEPT ![r] = "acquire"]
          \/ UNCHANGED <<waiting, lastSent>>
  /\ UNCHANGED <<clock, canceled, leaseVars, healing, batches, healer, began, callerVars>>

\* healingBatches.Done()
Submitted(h) ==
  /\ healer[h] = "submit" /\ targets[h] = {}
  /\ batches' = batches \ {h}
  /\ Goto(h, "collect")
  /\ UNCHANGED <<clock, canceled, leaseVars, healing, targets, waiting, began, callerVars, lastSent>>

\* A result: the lease is confirmed until some time, or the call has failed.
Result(h) ==
  /\ healer[h] = "collect"
  /\ \E r \in waiting[h] :
       /\ waiting' = [waiting EXCEPT ![h] = @ \ {r}]
       /\ \/ UNCHANGED confirmedUntil
          \/ \E u \in Granted(began[h]) : MarkConfirmed(r, u)
  /\ UNCHANGED <<clock, canceled, lifecycle, start, validUntil, healing, batches, healer, targets,
                 began, callerVars, lastSent>>

\* All results are there, or releaseDone aborts the rest.
Collected(h) ==
  /\ healer[h] = "collect"
  /\ waiting[h] = {} \/ releaseDone
  /\ waiting' = [waiting EXCEPT ![h] = {}]
  /\ began' = [began EXCEPT ![h] = 0]
  /\ Goto(h, "check")
  /\ UNCHANGED <<clock, canceled, leaseVars, healing, batches, targets, callerVars, lastSent>>

\* Mutation of FinishHealing: does not look again.
FinishForGood(h) ==
  /\ healer[h] = "finish"
  /\ healing' = FALSE
  /\ Goto(h, "off")
  /\ UNCHANGED <<clock, canceled, leaseVars, batches, targets, waiting, began, callerVars, lastSent>>

\* Mutation of FinishHealing: looks at the confirmations only.
FinishIfConfirmed(h) ==
  LET out == \E r \in Replicas : clock >= confirmedUntil[r] IN
  /\ healer[h] = "finish"
  /\ healing' = (out \/ Needed)
  /\ Goto(h, IF out \/ Needed THEN "check" ELSE "off")
  /\ UNCHANGED <<clock, canceled, leaseVars, batches, targets, waiting, began, callerVars, lastSent>>

\* finishBackgroundHealing: what was confirmed or renewed since the goroutine last
\* looked may make another one necessary, and it starts that itself.
FinishHealing(h) ==
  /\ healer[h] = "finish"
  /\ healing' = Needed
  /\ Goto(h, IF Needed THEN "check" ELSE "off")
  /\ UNCHANGED <<clock, canceled, leaseVars, batches, targets, waiting, began, callerVars, lastSent>>

Heal(h) ==
  \/ Check(h) \/ Waited(h) \/ Recheck(h) \/ Begin(h) \/ Submit(h) \/ Submitted(h)
  \/ Result(h) \/ Collected(h) \/ FinishHealing(h)

-----------------------------------------------------------------------------
(* Renew, and the goroutines that collect what it and Acquire left. *)

\* The caller's operations on a lease are sequential.  (The bound on the clock leaves
\* the renewed lease the time to run out.)
RenewBegin ==
  /\ lifecycle = "active" /\ ~renewing /\ renews < MaxRenews /\ clock + TTL <= MaxTime
  /\ renewing' = TRUE
  /\ renews' = renews + 1
  /\ start' = clock
  /\ UNCHANGED <<clock, canceled, lifecycle, validUntil, confirmedUntil, healerVars, collectors,
                 releasePc, toRelease, releaseDone, lastSent>>

\* A response to an operation of the caller, received by itself or by a collector:
\* it confirms the replica; one to Renew that is not a success clears it.  (An
\* operation that began before the last one grants no more than that one may.)
Confirm(r) ==
  /\ renewing \/ collectors > 0
  /\ \E u \in Granted(start) : MarkConfirmed(r, u)
  /\ UNCHANGED <<clock, canceled, lifecycle, start, validUntil, healerVars, callerVars, lastSent>>

Clear(r) ==
  /\ renews > 0 /\ (renewing \/ collectors > 0)
  /\ ClearConfirmed(r)
  /\ UNCHANGED <<clock, canceled, lifecycle, start, validUntil, healerVars, callerVars, lastSent>>

\* Renew has its quorum; the validity never moves back.  (A collector of an earlier
\* Renew may meanwhile have cleared what the quorum confirmed.)
RenewQuorum ==
  /\ renewing /\ ~canceled
  /\ \E u \in Granted(start) : u > validUntil /\ validUntil' = u
  /\ UNCHANGED <<clock, canceled, lifecycle, start, confirmedUntil, healerVars, callerVars, lastSent>>

\* Renew returns, with or without its quorum: it leaves the responses that are still
\* out to a collector, or calls startBackgroundHealing itself.
RenewReturns ==
  /\ renewing
  /\ renewing' = FALSE
  /\ \/ collectors' = collectors + 1 /\ UNCHANGED <<healing, healer>>
     \/ Start /\ UNCHANGED collectors
  /\ UNCHANGED <<clock, canceled, leaseVars, batches, targets, waiting, began, renews,
                 releasePc, toRelease, releaseDone, lastSent>>

\* The deferred function of a collector.
CollectorEnds ==
  /\ collectors > 0
  /\ collectors' = collectors - 1
  /\ Start
  /\ UNCHANGED <<clock, canceled, leaseVars, batches, targets, waiting, began, renewing, renews,
                 releasePc, toRelease, releaseDone, lastSent>>

-----------------------------------------------------------------------------
(* Release and Close. *)

Release ==
  /\ lifecycle = "active" /\ ~renewing
  /\ lifecycle' = "released"
  /\ validUntil' = 0
  /\ confirmedUntil' = [r \in Replicas |-> 0]
  /\ releasePc' = "wait"
  /\ toRelease' = Replicas
  /\ UNCHANGED <<clock, canceled, start, healerVars, renewing, renews, collectors, releaseDone,
                 lastSent>>

\* Mutation of BatchesDone: sends at once.
BatchesIgnored == TRUE

\* healingBatches.Wait() returns.
BatchesDone == batches = {}

ReleaseWaited ==
  /\ releasePc = "wait" /\ BatchesDone
  /\ releasePc' = "send"
  /\ UNCHANGED <<clock, canceled, leaseVars, healerVars, renewing, renews, collectors, toRelease,
                 releaseDone, lastSent>>

\* submitNoResponse, which may be refused.
ReleaseSubmit ==
  /\ releasePc = "send"
  /\ \E r \in toRelease :
       /\ toRelease' = toRelease \ {r}
       /\ \/ ~canceled /\ lastSent' = [lastSent EXCEPT ![r] = "release"]
          \/ UNCHANGED lastSent
  /\ UNCHANGED <<clock, canceled, leaseVars, healerVars, renewing, renews, collectors, releasePc,
                 releaseDone>>

ReleaseReturns ==
  /\ releasePc = "send" /\ toRelease = {}
  /\ releaseDone' = TRUE
  /\ releasePc' = "done"
  /\ UNCHANGED <<clock, canceled, leaseVars, healerVars, renewing, renews, collectors, toRelease,
                 lastSent>>

\* Client.Close
Cancel ==
  /\ ~canceled
  /\ canceled' = TRUE
  /\ UNCHANGED <<clock, leaseVars, healerVars, callerVars, lastSent>>

Tick ==
  /\ clock < MaxTime
  /\ clock' = clock + 1
  /\ UNCHANGED <<canceled, leaseVars, healerVars, callerVars, lastSent>>

Releaser == ReleaseWaited \/ ReleaseSubmit \/ ReleaseReturns

Next ==
  \/ \E h \in Healers : Heal(h)
  \/ RenewBegin \/ RenewQuorum \/ RenewReturns \/ CollectorEnds
  \/ \E r \in Replicas : Confirm(r) \/ Clear(r)
  \/ Release \/ Releaser \/ Cancel \/ Tick

Spec == Init /\ [][Next]_vars

\* The healing goroutine and Release run, calls end (each has its timeout) and time
\* passes; nothing is assumed of Renew and of the collectors.
FairSpec ==
  /\ Spec
  /\ \A h \in Healers : WF_vars(Heal(h))
  /\ WF_vars(Releaser) /\ WF_vars(Tick)

-----------------------------------------------------------------------------
(* Properties. *)

\* At most one goroutine heals a lease, and Lease.healing says whether one does,
\* whoever starts it: Acquire, Renew, their collectors or the goroutine before it.
OneHealer ==
  /\ Cardinality({h \in Healers : healer[h] # "off"}) <= 1
  /\ healing <=> \E h \in Healers : healer[h] # "off"

\* No lost start: while a valid lease is not confirmed everywhere, somebody heals it,
\* or an operation is under way that will look again when it ends.  A healer that
\* has just found nothing to do and a Renew that finds it still there cannot leave
\* the lease to nobody.
HealingNotForgotten ==
  Needed => healing \/ renewing \/ collectors > 0

\* In the queue of a replica no Acquire of a healing batch comes after the Release,
\* where it would take the lease again for a whole TTL.
AcquireNeverFollowsRelease ==
  [][\A r \in Replicas : lastSent[r] = "release" => lastSent'[r] = "release"]_vars

\* Healing ends with the lease, released or run out.
HealingEnds == lifecycle = "released" \/ clock >= validUntil ~> ~healing

\* README.md: closing the client stops its healing and its retries.  So a healing
\* goroutine that ends in a closed client is not started again.
HealingStopsWithClient ==
  [][\A h \in Healers : canceled /\ healer[h] = "finish" => healer'[h] \in {"finish", "off"}]_vars
=============================================================================
