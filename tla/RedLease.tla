------------------------------ MODULE RedLease ------------------------------
(***************************************************************************)
(* The quorum lease protocol: clients (package client) and lock servers    *)
(* (package server) contending for one key.  Keys meet each other only in  *)
(* the server's key limit, so one key is enough here and a full server is  *)
(* a nondeterministic KEY_LIMIT_REACHED.                                   *)
(*                                                                         *)
(* Where there is one server, some of the clients may be single-server     *)
(* clients (package client1of1).  They share the wire protocol and the     *)
(* lease IDs, but have no collector, no confirmations and no healing.      *)
(*                                                                         *)
(* Requests may be delayed, lost (never handled) and overtaken: a request  *)
(* still buffered in an old TCP session can reach the shard after one sent *)
(* on a newer connection.  A node only ever compares its own clock with    *)
(* itself; clocks drift apart by at most Drift ticks.                      *)
(***************************************************************************)
EXTENDS LeaseRules, FiniteSets

CONSTANTS
  Servers, Clients,
  Singles,         \* the clients that are client1of1.Client
  QuorumSize,      \* Quorum.parameters: 1 of 1, 2 of 3 or 3 of 5
  NoLease,
  RequestTTLs,     \* the TTLs applications ask for, in milliseconds
  ConfiguredTTLs,  \* the values Config.MaxTTL is started with
  Drift,           \* how far clocks may run apart, in ticks
  MaxSequence,     \* bound: Acquire calls of one client
  MaxBatches,      \* bound: operations and healing batches of one lease
  MaxSingleCalls,  \* bound: operations of one lease of a single-server client
  MaxFaults,       \* bound: restarts, failed calls, cancellations and full servers
  MaxTime          \* bound: ticks of the clock

\* leaseID: clientID with bootID is the client, leaseSeq its Acquire counter.
Leases == Clients \X (1..MaxSequence)
ClientOf(l) == l[1]
IsSingle(l) == ClientOf(l) \in Singles
Nodes == Servers \cup Clients

ASSUME RedLeaseAssumption ==
  /\ IsFiniteSet(Servers) /\ Servers # {}
  /\ QuorumSize \in Nat /\ 2 * QuorumSize > Cardinality(Servers)
  /\ Singles \subseteq Clients /\ (Singles # {} => QuorumSize = 1)
  /\ NoLease \notin Leases
  /\ RequestTTLs \subseteq Nat
  /\ ConfiguredTTLs \subseteq 1..MaxTTLMS
  /\ Drift \in Nat /\ 2 * Drift <= Ticks(SafetyMarginMS)
  /\ MaxSequence \in Nat /\ MaxBatches \in Nat /\ MaxSingleCalls \in Nat
  /\ MaxFaults \in Nat /\ MaxTime \in Nat

VARIABLES
  now,               \* reference time, read by no node
  clock,             \* each node's monotonic clock
  phase,             \* serverPhase: "quarantine" or "active"
  quarantineEnd,     \* when the runQuarantine timer of a server fires
  configuredMaxTTL,  \* Config.MaxTTL of the running process
  holder, deadline,  \* the key's entry in the shard's lease map
  lostHolder,        \* auxiliary: the holder forgotten by the last restart
  faults,            \* number of faults so far
  requests,          \* requests on their way to a server
  responses,         \* responses on their way to a client
  pending,           \* requests whose response an operation still waits for
  pc,                \* what the owner of a lease is doing with it
  batches,           \* request batches sent for a lease
  foreground,        \* the batch of the running or last Acquire or Renew
  opStart,           \* Lease.now
  requestedTTL,      \* Lease.requestedTTLMS
  candidate,         \* candidates of the running operation, 0 if not successful
  validUntil,        \* Lease.validUntil, 0 for the zero time
  confirmedUntil,    \* Lease.confirmedUntil
  healing,           \* Lease.healing: the healing goroutine exists
  healTargets        \* replicas the healing goroutine is about to ask

timeVars == <<now, clock>>
serverVars == <<phase, quarantineEnd, configuredMaxTTL, holder, deadline, lostHolder>>
networkVars == <<requests, responses, pending>>
leaseVars == <<pc, batches, foreground, opStart, requestedTTL, candidate, validUntil,
               confirmedUntil, healing, healTargets>>
vars == <<timeVars, serverVars, networkVars, leaseVars, faults>>

\* A request carries, besides what is on the wire, the batch it belongs to and
\* that operation's operationStart, both of which stay with the client, and the
\* time at the server when it was sent, before which no worker can handle it.
Kinds == {"acquire", "heal", "renew", "release"}
Request == [lease : Leases, batch : Nat, server : Servers, kind : Kinds, ttl : Nat, start : Nat,
            sent : Nat]
Response == [request : Request, status : Statuses, ttl : Nat]

\* The type of every variable.
TypeOK ==
  /\ now \in Nat
  /\ clock \in [Nodes -> Nat]
  /\ phase \in [Servers -> {"quarantine", "active"}]
  /\ quarantineEnd \in [Servers -> Nat]
  /\ configuredMaxTTL \in [Servers -> 1..MaxTTLMS]
  /\ holder \in [Servers -> Leases \cup {NoLease}]
  /\ deadline \in [Servers -> Nat]
  /\ lostHolder \in [Servers -> Leases \cup {NoLease}]
  /\ requests \subseteq Request
  /\ responses \subseteq Response
  /\ pending \subseteq Request
  /\ pc \in [Leases -> {"new", "acquiring", "active", "renewing", "released", "failed"}]
  /\ batches \in [Leases -> Nat]
  /\ foreground \in [Leases -> Nat]
  /\ opStart \in [Leases -> Nat]
  /\ requestedTTL \in [Leases -> Nat]
  /\ candidate \in [Leases -> [Servers -> Nat]]
  /\ validUntil \in [Leases -> Nat]
  /\ confirmedUntil \in [Leases -> [Servers -> Nat]]
  /\ healing \in [Leases -> BOOLEAN]
  /\ healTargets \in [Leases -> SUBSET Servers]
  /\ faults \in Nat

ZeroTimes == [s \in Servers |-> 0]

\* New, and the first restart quarantine of every server just over: the servers
\* are empty and active and no lease exists yet.
Init ==
  /\ now = 1
  /\ clock = [n \in Nodes |-> 1]
  /\ phase = [s \in Servers |-> "active"]
  /\ quarantineEnd = [s \in Servers |-> 1]
  /\ configuredMaxTTL \in [Servers -> ConfiguredTTLs]
  /\ holder = [s \in Servers |-> NoLease]
  /\ deadline = [s \in Servers |-> 0]
  /\ lostHolder = [s \in Servers |-> NoLease]
  /\ requests = {} /\ responses = {} /\ pending = {}
  /\ pc = [l \in Leases |-> "new"]
  /\ batches = [l \in Leases |-> 0]
  /\ foreground = [l \in Leases |-> 0]
  /\ opStart = [l \in Leases |-> 0]
  /\ requestedTTL = [l \in Leases |-> 0]
  /\ candidate = [l \in Leases |-> ZeroTimes]
  /\ validUntil = [l \in Leases |-> 0]
  /\ confirmedUntil = [l \in Leases |-> ZeroTimes]
  /\ healing = [l \in Leases |-> FALSE]
  /\ healTargets = [l \in Leases |-> {}]
  /\ faults = 0

-----------------------------------------------------------------------------
(* Time. *)

\* One tick passes; every clock moves forward and stays within Drift.
Tick ==
  /\ now < MaxTime
  /\ now' = now + 1
  /\ clock' \in [Nodes -> now + 1 .. now + 1 + Drift]
  /\ \A n \in Nodes : clock'[n] >= clock[n]
  /\ UNCHANGED <<serverVars, networkVars, leaseVars>>

-----------------------------------------------------------------------------
(* Servers. *)

\* The process dies, or is closed by its launcher, and a new one is started with
\* a configuration of its own.  Its memory is gone; the requests that wait in the
\* clients' persistent queues are sent to the new process (those in a session of
\* the old one are never handled), and responses already sent may still arrive.
Restart(s) ==
  /\ lostHolder' = [lostHolder EXCEPT ![s] = IF phase[s] = "active" THEN holder[s] ELSE @]
  /\ phase' = [phase EXCEPT ![s] = "quarantine"]
  /\ quarantineEnd' = [quarantineEnd EXCEPT ![s] = clock[s] + RestartQuarantine]
  /\ \E ttl \in ConfiguredTTLs : configuredMaxTTL' = [configuredMaxTTL EXCEPT ![s] = ttl]
  /\ holder' = [holder EXCEPT ![s] = NoLease]
  /\ deadline' = [deadline EXCEPT ![s] = 0]
  /\ UNCHANGED <<timeVars, networkVars, leaseVars>>

\* runQuarantine: the timer fires and the phase is still QUARANTINE.
EndQuarantine(s) ==
  /\ phase[s] = "quarantine"
  /\ clock[s] >= quarantineEnd[s]
  /\ phase' = [phase EXCEPT ![s] = "active"]
  /\ UNCHANGED <<timeVars, quarantineEnd, configuredMaxTTL, holder, deadline, lostHolder,
                 networkVars, leaseVars>>

\* Responses nobody waits for any more are dropped by completeInShard, and a
\* Release never waits: such responses are not kept.
Respond(r, status, ttl) ==
  responses' = IF r \in pending
                 THEN responses \cup {[request |-> r, status |-> status, ttl |-> ttl]}
                 ELSE responses

\* processRequest in QUARANTINE.
RejectNotReady(r) ==
  /\ phase[r.server] = "quarantine"
  /\ requests' = requests \ {r}
  /\ Respond(r, "NOT_READY", 0)
  /\ UNCHANGED <<timeVars, serverVars, pending, leaseVars>>

\* The shard worker applies request r; the entry of the key becomes (id, until).
FinishApply(r, id, until, status, ttl) ==
  /\ phase[r.server] = "active"
  /\ holder' = [holder EXCEPT ![r.server] = id]
  /\ deadline' = [deadline EXCEPT ![r.server] = until]
  /\ requests' = requests \ {r}
  /\ Respond(r, status, ttl)
  /\ UNCHANGED <<timeVars, phase, quarantineEnd, configuredMaxTTL, lostHolder, pending, leaseVars>>

\* The key has an entry that is live at time t.
Live(s, t) == holder[s] # NoLease /\ deadline[s] > t

\* The times apply can have read for r before it waited for the shard lock: r had
\* been sent, and the process had left its quarantine.
ApplyTimes(r) == {t \in r.sent..clock[r.server] : quarantineEnd[r.server] <= t}

\* acquire and acquireLocked with room for another key.  Here and below t is the
\* time of the operation.
ApplyAcquire(r, t) ==
  LET s == r.server
      effective == EffectiveTTLMS(r.ttl, configuredMaxTTL[s])
  IN  /\ r.kind \in {"acquire", "heal"}
      /\ \/ /\ Live(s, t) /\ holder[s] = r.lease
            /\ FinishApply(r, holder[s], deadline[s], "ALREADY_OWNED",
                           RemainingTTLMS(deadline[s], t, configuredMaxTTL[s]))
         \/ /\ Live(s, t) /\ holder[s] # r.lease
            /\ FinishApply(r, holder[s], deadline[s], "BUSY", 0)
         \/ /\ ~Live(s, t) /\ effective = 0
            /\ FinishApply(r, NoLease, 0, "OK", 0)
         \/ /\ ~Live(s, t) /\ effective > 0
            /\ FinishApply(r, r.lease, t + Ticks(effective), "OK", effective)

\* acquire when the key limit is used up by other keys, also after the cleanup it
\* attempts; an expired entry of the key has been removed on the way.
ApplyAcquireFull(r, t) ==
  /\ r.kind \in {"acquire", "heal"}
  /\ ~Live(r.server, t) /\ r.ttl > 0
  /\ FinishApply(r, NoLease, 0, "KEY_LIMIT_REACHED", 0)

\* renew: extends the deadline of a live entry of the same lease, never shortens it.
ApplyRenew(r, t) ==
  LET s == r.server
      extended == t + Ticks(EffectiveTTLMS(r.ttl, configuredMaxTTL[s]))
      until == IF extended > deadline[s] THEN extended ELSE deadline[s]
  IN  /\ r.kind = "renew"
      /\ \/ /\ ~Live(s, t)
            /\ FinishApply(r, NoLease, 0, "STALE", 0)
         \/ /\ Live(s, t) /\ holder[s] # r.lease
            /\ FinishApply(r, holder[s], deadline[s], "STALE", 0)
         \/ /\ Live(s, t) /\ holder[s] = r.lease
            /\ FinishApply(r, holder[s], until, "OK",
                           RemainingTTLMS(until, t, configuredMaxTTL[s]))

\* Mutation of ApplyRelease: does not compare the lease IDs.
ApplyReleaseOfAnyone(r, t) ==
  /\ r.kind = "release"
  /\ FinishApply(r, NoLease, 0, "OK", 0)

\* release: removes an expired entry or the lease's own; always OK.
ApplyRelease(r, t) ==
  LET s == r.server
      keep == Live(s, t) /\ holder[s] # r.lease
  IN  /\ r.kind = "release"
      /\ FinishApply(r, IF keep THEN holder[s] ELSE NoLease,
                        IF keep THEN deadline[s] ELSE 0, "OK", 0)

\* removeExpiredLeases, run by the cleanup timer or for another key's Acquire;
\* the time it compares with was read earlier, so it is at most the clock.
RemoveExpired(s) ==
  /\ holder[s] # NoLease
  /\ deadline[s] <= clock[s]
  /\ holder' = [holder EXCEPT ![s] = NoLease]
  /\ deadline' = [deadline EXCEPT ![s] = 0]
  /\ UNCHANGED <<timeVars, phase, quarantineEnd, configuredMaxTTL, lostHolder,
                 networkVars, leaseVars>>

-----------------------------------------------------------------------------
(* Clients. *)

OwnClock(l) == clock[ClientOf(l)]

\* The requests of one batch, one to each target.
Calls(l, b, kind, ttl, start, targets) ==
  {[lease |-> l, batch |-> b, server |-> s, kind |-> kind, ttl |-> ttl, start |-> start,
    sent |-> clock[s]] : s \in targets}

\* releaseAll
Releases(l) == Calls(l, 0, "release", 0, 0, Servers)

\* Lease.lifecycle is leaseActive and the lease has been handed to the application.
Owned(l) == pc[l] \in {"active", "renewing"}

\* Mutation of Valid: does not look at the clock.
ValidWhileOwned(l) == Owned(l)

\* RemainingTTLms is the time until validUntil: the lease is valid before it.
Valid(l) == Owned(l) /\ OwnClock(l) < validUntil[l]

\* Mutation of BestAcquireQuorum: takes the latest candidate of a quorum.
LatestOfQuorum(c) ==
  {v \in {c[s] : s \in Servers} \ {0} :
     /\ Cardinality({s \in Servers : c[s] # 0}) >= QuorumSize
     /\ \A s \in Servers : c[s] <= v}

\* bestAcquireQuorum: the QuorumSize-th latest candidate, in a set that is empty
\* if there are fewer.
BestAcquireQuorum(c) ==
  {v \in {c[s] : s \in Servers} \ {0} :
     /\ Cardinality({s \in Servers : c[s] >= v}) >= QuorumSize
     /\ Cardinality({s \in Servers : c[s] > v}) < QuorumSize}

\* Mutation of AcquireQuorumStillPossible: wants more than a quorum.
StillPossibleOffByOne(c, remaining, t) ==
  Cardinality({s \in Servers : t < c[s]}) + remaining > QuorumSize

\* acquireQuorumStillPossible: unexpired successes and open calls can make a quorum.
AcquireQuorumStillPossible(c, remaining, t) ==
  Cardinality({s \in Servers : t < c[s]}) + remaining >= QuorumSize

\* confirmedUntil after markConfirmed(replica, until) and after clearConfirmed(replica)
MarkConfirmed(l, s, until) ==
  [confirmedUntil EXCEPT ![l][s] = IF OwnClock(l) < until /\ until > @ THEN until ELSE @]

ClearConfirmed(l, s) == [confirmedUntil EXCEPT ![l][s] = 0]

\* backgroundHealingNeededLocked
BackgroundHealingNeeded(l) ==
  Valid(l) /\ \E s \in Servers : confirmedUntil[l][s] < validUntil[l]

\* The calls of a batch whose results are still to come.
Awaited(l, b) == {p \in pending : p.lease = l /\ p.batch = b}

\* The result of r is consumed, m being the responses it arrived in.  With the
\* last result of an Acquire or Renew the collector is released and
\* startBackgroundHealing follows.
Consume(r, m) ==
  /\ pending' = pending \ {r}
  /\ responses' = responses \ m
  /\ healing' = [healing EXCEPT ![r.lease] =
                   \/ @
                   \/ /\ r.kind # "heal"
                      /\ Awaited(r.lease, r.batch) = {r}
                      /\ BackgroundHealingNeeded(r.lease)']

\* The calls of l are completed by abort; releaseAll follows.
AbandonAndRelease(l) ==
  /\ pending' = {p \in pending : p.lease # l}
  /\ responses' = {m \in responses : m.request.lease # l}
  /\ requests' = requests \cup Releases(l)
  /\ candidate' = [candidate EXCEPT ![l] = ZeroTimes]
  /\ validUntil' = [validUntil EXCEPT ![l] = 0]
  /\ confirmedUntil' = [confirmedUntil EXCEPT ![l] = ZeroTimes]
  /\ healing' = [healing EXCEPT ![l] = FALSE]
  /\ healTargets' = [healTargets EXCEPT ![l] = {}]

\* The next lease ID of its client.
IsNext(l) ==
  /\ pc[l] = "new"
  /\ \A k \in Leases : ClientOf(k) = ClientOf(l) /\ k[2] < l[2] => pc[k] # "new"

\* submit fails for the replicas in refused (no connection, a full queue), and not
\* for all; a single-server client has its own way to fail (SingleCallFails).
MayRefuse(l, refused) == refused # Servers /\ (IsSingle(l) => refused = {})

\* Client.Acquire up to its wait: a new lease ID, operationStart, a request to
\* every replica that takes it.  A failed submit is counted and nothing more: the
\* operation waits for the other calls whether they can make a quorum or not.
Acquire(l, ttl, refused) ==
  /\ IsNext(l) /\ MayRefuse(l, refused)
  /\ MaxBatches > 0
  /\ pc' = [pc EXCEPT ![l] = "acquiring"]
  /\ batches' = [batches EXCEPT ![l] = 1]
  /\ foreground' = [foreground EXCEPT ![l] = 1]
  /\ opStart' = [opStart EXCEPT ![l] = OwnClock(l)]
  /\ requestedTTL' = [requestedTTL EXCEPT ![l] = ttl]
  /\ LET calls == Calls(l, 1, "acquire", ttl, OwnClock(l), Servers \ refused)
     IN  requests' = requests \cup calls /\ pending' = pending \cup calls
  /\ UNCHANGED <<timeVars, serverVars, responses, candidate, validUntil, confirmedUntil,
                 healing, healTargets>>

\* Acquire gives up: abort, releaseAll, notAcquiredError.
FailAcquire(l) ==
  /\ pc' = [pc EXCEPT ![l] = "failed"]
  /\ AbandonAndRelease(l)
  /\ UNCHANGED <<timeVars, serverVars, batches, foreground, opStart, requestedTTL>>

\* No replica takes the request: Acquire does not enter its loop.
AcquireRefused(l) == ~IsSingle(l) /\ IsNext(l) /\ FailAcquire(l)

\* The caller's context is cancelled or the client is closed.
CancelAcquire(l) == ~IsSingle(l) /\ pc[l] = "acquiring" /\ FailAcquire(l)

\* The running operation of l waits for r.
IsForeground(r) == r.batch = foreground[r.lease] /\ pc[r.lease] \in {"acquiring", "renewing"}

\* confirmedUntil after response m has been collected: a Renew that is not OK or
\* comes too late clears the replica, an Acquire can only confirm it.
ConfirmedAfter(m) ==
  LET r == m.request
      until == CandidateValidUntil(r.start, m.ttl)
  IN  IF r.kind = "renew"
        THEN IF m.status = "OK" /\ OwnClock(r.lease) < until
               THEN MarkConfirmed(r.lease, r.server, until)
               ELSE ClearConfirmed(r.lease, r.server)
        ELSE IF IsSuccessfulAcquire(m.status)
               THEN MarkConfirmed(r.lease, r.server, until)
               ELSE confirmedUntil

\* The candidates of the running operation with the one of response m.
CandidatesWith(m) ==
  [candidate[m.request.lease] EXCEPT ![m.request.server] =
     CandidateValidUntil(m.request.start, m.ttl)]

\* The loop of the operation goes on once r has its result: calls are left
\* (received < serverCount) and can still make a quorum.
GoesOn(r, candidates) ==
  LET remaining == Awaited(r.lease, r.batch) \ {r}
  IN  /\ remaining # {}
      /\ AcquireQuorumStillPossible(candidates, Cardinality(remaining), OwnClock(r.lease))

\* The loop of Acquire after a result that completes no quorum.
AcquireContinues(r, m, candidates, confirmed) ==
  \/ ~GoesOn(r, candidates) /\ FailAcquire(r.lease)
  \/ /\ GoesOn(r, candidates)
     /\ candidate' = [candidate EXCEPT ![r.lease] = candidates]
     /\ confirmedUntil' = confirmed
     /\ UNCHANGED <<timeVars, serverVars, requests, pc, batches, foreground, opStart,
                    requestedTTL, validUntil, healTargets>>
     /\ Consume(r, m)

\* The loop of Renew after such a result; giving up leaves validUntil alone.
RenewContinues(r, m, candidates, confirmed) ==
  /\ pc' = [pc EXCEPT ![r.lease] = IF GoesOn(r, candidates) THEN @ ELSE "active"]
  /\ candidate' = [candidate EXCEPT ![r.lease] =
                     IF GoesOn(r, candidates) THEN candidates ELSE ZeroTimes]
  /\ confirmedUntil' = confirmed
  /\ UNCHANGED <<timeVars, serverVars, requests, batches, foreground, opStart,
                 requestedTTL, validUntil, healTargets>>
  /\ Consume(r, m)

\* A response completes a quorum that is valid now: the operation returns, the
\* rest of its responses is left to a collecting goroutine.
QuorumReached(m, until) ==
  LET r == m.request
  IN  /\ pc' = [pc EXCEPT ![r.lease] = "active"]
      /\ candidate' = [candidate EXCEPT ![r.lease] = ZeroTimes]
      /\ validUntil' = [validUntil EXCEPT ![r.lease] = until]
      /\ confirmedUntil' = ConfirmedAfter(m)
      /\ UNCHANGED <<timeVars, serverVars, requests, batches, foreground, opStart,
                     requestedTTL, healTargets>>
      /\ Consume(r, {m})

\* Acquire receives a response.
AcquireResponse(m) ==
  LET r == m.request
      success == IsSuccessfulAcquire(m.status)
      candidates == IF success THEN CandidatesWith(m) ELSE candidate[r.lease]
      quorumTimes == {v \in BestAcquireQuorum(candidates) : success /\ OwnClock(r.lease) < v}
  IN  /\ ~IsSingle(r.lease) /\ IsForeground(r) /\ pc[r.lease] = "acquiring"
      /\ \/ \E v \in quorumTimes : QuorumReached(m, v)
         \/ quorumTimes = {} /\ AcquireContinues(r, {m}, candidates, ConfirmedAfter(m))

\* What a successful Renew makes of validUntil: never earlier than it was.
RenewedUntil(l, until) == IF until > validUntil[l] THEN until ELSE validUntil[l]

\* Renew receives a response.
RenewResponse(m) ==
  LET r == m.request
      success == m.status = "OK"
      candidates == IF success THEN CandidatesWith(m) ELSE candidate[r.lease]
      quorumTimes == {v \in BestAcquireQuorum(candidates) : success /\ OwnClock(r.lease) < v}
  IN  /\ ~IsSingle(r.lease) /\ IsForeground(r) /\ pc[r.lease] = "renewing"
      /\ \/ \E v \in quorumTimes : QuorumReached(m, RenewedUntil(r.lease, v))
         \/ quorumTimes = {} /\ RenewContinues(r, {m}, candidates, ConfirmedAfter(m))

\* collectRemainingAcquireResults, collectRemainingRenewResults and healReplicas:
\* a response to an operation that has returned, or to healing, moves only
\* confirmedUntil.
BackgroundResponse(m) ==
  /\ ~IsForeground(m.request)
  /\ confirmedUntil' = ConfirmedAfter(m)
  /\ UNCHANGED <<timeVars, serverVars, requests, pc, batches, foreground, opStart,
                 requestedTTL, candidate, validUntil, healTargets>>
  /\ Consume(m.request, {m})

\* A call ends with an error: timed out, or its connection is lost or closed.
\* The request itself may still reach the server.
CallFails(r) ==
  LET confirmed == IF r.kind = "renew" THEN ClearConfirmed(r.lease, r.server) ELSE confirmedUntil
      arrived == {m \in responses : m.request = r}
  IN  /\ ~IsSingle(r.lease)
      /\ \/ /\ IsForeground(r) /\ pc[r.lease] = "acquiring"
            /\ AcquireContinues(r, arrived, candidate[r.lease], confirmed)
         \/ /\ IsForeground(r) /\ pc[r.lease] = "renewing"
            /\ RenewContinues(r, arrived, candidate[r.lease], confirmed)
         \/ /\ ~IsForeground(r)
            /\ confirmedUntil' = confirmed
            /\ UNCHANGED <<timeVars, serverVars, requests, pc, batches, foreground, opStart,
                           requestedTTL, candidate, validUntil, healTargets>>
            /\ Consume(r, arrived)

\* confirmedUntil of l when the submit of a Renew failed for the replicas in refused.
ClearRefused(l, refused) ==
  [confirmedUntil EXCEPT ![l] = [s \in Servers |-> IF s \in refused THEN 0 ELSE @[s]]]

\* Lease.Renew up to its wait.
Renew(l, ttl, refused) ==
  /\ pc[l] = "active" /\ MayRefuse(l, refused)
  /\ batches[l] < IF IsSingle(l) THEN MaxSingleCalls ELSE MaxBatches
  /\ pc' = [pc EXCEPT ![l] = "renewing"]
  /\ batches' = [batches EXCEPT ![l] = @ + 1]
  /\ foreground' = [foreground EXCEPT ![l] = batches[l] + 1]
  /\ opStart' = [opStart EXCEPT ![l] = OwnClock(l)]
  /\ LET calls == Calls(l, batches[l] + 1, "renew", ttl, OwnClock(l), Servers \ refused)
     IN  requests' = requests \cup calls /\ pending' = pending \cup calls
  /\ confirmedUntil' = ClearRefused(l, refused)
  /\ UNCHANGED <<timeVars, serverVars, responses, requestedTTL, candidate, validUntil,
                 healing, healTargets>>

\* No replica takes the request: Renew returns and startBackgroundHealing follows.
RenewRefused(l) ==
  /\ ~IsSingle(l) /\ pc[l] = "active" /\ batches[l] < MaxBatches
  /\ batches' = [batches EXCEPT ![l] = @ + 1]
  /\ opStart' = [opStart EXCEPT ![l] = OwnClock(l)]
  /\ confirmedUntil' = [confirmedUntil EXCEPT ![l] = ZeroTimes]
  /\ UNCHANGED <<timeVars, serverVars, networkVars, pc, foreground, requestedTTL, candidate,
                 validUntil, healTargets>>
  /\ healing' = [healing EXCEPT ![l] = @ \/ BackgroundHealingNeeded(l)']

\* The caller's context is cancelled or the client is closed: Renew returns and
\* a collecting goroutine takes over its calls.
CancelRenew(l) ==
  /\ ~IsSingle(l) /\ pc[l] = "renewing"
  /\ pc' = [pc EXCEPT ![l] = "active"]
  /\ candidate' = [candidate EXCEPT ![l] = ZeroTimes]
  /\ UNCHANGED <<timeVars, serverVars, networkVars, batches, foreground, opStart, requestedTTL,
                 validUntil, confirmedUntil, healing, healTargets>>

\* backgroundHeal between batches: stop when nothing is left to heal, else note
\* the replicas whose confirmation has run out.
HealingTargets(l) ==
  LET targets == {s \in Servers : OwnClock(l) >= confirmedUntil[l][s]}
  IN  /\ healing[l] /\ healTargets[l] = {}
      /\ \A p \in pending : ~(p.lease = l /\ p.kind = "heal")
      /\ \/ /\ ~BackgroundHealingNeeded(l)
            /\ healing' = [healing EXCEPT ![l] = FALSE]
            /\ UNCHANGED healTargets
         \/ /\ BackgroundHealingNeeded(l) /\ targets # {}
            /\ healTargets' = [healTargets EXCEPT ![l] = targets]
            /\ UNCHANGED healing
      /\ UNCHANGED <<timeVars, serverVars, networkVars, pc, batches, foreground, opStart,
                     requestedTTL, candidate, validUntil, confirmedUntil>>

\* healReplicas: Acquire requests with the lease's own ID, counted from Lease.now.
HealReplicas(l) ==
  /\ healTargets[l] # {}
  /\ healTargets' = [healTargets EXCEPT ![l] = {}]
  /\ \/ /\ ~Valid(l)
        /\ UNCHANGED <<requests, pending, batches>>
     \/ /\ Valid(l) /\ batches[l] < MaxBatches
        /\ batches' = [batches EXCEPT ![l] = @ + 1]
        /\ LET calls == Calls(l, batches[l] + 1, "heal", requestedTTL[l], opStart[l],
                              healTargets[l])
           IN  requests' = requests \cup calls /\ pending' = pending \cup calls
  /\ UNCHANGED <<timeVars, serverVars, responses, pc, foreground, opStart, requestedTTL,
                 candidate, validUntil, confirmedUntil, healing>>

\* Lease.Release: invalid at once, releases queued, collectors and healing end.
Release(l) ==
  /\ pc[l] = "active"
  /\ pc' = [pc EXCEPT ![l] = "released"]
  /\ AbandonAndRelease(l)
  /\ UNCHANGED <<timeVars, serverVars, batches, foreground, opStart, requestedTTL>>

-----------------------------------------------------------------------------
(* client1of1/lease.go.  Acquire, Renew and Release of a single-server      *)
(* client start like those above, with one server to ask; the one response  *)
(* is the whole answer.                                                     *)

\* The call of r is over: its entry has left the pending table, and a response
\* that arrives now is dropped.
EndCall(r) ==
  /\ pending' = pending \ {r}
  /\ responses' = {m \in responses : m.request # r}
  /\ UNCHANGED <<timeVars, serverVars, requests, batches, foreground, opStart, requestedTTL,
                 candidate, confirmedUntil, healing, healTargets>>

\* Mutation of SingleAcquireResponse: counts the TTL from the arrival of the response.
SingleAcquireFromArrival(m) ==
  LET r == m.request
      until == CandidateValidUntil(OwnClock(r.lease), m.ttl)
      accepted == IsSuccessfulAcquire(m.status) /\ OwnClock(r.lease) < until
  IN  /\ IsSingle(r.lease) /\ pc[r.lease] = "acquiring"
      /\ \/ /\ accepted
            /\ pc' = [pc EXCEPT ![r.lease] = "active"]
            /\ validUntil' = [validUntil EXCEPT ![r.lease] = until]
            /\ EndCall(r)
         \/ ~accepted /\ FailAcquire(r.lease)

\* acceptAcquireResponse: the lease is handed out, or Acquire queues its cleanup
\* Release and returns ErrNotAcquired.
SingleAcquireResponse(m) ==
  LET r == m.request
      until == CandidateValidUntil(r.start, m.ttl)
      accepted == IsSuccessfulAcquire(m.status) /\ OwnClock(r.lease) < until
  IN  /\ IsSingle(r.lease) /\ pc[r.lease] = "acquiring"
      /\ \/ /\ accepted
            /\ pc' = [pc EXCEPT ![r.lease] = "active"]
            /\ validUntil' = [validUntil EXCEPT ![r.lease] = until]
            /\ EndCall(r)
         \/ ~accepted /\ FailAcquire(r.lease)

\* Mutation of SingleRenewResponse: takes over what a failed Renew computes.
SingleRenewMovesBack(m) ==
  LET r == m.request
  IN  /\ IsSingle(r.lease) /\ pc[r.lease] = "renewing"
      /\ pc' = [pc EXCEPT ![r.lease] = "active"]
      /\ validUntil' = [validUntil EXCEPT ![r.lease] = CandidateValidUntil(r.start, m.ttl)]
      /\ EndCall(r)

\* acceptRenewResponse: whatever it is, validUntil is not moved back.
SingleRenewResponse(m) ==
  LET r == m.request
      until == CandidateValidUntil(r.start, m.ttl)
      renewed == m.status = "OK" /\ OwnClock(r.lease) < until
  IN  /\ IsSingle(r.lease) /\ pc[r.lease] = "renewing"
      /\ pc' = [pc EXCEPT ![r.lease] = "active"]
      /\ validUntil' = [validUntil EXCEPT ![r.lease] =
                          IF renewed THEN RenewedUntil(r.lease, until) ELSE @]
      /\ EndCall(r)

\* The call ends without a response: the request was not queued, the response
\* timeout fired, the caller cancelled, or the client was closed.  The request
\* may still reach the server.
SingleCallFails(r) ==
  /\ IsSingle(r.lease)
  /\ \/ pc[r.lease] = "acquiring" /\ FailAcquire(r.lease)
     \/ /\ pc[r.lease] = "renewing"
        /\ pc' = [pc EXCEPT ![r.lease] = "active"]
        /\ UNCHANGED validUntil
        /\ EndCall(r)

-----------------------------------------------------------------------------
ServerStep ==
  \/ \E s \in Servers : EndQuarantine(s) \/ RemoveExpired(s)
  \/ \E r \in requests : RejectNotReady(r)
  \/ \E r \in requests : \E t \in ApplyTimes(r) :
       ApplyAcquire(r, t) \/ ApplyRenew(r, t) \/ ApplyRelease(r, t)

ClientStep ==
  \/ \E l \in Leases, ttl \in RequestTTLs, refused \in SUBSET Servers :
       Acquire(l, ttl, refused) \/ Renew(l, ttl, refused)
  \/ \E l \in Leases : AcquireRefused(l) \/ RenewRefused(l)
  \/ \E l \in Leases : Release(l) \/ HealingTargets(l) \/ HealReplicas(l)
  \/ \E m \in responses :
       \/ AcquireResponse(m) \/ RenewResponse(m) \/ BackgroundResponse(m)
       \/ SingleAcquireResponse(m) \/ SingleRenewResponse(m)

\* What goes wrong, MaxFaults times at most.
Fault ==
  \/ \E s \in Servers : Restart(s)
  \/ \E r \in requests : \E t \in ApplyTimes(r) : ApplyAcquireFull(r, t)
  \/ \E l \in Leases : CancelAcquire(l) \/ CancelRenew(l)
  \/ \E r \in pending : CallFails(r) \/ SingleCallFails(r)

Next ==
  \/ (Tick \/ ServerStep \/ ClientStep) /\ UNCHANGED faults
  \/ Fault /\ faults < MaxFaults /\ faults' = faults + 1

Spec == Init /\ [][Next]_vars

-----------------------------------------------------------------------------
(* What the protocol promises. *)

\* Two leases of the key are never valid at the same time, whatever the clocks,
\* restarts, healing and late messages do (Acquire, Renew, healReplicas, the
\* server's handlers and its restart quarantine together).
MutualExclusion ==
  \A l1, l2 \in Leases : Valid(l1) /\ Valid(l2) => l1 = l2

\* Server s keeps every other lease out until lease l has run out at its owner's
\* time until: by its entry, or by the quarantine after it lost the entry.
Protects(s, l, until) ==
  \/ OwnClock(l) >= until
  \/ pc[l] \in {"released", "failed"}
  \/ /\ phase[s] = "active" /\ holder[s] = l
     /\ deadline[s] + Drift >= until + Ticks(SafetyMarginMS)
  \/ /\ phase[s] = "quarantine" /\ lostHolder[s] = l
     /\ quarantineEnd[s] + Drift >= until + Ticks(SafetyMarginMS)

\* The client of l may trust server s until then.
Justified(s, l, until) ==
  /\ until <= OwnClock(l) + Ticks(MaxTTLMS)
  /\ Protects(s, l, until)

\* Every time a client has from a server, in a response under way, as a candidate
\* or as a confirmation, is one the server protects, and the validity of a lease
\* is protected by a quorum: what Acquire, Renew, the late collectors and healing
\* compute from responses agrees with what the servers' entries and restart
\* quarantines guarantee.
Protection ==
  /\ \A m \in responses : IsSuccessfulAcquire(m.status) =>
       Justified(m.request.server, m.request.lease,
                 CandidateValidUntil(m.request.start, m.ttl))
  /\ \A l \in Leases, s \in Servers :
       Justified(s, l, candidate[l][s]) /\ Justified(s, l, confirmedUntil[l][s])
  /\ \A l \in Leases : Owned(l) =>
       \E Q \in SUBSET Servers :
         Cardinality(Q) >= QuorumSize /\ \A s \in Q : Justified(s, l, validUntil[l])

\* While a client counts a replica as confirmed (confirmedUntil, which decides
\* what healing leaves alone), the replica holds a live entry of that lease or
\* is in its restart quarantine.
ConfirmedReplicaHolds ==
  \A l \in Leases, s \in Servers :
    Owned(l) /\ OwnClock(l) < confirmedUntil[l][s] =>
      \/ holder[s] = l /\ deadline[s] > clock[s]
      \/ phase[s] = "quarantine"

\* The servers whose success, already collected by the operation of l or answered
\* to it and not collected yet, has not run out.
Usable(l) ==
  {s \in Servers :
     \/ OwnClock(l) < candidate[l][s]
     \/ \E m \in responses :
          /\ m.request.lease = l /\ m.request.batch = foreground[l] /\ m.request.server = s
          /\ m.status = "OK" \/ (pc[l] = "acquiring" /\ IsSuccessfulAcquire(m.status))
          /\ OwnClock(l) < CandidateValidUntil(m.request.start, m.ttl)}

\* Acquire and Renew give up no quorum: when one returns, no call having failed and
\* nobody having cancelled it, although the answers given so far make a quorum that
\* has not run out, it returns a valid lease.  Giving up early
\* (acquireQuorumStillPossible), the choice among more candidates than a quorum
\* (bestAcquireQuorum) and candidates that expire during the wait must agree.
NoQuorumGivenUp ==
  [][\A l \in Leases :
       /\ ~IsSingle(l) /\ pc[l] \in {"acquiring", "renewing"} /\ pc'[l] # pc[l]
       /\ faults' = faults /\ Cardinality(Usable(l)) >= QuorumSize
       => Valid(l)']_vars

\* A server changes a live entry only by extending it for the same lease, or by
\* removing it after the owner gave it up (Release or a failed Acquire); stale
\* Renew, Release and Acquire requests leave it alone.
LiveEntryKept ==
  [][\A s \in Servers :
       phase'[s] = "active" /\ holder[s] # NoLease /\ deadline[s] > clock[s] =>
         \/ holder'[s] = holder[s] /\ deadline'[s] >= deadline[s]
         \/ holder'[s] = NoLease /\ pc[holder[s]] \in {"released", "failed"}]_vars

\* validUntil of an owned lease is only ever moved forward, and only by a Renew
\* that returns with a quorum: failed Renews, late responses and healing leave
\* it alone.
ValidityMovesForward ==
  [][\A l \in Leases : Owned(l) /\ Owned(l)' /\ validUntil'[l] # validUntil[l] =>
       validUntil'[l] > validUntil[l] /\ pc[l] = "renewing" /\ pc'[l] = "active"]_vars

\* The life of a lease as the application sees it.
Stage(l) ==
  CASE pc[l] \in {"new", "acquiring"} -> "new"
    [] Valid(l) -> "held"
    [] Owned(l) /\ ~Valid(l) -> "lapsed"
    [] OTHER -> "over"

Service == INSTANCE LeaseService WITH stage <- [l \in Leases |-> Stage(l)]

\* RedLease implements the lease service: at most one lease is held, a lease is
\* granted only while none is, and one that is over never comes back.
ImplementsLeaseService == Service!Spec

=============================================================================
