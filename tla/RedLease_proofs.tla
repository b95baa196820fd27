-------------------------- MODULE RedLease_proofs ---------------------------
(***************************************************************************)
(* Mutual exclusion of the quorum lease protocol for every number of       *)
(* servers and clients, every TTL, margin, clock drift up to half the      *)
(* margin, and any number of operations and faults; what its steps may     *)
(* never do; and that it implements LeaseService.                          *)
(***************************************************************************)
EXTENDS RedLease, TLAPS

\* Most leaves are first-order reasoning; the ones that need arithmetic, functions or
\* sequences cite SMT.
USE Zenon

-----------------------------------------------------------------------------
(* Arithmetic of Ticks. *)

\* A duration in ticks is a natural number, grows with the milliseconds, and is
\* additive.
LEMMA TicksNat == \A x \in Nat : Ticks(x) \in Nat
  BY LeaseRulesAssumption, SMT DEF Ticks

LEMMA TicksAdd == \A x, y \in Nat : Ticks(x + y) = Ticks(x) + Ticks(y)
  BY LeaseRulesAssumption, SMT DEF Ticks

LEMMA TicksSub == \A x, y \in Nat : x >= y => Ticks(x - y) = Ticks(x) - Ticks(y)
  BY LeaseRulesAssumption, SMT DEF Ticks

LEMMA TicksMonotone == \A x, y \in Nat : x <= y => Ticks(x) <= Ticks(y)
<1> SUFFICES ASSUME NEW x \in Nat, NEW y \in Nat, x <= y
             PROVE  Ticks(x) <= Ticks(y)
  OBVIOUS
<1>1. y - x \in Nat /\ y = x + (y - x)
  BY SMT
<1>2. Ticks(y) = Ticks(x) + Ticks(y - x)
  BY <1>1, TicksAdd
<1> QED
  BY <1>1, <1>2, TicksNat, SMT

\* Whole milliseconds, rounded down, do not exceed the ticks they were made from.
LEMMA TicksFloor == \A d \in Nat : d \div TicksPerMS \in Nat /\ Ticks(d \div TicksPerMS) <= d
  BY LeaseRulesAssumption, SMT DEF Ticks

\* What a client makes of a response is a time, at most one protocol maximum later
\* than its operation started, and not later than the granted TTL less the margin.
LEMMA CandidateBounds ==
  ASSUME NEW start \in Nat, NEW ttl \in Nat
  PROVE  /\ CandidateValidUntil(start, ttl) \in Nat
         /\ CandidateValidUntil(start, ttl) <= start + Ticks(MaxTTLMS)
         /\ \/ CandidateValidUntil(start, ttl) = start
            \/ CandidateValidUntil(start, ttl) + Ticks(SafetyMarginMS) = start + Ticks(ttl)
<1>1. CASE ttl <= SafetyMarginMS \/ ttl > MaxTTLMS
  BY <1>1, LeaseRulesAssumption, TicksNat, SMT DEF CandidateValidUntil
<1>2. CASE ~(ttl <= SafetyMarginMS \/ ttl > MaxTTLMS)
  <2>1. SafetyMarginMS \in Nat /\ MaxTTLMS \in Nat /\ ttl >= SafetyMarginMS /\ ttl <= MaxTTLMS
    BY <1>2, LeaseRulesAssumption, SMT
  <2>2. Ticks(ttl - SafetyMarginMS) = Ticks(ttl) - Ticks(SafetyMarginMS)
    BY <2>1, TicksSub
  <2>3. Ticks(ttl) \in Nat /\ Ticks(SafetyMarginMS) \in Nat /\ Ticks(MaxTTLMS) \in Nat
        /\ Ticks(SafetyMarginMS) <= Ticks(ttl) /\ Ticks(ttl) <= Ticks(MaxTTLMS)
    BY <2>1, TicksNat, TicksMonotone
  <2> QED
    BY <1>2, <2>2, <2>3, SMT DEF CandidateValidUntil
<1> QED
  BY <1>1, <1>2

\* The remaining time a server reports never exceeds what its entry has left.
LEMMA RemainingBounds ==
  ASSUME NEW until \in Nat, NEW t \in Nat, NEW maximum \in Nat
  PROVE  /\ RemainingTTLMS(until, t, maximum) \in Nat
         /\ t <= until => t + Ticks(RemainingTTLMS(until, t, maximum)) <= until
<1> DEFINE whole == (until - t) \div TicksPerMS
<1>1. CASE until <= t
  BY <1>1, LeaseRulesAssumption, SMT DEF RemainingTTLMS, Ticks
<1>2. CASE ~(until <= t)
  <2>1. until - t \in Nat
    BY <1>2, SMT
  <2>2. whole \in Nat /\ Ticks(whole) <= until - t /\ Ticks(whole) \in Nat
    BY <2>1, TicksFloor, TicksNat
  <2>3. Lesser(whole, maximum) \in Nat /\ Lesser(whole, maximum) <= whole
    BY <2>2, SMT DEF Lesser
  <2>4. Ticks(Lesser(whole, maximum)) <= Ticks(whole) /\ Ticks(Lesser(whole, maximum)) \in Nat
    BY <2>2, <2>3, TicksMonotone, TicksNat
  <2>5. RemainingTTLMS(until, t, maximum) = Lesser(whole, maximum)
    BY <1>2 DEF RemainingTTLMS
  <2> HIDE DEF whole
  <2> QED
    BY <2>2, <2>3, <2>4, <2>5, SMT
<1> QED
  BY <1>1, <1>2

-----------------------------------------------------------------------------
(* Type correctness. *)

\* A lease has a client, and clients and servers have clocks.
LEMMA LeaseClient == \A l \in Leases : ClientOf(l) \in Clients
  BY DEF Leases, ClientOf

LEMMA CallsType ==
  ASSUME TypeOK, NEW l \in Leases, NEW b \in Nat, NEW kind \in Kinds, NEW ttl \in Nat,
         NEW start \in Nat, NEW targets \in SUBSET Servers
  PROVE  Calls(l, b, kind, ttl, start, targets) \subseteq Request
  BY SMT DEF TypeOK, Calls, Request, Nodes

\* What the calls of an operation say.
LEMMA CallFields ==
  ASSUME NEW l, NEW b, NEW kind, NEW ttl, NEW start, NEW targets,
         NEW r \in Calls(l, b, kind, ttl, start, targets)
  PROVE  r.lease = l /\ r.kind = kind /\ r.start = start /\ r.sent = clock[r.server]
  BY SMT DEF Calls

LEMMA ConfirmedAfterType ==
  ASSUME TypeOK, NEW m \in responses
  PROVE  ConfirmedAfter(m) \in [Leases -> [Servers -> Nat]]
<1>1. m.request.lease \in Leases /\ m.request.server \in Servers
      /\ m.request.start \in Nat /\ m.ttl \in Nat
  BY DEF TypeOK, Response, Request
<1>2. CandidateValidUntil(m.request.start, m.ttl) \in Nat
  BY <1>1, CandidateBounds
<1>3. ASSUME NEW l \in Leases, NEW s \in Servers, NEW v \in Nat
      PROVE  [confirmedUntil EXCEPT ![l][s] = v] \in [Leases -> [Servers -> Nat]]
  BY <1>3 DEF TypeOK
<1>4. \A l \in Leases, s \in Servers : confirmedUntil[l][s] \in Nat /\ 0 \in Nat
  BY SMT DEF TypeOK
<1>5. confirmedUntil \in [Leases -> [Servers -> Nat]]
  BY DEF TypeOK
<1> QED
  BY <1>1, <1>2, <1>3, <1>4, <1>5 DEF ConfirmedAfter, MarkConfirmed, ClearConfirmed

LEMMA CandidatesWithType ==
  ASSUME TypeOK, NEW m \in responses
  PROVE  CandidatesWith(m) \in [Servers -> Nat]
<1>1. m.request.lease \in Leases /\ m.request.server \in Servers
      /\ m.request.start \in Nat /\ m.ttl \in Nat
  BY DEF TypeOK, Response, Request
<1>2. CandidateValidUntil(m.request.start, m.ttl) \in Nat
  BY <1>1, CandidateBounds
<1> QED
  BY <1>1, <1>2 DEF TypeOK, CandidatesWith

LEMMA AbandonType ==
  ASSUME TypeOK, NEW l \in Leases, AbandonAndRelease(l)
  PROVE  /\ requests' \subseteq Request /\ responses' \subseteq Response
         /\ pending' \subseteq Request
         /\ candidate' \in [Leases -> [Servers -> Nat]]
         /\ validUntil' \in [Leases -> Nat]
         /\ confirmedUntil' \in [Leases -> [Servers -> Nat]]
         /\ healing' \in [Leases -> BOOLEAN]
         /\ healTargets' \in [Leases -> SUBSET Servers]
<1>1. Releases(l) \subseteq Request
  BY CallsType DEF Releases, Kinds
<1>2. ZeroTimes \in [Servers -> Nat]
  BY DEF ZeroTimes
<1> QED
  BY <1>1, <1>2 DEF TypeOK, AbandonAndRelease

LEMMA ConsumeType ==
  ASSUME TypeOK, NEW r \in Request, NEW m, Consume(r, m)
  PROVE  /\ pending' \subseteq Request /\ responses' \subseteq Response
         /\ healing' \in [Leases -> BOOLEAN]
<1>1. r.lease \in Leases
  BY DEF Request
<1> QED
  BY <1>1 DEF TypeOK, Consume

\* A handler that ends in FinishApply keeps the types.
LEMMA FinishApplyType ==
  ASSUME TypeOK, NEW r \in requests, NEW id \in Leases \cup {NoLease}, NEW until \in Nat,
         NEW status \in Statuses, NEW ttl \in Nat, FinishApply(r, id, until, status, ttl),
         faults' \in Nat
  PROVE  TypeOK'
<1>1. r \in Request /\ r.server \in Servers
  BY DEF TypeOK, Request
<1>2. [request |-> r, status |-> status, ttl |-> ttl] \in Response
  BY <1>1 DEF Response
<1> QED
  BY <1>1, <1>2 DEF TypeOK, FinishApply, Respond, timeVars, leaseVars

LEMMA ServerStepType ==
  ASSUME TypeOK, faults' \in Nat,
         \/ ServerStep
         \/ \E s \in Servers : Restart(s)
         \/ \E r \in requests : \E t \in ApplyTimes(r) : ApplyAcquireFull(r, t)
  PROVE  TypeOK'
<1>1. ASSUME NEW s \in Servers, Restart(s)
      PROVE  TypeOK'
  <2>1. RestartQuarantine \in Nat
    BY LeaseRulesAssumption, TicksNat, SMT DEF RestartQuarantine
  <2> QED
    BY <1>1, <2>1, RedLeaseAssumption, SMT DEF TypeOK, Restart, timeVars, networkVars, leaseVars, Nodes
<1>2. ASSUME NEW s \in Servers, EndQuarantine(s)
      PROVE  TypeOK'
  BY <1>2 DEF TypeOK, EndQuarantine, timeVars, networkVars, leaseVars
<1>3. ASSUME NEW s \in Servers, RemoveExpired(s)
      PROVE  TypeOK'
  BY <1>3 DEF TypeOK, RemoveExpired, timeVars, networkVars, leaseVars
<1>4. ASSUME NEW r \in requests, RejectNotReady(r)
      PROVE  TypeOK'
  <2>1. r \in Request /\ [request |-> r, status |-> "NOT_READY", ttl |-> 0] \in Response
    BY DEF TypeOK, Response, Statuses
  <2> QED
    BY <1>4, <2>1 DEF TypeOK, RejectNotReady, Respond, timeVars, serverVars, leaseVars
<1>5. ASSUME NEW r \in requests, NEW t \in r.sent..clock[r.server],
             ApplyAcquire(r, t) \/ ApplyAcquireFull(r, t) \/ ApplyRenew(r, t)
               \/ ApplyRelease(r, t)
      PROVE  TypeOK'
  <2> DEFINE s == r.server
             effective == EffectiveTTLMS(r.ttl, configuredMaxTTL[s])
             extended == t + Ticks(effective)
             until == IF extended > deadline[s] THEN extended ELSE deadline[s]
  <2>1. /\ s \in Servers /\ r.lease \in Leases /\ r.ttl \in Nat /\ r.sent \in Nat
        /\ clock[s] \in Nat /\ configuredMaxTTL[s] \in Nat /\ deadline[s] \in Nat
        /\ holder[s] \in Leases \cup {NoLease}
    BY LeaseRulesAssumption, SMT DEF TypeOK, Request, Nodes
  <2>2. t \in Nat
    BY <2>1, SMT
  <2>3. effective \in Nat /\ Ticks(effective) \in Nat
    BY <2>1, TicksNat DEF EffectiveTTLMS, Lesser
  <2>4. extended \in Nat /\ until \in Nat
    BY <2>1, <2>2, <2>3, SMT
  <2>5. /\ RemainingTTLMS(deadline[s], t, configuredMaxTTL[s]) \in Nat
        /\ RemainingTTLMS(until, t, configuredMaxTTL[s]) \in Nat
    BY <2>1, <2>2, <2>4, RemainingBounds
  <2>6. {"OK", "ALREADY_OWNED", "BUSY", "STALE", "KEY_LIMIT_REACHED"} \subseteq Statuses
    BY DEF Statuses
  <2>7. ASSUME NEW id \in Leases \cup {NoLease}, NEW u \in Nat, NEW status \in Statuses,
               NEW ttl \in Nat, FinishApply(r, id, u, status, ttl)
        PROVE  TypeOK'
    BY <2>7, FinishApplyType
  <2> HIDE DEF effective, extended, until
  <2>8. CASE ApplyAcquire(r, t)
    BY <2>1, <2>3, <2>4, <2>5, <2>6, <2>7, <2>8 DEF ApplyAcquire, effective, extended
  <2>9. CASE ApplyAcquireFull(r, t)
    BY <2>6, <2>7, <2>9 DEF ApplyAcquireFull
  <2>10. CASE ApplyRenew(r, t)
    BY <2>1, <2>4, <2>5, <2>6, <2>7, <2>10 DEF ApplyRenew, until, extended, effective
  <2>11. CASE ApplyRelease(r, t)
    BY <2>1, <2>6, <2>7, <2>11 DEF ApplyRelease
  <2> QED
    BY <1>5, <2>8, <2>9, <2>10, <2>11
<1> QED
  BY <1>1, <1>2, <1>3, <1>4, <1>5 DEF ServerStep, ApplyTimes

LEMMA AcquireContinuesType ==
  ASSUME TypeOK, NEW r \in Request, NEW m, NEW candidates \in [Servers -> Nat],
         NEW confirmed \in [Leases -> [Servers -> Nat]],
         AcquireContinues(r, m, candidates, confirmed), faults' \in Nat
  PROVE  TypeOK'
<1>1. r.lease \in Leases
  BY DEF Request
<1>2. CASE FailAcquire(r.lease)
  <2>1. AbandonAndRelease(r.lease)
    BY <1>2 DEF FailAcquire
  <2> QED
    BY <1>1, <1>2, <2>1, AbandonType DEF TypeOK, FailAcquire, timeVars, serverVars
<1>3. CASE GoesOn(r, candidates) /\ ~FailAcquire(r.lease)
  <2>1. /\ candidate' = [candidate EXCEPT ![r.lease] = candidates]
        /\ confirmedUntil' = confirmed
        /\ UNCHANGED <<timeVars, serverVars, requests, pc, batches, foreground, opStart,
                       requestedTTL, validUntil, healTargets>>
        /\ Consume(r, m)
    BY <1>3 DEF AcquireContinues
  <2>2. /\ pending' \subseteq Request /\ responses' \subseteq Response
        /\ healing' \in [Leases -> BOOLEAN]
    BY <2>1, ConsumeType
  <2> QED
    BY <1>1, <2>1, <2>2 DEF TypeOK, timeVars, serverVars
<1> QED
  BY <1>2, <1>3 DEF AcquireContinues

LEMMA RenewContinuesType ==
  ASSUME TypeOK, NEW r \in Request, NEW m, NEW candidates \in [Servers -> Nat],
         NEW confirmed \in [Leases -> [Servers -> Nat]],
         RenewContinues(r, m, candidates, confirmed), faults' \in Nat
  PROVE  TypeOK'
<1>1. r.lease \in Leases /\ ZeroTimes \in [Servers -> Nat]
  BY DEF Request, ZeroTimes
<1>2. Consume(r, m)
  BY DEF RenewContinues
<1> QED
  BY <1>1, <1>2, ConsumeType DEF TypeOK, RenewContinues, timeVars, serverVars

LEMMA QuorumReachedType ==
  ASSUME TypeOK, NEW m \in responses, NEW until \in Nat, QuorumReached(m, until), faults' \in Nat
  PROVE  TypeOK'
<1>1. m.request \in Request /\ m.request.lease \in Leases /\ ZeroTimes \in [Servers -> Nat]
  BY DEF TypeOK, Response, Request, ZeroTimes
<1>2. Consume(m.request, {m})
  BY DEF QuorumReached
<1> QED
  BY <1>1, <1>2, ConsumeType, ConfirmedAfterType DEF TypeOK, QuorumReached, timeVars, serverVars

\* The steps that end a call of a single-server client.
SingleStep ==
  \/ \E m \in responses : SingleAcquireResponse(m) \/ SingleRenewResponse(m)
  \/ \E r \in pending : SingleCallFails(r)

\* The call of r ends with validity v.
SingleReturns(r, v) ==
  /\ pc[r.lease] \in {"acquiring", "renewing"}
  /\ pc' = [pc EXCEPT ![r.lease] = "active"]
  /\ validUntil' = [validUntil EXCEPT ![r.lease] = v]
  /\ EndCall(r)

\* What a single-server client returns: the validity its lease had, or the one the
\* response grants.
SingleValidity(r, v) ==
  \/ pc[r.lease] = "renewing" /\ v = validUntil[r.lease]
  \/ \E m \in responses :
       /\ IsSuccessfulAcquire(m.status) /\ m.request = r
       /\ v = CandidateValidUntil(r.start, m.ttl)

\* Such a call fails its Acquire or returns a validity.
LEMMA SingleCases ==
  ASSUME TypeOK, SingleStep
  PROVE  \E r \in Request :
           /\ IsSingle(r.lease)
           /\ \/ pc[r.lease] = "acquiring" /\ FailAcquire(r.lease)
              \/ \E v \in Nat : SingleReturns(r, v) /\ SingleValidity(r, v)
<1>1. ASSUME NEW m \in responses, SingleAcquireResponse(m) \/ SingleRenewResponse(m)
      PROVE  /\ m.request \in Request /\ IsSingle(m.request.lease)
             /\ \/ pc[m.request.lease] = "acquiring" /\ FailAcquire(m.request.lease)
                \/ \E v \in Nat : SingleReturns(m.request, v) /\ SingleValidity(m.request, v)
  <2> DEFINE l == m.request.lease
             until == CandidateValidUntil(m.request.start, m.ttl)
  <2>1. /\ m.request \in Request /\ l \in Leases
        /\ m.request.start \in Nat /\ m.ttl \in Nat /\ validUntil[l] \in Nat
    BY DEF TypeOK, Response, Request
  <2>2. until \in Nat
    BY <2>1, CandidateBounds
  <2> HIDE DEF until
  <2>3. CASE SingleAcquireResponse(m)
    BY <2>1, <2>2, <2>3 DEF SingleAcquireResponse, SingleReturns, SingleValidity, until
  <2>4. CASE SingleRenewResponse(m)
    <3>1. PICK v \in {until, validUntil[l]} :
            /\ v = until => m.status = "OK" \/ v = validUntil[l]
            /\ validUntil' = [validUntil EXCEPT ![l] = v]
      BY <2>4 DEF SingleRenewResponse, RenewedUntil, until
    <3>2. SingleReturns(m.request, v)
      BY <2>4, <3>1 DEF SingleRenewResponse, SingleReturns
    <3>3. SingleValidity(m.request, v)
      BY <2>4, <3>1 DEF SingleRenewResponse, SingleValidity, IsSuccessfulAcquire, until
    <3>4. IsSingle(l)
      BY <2>4 DEF SingleRenewResponse
    <3> QED
      BY <2>1, <2>2, <3>1, <3>2, <3>3, <3>4
  <2> QED
    BY <1>1, <2>3, <2>4
<1>2. ASSUME NEW r \in pending, SingleCallFails(r)
      PROVE  /\ r \in Request /\ IsSingle(r.lease)
             /\ \/ pc[r.lease] = "acquiring" /\ FailAcquire(r.lease)
                \/ \E v \in Nat : SingleReturns(r, v) /\ SingleValidity(r, v)
  <2>1. r \in Request /\ r.lease \in Leases /\ validUntil[r.lease] \in Nat
    BY DEF TypeOK, Request
  <2>2. validUntil = [validUntil EXCEPT ![r.lease] = validUntil[r.lease]]
    BY <2>1 DEF TypeOK
  <2> QED
    BY <1>2, <2>1, <2>2 DEF SingleCallFails, SingleReturns, SingleValidity
<1> QED
  BY <1>1, <1>2 DEF SingleStep

LEMMA SingleStepType ==
  ASSUME TypeOK, faults' \in Nat, SingleStep
  PROVE  TypeOK'
<1>1. PICK r \in Request : \/ FailAcquire(r.lease)
                           \/ \E v \in Nat : SingleReturns(r, v)
  BY SingleCases
<1>2. r.lease \in Leases
  BY DEF Request
<1>3. CASE FailAcquire(r.lease)
  <2>1. AbandonAndRelease(r.lease)
    BY <1>3 DEF FailAcquire
  <2> QED
    BY <1>2, <1>3, <2>1, AbandonType DEF TypeOK, FailAcquire, timeVars, serverVars
<1>4. CASE \E v \in Nat : SingleReturns(r, v)
  BY <1>2, <1>4, SMT DEF TypeOK, SingleReturns, EndCall, timeVars, serverVars
<1> QED
  BY <1>1, <1>3, <1>4

\* Failed submits of a Renew only clear confirmations.
LEMMA ClearRefusedTimes ==
  ASSUME TypeOK, NEW l \in Leases, NEW refused
  PROVE  /\ ClearRefused(l, refused) \in [Leases -> [Servers -> Nat]]
         /\ \A k \in Leases, s \in Servers :
              ClearRefused(l, refused)[k][s] \in {0, confirmedUntil[k][s]}
<1> DEFINE times == [s \in Servers |-> IF s \in refused THEN 0 ELSE confirmedUntil[l][s]]
<1>1. confirmedUntil \in [Leases -> [Servers -> Nat]]
  BY DEF TypeOK
<1>2. times \in [Servers -> Nat] /\ \A s \in Servers : times[s] \in {0, confirmedUntil[l][s]}
  BY <1>1
<1>3. ClearRefused(l, refused) = [confirmedUntil EXCEPT ![l] = times]
  BY DEF ClearRefused
<1> HIDE DEF times
<1> QED
  BY <1>1, <1>2, <1>3

LEMMA ClientStepType ==
  ASSUME TypeOK, faults' \in Nat,
         \/ ClientStep
         \/ \E l \in Leases : CancelAcquire(l) \/ CancelRenew(l)
         \/ \E r \in pending : CallFails(r) \/ SingleCallFails(r)
  PROVE  TypeOK'
<1> USE DEF timeVars, serverVars, networkVars
<1>1. ASSUME NEW l \in Leases, NEW ttl \in RequestTTLs, NEW refused \in SUBSET Servers,
             Acquire(l, ttl, refused)
      PROVE  TypeOK'
  <2>1. ttl \in Nat /\ OwnClock(l) \in Nat
    BY LeaseClient, RedLeaseAssumption DEF TypeOK, OwnClock, Nodes
  <2>2. Calls(l, 1, "acquire", ttl, OwnClock(l), Servers \ refused) \subseteq Request
    BY <2>1, CallsType DEF Kinds
  <2> QED
    BY <1>1, <2>1, <2>2 DEF TypeOK, Acquire
<1>2. ASSUME NEW l \in Leases, NEW ttl \in RequestTTLs, NEW refused \in SUBSET Servers,
             Renew(l, ttl, refused)
      PROVE  TypeOK'
  <2>1. ttl \in Nat /\ OwnClock(l) \in Nat /\ batches[l] + 1 \in Nat
    BY LeaseClient, RedLeaseAssumption, SMT DEF TypeOK, OwnClock, Nodes
  <2>2. Calls(l, batches[l] + 1, "renew", ttl, OwnClock(l), Servers \ refused) \subseteq Request
    BY <2>1, CallsType DEF Kinds
  <2>3. confirmedUntil' \in [Leases -> [Servers -> Nat]]
    BY <1>2, ClearRefusedTimes DEF TypeOK, Renew
  <2> QED
    BY <1>2, <2>1, <2>2, <2>3 DEF TypeOK, Renew
<1>3. ASSUME NEW l \in Leases, Release(l)
      PROVE  TypeOK'
  <2>1. AbandonAndRelease(l)
    BY <1>3 DEF Release
  <2> QED
    BY <1>3, <2>1, AbandonType DEF TypeOK, Release
<1>4. ASSUME NEW l \in Leases, CancelAcquire(l)
      PROVE  TypeOK'
  <2>1. AbandonAndRelease(l)
    BY <1>4 DEF CancelAcquire, FailAcquire
  <2> QED
    BY <1>4, <2>1, AbandonType DEF TypeOK, CancelAcquire, FailAcquire
<1>5. ASSUME NEW l \in Leases, CancelRenew(l)
      PROVE  TypeOK'
  <2>1. ZeroTimes \in [Servers -> Nat]
    BY DEF ZeroTimes
  <2> QED
    BY <1>5, <2>1 DEF TypeOK, CancelRenew
<1>6. ASSUME NEW l \in Leases, HealingTargets(l)
      PROVE  TypeOK'
  <2>1. healing' \in [Leases -> BOOLEAN]
    BY <1>6 DEF TypeOK, HealingTargets
  <2>2. healTargets' \in [Leases -> SUBSET Servers]
    <3> DEFINE targets == {s \in Servers : OwnClock(l) >= confirmedUntil[l][s]}
    <3>1. targets \in SUBSET Servers
      OBVIOUS
    <3>2. healTargets' = healTargets \/ healTargets' = [healTargets EXCEPT ![l] = targets]
      BY <1>6 DEF HealingTargets
    <3> HIDE DEF targets
    <3> QED
      BY <3>1, <3>2 DEF TypeOK
  <2> QED
    BY <1>6, <2>1, <2>2 DEF TypeOK, HealingTargets
<1>7. ASSUME NEW l \in Leases, HealReplicas(l)
      PROVE  TypeOK'
  <2>1. /\ batches[l] + 1 \in Nat /\ requestedTTL[l] \in Nat /\ opStart[l] \in Nat
        /\ healTargets[l] \in SUBSET Servers /\ "heal" \in Kinds
    BY SMT DEF TypeOK, Kinds
  <2>2. Calls(l, batches[l] + 1, "heal", requestedTTL[l], opStart[l], healTargets[l])
          \subseteq Request
    BY <2>1, CallsType
  <2>3. healTargets' \in [Leases -> SUBSET Servers]
    BY <1>7 DEF TypeOK, HealReplicas
  <2>4. requests' \subseteq Request /\ pending' \subseteq Request /\ batches' \in [Leases -> Nat]
    BY <1>7, <2>1, <2>2, ZenonT(40) DEF TypeOK, HealReplicas
  <2> QED
    BY <1>7, <2>3, <2>4 DEF TypeOK, HealReplicas
<1>8. ASSUME NEW m \in responses, AcquireResponse(m) \/ RenewResponse(m) \/ BackgroundResponse(m)
      PROVE  TypeOK'
  <2>1. m.request \in Request /\ m.request.lease \in Leases
    BY DEF TypeOK, Response, Request
  <2>2. /\ CandidatesWith(m) \in [Servers -> Nat]
        /\ ConfirmedAfter(m) \in [Leases -> [Servers -> Nat]]
        /\ candidate[m.request.lease] \in [Servers -> Nat]
        /\ validUntil[m.request.lease] \in Nat
    BY <2>1, CandidatesWithType, ConfirmedAfterType DEF TypeOK
  <2>3. \A c \in [Servers -> Nat] : BestAcquireQuorum(c) \subseteq Nat
    BY DEF BestAcquireQuorum
  <2>4. CASE AcquireResponse(m)
    BY <2>1, <2>2, <2>3, <2>4, QuorumReachedType, AcquireContinuesType DEF AcquireResponse
  <2>5. CASE RenewResponse(m)
    BY <2>1, <2>2, <2>3, <2>5, QuorumReachedType, RenewContinuesType
       DEF RenewResponse, RenewedUntil
  <2>6. CASE BackgroundResponse(m)
    <3>1. Consume(m.request, {m})
      BY <2>6 DEF BackgroundResponse
    <3> QED
      BY <2>1, <2>2, <2>6, <3>1, ConsumeType DEF TypeOK, BackgroundResponse
  <2> QED
    BY <1>8, <2>4, <2>5, <2>6
<1>9. ASSUME NEW r \in pending, CallFails(r)
      PROVE  TypeOK'
  <2> DEFINE confirmed == IF r.kind = "renew" THEN ClearConfirmed(r.lease, r.server)
                                              ELSE confirmedUntil
             arrived == {m \in responses : m.request = r}
  <2>1. r \in Request /\ r.lease \in Leases /\ r.server \in Servers
    BY DEF TypeOK, Request
  <2>2. /\ confirmed \in [Leases -> [Servers -> Nat]]
        /\ candidate[r.lease] \in [Servers -> Nat]
    BY <2>1 DEF TypeOK, ClearConfirmed
  <2>3. CASE AcquireContinues(r, arrived, candidate[r.lease], confirmed)
    BY <2>1, <2>2, <2>3, AcquireContinuesType
  <2>4. CASE RenewContinues(r, arrived, candidate[r.lease], confirmed)
    BY <2>1, <2>2, <2>4, RenewContinuesType
  <2>5. CASE /\ confirmedUntil' = confirmed
             /\ UNCHANGED <<timeVars, serverVars, requests, pc, batches, foreground, opStart,
                            requestedTTL, candidate, validUntil, healTargets>>
             /\ Consume(r, arrived)
    <3> HIDE DEF confirmed, arrived
    <3> QED
      BY <2>1, <2>2, <2>5, ConsumeType DEF TypeOK
  <2> QED
    BY <1>9, <2>3, <2>4, <2>5 DEF CallFails
<1>10. ASSUME NEW l \in Leases, AcquireRefused(l)
       PROVE  TypeOK'
  <2>1. AbandonAndRelease(l)
    BY <1>10 DEF AcquireRefused, FailAcquire
  <2> QED
    BY <1>10, <2>1, AbandonType DEF TypeOK, AcquireRefused, FailAcquire
<1>11. ASSUME NEW l \in Leases, RenewRefused(l)
       PROVE  TypeOK'
  <2>1. ZeroTimes \in [Servers -> Nat] /\ OwnClock(l) \in Nat /\ batches[l] + 1 \in Nat
    BY LeaseClient, SMT DEF TypeOK, ZeroTimes, OwnClock, Nodes
  <2>2. healing' \in [Leases -> BOOLEAN]
    BY <1>11 DEF TypeOK, RenewRefused
  <2> QED
    BY <1>11, <2>1, <2>2 DEF TypeOK, RenewRefused
<1> QED
  BY <1>1, <1>2, <1>3, <1>4, <1>5, <1>6, <1>7, <1>8, <1>9, <1>10, <1>11, SingleStepType
     DEF ClientStep, SingleStep

LEMMA TypeStep == TypeOK /\ [Next]_vars => TypeOK'
<1> SUFFICES ASSUME TypeOK, [Next]_vars
             PROVE  TypeOK'
  OBVIOUS
<1>1. CASE UNCHANGED vars
  BY <1>1 DEF TypeOK, vars, timeVars, serverVars, networkVars, leaseVars
<1>2. CASE Next
  <2>1. faults' \in Nat
    BY <1>2, SMT DEF TypeOK, Next
  <2>2. CASE Tick
    BY <2>1, <2>2, SMT DEF TypeOK, Tick, serverVars, networkVars, leaseVars
  <2> QED
    BY <1>2, <2>1, <2>2, ServerStepType, ClientStepType DEF Next, Fault
<1> QED
  BY <1>1, <1>2

\* Every variable always has its type.
THEOREM TypeCorrect == Spec => []TypeOK
<1>1. Init => TypeOK
  <2> SUFFICES ASSUME Init
               PROVE  TypeOK
    OBVIOUS
  <2>1. configuredMaxTTL \in [Servers -> 1..MaxTTLMS]
    BY RedLeaseAssumption DEF Init
  <2> QED
    BY <2>1 DEF Init, TypeOK, ZeroTimes
<1> QED
  BY <1>1, TypeStep, PTL DEF Spec

-----------------------------------------------------------------------------
(* Protection, and what makes it inductive. *)

\* No clock is behind the reference time or ahead of it by more than Drift.
ClocksClose == \A n \in Nodes : now <= clock[n] /\ clock[n] <= now + Drift

\* operationStart lies in the past of the client, and for a request not yet
\* handled it is no later than the sending, up to the drift; and a Release is
\* only ever sent for a lease given up.
StartsPast ==
  /\ \A l \in Leases : opStart[l] <= OwnClock(l)
  /\ \A r \in requests :
       /\ r.start <= OwnClock(r.lease)
       /\ r.start <= r.sent + Drift
       /\ r.kind = "release" => pc[r.lease] \in {"released", "failed"}

IInv == TypeOK /\ ClocksClose /\ StartsPast /\ Protection

\* The constants as the arithmetic below needs them.
LEMMA Constants ==
  /\ Drift \in Nat /\ Ticks(SafetyMarginMS) \in Nat /\ Ticks(MaxTTLMS) \in Nat
  /\ 2 * Drift <= Ticks(SafetyMarginMS)
  /\ RestartQuarantine \in Nat /\ RestartQuarantine >= Ticks(MaxTTLMS) + Ticks(SafetyMarginMS)
<1>1. /\ MaxTTLMS \in Nat /\ SafetyMarginMS \in Nat /\ SafetyMarginMS + 1 \in Nat
  BY LeaseRulesAssumption, SMT
<1>2. RestartQuarantine = Ticks(MaxTTLMS) + Ticks(SafetyMarginMS) + Ticks(1)
  <2>1. RestartQuarantine = Ticks(MaxTTLMS + SafetyMarginMS) + Ticks(1)
    BY <1>1, TicksAdd, SMT DEF RestartQuarantine
  <2> QED
    BY <1>1, <2>1, TicksAdd
<1> QED
  BY <1>1, <1>2, TicksNat, RedLeaseAssumption, SMT

\* The clocks of a server and of the owner of a lease.
LEMMA OwnClockClose ==
  ASSUME TypeOK, ClocksClose, NEW l \in Leases, NEW s \in Servers
  PROVE  /\ OwnClock(l) \in Nat /\ clock[s] \in Nat
         /\ OwnClock(l) <= clock[s] + Drift /\ clock[s] <= OwnClock(l) + Drift
<1>1. ClientOf(l) \in Nodes /\ s \in Nodes
  BY LeaseClient DEF Nodes
<1> QED
  BY <1>1, RedLeaseAssumption, SMT DEF TypeOK, ClocksClose, OwnClock

\* When an entry or a quarantine has run out at the server, the lease it
\* protected has run out at its owner.
LEMMA ProtectionEnds ==
  ASSUME TypeOK, ClocksClose, NEW l \in Leases, NEW s \in Servers, NEW until \in Nat,
         NEW end \in Nat, end <= clock[s], end + Drift >= until + Ticks(SafetyMarginMS)
  PROVE  OwnClock(l) >= until
  BY OwnClockClose, Constants, SMT

\* A time no later than a justified one is justified.
LEMMA JustifiedEarlier ==
  ASSUME TypeOK, NEW l \in Leases, NEW s \in Servers, NEW until \in Nat, NEW earlier \in Nat,
         Justified(s, l, until), earlier <= until
  PROVE  Justified(s, l, earlier)
<1>1. OwnClock(l) \in Nat /\ deadline[s] \in Nat /\ quarantineEnd[s] \in Nat
  BY LeaseClient DEF TypeOK, OwnClock, Nodes
<1> QED
  BY <1>1, Constants, SMT DEF Justified, Protects

\* The past is always justified.
LEMMA JustifiedPast ==
  ASSUME TypeOK, NEW l \in Leases, NEW s \in Servers, NEW until \in Nat, until <= OwnClock(l)
  PROVE  Justified(s, l, until)
<1>1. OwnClock(l) \in Nat
  BY LeaseClient DEF TypeOK, OwnClock, Nodes
<1> QED
  BY <1>1, Constants, SMT DEF Justified, Protects

\* The steps of the clients, and those of the servers.
ClientSide ==
  \/ ClientStep
  \/ \E l \in Leases : CancelAcquire(l) \/ CancelRenew(l)
  \/ \E r \in pending : CallFails(r) \/ SingleCallFails(r)

ServerSide ==
  \/ ServerStep
  \/ \E s \in Servers : Restart(s)
  \/ \E r \in requests : \E t \in ApplyTimes(r) : ApplyAcquireFull(r, t)

LEMMA NextSides == Next => Tick \/ ServerSide \/ ClientSide
  BY DEF Next, Fault, ServerSide, ClientSide

\* No client step changes a clock or a server, and a lease that is over stays so.
LEMMA ClientFrame ==
  ASSUME TypeOK, ClientSide
  PROVE  /\ UNCHANGED <<timeVars, serverVars>>
         /\ \A l \in Leases : pc[l] \in {"released", "failed"} => pc'[l] = pc[l]
         /\ responses' \subseteq responses
<1> DEFINE Framed == /\ UNCHANGED <<timeVars, serverVars>>
                     /\ \A l \in Leases : pc[l] \in {"released", "failed"} => pc'[l] = pc[l]
                     /\ responses' \subseteq responses
<1>1. ASSUME NEW l \in Leases, NEW ttl \in RequestTTLs, NEW refused \in SUBSET Servers,
             Acquire(l, ttl, refused) \/ Renew(l, ttl, refused)
      PROVE  Framed
  BY <1>1 DEF TypeOK, Acquire, Renew, IsNext
<1>2. ASSUME NEW l \in Leases,
             \/ Release(l) \/ CancelAcquire(l) \/ CancelRenew(l)
             \/ HealingTargets(l) \/ HealReplicas(l)
             \/ AcquireRefused(l) \/ RenewRefused(l)
      PROVE  Framed
  BY <1>2 DEF TypeOK, Release, CancelAcquire, FailAcquire, AbandonAndRelease, CancelRenew,
              HealingTargets, HealReplicas, AcquireRefused, IsNext, RenewRefused, networkVars
<1>3. ASSUME NEW r \in Request, NEW m, NEW candidates, NEW confirmed,
             \/ pc[r.lease] = "acquiring" /\ AcquireContinues(r, m, candidates, confirmed)
             \/ pc[r.lease] = "renewing" /\ RenewContinues(r, m, candidates, confirmed)
      PROVE  Framed
  <2>1. r.lease \in Leases
    BY DEF Request
  <2> QED
    BY <1>3, <2>1 DEF TypeOK, AcquireContinues, RenewContinues, FailAcquire, AbandonAndRelease,
                      Consume
<1>4. ASSUME NEW m \in responses, NEW until, pc[m.request.lease] \in {"acquiring", "renewing"},
             QuorumReached(m, until)
      PROVE  Framed
  BY <1>4 DEF TypeOK, QuorumReached, Consume
<1>5. ASSUME NEW m \in responses, AcquireResponse(m) \/ RenewResponse(m) \/ BackgroundResponse(m)
      PROVE  Framed
  <2>1. m.request \in Request
    BY DEF TypeOK, Response
  <2> HIDE DEF Framed
  <2>2. CASE AcquireResponse(m)
    BY <2>1, <2>2, <1>3, <1>4, SMT DEF AcquireResponse
  <2>3. CASE RenewResponse(m)
    BY <2>1, <2>3, <1>3, <1>4, SMT DEF RenewResponse
  <2> USE DEF Framed
  <2>4. CASE BackgroundResponse(m)
    BY <2>4 DEF BackgroundResponse, Consume
  <2> QED
    BY <1>5, <2>2, <2>3, <2>4
<1>6. ASSUME NEW r \in pending, CallFails(r)
      PROVE  Framed
  <2>1. r \in Request
    BY DEF TypeOK
  <2> QED
    BY <1>6, <2>1, <1>3 DEF CallFails, Consume
<1>7. ASSUME SingleStep
      PROVE  Framed
  <2>1. PICK r \in Request : \/ pc[r.lease] = "acquiring" /\ FailAcquire(r.lease)
                             \/ \E v \in Nat : SingleReturns(r, v)
    BY <1>7, SingleCases
  <2>2. r.lease \in Leases
    BY DEF Request
  <2> QED
    BY <2>1, <2>2 DEF TypeOK, FailAcquire, AbandonAndRelease, SingleReturns, EndCall
<1> QED
  BY <1>1, <1>2, <1>5, <1>6, <1>7 DEF ClientSide, ClientStep, SingleStep

-----------------------------------------------------------------------------
(* What a server step does. *)

\* What a request handler does to the entry of the key and answers: the entry is
\* kept or extended, or it had expired, or it is the released one; and a success
\* reports no more time than the entry of the same lease has left.
HandlerEffect(r, t, id, until, status, ttl) ==
  /\ FinishApply(r, id, until, status, ttl)
  /\ \/ id = holder[r.server] /\ until >= deadline[r.server]
     \/ holder[r.server] # NoLease => deadline[r.server] <= t
     \/ r.kind = "release" /\ holder[r.server] = r.lease /\ id = NoLease
  /\ IsSuccessfulAcquire(status) =>
       ttl = 0 \/ (id = r.lease /\ t + Ticks(ttl) <= until)

\* Every handler of the shard worker is of that form.
LEMMA Handlers ==
  ASSUME TypeOK, NEW r \in requests, NEW t \in r.sent..clock[r.server],
         \/ ApplyAcquire(r, t) \/ ApplyAcquireFull(r, t)
         \/ ApplyRenew(r, t) \/ ApplyRelease(r, t)
  PROVE  \E id \in Leases \cup {NoLease}, until \in Nat, status \in Statuses, ttl \in Nat :
           HandlerEffect(r, t, id, until, status, ttl)
<1> DEFINE s == r.server
           effective == EffectiveTTLMS(r.ttl, configuredMaxTTL[s])
           extended == t + Ticks(effective)
           until == IF extended > deadline[s] THEN extended ELSE deadline[s]
           left == RemainingTTLMS(deadline[s], t, configuredMaxTTL[s])
           renewed == RemainingTTLMS(until, t, configuredMaxTTL[s])
<1>1. /\ s \in Servers /\ r.lease \in Leases /\ r.ttl \in Nat /\ r.sent \in Nat
      /\ clock[s] \in Nat /\ configuredMaxTTL[s] \in Nat /\ deadline[s] \in Nat
      /\ holder[s] \in Leases \cup {NoLease}
  BY LeaseRulesAssumption, SMT DEF TypeOK, Request, Nodes
<1>2. t \in Nat
  BY <1>1, SMT
<1>3. effective \in Nat /\ Ticks(effective) \in Nat
  BY <1>1, TicksNat DEF EffectiveTTLMS, Lesser
<1>4. extended \in Nat /\ until \in Nat /\ t <= until /\ deadline[s] <= until
  BY <1>1, <1>2, <1>3, SMT
<1>5. /\ left \in Nat /\ renewed \in Nat
      /\ t <= deadline[s] => t + Ticks(left) <= deadline[s]
      /\ t + Ticks(renewed) <= until
  BY <1>1, <1>2, <1>4, RemainingBounds
<1>6. {"OK", "ALREADY_OWNED", "BUSY", "STALE", "KEY_LIMIT_REACHED"} \subseteq Statuses
  BY DEF Statuses
<1>7. ~IsSuccessfulAcquire("BUSY") /\ ~IsSuccessfulAcquire("STALE")
      /\ ~IsSuccessfulAcquire("KEY_LIMIT_REACHED")
  BY DEF IsSuccessfulAcquire
<1>0. /\ ~Live(s, t) => (holder[s] # NoLease => deadline[s] <= t)
      /\ Live(s, t) => t <= deadline[s]
      /\ deadline[s] >= deadline[s] /\ until >= deadline[s]
  BY <1>1, <1>2, <1>4, SMT DEF Live
<1> USE <1>1, <1>2, <1>6
<1> HIDE DEF effective, extended, until, left, renewed
<1>8. CASE ApplyAcquire(r, t)
  <2>1. CASE Live(s, t) /\ holder[s] = r.lease
    <3>1. FinishApply(r, holder[s], deadline[s], "ALREADY_OWNED", left)
      BY <1>8, <2>1 DEF ApplyAcquire, left
    <3>2. HandlerEffect(r, t, holder[s], deadline[s], "ALREADY_OWNED", left)
      BY <1>0, <1>5, <2>1, <3>1 DEF HandlerEffect
    <3> QED
      BY <1>5, <3>2
  <2>2. CASE Live(s, t) /\ holder[s] # r.lease
    <3>1. FinishApply(r, holder[s], deadline[s], "BUSY", 0)
      BY <1>8, <2>2 DEF ApplyAcquire
    <3>2. HandlerEffect(r, t, holder[s], deadline[s], "BUSY", 0)
      BY <1>0, <1>7, <3>1 DEF HandlerEffect
    <3> QED
      BY <3>2
  <2>3. CASE ~Live(s, t) /\ effective = 0
    <3>1. FinishApply(r, NoLease, 0, "OK", 0)
      BY <1>8, <2>3, SMT DEF ApplyAcquire, effective
    <3>2. HandlerEffect(r, t, NoLease, 0, "OK", 0)
      BY <1>0, <2>3, <3>1 DEF HandlerEffect
    <3> QED
      BY <3>2
  <2>4. CASE ~Live(s, t) /\ effective # 0
    <3>1. FinishApply(r, r.lease, extended, "OK", effective)
      BY <1>3, <1>8, <2>4 DEF ApplyAcquire, effective, extended
    <3>2. t + Ticks(effective) <= extended
      BY <1>3, SMT DEF extended
    <3>3. HandlerEffect(r, t, r.lease, extended, "OK", effective)
      BY <1>0, <2>4, <3>1, <3>2 DEF HandlerEffect
    <3> QED
      BY <1>3, <1>4, <3>3
  <2> QED
    BY <2>1, <2>2, <2>3, <2>4
<1>9. CASE ApplyAcquireFull(r, t)
  <2>1. HandlerEffect(r, t, NoLease, 0, "KEY_LIMIT_REACHED", 0)
    <3>1. FinishApply(r, NoLease, 0, "KEY_LIMIT_REACHED", 0) /\ ~Live(s, t)
      BY <1>9 DEF ApplyAcquireFull
    <3> QED
      BY <1>0, <1>7, <3>1 DEF HandlerEffect
  <2> QED
    BY <2>1
<1>10. CASE ApplyRenew(r, t)
  <2>1. CASE ~Live(s, t)
    <3>1. FinishApply(r, NoLease, 0, "STALE", 0)
      BY <1>10, <2>1 DEF ApplyRenew
    <3>2. HandlerEffect(r, t, NoLease, 0, "STALE", 0)
      BY <1>0, <1>7, <2>1, <3>1 DEF HandlerEffect
    <3> QED
      BY <3>2
  <2>2. CASE Live(s, t) /\ holder[s] # r.lease
    <3>1. FinishApply(r, holder[s], deadline[s], "STALE", 0)
      BY <1>10, <2>2 DEF ApplyRenew
    <3>2. HandlerEffect(r, t, holder[s], deadline[s], "STALE", 0)
      BY <1>0, <1>7, <3>1 DEF HandlerEffect
    <3> QED
      BY <3>2
  <2>3. CASE Live(s, t) /\ holder[s] = r.lease
    <3>1. FinishApply(r, holder[s], until, "OK", renewed)
      BY <1>10, <2>3 DEF ApplyRenew, until, extended, effective, renewed
    <3>2. HandlerEffect(r, t, holder[s], until, "OK", renewed)
      BY <1>4, <1>5, <2>3, <3>1 DEF HandlerEffect
    <3> QED
      BY <1>4, <1>5, <3>2
  <2> QED
    BY <2>1, <2>2, <2>3
<1>11. CASE ApplyRelease(r, t)
  <2>1. CASE Live(s, t) /\ holder[s] # r.lease
    <3>1. FinishApply(r, holder[s], deadline[s], "OK", 0)
      BY <1>11, <2>1 DEF ApplyRelease
    <3>2. HandlerEffect(r, t, holder[s], deadline[s], "OK", 0)
      BY <1>0, <3>1 DEF HandlerEffect
    <3> QED
      BY <3>2
  <2>2. CASE ~(Live(s, t) /\ holder[s] # r.lease)
    <3>1. FinishApply(r, NoLease, 0, "OK", 0) /\ r.kind = "release"
      BY <1>11, <2>2 DEF ApplyRelease
    <3>2. HandlerEffect(r, t, NoLease, 0, "OK", 0)
      BY <1>0, <2>2, <3>1 DEF HandlerEffect
    <3> QED
      BY <3>2
  <2> QED
    BY <2>1, <2>2
<1> QED
  BY <1>8, <1>9, <1>10, <1>11

\* A server step is a restart, the end of a quarantine, a cleanup, a rejected
\* request or a handled one.
LEMMA ServerCases ==
  ASSUME TypeOK, ServerSide
  PROVE  \/ \E s \in Servers : Restart(s) \/ EndQuarantine(s) \/ RemoveExpired(s)
         \/ \E r \in requests : RejectNotReady(r)
         \/ \E r \in requests : \E t \in r.sent..clock[r.server] :
              \E id \in Leases \cup {NoLease}, until \in Nat, status \in Statuses, ttl \in Nat :
                HandlerEffect(r, t, id, until, status, ttl)
<1>1. CASE \E s \in Servers : Restart(s) \/ EndQuarantine(s) \/ RemoveExpired(s)
  BY <1>1
<1>2. CASE \E r \in requests : RejectNotReady(r)
  BY <1>2
<1>3. ASSUME NEW r \in requests, NEW t \in r.sent..clock[r.server],
             \/ ApplyAcquire(r, t) \/ ApplyAcquireFull(r, t)
             \/ ApplyRenew(r, t) \/ ApplyRelease(r, t)
      PROVE  \E id \in Leases \cup {NoLease}, until \in Nat, status \in Statuses, ttl \in Nat :
                HandlerEffect(r, t, id, until, status, ttl)
  BY <1>3, Handlers
<1> QED
  BY <1>1, <1>2, <1>3 DEF ServerSide, ServerStep, ApplyTimes

\* No server step changes a clock or a client.
LEMMA ServerFrame ==
  ASSUME TypeOK, ServerSide
  PROVE  UNCHANGED <<timeVars, leaseVars, pending>> /\ requests' \subseteq requests
<1>1. ASSUME NEW s \in Servers, Restart(s) \/ EndQuarantine(s) \/ RemoveExpired(s)
      PROVE  UNCHANGED <<timeVars, leaseVars, pending>> /\ requests' \subseteq requests
  BY <1>1 DEF Restart, EndQuarantine, RemoveExpired, networkVars
<1>2. ASSUME NEW r \in requests, RejectNotReady(r)
      PROVE  UNCHANGED <<timeVars, leaseVars, pending>> /\ requests' \subseteq requests
  BY <1>2 DEF RejectNotReady
<1>3. ASSUME NEW r \in requests, NEW t, NEW id, NEW until, NEW status, NEW ttl,
             HandlerEffect(r, t, id, until, status, ttl)
      PROVE  UNCHANGED <<timeVars, leaseVars, pending>> /\ requests' \subseteq requests
  BY <1>3 DEF HandlerEffect, FinishApply
<1> QED
  BY <1>1, <1>2, <1>3, ServerCases

-----------------------------------------------------------------------------
(* Each part of the invariant is preserved. *)

LEMMA ClocksStep == TypeOK /\ ClocksClose /\ [Next]_vars => ClocksClose'
<1> SUFFICES ASSUME TypeOK, ClocksClose, [Next]_vars
             PROVE  ClocksClose'
  OBVIOUS
<1>1. CASE Tick
  BY <1>1, RedLeaseAssumption, SMT DEF TypeOK, ClocksClose, Tick
<1>2. CASE UNCHANGED timeVars
  BY <1>2 DEF ClocksClose, timeVars
<1> QED
  BY <1>1, <1>2, NextSides, ClientFrame, ServerFrame DEF vars

\* A justified time stays justified, whatever happens.
LEMMA JustifiedStable ==
  ASSUME TypeOK, ClocksClose, StartsPast, [Next]_vars, TypeOK', ClocksClose',
         NEW l \in Leases, NEW s \in Servers, NEW until \in Nat, Justified(s, l, until)
  PROVE  Justified(s, l, until)'
<1>1. /\ OwnClock(l) \in Nat /\ clock[s] \in Nat
      /\ OwnClock(l) <= clock[s] + Drift /\ clock[s] <= OwnClock(l) + Drift
      /\ deadline[s] \in Nat /\ quarantineEnd[s] \in Nat
  BY OwnClockClose DEF TypeOK
<1>6. /\ DOMAIN phase = Servers /\ DOMAIN holder = Servers /\ DOMAIN deadline = Servers
      /\ DOMAIN lostHolder = Servers /\ DOMAIN quarantineEnd = Servers
  BY DEF TypeOK
<1>2. CASE Tick
  <2>1. clock'[ClientOf(l)] \in Nat /\ clock'[ClientOf(l)] >= clock[ClientOf(l)]
    BY <1>2, LeaseClient DEF Tick, Nodes, TypeOK
  <2> QED
    BY <1>1, <1>2, <2>1, Constants, SMT DEF Tick, Justified, Protects, OwnClock, serverVars, leaseVars
<1>3. CASE ClientSide
  BY <1>3, ClientFrame DEF Justified, Protects, OwnClock, timeVars, serverVars
<1>4. CASE ServerSide
  <2>1. UNCHANGED <<clock, pc>>
    BY <1>4, ServerFrame DEF timeVars, leaseVars
  <2>2. CASE OwnClock(l) >= until \/ pc[l] \in {"released", "failed"}
    BY <2>1, <2>2 DEF Justified, Protects, OwnClock
  <2>3. CASE UNCHANGED <<phase[s], holder[s], deadline[s], lostHolder[s], quarantineEnd[s]>>
    BY <2>1, <2>3 DEF Justified, Protects, OwnClock
  <2>4. ASSUME NEW q \in Servers, Restart(q), q = s
        PROVE  Justified(s, l, until)'
    <3>1. quarantineEnd'[s] = clock[s] + RestartQuarantine /\ phase'[s] = "quarantine"
      BY <1>6, <2>4 DEF Restart
    <3>2. quarantineEnd'[s] + Drift >= until + Ticks(SafetyMarginMS)
      BY <1>1, <3>1, Constants, SMT DEF Justified
    <3>3. lostHolder'[s] = IF phase[s] = "active" THEN holder[s] ELSE lostHolder[s]
      BY <1>6, <2>4 DEF Restart
    <3> QED
      BY <2>1, <3>1, <3>2, <3>3 DEF Justified, Protects, OwnClock
  <2>5. ASSUME NEW q \in Servers, EndQuarantine(q), q = s
        PROVE  Justified(s, l, until)'
    <3>1. phase[s] = "quarantine" /\ quarantineEnd[s] <= clock[s]
      BY <1>1, <2>5 DEF EndQuarantine
    <3>2. OwnClock(l) >= until \/ pc[l] \in {"released", "failed"}
      BY <1>1, <3>1, ProtectionEnds DEF Justified, Protects
    <3> QED
      BY <2>2, <3>2
  <2>6. ASSUME NEW q \in Servers, RemoveExpired(q), q = s
        PROVE  Justified(s, l, until)'
    <3>1. UNCHANGED <<phase, lostHolder, quarantineEnd>> /\ deadline[s] <= clock[s]
      BY <2>6 DEF RemoveExpired
    <3>2. CASE phase[s] = "active" /\ holder[s] = l
               /\ deadline[s] + Drift >= until + Ticks(SafetyMarginMS)
      BY <1>1, <2>2, <3>1, <3>2, ProtectionEnds
    <3> QED
      BY <2>1, <2>2, <3>1, <3>2 DEF Justified, Protects, OwnClock
  <2>7. ASSUME NEW r \in requests, RejectNotReady(r)
        PROVE  Justified(s, l, until)'
    BY <2>3, <2>7 DEF RejectNotReady, serverVars
  <2>8. ASSUME NEW r \in requests, NEW t \in r.sent..clock[r.server],
               NEW id \in Leases \cup {NoLease}, NEW u \in Nat, NEW status \in Statuses,
               NEW ttl \in Nat, HandlerEffect(r, t, id, u, status, ttl)
        PROVE  Justified(s, l, until)'
    <3>1. r.server \in Servers /\ r.lease \in Leases /\ r.sent \in Nat
      BY DEF TypeOK, Request
    <3>2. CASE r.server # s
      <4>1. UNCHANGED <<phase[s], holder[s], deadline[s], lostHolder[s], quarantineEnd[s]>>
        BY <2>8, <3>1, <3>2 DEF HandlerEffect, FinishApply, TypeOK
      <4> QED
        BY <2>3, <4>1
    <3>3. CASE r.server = s /\ holder[s] = l /\ ~(OwnClock(l) >= until)
               /\ ~(pc[l] \in {"released", "failed"})
      <4>1. /\ phase[s] = "active"
            /\ deadline[s] + Drift >= until + Ticks(SafetyMarginMS)
        BY <2>8, <3>3 DEF HandlerEffect, FinishApply, Justified, Protects
      <4>2. t \in Nat /\ t <= clock[s]
        BY <1>1, <3>1, <3>3, SMT
      <4>3. ~(deadline[s] <= t)
        <5> SUFFICES ASSUME deadline[s] <= t
                     PROVE  FALSE
          OBVIOUS
        <5>1. deadline[s] <= clock[s]
          BY <1>1, <4>2, SMT
        <5> QED
          BY <1>1, <3>3, <4>1, <5>1, ProtectionEnds
      <4>4. ~(r.kind = "release" /\ holder[s] = r.lease)
        BY <3>3 DEF StartsPast
      <4>5. holder[s] # NoLease
        BY <3>3, RedLeaseAssumption
      <4>6. id = holder[s] /\ u >= deadline[s]
        BY <2>8, <3>3, <4>3, <4>4, <4>5 DEF HandlerEffect
      <4>7. phase' = phase /\ holder'[s] = l /\ deadline'[s] = u
        <5>1. /\ phase' = phase /\ holder' = [holder EXCEPT ![s] = id]
              /\ deadline' = [deadline EXCEPT ![s] = u]
          BY <2>8, <3>3 DEF HandlerEffect, FinishApply
        <5> QED
          BY <3>3, <4>6, <5>1 DEF TypeOK
      <4>8. deadline'[s] + Drift >= until + Ticks(SafetyMarginMS)
        BY <1>1, <4>1, <4>6, <4>7, Constants, SMT
      <4> QED
        BY <2>1, <4>1, <4>7, <4>8 DEF Justified, Protects, OwnClock
    <3>4. CASE r.server = s /\ holder[s] # l
      BY <2>1, <2>8, <3>4 DEF HandlerEffect, FinishApply, Justified, Protects, OwnClock
    <3> QED
      BY <2>2, <3>2, <3>3, <3>4
  <2>9. ASSUME NEW q \in Servers, Restart(q) \/ EndQuarantine(q) \/ RemoveExpired(q), q # s
        PROVE  Justified(s, l, until)'
    <3>1. UNCHANGED <<phase[s], holder[s], deadline[s], lostHolder[s], quarantineEnd[s]>>
      BY <1>6, <2>9 DEF Restart, EndQuarantine, RemoveExpired
    <3> QED
      BY <2>3, <3>1
  <2> QED
    BY <1>4, <2>4, <2>5, <2>6, <2>7, <2>8, <2>9, ServerCases
<1>5. CASE UNCHANGED vars
  BY <1>5 DEF Justified, Protects, OwnClock, vars, timeVars, serverVars, leaseVars
<1> QED
  BY <1>2, <1>3, <1>4, <1>5, NextSides

\* What a client step puts on the network, and what it makes of Lease.now.
NewRequests ==
  /\ \A l \in Leases : opStart'[l] \in {opStart[l], OwnClock(l)}
  /\ \A r \in requests' \ requests :
       /\ r.start <= OwnClock(r.lease)
       /\ r.sent = clock[r.server]
       /\ r.kind = "release" => pc'[r.lease] \in {"released", "failed"}

LEMMA ClientRequests ==
  ASSUME TypeOK, ClocksClose, StartsPast, ClientSide
  PROVE  NewRequests
<1>1. \A l \in Leases : OwnClock(l) \in Nat /\ opStart[l] \in Nat /\ opStart[l] <= OwnClock(l)
  BY LeaseClient DEF TypeOK, StartsPast, OwnClock, Nodes
<1>2. ASSUME NEW l \in Leases, NEW ttl \in RequestTTLs, NEW refused \in SUBSET Servers,
             Acquire(l, ttl, refused) \/ Renew(l, ttl, refused)
      PROVE  NewRequests
  <2>1. /\ opStart' = [opStart EXCEPT ![l] = OwnClock(l)]
        /\ \E b, kind : kind # "release" /\
             requests' = requests \cup Calls(l, b, kind, ttl, OwnClock(l), Servers \ refused)
    BY <1>2 DEF Acquire, Renew
  <2>2. \A k \in Leases : opStart'[k] \in {opStart[k], OwnClock(k)}
    BY <2>1 DEF TypeOK
  <2>3. ASSUME NEW r \in requests' \ requests
        PROVE  r.start <= OwnClock(r.lease) /\ r.sent = clock[r.server] /\ r.kind # "release"
    <3>1. r.lease = l /\ r.kind # "release" /\ r.start = OwnClock(l) /\ r.sent = clock[r.server]
      BY <2>1, CallFields, SMTT(20)
    <3> QED
      BY <1>1, <3>1, SMT
  <2> QED
    BY <2>2, <2>3 DEF NewRequests
<1>3. ASSUME NEW l \in Leases, pc'[l] \in {"released", "failed"}, AbandonAndRelease(l),
             UNCHANGED opStart
      PROVE  NewRequests
  <2>1. \A r \in requests' \ requests : r \in Releases(l)
    BY <1>3 DEF AbandonAndRelease
  <2> QED
    <3>1. \A r \in Releases(l) : /\ r.start = 0 /\ r.lease = l /\ r.sent = clock[r.server]
      BY CallFields, SMTT(20) DEF Releases
    <3> QED
      BY <1>1, <1>3, <2>1, <3>1, SMT DEF NewRequests
<1>4. ASSUME NEW l \in Leases, Release(l) \/ FailAcquire(l)
      PROVE  NewRequests
  <2>1. pc'[l] \in {"released", "failed"} /\ AbandonAndRelease(l) /\ UNCHANGED opStart
    BY <1>4 DEF Release, FailAcquire, TypeOK
  <2> QED
    BY <1>3, <2>1
<1>5. ASSUME UNCHANGED <<requests, opStart>>
      PROVE  NewRequests
  BY <1>5 DEF NewRequests
<1>6. ASSUME NEW l \in Leases, HealReplicas(l)
      PROVE  NewRequests
  <2>1. \A r \in requests' \ requests :
          r \in Calls(l, batches[l] + 1, "heal", requestedTTL[l], opStart[l], healTargets[l])
    BY <1>6 DEF HealReplicas
  <2>2. \A r \in requests' \ requests :
          r.lease = l /\ r.start = opStart[l] /\ r.sent = clock[r.server] /\ r.kind = "heal"
    BY <2>1, CallFields, SMTT(20)
  <2>3. UNCHANGED opStart
    BY <1>6 DEF HealReplicas
  <2> QED
    BY <1>1, <2>2, <2>3 DEF NewRequests
<1>7. ASSUME NEW r \in Request, NEW m, NEW candidates, NEW confirmed,
             AcquireContinues(r, m, candidates, confirmed)
      PROVE  NewRequests
  <2>1. r.lease \in Leases
    BY DEF Request
  <2> QED
    BY <1>4, <1>5, <1>7, <2>1 DEF AcquireContinues
<1>8. ASSUME NEW m \in responses, AcquireResponse(m) \/ RenewResponse(m) \/ BackgroundResponse(m)
      PROVE  NewRequests
  <2>1. m.request \in Request
    BY DEF TypeOK, Response
  <2> QED
    BY <1>5, <1>7, <1>8, <2>1
       DEF AcquireResponse, RenewResponse, BackgroundResponse, QuorumReached, RenewContinues
<1>9. ASSUME NEW r \in pending, CallFails(r)
      PROVE  NewRequests
  <2>1. r \in Request
    BY DEF TypeOK
  <2> QED
    BY <1>5, <1>7, <1>9, <2>1 DEF CallFails, RenewContinues
<1>10. ASSUME NEW l \in Leases, CancelRenew(l) \/ HealingTargets(l)
      PROVE  NewRequests
  BY <1>5, <1>10 DEF CancelRenew, HealingTargets, networkVars
<1>11. ASSUME SingleStep
       PROVE  NewRequests
  <2>1. PICK r \in Request : FailAcquire(r.lease) \/ \E v \in Nat : SingleReturns(r, v)
    BY <1>11, SingleCases
  <2>2. r.lease \in Leases
    BY DEF Request
  <2> QED
    BY <1>4, <1>5, <2>1, <2>2 DEF SingleReturns, EndCall
<1>12. ASSUME NEW l \in Leases, RenewRefused(l)
       PROVE  NewRequests
  <2>1. \A k \in Leases : opStart'[k] \in {opStart[k], OwnClock(k)}
    BY <1>12 DEF TypeOK, RenewRefused
  <2>2. UNCHANGED requests
    BY <1>12 DEF RenewRefused, networkVars
  <2> QED
    BY <2>1, <2>2 DEF NewRequests
<1> QED
  BY <1>2, <1>4, <1>6, <1>8, <1>9, <1>10, <1>11, <1>12
     DEF ClientSide, ClientStep, CancelAcquire, AcquireRefused, SingleStep

LEMMA StartsStep ==
  ASSUME TypeOK, ClocksClose, StartsPast, [Next]_vars, TypeOK'
  PROVE  StartsPast'
<1>1. \A l \in Leases : OwnClock(l) \in Nat /\ opStart[l] \in Nat
  BY LeaseClient DEF TypeOK, OwnClock, Nodes
<1>2. \A r \in requests : r.lease \in Leases /\ r.start \in Nat /\ r.sent \in Nat
  BY DEF TypeOK, Request
<1>3. CASE Tick
  <2>1. \A l \in Leases : OwnClock(l)' \in Nat /\ OwnClock(l)' >= OwnClock(l)
    BY <1>3, LeaseClient DEF Tick, OwnClock, Nodes, TypeOK
  <2>2. UNCHANGED <<opStart, requests, pc>>
    BY <1>3 DEF Tick, leaseVars, networkVars
  <2> QED
    BY <1>1, <1>2, <2>1, <2>2, SMT DEF StartsPast
<1>4. CASE ServerSide
  <2>1. UNCHANGED <<clock, opStart, pc>> /\ requests' \subseteq requests
    BY <1>4, ServerFrame DEF timeVars, leaseVars
  <2> QED
    BY <2>1 DEF StartsPast, OwnClock
<1>5. CASE ClientSide
  <2>1. NewRequests
    BY <1>5, ClientRequests
  <2>2. UNCHANGED clock /\ \A l \in Leases : pc[l] \in {"released", "failed"} => pc'[l] = pc[l]
    BY <1>5, ClientFrame DEF timeVars
  <2>3. \A r \in requests' : r.lease \in Leases /\ r.server \in Servers
    BY DEF TypeOK, Request
  <2>4. \A r \in requests' \ requests : r.start \in Nat /\ r.start <= clock[r.server] + Drift
    <3> SUFFICES ASSUME NEW r \in requests' \ requests
                 PROVE  r.start \in Nat /\ r.start <= clock[r.server] + Drift
      OBVIOUS
    <3>1. r.start \in Nat /\ r.start <= OwnClock(r.lease)
      BY <2>1 DEF NewRequests, TypeOK, Request
    <3> QED
      BY <2>3, <3>1, OwnClockClose, Constants, SMT
  <2> QED
    BY <1>1, <1>2, <2>1, <2>2, <2>3, <2>4, SMT DEF StartsPast, NewRequests, OwnClock
<1>6. CASE UNCHANGED vars
  BY <1>6 DEF StartsPast, OwnClock, vars, timeVars, networkVars, leaseVars
<1> QED
  BY <1>3, <1>4, <1>5, <1>6, NextSides

\* A success sent by a handler is justified from the moment it is sent.
LEMMA ResponseJustified ==
  ASSUME TypeOK, ClocksClose, StartsPast, TypeOK', NEW r \in requests,
         NEW t \in r.sent..clock[r.server], NEW id \in Leases \cup {NoLease}, NEW until \in Nat,
         NEW status \in Statuses, NEW ttl \in Nat,
         HandlerEffect(r, t, id, until, status, ttl), IsSuccessfulAcquire(status)
  PROVE  Justified(r.server, r.lease, CandidateValidUntil(r.start, ttl))'
<1> DEFINE s == r.server
           l == r.lease
           time == CandidateValidUntil(r.start, ttl)
<1>1. /\ s \in Servers /\ l \in Leases /\ r.start \in Nat /\ r.sent \in Nat /\ clock[s] \in Nat
      /\ OwnClock(l) \in Nat /\ r.start <= OwnClock(l) /\ r.start <= r.sent + Drift
  BY LeaseClient DEF TypeOK, StartsPast, Request, Nodes, OwnClock
<1>2. UNCHANGED clock
  BY DEF HandlerEffect, FinishApply, timeVars
<1>3. /\ time \in Nat /\ time <= r.start + Ticks(MaxTTLMS)
      /\ time = r.start \/ time + Ticks(SafetyMarginMS) = r.start + Ticks(ttl)
  BY <1>1, CandidateBounds
<1> HIDE DEF time
<1>4. time <= OwnClock(l) + Ticks(MaxTTLMS)
  BY <1>1, <1>3, Constants, SMT
<1>5. CASE time = r.start
  <2>1. OwnClock(l)' = OwnClock(l) /\ OwnClock(l) >= time
    BY <1>1, <1>2, <1>5 DEF OwnClock
  <2> QED
    BY <1>4, <2>1 DEF Justified, Protects, time
<1>6. CASE time # r.start /\ ttl = 0
  <2>1. time <= r.start
    BY <1>1, <1>3, <1>6, Constants, LeaseRulesAssumption, SMT DEF Ticks
  <2> QED
    <3>1. OwnClock(l)' = OwnClock(l) /\ OwnClock(l) >= time
      BY <1>1, <1>2, <1>3, <2>1, SMT DEF OwnClock
    <3> QED
      BY <1>4, <3>1 DEF Justified, Protects, time
<1>7. CASE time # r.start /\ ttl # 0
  <2>1. id = l /\ t + Ticks(ttl) <= until
    BY <1>7 DEF HandlerEffect
  <2>2. t \in Nat /\ r.sent <= t /\ Ticks(ttl) \in Nat
    BY <1>1, TicksNat, SMT
  <2>3. until + Drift >= time + Ticks(SafetyMarginMS)
    BY <1>1, <1>3, <1>7, <2>1, <2>2, Constants, SMT
  <2>4. phase'[s] = "active" /\ holder'[s] = l /\ deadline'[s] = until
    <3>1. /\ phase' = phase /\ phase[s] = "active" /\ holder' = [holder EXCEPT ![s] = id]
          /\ deadline' = [deadline EXCEPT ![s] = until]
      BY DEF HandlerEffect, FinishApply
    <3> QED
      BY <1>1, <2>1, <3>1 DEF TypeOK
  <2> QED
    BY <1>2, <1>4, <2>3, <2>4 DEF Justified, Protects, OwnClock, time
<1> QED
  BY <1>5, <1>6, <1>7

-----------------------------------------------------------------------------
(* What a client step makes of the times a client has. *)

\* A time the client of l has from server s: none, one it remembers, or one in a
\* response to it.
Supported(l, s, until) ==
  \/ until \in {0, candidate[l][s], confirmedUntil[l][s]}
  \/ \E m \in responses :
       /\ IsSuccessfulAcquire(m.status) /\ m.request.lease = l /\ m.request.server = s
       /\ until = CandidateValidUntil(m.request.start, m.ttl)

LEMMA SupportedJustified ==
  ASSUME TypeOK, Protection, NEW l \in Leases, NEW s \in Servers, NEW until,
         Supported(l, s, until)
  PROVE  until \in Nat /\ Justified(s, l, until)
<1>1. CASE until = 0
  <2>1. OwnClock(l) \in Nat
    BY LeaseClient DEF TypeOK, OwnClock, Nodes
  <2> QED
    BY <1>1, <2>1, JustifiedPast, SMT
<1>2. CASE until \in {candidate[l][s], confirmedUntil[l][s]}
  BY <1>2, SMT DEF TypeOK, Protection
<1>3. ASSUME NEW m \in responses, IsSuccessfulAcquire(m.status), m.request.lease = l,
             m.request.server = s, until = CandidateValidUntil(m.request.start, m.ttl)
      PROVE  until \in Nat /\ Justified(s, l, until)
  <2>1. m.request.start \in Nat /\ m.ttl \in Nat
    BY DEF TypeOK, Response, Request
  <2> QED
    BY <1>3, <2>1, CandidateBounds DEF Protection
<1> QED
  BY <1>1, <1>2, <1>3 DEF Supported

\* The same for what a step leaves in the client's memory.
SupportedStep ==
  \A l \in Leases, s \in Servers :
    Supported(l, s, candidate'[l][s]) /\ Supported(l, s, confirmedUntil'[l][s])

ValidityStep ==
  \A l \in Leases : Owned(l)' =>
    \/ Owned(l) /\ validUntil'[l] = validUntil[l]
    \/ \E Q \in SUBSET Servers :
         /\ Cardinality(Q) >= QuorumSize
         /\ \A s \in Q : \E until \in Nat : until >= validUntil'[l] /\ Supported(l, s, until)

LEMMA ConfirmedSupported ==
  ASSUME TypeOK, NEW m \in responses, NEW l \in Leases, NEW s \in Servers
  PROVE  Supported(l, s, ConfirmedAfter(m)[l][s])
<1>1. m.request.lease \in Leases /\ m.request.server \in Servers
  BY DEF TypeOK, Response, Request
<1>2. m.status = "OK" => IsSuccessfulAcquire(m.status)
  BY DEF IsSuccessfulAcquire
<1> QED
  BY <1>1, <1>2 DEF TypeOK, Supported, ConfirmedAfter, MarkConfirmed, ClearConfirmed

LEMMA CandidatesSupported ==
  ASSUME TypeOK, NEW m \in responses, IsSuccessfulAcquire(m.status), NEW s \in Servers
  PROVE  Supported(m.request.lease, s, CandidatesWith(m)[s])
<1>1. m.request.lease \in Leases /\ m.request.server \in Servers
  BY DEF TypeOK, Response, Request
<1> QED
  BY <1>1 DEF TypeOK, Supported, CandidatesWith

LEMMA RememberedSupported ==
  \A l \in Leases, s \in Servers :
    /\ Supported(l, s, 0)
    /\ Supported(l, s, candidate[l][s]) /\ Supported(l, s, confirmedUntil[l][s])
  BY DEF Supported

LEMMA AbandonSupported ==
  ASSUME TypeOK, NEW l \in Leases, AbandonAndRelease(l), UNCHANGED <<timeVars, serverVars>>,
         NEW stage \in {"released", "failed"}, pc' = [pc EXCEPT ![l] = stage]
  PROVE  SupportedStep /\ ValidityStep
<1>1. SupportedStep
  BY DEF TypeOK, AbandonAndRelease, SupportedStep, Supported, ZeroTimes
<1>2. ValidityStep
  BY DEF TypeOK, AbandonAndRelease, ValidityStep, Owned
<1> QED
  BY <1>1, <1>2

LEMMA AcquireContinuesSupported ==
  ASSUME TypeOK, NEW r \in Request, NEW m, NEW candidates \in [Servers -> Nat],
         NEW confirmed \in [Leases -> [Servers -> Nat]],
         \A s \in Servers : Supported(r.lease, s, candidates[s]),
         \A l \in Leases, s \in Servers : Supported(l, s, confirmed[l][s]),
         AcquireContinues(r, m, candidates, confirmed)
  PROVE  SupportedStep /\ ValidityStep
<1>1. r.lease \in Leases
  BY DEF Request
<1>2. CASE FailAcquire(r.lease)
  BY <1>1, <1>2, AbandonSupported DEF FailAcquire
<1>3. CASE /\ candidate' = [candidate EXCEPT ![r.lease] = candidates]
           /\ confirmedUntil' = confirmed
           /\ UNCHANGED <<pc, validUntil>>
  <2>1. SupportedStep
    <3>1. \A l \in Leases, s \in Servers :
            candidate'[l][s] = IF l = r.lease THEN candidates[s] ELSE candidate[l][s]
      BY <1>1, <1>3 DEF TypeOK
    <3>2. ASSUME NEW l \in Leases, NEW s \in Servers
          PROVE  Supported(l, s, candidate'[l][s]) /\ Supported(l, s, confirmedUntil'[l][s])
      <4>1. CASE l = r.lease
        <5>1. candidate'[l][s] = candidates[s]
          BY <3>1, <4>1
        <5> QED BY <1>3, <4>1, <5>1
      <4>2. CASE l # r.lease
        <5>1. candidate'[l][s] = candidate[l][s]
          BY <3>1, <4>2
        <5> QED BY <1>3, <5>1, RememberedSupported
      <4> QED BY <4>1, <4>2
    <3> QED
      BY <3>2 DEF SupportedStep
  <2>2. ValidityStep
    BY <1>3 DEF ValidityStep, Owned
  <2> QED
    BY <2>1, <2>2
<1> QED
  BY <1>2, <1>3 DEF AcquireContinues

LEMMA RenewContinuesSupported ==
  ASSUME TypeOK, NEW r \in Request, NEW m, NEW candidates \in [Servers -> Nat],
         NEW confirmed \in [Leases -> [Servers -> Nat]],
         \A s \in Servers : Supported(r.lease, s, candidates[s]),
         \A l \in Leases, s \in Servers : Supported(l, s, confirmed[l][s]),
         pc[r.lease] = "renewing", RenewContinues(r, m, candidates, confirmed)
  PROVE  SupportedStep /\ ValidityStep
<1>1. r.lease \in Leases
  BY DEF Request
<1>2. SupportedStep
  <2>1. \A l \in Leases, s \in Servers :
          candidate'[l][s] \in IF l = r.lease THEN {candidates[s], 0} ELSE {candidate[l][s]}
    BY <1>1 DEF TypeOK, RenewContinues, ZeroTimes
  <2>2. confirmedUntil' = confirmed
    BY DEF RenewContinues
  <2> QED
    BY <2>1, <2>2, RememberedSupported DEF SupportedStep
<1>3. ValidityStep
  BY <1>1 DEF TypeOK, RenewContinues, ValidityStep, Owned
<1> QED
  BY <1>2, <1>3

\* A quorum among supported candidates, or the validity there was before.
LEMMA QuorumReachedSupported ==
  ASSUME TypeOK, NEW m \in responses, NEW candidates \in [Servers -> Nat],
         \A s \in Servers : Supported(m.request.lease, s, candidates[s]),
         NEW until \in Nat, QuorumReached(m, until),
         \/ until \in BestAcquireQuorum(candidates)
         \/ Owned(m.request.lease) /\ until = validUntil[m.request.lease]
  PROVE  SupportedStep /\ ValidityStep
<1>1. m.request.lease \in Leases
  BY DEF TypeOK, Response, Request
<1>2. SupportedStep
  <2>1. confirmedUntil' = ConfirmedAfter(m)
        /\ candidate' = [candidate EXCEPT ![m.request.lease] = ZeroTimes]
    BY DEF QuorumReached
  <2>2. \A l \in Leases, s \in Servers :
          candidate'[l][s] \in {candidate[l][s], 0}
    BY <1>1, <2>1 DEF TypeOK, ZeroTimes
  <2>3. \A l \in Leases, s \in Servers : Supported(l, s, ConfirmedAfter(m)[l][s])
    BY ConfirmedSupported
  <2> QED
    BY <2>1, <2>2, <2>3, RememberedSupported DEF SupportedStep
<1>3. /\ pc' = [pc EXCEPT ![m.request.lease] = "active"]
      /\ validUntil' = [validUntil EXCEPT ![m.request.lease] = until]
  BY DEF QuorumReached
<1>4. CASE until \in BestAcquireQuorum(candidates)
  <2> DEFINE Q == {s \in Servers : candidates[s] >= until}
  <2>1. Q \in SUBSET Servers /\ Cardinality(Q) >= QuorumSize
    BY <1>4 DEF BestAcquireQuorum
  <2>2. \A s \in Q : \E u \in Nat : u >= until /\ Supported(m.request.lease, s, u)
    OBVIOUS
  <2> HIDE DEF Q
  <2>3. ASSUME NEW l \in Leases, Owned(l)'
        PROVE  \/ Owned(l) /\ validUntil'[l] = validUntil[l]
               \/ \E P \in SUBSET Servers :
                    /\ Cardinality(P) >= QuorumSize
                    /\ \A s \in P : \E u \in Nat : u >= validUntil'[l] /\ Supported(l, s, u)
    <3>1. CASE l = m.request.lease
      <4>1. validUntil'[l] = until
        BY <1>1, <1>3, <3>1 DEF TypeOK
      <4> QED
        BY <2>1, <2>2, <3>1, <4>1
    <3>2. CASE l # m.request.lease
      BY <1>1, <1>3, <2>3, <3>2 DEF TypeOK, Owned
    <3> QED
      BY <3>1, <3>2
  <2> QED
    BY <1>2, <2>3 DEF ValidityStep
<1>5. CASE Owned(m.request.lease) /\ until = validUntil[m.request.lease]
  <2>1. ValidityStep
    BY <1>1, <1>3, <1>5 DEF TypeOK, ValidityStep, Owned
  <2> QED
    BY <1>2, <2>1
<1> QED
  BY <1>4, <1>5

INSTANCE FiniteSetTheorems

-----------------------------------------------------------------------------
(* Every time a client remembers comes from a server. *)

\* The only server is a quorum of a single-server client.
LEMMA SingleSupported ==
  ASSUME TypeOK, SingleStep
  PROVE  SupportedStep /\ ValidityStep
<1>1. PICK r \in Request : /\ IsSingle(r.lease)
                           /\ \/ FailAcquire(r.lease)
                              \/ \E v \in Nat : SingleReturns(r, v) /\ SingleValidity(r, v)
  BY SingleCases
<1>2. r.lease \in Leases /\ r.server \in Servers
  BY DEF Request
<1>3. CASE FailAcquire(r.lease)
  BY <1>2, <1>3, AbandonSupported DEF FailAcquire
<1>4. ASSUME NEW v \in Nat, SingleReturns(r, v), SingleValidity(r, v)
      PROVE  SupportedStep /\ ValidityStep
  <2>1. SupportedStep
    BY <1>4, RememberedSupported DEF SingleReturns, EndCall, SupportedStep
  <2>2. /\ pc' = [pc EXCEPT ![r.lease] = "active"]
        /\ validUntil' = [validUntil EXCEPT ![r.lease] = v]
    BY <1>4 DEF SingleReturns
  <2>3. CASE pc[r.lease] = "renewing" /\ v = validUntil[r.lease]
    BY <1>2, <2>1, <2>2, <2>3 DEF TypeOK, ValidityStep, Owned
  <2>4. CASE Supported(r.lease, r.server, v)
    <3> DEFINE Q == {r.server}
    <3>1. Q \in SUBSET Servers /\ Cardinality(Q) >= QuorumSize
      <4>1. QuorumSize = 1
        BY <1>1, RedLeaseAssumption DEF IsSingle
      <4> QED
        BY <1>2, <4>1, FS_Singleton, SMTT(40)
    <3>2. \A s \in Q : \E u \in Nat : u >= v /\ Supported(r.lease, s, u)
      BY <2>4, SMT
    <3> HIDE DEF Q
    <3>3. ASSUME NEW l \in Leases, Owned(l)'
          PROVE  \/ Owned(l) /\ validUntil'[l] = validUntil[l]
                 \/ \E P \in SUBSET Servers :
                      /\ Cardinality(P) >= QuorumSize
                      /\ \A s \in P : \E u \in Nat : u >= validUntil'[l] /\ Supported(l, s, u)
      <4>1. CASE l = r.lease
        <5>1. validUntil'[l] = v
          BY <1>2, <2>2, <4>1 DEF TypeOK
        <5> QED
          BY <3>1, <3>2, <4>1, <5>1
      <4>2. CASE l # r.lease
        BY <1>2, <2>2, <3>3, <4>2 DEF TypeOK, Owned
      <4> QED
        BY <4>1, <4>2
    <3> QED
      BY <2>1, <3>3 DEF ValidityStep
  <2>5. SingleValidity(r, v) => \/ pc[r.lease] = "renewing" /\ v = validUntil[r.lease]
                               \/ Supported(r.lease, r.server, v)
    BY DEF SingleValidity, Supported
  <2> QED
    BY <1>4, <2>3, <2>4, <2>5
<1> QED
  BY <1>1, <1>3, <1>4

LEMMA ClientSupported ==
  ASSUME TypeOK, ClientSide
  PROVE  SupportedStep /\ ValidityStep
<1>1. ASSUME UNCHANGED <<candidate, confirmedUntil, validUntil>>,
             \A l \in Leases : Owned(l)' => Owned(l)
      PROVE  SupportedStep /\ ValidityStep
  BY <1>1, RememberedSupported DEF SupportedStep, ValidityStep
<1>2. ASSUME NEW l \in Leases, NEW ttl \in RequestTTLs, NEW refused \in SUBSET Servers,
             Acquire(l, ttl, refused) \/ Renew(l, ttl, refused)
      PROVE  SupportedStep /\ ValidityStep
  <2>1. CASE Acquire(l, ttl, refused)
    BY <1>1, <2>1 DEF Acquire, Owned, TypeOK
  <2>2. CASE Renew(l, ttl, refused)
    <3>1. confirmedUntil' = ClearRefused(l, refused) /\ candidate' = candidate
      BY <2>2 DEF Renew
    <3>2. \A k \in Leases, s \in Servers : confirmedUntil'[k][s] \in {0, confirmedUntil[k][s]}
      BY <3>1, ClearRefusedTimes
    <3>3. SupportedStep
      BY <3>1, <3>2, RememberedSupported DEF SupportedStep
    <3>4. ValidityStep
      BY <2>2 DEF Renew, ValidityStep, Owned, TypeOK
    <3> QED
      BY <3>3, <3>4
  <2> QED
    BY <1>2, <2>1, <2>2
<1>3. ASSUME NEW l \in Leases, HealingTargets(l) \/ HealReplicas(l)
      PROVE  SupportedStep /\ ValidityStep
  BY <1>1, <1>3 DEF HealingTargets, HealReplicas, Owned
<1>4. ASSUME NEW l \in Leases, Release(l) \/ CancelAcquire(l) \/ AcquireRefused(l)
      PROVE  SupportedStep /\ ValidityStep
  BY <1>4, AbandonSupported DEF Release, CancelAcquire, AcquireRefused, FailAcquire
<1>5. ASSUME NEW l \in Leases, CancelRenew(l)
      PROVE  SupportedStep /\ ValidityStep
  <2>1. SupportedStep
    BY <1>5, RememberedSupported DEF CancelRenew, SupportedStep, ZeroTimes, TypeOK
  <2>2. ValidityStep
    BY <1>5 DEF CancelRenew, ValidityStep, Owned, TypeOK
  <2> QED
    BY <2>1, <2>2
<1>6. ASSUME NEW m \in responses, AcquireResponse(m) \/ RenewResponse(m)
      PROVE  SupportedStep /\ ValidityStep
  <2> DEFINE l == m.request.lease
             success == IF pc[l] = "acquiring" THEN IsSuccessfulAcquire(m.status)
                                               ELSE m.status = "OK"
             candidates == IF success THEN CandidatesWith(m) ELSE candidate[l]
             times == {v \in BestAcquireQuorum(candidates) : success /\ OwnClock(l) < v}
  <2>1. m.request \in Request /\ l \in Leases
    BY DEF TypeOK, Response, Request
  <2>2. candidates \in [Servers -> Nat] /\ times \subseteq Nat /\ validUntil[l] \in Nat
    <3>1. candidates \in [Servers -> Nat] /\ validUntil[l] \in Nat
      BY <2>1, CandidatesWithType DEF TypeOK
    <3> HIDE DEF candidates, success
    <3>2. BestAcquireQuorum(candidates) \subseteq Nat
      BY <3>1 DEF BestAcquireQuorum
    <3> QED
      BY <3>1, <3>2
  <2>3. \A s \in Servers : Supported(l, s, candidates[s])
    BY <2>1, CandidatesSupported, RememberedSupported DEF IsSuccessfulAcquire
  <2>4. /\ ConfirmedAfter(m) \in [Leases -> [Servers -> Nat]]
        /\ \A k \in Leases, s \in Servers : Supported(k, s, ConfirmedAfter(m)[k][s])
    BY ConfirmedAfterType, ConfirmedSupported
  <2>5. CASE AcquireResponse(m)
    <3>1. \/ \E v \in times : QuorumReached(m, v)
          \/ AcquireContinues(m.request, {m}, candidates, ConfirmedAfter(m))
      BY <2>5 DEF AcquireResponse
    <3> HIDE DEF candidates, success
    <3> QED
      BY <2>1, <2>2, <2>3, <2>4, <3>1, QuorumReachedSupported, AcquireContinuesSupported
  <2>6. CASE RenewResponse(m)
    <3>1. \/ \E v \in times : QuorumReached(m, RenewedUntil(l, v))
          \/ RenewContinues(m.request, {m}, candidates, ConfirmedAfter(m))
      BY <2>6 DEF RenewResponse
    <3>2. pc[l] = "renewing" /\ Owned(l)
      BY <2>6 DEF RenewResponse, Owned
    <3> HIDE DEF candidates, success
    <3>3. \A v \in times : RenewedUntil(l, v) \in Nat
            /\ (RenewedUntil(l, v) \in BestAcquireQuorum(candidates)
                \/ RenewedUntil(l, v) = validUntil[l])
      BY <2>2 DEF RenewedUntil
    <3> QED
      BY <2>1, <2>2, <2>3, <2>4, <3>1, <3>2, <3>3, QuorumReachedSupported,
         RenewContinuesSupported
  <2> QED
    BY <1>6, <2>5, <2>6
<1>7. ASSUME NEW m \in responses, BackgroundResponse(m)
      PROVE  SupportedStep /\ ValidityStep
  <2>1. SupportedStep
    BY <1>7, ConfirmedSupported, RememberedSupported DEF BackgroundResponse, SupportedStep
  <2>2. ValidityStep
    BY <1>7 DEF BackgroundResponse, ValidityStep, Owned
  <2> QED
    BY <2>1, <2>2
<1>8. ASSUME NEW r \in pending, CallFails(r)
      PROVE  SupportedStep /\ ValidityStep
  <2> DEFINE confirmed == IF r.kind = "renew" THEN ClearConfirmed(r.lease, r.server)
                                              ELSE confirmedUntil
             arrived == {m \in responses : m.request = r}
  <2>1. r \in Request /\ r.lease \in Leases /\ r.server \in Servers
    BY DEF TypeOK, Request
  <2>2. /\ confirmed \in [Leases -> [Servers -> Nat]]
        /\ \A k \in Leases, s \in Servers : Supported(k, s, confirmed[k][s])
    BY <2>1, RememberedSupported DEF TypeOK, ClearConfirmed
  <2>3. /\ candidate[r.lease] \in [Servers -> Nat]
        /\ \A s \in Servers : Supported(r.lease, s, candidate[r.lease][s])
    BY <2>1, RememberedSupported DEF TypeOK
  <2>4. \/ AcquireContinues(r, arrived, candidate[r.lease], confirmed)
        \/ pc[r.lease] = "renewing" /\ RenewContinues(r, arrived, candidate[r.lease], confirmed)
        \/ confirmedUntil' = confirmed /\ UNCHANGED <<pc, candidate, validUntil>>
    BY <1>8 DEF CallFails
  <2> HIDE DEF confirmed, arrived
  <2>5. CASE confirmedUntil' = confirmed /\ UNCHANGED <<pc, candidate, validUntil>>
    BY <2>2, <2>5, RememberedSupported DEF SupportedStep, ValidityStep, Owned
  <2> QED
    BY <2>1, <2>2, <2>3, <2>4, <2>5, AcquireContinuesSupported, RenewContinuesSupported
<1>9. ASSUME SingleStep
      PROVE  SupportedStep /\ ValidityStep
  BY <1>9, SingleSupported
<1>10. ASSUME NEW l \in Leases, RenewRefused(l)
       PROVE  SupportedStep /\ ValidityStep
  <2>1. SupportedStep
    BY <1>10, RememberedSupported DEF RenewRefused, SupportedStep, ZeroTimes, TypeOK
  <2>2. ValidityStep
    BY <1>10 DEF RenewRefused, ValidityStep, Owned
  <2> QED
    BY <2>1, <2>2
<1> QED
  BY <1>2, <1>3, <1>4, <1>5, <1>6, <1>7, <1>8, <1>9, <1>10 DEF ClientSide, ClientStep, SingleStep

-----------------------------------------------------------------------------
(* Protection is preserved. *)

LEMMA ProtectionStep ==
  ASSUME IInv, [Next]_vars, TypeOK', ClocksClose'
  PROVE  Protection'
<1>1. \A l \in Leases, s \in Servers, until \in Nat :
        Justified(s, l, until) => Justified(s, l, until)'
  BY JustifiedStable DEF IInv
<1>2. \A m \in responses : /\ m.request.lease \in Leases /\ m.request.server \in Servers
                           /\ CandidateValidUntil(m.request.start, m.ttl) \in Nat
  <2> SUFFICES ASSUME NEW m \in responses
               PROVE  /\ m.request.lease \in Leases /\ m.request.server \in Servers
                      /\ CandidateValidUntil(m.request.start, m.ttl) \in Nat
    OBVIOUS
  <2>1. /\ m.request.lease \in Leases /\ m.request.server \in Servers
        /\ m.request.start \in Nat /\ m.ttl \in Nat
    BY DEF IInv, TypeOK, Response, Request
  <2> QED
    BY <2>1, CandidateBounds
<1>3. \A m \in responses : IsSuccessfulAcquire(m.status) =>
        Justified(m.request.server, m.request.lease,
                  CandidateValidUntil(m.request.start, m.ttl))'
  BY <1>1, <1>2 DEF IInv, Protection
<1>4. ASSUME NEW m \in responses', IsSuccessfulAcquire(m.status)
      PROVE  Justified(m.request.server, m.request.lease,
                       CandidateValidUntil(m.request.start, m.ttl))'
  <2>1. CASE m \in responses
    BY <1>3, <1>4, <2>1
  <2>2. CASE m \notin responses
    <3>1. ServerSide
      BY <2>2, NextSides, ClientFrame DEF IInv, Tick, vars, networkVars
    <3>2. ~\E s \in Servers : Restart(s) \/ EndQuarantine(s) \/ RemoveExpired(s)
      BY <2>2 DEF Restart, EndQuarantine, RemoveExpired, networkVars
    <3>3. ~\E r \in requests : RejectNotReady(r)
      BY <1>4, <2>2, SMT DEF RejectNotReady, Respond, IsSuccessfulAcquire
    <3>4. PICK r \in requests : \E t \in r.sent..clock[r.server] :
            \E id \in Leases \cup {NoLease}, until \in Nat, status \in Statuses, ttl \in Nat :
              HandlerEffect(r, t, id, until, status, ttl)
      BY <3>1, <3>2, <3>3, ServerCases DEF IInv
    <3>5. PICK t \in r.sent..clock[r.server], id \in Leases \cup {NoLease}, until \in Nat,
               status \in Statuses, ttl \in Nat : HandlerEffect(r, t, id, until, status, ttl)
      BY <3>4
    <3>6. m = [request |-> r, status |-> status, ttl |-> ttl]
      BY <2>2, <3>5 DEF HandlerEffect, FinishApply, Respond
    <3>7. m.request = r /\ m.status = status /\ m.ttl = ttl
      BY <3>6
    <3>8. Justified(r.server, r.lease, CandidateValidUntil(r.start, ttl))'
      BY <1>4, <3>5, <3>7, ResponseJustified DEF IInv
    <3> QED
      BY <3>7, <3>8
  <2> QED
    BY <2>1, <2>2
<1>5. CASE ClientSide
  <2>1. SupportedStep /\ ValidityStep
    BY <1>5, ClientSupported DEF IInv
  <2>2. \A l \in Leases, s \in Servers : \A until :
          Supported(l, s, until) => until \in Nat /\ Justified(s, l, until)
    BY SupportedJustified DEF IInv
  <2>3. ASSUME NEW l \in Leases, NEW s \in Servers
        PROVE  Justified(s, l, candidate[l][s])' /\ Justified(s, l, confirmedUntil[l][s])'
    <3>1. PICK c \in Nat : c = candidate'[l][s] /\ Justified(s, l, c)
      BY <2>1, <2>2 DEF SupportedStep
    <3>2. PICK d \in Nat : d = confirmedUntil'[l][s] /\ Justified(s, l, d)
      BY <2>1, <2>2 DEF SupportedStep
    <3>3. Justified(s, l, c)' /\ Justified(s, l, d)'
      BY <1>1, <3>1, <3>2
    <3> QED
      BY <3>1, <3>2, <3>3
  <2>4. ASSUME NEW l \in Leases, Owned(l)'
        PROVE  \E Q \in SUBSET Servers : /\ Cardinality(Q) >= QuorumSize
                                         /\ \A s \in Q : Justified(s, l, validUntil[l])'
    <3>1. PICK v \in Nat : v = validUntil'[l]
      BY DEF TypeOK
    <3>2. CASE Owned(l) /\ validUntil'[l] = validUntil[l]
      <4>1. PICK Q \in SUBSET Servers : /\ Cardinality(Q) >= QuorumSize
                                        /\ \A s \in Q : Justified(s, l, v)
        BY <3>1, <3>2 DEF IInv, Protection
      <4>2. \A s \in Q : Justified(s, l, v)'
        BY <1>1, <4>1
      <4> QED
        BY <3>1, <4>1, <4>2
    <3>3. CASE ~(Owned(l) /\ validUntil'[l] = validUntil[l])
      <4>1. PICK Q \in SUBSET Servers :
              /\ Cardinality(Q) >= QuorumSize
              /\ \A s \in Q : \E u \in Nat : u >= v /\ Supported(l, s, u)
        BY <2>1, <2>4, <3>1, <3>3 DEF ValidityStep
      <4>2. ASSUME NEW s \in Q
            PROVE  Justified(s, l, v)
        <5>1. PICK u \in Nat : u >= v /\ Supported(l, s, u)
          BY <4>1
        <5> QED
          BY <2>2, <5>1, JustifiedEarlier DEF IInv
      <4>3. \A s \in Q : Justified(s, l, v)'
        BY <1>1, <4>2
      <4> QED
        BY <3>1, <4>1, <4>3
    <3> QED
      BY <3>2, <3>3
  <2> QED
    BY <1>4, <2>3, <2>4 DEF Protection
<1>6. CASE ~ClientSide
  <2>1. UNCHANGED <<candidate, confirmedUntil, validUntil, pc>>
    BY <1>6, NextSides, ServerFrame DEF IInv, Tick, vars, leaseVars
  <2>2. \A l \in Leases : validUntil[l] \in Nat
    BY DEF IInv, TypeOK
  <2>3. \A l \in Leases, s \in Servers : candidate[l][s] \in Nat /\ confirmedUntil[l][s] \in Nat
    BY SMT DEF IInv, TypeOK
  <2>4. \A l \in Leases, s \in Servers :
          Justified(s, l, candidate[l][s])' /\ Justified(s, l, confirmedUntil[l][s])'
    <3> SUFFICES ASSUME NEW l \in Leases, NEW s \in Servers
                 PROVE  Justified(s, l, candidate[l][s])'
                        /\ Justified(s, l, confirmedUntil[l][s])'
      OBVIOUS
    <3>1. PICK c \in Nat, d \in Nat : c = candidate[l][s] /\ d = confirmedUntil[l][s]
      BY <2>3
    <3>2. Justified(s, l, c)' /\ Justified(s, l, d)'
      BY <1>1, <3>1 DEF IInv, Protection
    <3> QED
      BY <2>1, <3>1, <3>2
  <2>5. ASSUME NEW l \in Leases, Owned(l)'
        PROVE  \E Q \in SUBSET Servers : /\ Cardinality(Q) >= QuorumSize
                                         /\ \A s \in Q : Justified(s, l, validUntil[l])'
    <3>1. PICK v \in Nat : v = validUntil[l]
      BY <2>2
    <3>2. PICK Q \in SUBSET Servers : /\ Cardinality(Q) >= QuorumSize
                                      /\ \A s \in Q : Justified(s, l, v)
      BY <2>1, <2>5, <3>1 DEF IInv, Protection, Owned
    <3>3. \A s \in Q : Justified(s, l, v)'
      BY <1>1, <3>2
    <3> QED
      BY <2>1, <3>1, <3>2, <3>3
  <2> QED
    BY <1>4, <2>4, <2>5 DEF Protection
<1> QED
  BY <1>5, <1>6

-----------------------------------------------------------------------------
(* The theorems. *)

LEMMA Inductive == Spec => []IInv
<1>1. Init => IInv
  <2> SUFFICES ASSUME Init
               PROVE  IInv
    OBVIOUS
  <2>1. configuredMaxTTL \in [Servers -> 1..MaxTTLMS]
    BY RedLeaseAssumption DEF Init
  <2>2. TypeOK
    BY <2>1 DEF Init, TypeOK, ZeroTimes
  <2>3. ClocksClose
    BY Constants, SMT DEF Init, ClocksClose
  <2>4. \A l \in Leases : OwnClock(l) = 1
    BY LeaseClient DEF Init, OwnClock, Nodes
  <2>5. StartsPast
    BY <2>4, SMT DEF Init, StartsPast
  <2>6. \A l \in Leases, s \in Servers : Justified(s, l, 0)
    BY <2>2, <2>4, JustifiedPast, SMT
  <2>7. Protection
    BY <2>6 DEF Init, Protection, Owned, ZeroTimes
  <2> QED
    BY <2>2, <2>3, <2>5, <2>7 DEF IInv
<1>2. IInv /\ [Next]_vars => IInv'
  BY TypeStep, ClocksStep, StartsStep, ProtectionStep DEF IInv
<1> QED
  BY <1>1, <1>2, PTL DEF Spec

\* Every time a client holds against a server is protected by that server, and
\* the validity of every lease by a quorum of them.
THEOREM ProtectionHolds == Spec => []Protection
<1>1. IInv => Protection
  BY DEF IInv
<1> QED
  BY <1>1, Inductive, PTL

\* The quorums of two valid leases would share a server, and that server protects
\* at most one of them.
LEMMA Exclusive == IInv => MutualExclusion
<1> SUFFICES ASSUME IInv, NEW l1 \in Leases, NEW l2 \in Leases, Valid(l1), Valid(l2)
             PROVE  l1 = l2
  BY DEF MutualExclusion
<1>1. PICK Q1 \in SUBSET Servers : /\ Cardinality(Q1) >= QuorumSize
                                   /\ \A s \in Q1 : Justified(s, l1, validUntil[l1])
  BY DEF IInv, Protection, Valid
<1>2. PICK Q2 \in SUBSET Servers : /\ Cardinality(Q2) >= QuorumSize
                                   /\ \A s \in Q2 : Justified(s, l2, validUntil[l2])
  BY DEF IInv, Protection, Valid
<1>3. Q1 \cap Q2 # {}
  <2>1. /\ IsFiniteSet(Servers) /\ Cardinality(Servers) \in Nat
        /\ Cardinality(Q1) \in Nat /\ Cardinality(Q2) \in Nat
    BY FS_Subset, FS_CardinalityType, RedLeaseAssumption
  <2>2. Cardinality(Q1) + Cardinality(Q2) > Cardinality(Servers)
    BY <1>1, <1>2, <2>1, RedLeaseAssumption, SMT
  <2> QED
    BY <2>1, <2>2, FS_MajoritiesIntersect
<1>4. PICK s \in Servers : s \in Q1 /\ s \in Q2
  BY <1>3
<1>5. /\ OwnClock(l1) \in Nat /\ OwnClock(l2) \in Nat
      /\ validUntil[l1] \in Nat /\ validUntil[l2] \in Nat
  BY LeaseClient DEF IInv, TypeOK, OwnClock, Nodes
<1> QED
  BY <1>1, <1>2, <1>4, <1>5, SMT DEF Justified, Protects, Valid, Owned

\* Two leases of a key are never valid at once.
THEOREM MutualExclusionHolds == Spec => []MutualExclusion
  BY Exclusive, Inductive, PTL

\* A replica a client counts as confirmed has a live entry of its lease, or is in
\* restart quarantine and grants nothing.
THEOREM ConfirmedReplicaHoldsAlways == Spec => []ConfirmedReplicaHolds
<1>1. IInv => ConfirmedReplicaHolds
  <2> SUFFICES ASSUME IInv, NEW l \in Leases, NEW s \in Servers, Owned(l),
                      OwnClock(l) < confirmedUntil[l][s], phase[s] # "quarantine"
               PROVE  holder[s] = l /\ deadline[s] > clock[s]
    BY DEF ConfirmedReplicaHolds
  <2>1. Justified(s, l, confirmedUntil[l][s])
    BY DEF IInv, Protection
  <2>2. /\ OwnClock(l) \in Nat /\ clock[s] \in Nat /\ deadline[s] \in Nat
        /\ clock[s] <= OwnClock(l) + Drift /\ confirmedUntil[l][s] \in Nat
    BY OwnClockClose DEF IInv, TypeOK
  <2>3. ~(OwnClock(l) >= confirmedUntil[l][s]) /\ pc[l] \notin {"released", "failed"}
    BY <2>2, SMT DEF Owned
  <2>4. Protects(s, l, confirmedUntil[l][s])
    BY <2>1 DEF Justified
  <2>5. /\ holder[s] = l
        /\ deadline[s] + Drift >= confirmedUntil[l][s] + Ticks(SafetyMarginMS)
    BY <2>3, <2>4 DEF Protects
  <2>6. \A a, b, c, d, e, f \in Nat :
          a < b /\ c <= a + d /\ 2 * d <= e /\ f + d >= b + e => f > c
    BY SMT
  <2> QED
    BY <2>2, <2>5, <2>6, Constants
<1> QED
  BY <1>1, Inductive, PTL

-----------------------------------------------------------------------------
(* One step of a client changes the life of one lease. *)

\* What it may do to the lease l: end it, stay before its acquisition, hand it
\* out valid, or keep it without moving validUntil back.
LeaseEffect(l) ==
  /\ \A k \in Leases \ {l} : pc'[k] = pc[k] /\ validUntil'[k] = validUntil[k]
  /\ \/ pc'[l] \in {"released", "failed"}
     \/ pc[l] \in {"new", "acquiring"} /\ pc'[l] \in {"new", "acquiring"}
     \/ pc[l] = "acquiring" /\ pc'[l] = "active" /\ OwnClock(l) < validUntil'[l]
     \/ /\ Owned(l) /\ Owned(l)'
        /\ \/ validUntil'[l] = validUntil[l]
           \/ validUntil'[l] > validUntil[l] /\ pc[l] = "renewing" /\ pc'[l] = "active"

OneLease == UNCHANGED <<pc, validUntil>> \/ \E l \in Leases : LeaseEffect(l)

LEMMA AbandonEffect ==
  ASSUME TypeOK, NEW l \in Leases, NEW stage \in {"released", "failed"},
         pc' = [pc EXCEPT ![l] = stage], AbandonAndRelease(l)
  PROVE  LeaseEffect(l)
  BY DEF TypeOK, AbandonAndRelease, LeaseEffect

\* Acquire or Renew goes on after a result, or gives up.
LEMMA ContinuesEffect ==
  ASSUME TypeOK, NEW r \in Request, NEW m, NEW candidates, NEW confirmed,
         \/ AcquireContinues(r, m, candidates, confirmed)
         \/ pc[r.lease] = "renewing" /\ RenewContinues(r, m, candidates, confirmed)
  PROVE  OneLease
<1>1. r.lease \in Leases
  BY DEF Request
<1>2. CASE FailAcquire(r.lease)
  BY <1>1, <1>2, AbandonEffect DEF FailAcquire, OneLease
<1>3. CASE UNCHANGED <<pc, validUntil>>
  BY <1>3 DEF OneLease
<1>4. CASE pc[r.lease] = "renewing" /\ RenewContinues(r, m, candidates, confirmed)
  <2>1. LeaseEffect(r.lease)
    BY <1>1, <1>4 DEF TypeOK, RenewContinues, LeaseEffect, Owned
  <2> QED
    BY <1>1, <2>1 DEF OneLease
<1> QED
  BY <1>2, <1>3, <1>4 DEF AcquireContinues

LEMMA ClientEffect ==
  ASSUME TypeOK, ClientSide
  PROVE  OneLease
<1>1. ASSUME NEW l \in Leases, NEW ttl \in RequestTTLs, NEW refused \in SUBSET Servers,
             Acquire(l, ttl, refused) \/ Renew(l, ttl, refused)
      PROVE  OneLease
  <2>1. LeaseEffect(l)
    BY <1>1 DEF TypeOK, Acquire, IsNext, Renew, LeaseEffect, Owned
  <2> QED
    BY <2>1 DEF OneLease
<1>2. ASSUME NEW l \in Leases, Release(l) \/ CancelAcquire(l) \/ AcquireRefused(l)
      PROVE  OneLease
  BY <1>2, AbandonEffect DEF Release, CancelAcquire, AcquireRefused, FailAcquire, OneLease
<1>3. ASSUME NEW l \in Leases, CancelRenew(l)
      PROVE  OneLease
  <2>1. LeaseEffect(l)
    BY <1>3 DEF TypeOK, CancelRenew, LeaseEffect, Owned
  <2> QED
    BY <2>1 DEF OneLease
<1>4. ASSUME NEW l \in Leases, HealingTargets(l) \/ HealReplicas(l) \/ RenewRefused(l)
      PROVE  OneLease
  BY <1>4 DEF HealingTargets, HealReplicas, RenewRefused, OneLease
<1>5. ASSUME NEW m \in responses, NEW v \in Nat, OwnClock(m.request.lease) < v,
             pc' = [pc EXCEPT ![m.request.lease] = "active"],
             \/ /\ pc[m.request.lease] = "acquiring"
                /\ validUntil' = [validUntil EXCEPT ![m.request.lease] = v]
             \/ /\ pc[m.request.lease] = "renewing"
                /\ validUntil' = [validUntil EXCEPT ![m.request.lease] =
                                    RenewedUntil(m.request.lease, v)]
      PROVE  OneLease
  <2>1. m.request.lease \in Leases
    BY DEF TypeOK, Response, Request
  <2>2. LeaseEffect(m.request.lease)
    BY <1>5, <2>1 DEF TypeOK, LeaseEffect, Owned, RenewedUntil
  <2> QED
    BY <2>1, <2>2 DEF OneLease
<1>6. ASSUME NEW m \in responses, AcquireResponse(m)
      PROVE  OneLease
  <2> DEFINE l == m.request.lease
             success == IsSuccessfulAcquire(m.status)
             candidates == IF success THEN CandidatesWith(m) ELSE candidate[l]
  <2>1. m.request \in Request
    BY DEF TypeOK, Response
  <2>2. BestAcquireQuorum(candidates) \subseteq Nat
    <3>1. candidates \in [Servers -> Nat]
      BY <2>1, CandidatesWithType DEF TypeOK, Request
    <3> HIDE DEF candidates
    <3> QED
      BY <3>1 DEF BestAcquireQuorum
  <2>3. \/ \E v \in BestAcquireQuorum(candidates) : OwnClock(l) < v /\ QuorumReached(m, v)
        \/ AcquireContinues(m.request, {m}, candidates, ConfirmedAfter(m))
    BY <1>6 DEF AcquireResponse
  <2>4. pc[l] = "acquiring"
    BY <1>6 DEF AcquireResponse
  <2> HIDE DEF candidates
  <2> QED
    BY <1>5, <2>1, <2>2, <2>3, <2>4, ContinuesEffect DEF QuorumReached
<1>7. ASSUME NEW m \in responses, RenewResponse(m)
      PROVE  OneLease
  <2> DEFINE l == m.request.lease
             success == m.status = "OK"
             candidates == IF success THEN CandidatesWith(m) ELSE candidate[l]
  <2>1. m.request \in Request
    BY DEF TypeOK, Response
  <2>2. BestAcquireQuorum(candidates) \subseteq Nat
    <3>1. candidates \in [Servers -> Nat]
      BY <2>1, CandidatesWithType DEF TypeOK, Request
    <3> HIDE DEF candidates
    <3> QED
      BY <3>1 DEF BestAcquireQuorum
  <2>3. \/ \E v \in BestAcquireQuorum(candidates) :
             OwnClock(l) < v /\ QuorumReached(m, RenewedUntil(l, v))
        \/ RenewContinues(m.request, {m}, candidates, ConfirmedAfter(m))
    BY <1>7 DEF RenewResponse
  <2>4. pc[l] = "renewing"
    BY <1>7 DEF RenewResponse
  <2> HIDE DEF candidates
  <2> QED
    BY <1>5, <2>1, <2>2, <2>3, <2>4, ContinuesEffect DEF QuorumReached
<1>8. ASSUME NEW m \in responses, BackgroundResponse(m)
      PROVE  OneLease
  BY <1>8 DEF BackgroundResponse, OneLease
<1>9. ASSUME NEW m \in responses, SingleAcquireResponse(m) \/ SingleRenewResponse(m)
      PROVE  OneLease
  <2> DEFINE l == m.request.lease
             until == CandidateValidUntil(m.request.start, m.ttl)
  <2>1. l \in Leases /\ m.request.start \in Nat /\ m.ttl \in Nat
    BY DEF TypeOK, Response, Request
  <2>2. until \in Nat
    BY <2>1, CandidateBounds
  <2> HIDE DEF until
  <2>3. CASE SingleAcquireResponse(m)
    <3>1. CASE FailAcquire(l)
      BY <2>1, <3>1, AbandonEffect DEF FailAcquire, OneLease
    <3> QED
      BY <1>5, <2>2, <2>3, <3>1 DEF SingleAcquireResponse, until
  <2>4. CASE SingleRenewResponse(m)
    <3>1. /\ pc[l] = "renewing" /\ pc' = [pc EXCEPT ![l] = "active"]
          /\ \/ OwnClock(l) < until
                /\ validUntil' = [validUntil EXCEPT ![l] = RenewedUntil(l, until)]
             \/ validUntil' = [validUntil EXCEPT ![l] = validUntil[l]]
      BY <2>4 DEF SingleRenewResponse, until
    <3>2. CASE validUntil' = [validUntil EXCEPT ![l] = validUntil[l]]
      <4>1. LeaseEffect(l)
        BY <2>1, <3>1, <3>2 DEF TypeOK, LeaseEffect, Owned
      <4> QED
        BY <2>1, <4>1 DEF OneLease
    <3> QED
      BY <1>5, <2>2, <3>1, <3>2
  <2> QED
    BY <1>9, <2>3, <2>4
<1>10. ASSUME NEW r \in pending, CallFails(r)
       PROVE  OneLease
  <2>1. r \in Request
    BY DEF TypeOK
  <2> QED
    BY <1>10, <2>1, ContinuesEffect DEF CallFails, OneLease
<1>11. ASSUME NEW r \in pending, SingleCallFails(r)
       PROVE  OneLease
  <2>1. r.lease \in Leases
    BY DEF TypeOK, Request
  <2>2. CASE FailAcquire(r.lease)
    BY <2>1, <2>2, AbandonEffect DEF FailAcquire, OneLease
  <2>3. CASE /\ pc[r.lease] = "renewing" /\ pc' = [pc EXCEPT ![r.lease] = "active"]
             /\ UNCHANGED validUntil
    <3>1. LeaseEffect(r.lease)
      BY <2>1, <2>3 DEF TypeOK, LeaseEffect, Owned
    <3> QED
      BY <2>1, <3>1 DEF OneLease
  <2> QED
    BY <1>11, <2>2, <2>3 DEF SingleCallFails
<1> QED
  BY <1>1, <1>2, <1>3, <1>4, <1>6, <1>7, <1>8, <1>9, <1>10, <1>11 DEF ClientSide, ClientStep

-----------------------------------------------------------------------------
(* Action properties. *)

\* No step moves the validity of an owned lease, except a Renew that returns, and
\* that one only forward.
THEOREM ValidityMovesForwardHolds == Spec => ValidityMovesForward
<1>1. IInv /\ [Next]_vars =>
        [\A l \in Leases : Owned(l) /\ Owned(l)' /\ validUntil'[l] # validUntil[l] =>
           validUntil'[l] > validUntil[l] /\ pc[l] = "renewing" /\ pc'[l] = "active"]_vars
  <2> SUFFICES ASSUME IInv, Next, NEW l \in Leases, Owned(l), Owned(l)',
                      validUntil'[l] # validUntil[l]
               PROVE  validUntil'[l] > validUntil[l] /\ pc[l] = "renewing" /\ pc'[l] = "active"
    OBVIOUS
  <2>1. OneLease
    BY NextSides, ServerFrame, ClientEffect DEF IInv, Tick, leaseVars, OneLease
  <2> QED
    BY <2>1 DEF OneLease, LeaseEffect, Owned
<1> QED
  BY <1>1, Inductive, PTL DEF Spec, ValidityMovesForward

\* A live entry is extended for its own lease, or removed once its owner gave it up;
\* no other request, and no cleanup, touches it.
THEOREM LiveEntryKeptHolds == Spec => LiveEntryKept
<1> DEFINE Kept(s) ==
      phase'[s] = "active" /\ holder[s] # NoLease /\ deadline[s] > clock[s] =>
        \/ holder'[s] = holder[s] /\ deadline'[s] >= deadline[s]
        \/ holder'[s] = NoLease /\ pc[holder[s]] \in {"released", "failed"}
<1>1. IInv /\ [Next]_vars => [\A s \in Servers : Kept(s)]_vars
  <2> SUFFICES ASSUME IInv, Next, NEW s \in Servers
               PROVE  Kept(s)
    OBVIOUS
  <2>1. deadline[s] \in Nat /\ clock[s] \in Nat /\ deadline[s] >= deadline[s]
    <3>1. deadline[s] \in Nat /\ clock[s] \in Nat
      BY DEF IInv, TypeOK, Nodes
    <3> QED
      BY <3>1, SMT
  <2>2. CASE UNCHANGED <<holder, deadline>>
    BY <2>1, <2>2
  <2>3. ASSUME NEW q \in Servers, Restart(q) \/ EndQuarantine(q) \/ RemoveExpired(q)
        PROVE  Kept(s)
    <3>1. \A a, b \in Nat : a <= b => ~(a > b)
      BY SMT
    <3> QED
      BY <2>1, <2>3, <3>1 DEF IInv, TypeOK, Restart, EndQuarantine, RemoveExpired
  <2>4. ASSUME NEW r \in requests, NEW t \in r.sent..clock[r.server],
               NEW id \in Leases \cup {NoLease}, NEW until \in Nat, NEW status \in Statuses,
               NEW ttl \in Nat, HandlerEffect(r, t, id, until, status, ttl)
        PROVE  Kept(s)
    <3>1. /\ r.server \in Servers /\ r.sent \in Nat /\ clock[r.server] \in Nat
          /\ r.kind = "release" => pc[r.lease] \in {"released", "failed"}
      BY DEF IInv, TypeOK, StartsPast, Request, Nodes
    <3>2. t \in Nat /\ t <= clock[r.server]
      BY <3>1, SMT
    <3>3. /\ holder' = [holder EXCEPT ![r.server] = id]
          /\ deadline' = [deadline EXCEPT ![r.server] = until]
      BY <2>4 DEF HandlerEffect, FinishApply
    <3>4. DOMAIN holder = Servers /\ DOMAIN deadline = Servers
      BY DEF IInv, TypeOK
    <3>5. CASE s # r.server
      BY <2>1, <3>3, <3>4, <3>5, SMT
    <3>6. CASE s = r.server
      <4>1. holder'[s] = id /\ deadline'[s] = until
        BY <3>3, <3>4, <3>6
      <4>2. \/ id = holder[s] /\ until >= deadline[s]
            \/ holder[s] # NoLease => deadline[s] <= t
            \/ pc[holder[s]] \in {"released", "failed"} /\ id = NoLease
        BY <2>4, <3>1, <3>6 DEF HandlerEffect
      <4> QED
        BY <2>1, <3>2, <3>6, <4>1, <4>2, SMT
    <3> QED BY <3>5, <3>6
  <2>5. CASE ServerSide
    <3>1. CASE \E r \in requests : RejectNotReady(r)
      BY <2>2, <3>1 DEF RejectNotReady, serverVars
    <3> QED
      BY <2>3, <2>4, <2>5, <3>1, ServerCases DEF IInv
  <2>6. CASE Tick \/ ClientSide
    BY <2>2, <2>6, ClientFrame DEF IInv, Tick, serverVars
  <2> QED
    BY <2>5, <2>6, NextSides
<1> QED
  BY <1>1, Inductive, PTL DEF Spec, LiveEntryKept

-----------------------------------------------------------------------------
(* Refinement of LeaseService. *)

LEMMA Stages ==
  \A l \in Leases :
    /\ pc[l] \in {"new", "acquiring"} => Stage(l) = "new"
    /\ Valid(l) => Stage(l) = "held"
    /\ Owned(l) /\ ~Valid(l) => Stage(l) = "lapsed"
    /\ pc[l] \in {"released", "failed"} => Stage(l) = "over"
  BY DEF Stage, Valid, Owned

LEMMA StagesNext ==
  \A l \in Leases :
    /\ pc'[l] \in {"new", "acquiring"} => Stage(l)' = "new"
    /\ Valid(l)' => Stage(l)' = "held"
    /\ Owned(l)' /\ ~Valid(l)' => Stage(l)' = "lapsed"
    /\ pc'[l] \in {"released", "failed"} => Stage(l)' = "over"
  BY DEF Stage, Valid, Owned

\* Time passes: the one lease that is held may run out.
LEMMA TickStage ==
  ASSUME IInv, Tick
  PROVE  \/ \A k \in Leases : Stage(k)' = Stage(k)
         \/ \E l \in Leases : /\ Stage(l) = "held" /\ Stage(l)' = "lapsed"
                             /\ \A k \in Leases \ {l} : Stage(k)' = Stage(k)
<1>1. \A k \in Leases : /\ OwnClock(k) \in Nat /\ OwnClock(k)' \in Nat
                        /\ OwnClock(k)' >= OwnClock(k) /\ validUntil[k] \in Nat
  BY LeaseClient, RedLeaseAssumption, SMT DEF IInv, TypeOK, Tick, OwnClock, Nodes
<1>2. UNCHANGED <<pc, validUntil>>
  BY DEF Tick, leaseVars
<1>3. \A k \in Leases : /\ Owned(k)' = Owned(k) /\ (Valid(k)' => Valid(k))
                        /\ pc[k] \in {"new", "acquiring", "released", "failed"} \/ Owned(k)
  BY <1>1, <1>2, SMT DEF Valid, Owned, IInv, TypeOK
<1>4. \A k \in Leases : ~Valid(k) \/ Valid(k)' => Stage(k)' = Stage(k)
  BY <1>2, <1>3, Stages, StagesNext, SMT
<1>5. CASE \E l \in Leases : Valid(l) /\ ~Valid(l)'
  <2>1. PICK l \in Leases : Valid(l) /\ ~Valid(l)'
    BY <1>5
  <2>2. \A k \in Leases \ {l} : ~Valid(k)
    BY <2>1, Exclusive DEF MutualExclusion
  <2>3. Stage(l) = "held" /\ Stage(l)' = "lapsed"
    BY <1>3, <2>1, Stages, StagesNext DEF Valid
  <2> QED
    BY <1>4, <2>2, <2>3
<1> QED
  BY <1>4, <1>5

\* A client acts: one lease ends, is granted, or stays what it was.
LEMMA ClientStage ==
  ASSUME IInv, TypeOK', ClientSide
  PROVE  \/ \A k \in Leases : Stage(k)' = Stage(k)
         \/ \E l \in Leases :
              /\ \A k \in Leases \ {l} : Stage(k)' = Stage(k)
              /\ \/ Stage(l) # "over" /\ Stage(l)' = "over"
                 \/ Stage(l) \in {"new", "lapsed"} /\ Stage(l)' = "held" /\ Valid(l)'
<1>1. UNCHANGED clock
  BY ClientFrame DEF IInv, timeVars
<1>2. ASSUME NEW k \in Leases, pc'[k] = pc[k], validUntil'[k] = validUntil[k]
      PROVE  Stage(k)' = Stage(k)
  <2>1. Owned(k)' = Owned(k) /\ Valid(k)' = Valid(k)
    BY <1>1, <1>2 DEF Owned, Valid, OwnClock
  <2> QED
    BY <1>2, <2>1 DEF Stage, Owned
<1>3. CASE UNCHANGED <<pc, validUntil>>
  BY <1>2, <1>3
<1>4. ASSUME NEW l \in Leases, LeaseEffect(l)
      PROVE  /\ \A k \in Leases \ {l} : Stage(k)' = Stage(k)
             /\ \/ Stage(l)' = Stage(l)
                \/ Stage(l) # "over" /\ Stage(l)' = "over"
                \/ Stage(l) \in {"new", "lapsed"} /\ Stage(l)' = "held" /\ Valid(l)'
  <2>1. \A k \in Leases \ {l} : Stage(k)' = Stage(k)
    BY <1>2, <1>4 DEF LeaseEffect
  <2>2. /\ OwnClock(l)' = OwnClock(l) /\ OwnClock(l) \in Nat
        /\ validUntil[l] \in Nat /\ validUntil'[l] \in Nat
    BY <1>1, LeaseClient DEF IInv, TypeOK, OwnClock, Nodes
  <2>3. CASE pc'[l] \in {"released", "failed"}
    BY <2>1, <2>3, StagesNext
  <2>4. CASE pc[l] \in {"new", "acquiring"} /\ pc'[l] \in {"new", "acquiring"}
    BY <2>1, <2>4, Stages, StagesNext
  <2>5. CASE pc[l] = "acquiring" /\ pc'[l] = "active" /\ OwnClock(l) < validUntil'[l]
    <3>1. Valid(l)'
      BY <2>2, <2>5 DEF Valid, Owned
    <3> QED
      BY <2>1, <2>5, <3>1, Stages, StagesNext
  <2>6. CASE Owned(l) /\ Owned(l)' /\ (validUntil'[l] = validUntil[l] \/ validUntil'[l] > validUntil[l])
    <3>1. CASE Valid(l)
      <4>1. \A a, b, c \in Nat : a < b /\ (c = b \/ c > b) => a < c
        BY SMT
      <4>2. Valid(l)'
        BY <2>2, <2>6, <3>1, <4>1 DEF Valid
      <4> QED
        BY <2>1, <3>1, <4>2, Stages, StagesNext
    <3>2. CASE ~Valid(l)
      BY <2>1, <2>6, <3>2, Stages, StagesNext
    <3> QED
      BY <3>1, <3>2
  <2> QED
    BY <1>4, <2>3, <2>4, <2>5, <2>6 DEF LeaseEffect
<1> QED
  BY <1>3, <1>4, ClientEffect DEF IInv, OneLease

\* Every step of the protocol is a step of the lease service, or none.
LEMMA ServiceStep ==
  ASSUME IInv, IInv', [Next]_vars
  PROVE  [Service!Next]_([l \in Leases |-> Stage(l)])
<1> DEFINE stage == [l \in Leases |-> Stage(l)]
<1>1. CASE \A k \in Leases : Stage(k)' = Stage(k)
  BY <1>1
<1>2. ASSUME NEW l \in Leases, \A k \in Leases \ {l} : Stage(k)' = Stage(k),
             NEW next, Stage(l)' = next
      PROVE  stage' = [stage EXCEPT ![l] = next]
  BY <1>2
<1>3. CASE Tick
  <2>1. ASSUME NEW l \in Leases, Stage(l) = "held", Stage(l)' = "lapsed",
               \A k \in Leases \ {l} : Stage(k)' = Stage(k)
        PROVE  Service!Next
    BY <1>2, <2>1 DEF Service!Next, Service!Lapse
  <2> QED
    BY <1>1, <1>3, <2>1, TickStage
<1>4. CASE ClientSide
  <2>1. ASSUME NEW l \in Leases, \A k \in Leases \ {l} : Stage(k)' = Stage(k),
               Stage(l) # "over", Stage(l)' = "over"
        PROVE  Service!Next
    BY <1>2, <2>1 DEF Service!Next, Service!End
  <2>2. ASSUME NEW l \in Leases, \A k \in Leases \ {l} : Stage(k)' = Stage(k),
               Stage(l) \in {"new", "lapsed"}, Stage(l)' = "held", Valid(l)'
        PROVE  Service!Next
    <3>1. MutualExclusion'
      BY Exclusive, PTL
    <3>2. \A k \in Leases \ {l} : ~Valid(k)'
      BY <2>2, <3>1 DEF MutualExclusion
    <3>3. \A k \in Leases : Stage(k) # "held"
      BY <2>2, <3>2 DEF Stage
    <3> QED
      BY <1>2, <2>2, <3>3 DEF Service!Next, Service!Grant
  <2> QED
    BY <1>1, <1>4, <2>1, <2>2, ClientStage DEF IInv
<1>5. CASE ServerSide \/ UNCHANGED vars
  <2>1. UNCHANGED <<clock, pc, validUntil>>
    BY <1>5, ServerFrame DEF IInv, vars, timeVars, leaseVars
  <2> QED
    BY <1>1, <2>1 DEF Stage, Valid, Owned, OwnClock
<1> QED
  BY <1>3, <1>4, <1>5, NextSides

\* The protocol implements the abstract lease service, for every number of servers
\* and clients, every TTL and drift within half the margin, through all its faults.
THEOREM LeaseServiceImplemented == Spec => ImplementsLeaseService
<1>1. Init => Service!Init
  <2> SUFFICES ASSUME Init
               PROVE  Service!Init
    OBVIOUS
  <2>1. \A l \in Leases : pc[l] = "new"
    BY DEF Init
  <2> QED
    BY <2>1, Stages DEF Service!Init
<1> QED
  BY <1>1, ServiceStep, Inductive, PTL DEF Spec, ImplementsLeaseService, Service!Spec

-----------------------------------------------------------------------------
(* An operation gives up no quorum. *)

\* The servers whose candidate has not run out at time t, and those whose candidate is
\* v or later.
Unexpired(c, t) == {s \in Servers : t < c[s]}
AtLeast(c, v) == {s \in Servers : c[s] >= v}

Operating(l) == pc[l] \in {"acquiring", "renewing"}

\* What the loop of Acquire and Renew knows of its operation: the candidates make no
\* quorum (else it would have returned), they are those of this operation (they are
\* cleared when it returns), and no open call has one.
OpSound(l) ==
  /\ Cardinality(Unexpired(candidate[l], OwnClock(l))) < QuorumSize
  /\ IsSingle(l) \/ ~Operating(l) => candidate[l] = ZeroTimes
  /\ \A p \in Awaited(l, foreground[l]) : candidate[l][p.server] = 0

\* The calls of a batch go to different servers, and batches are numbered upwards.
\* An answer belongs to an open call, which is not handled again.
CallsSound ==
  /\ \A l \in Leases : foreground[l] <= batches[l] /\ (pc[l] = "new" => batches[l] = 0)
  /\ \A r \in requests \cup pending : r.batch <= batches[r.lease]
  /\ \A p, q \in pending :
       p.lease = q.lease /\ p.batch = q.batch /\ p.server = q.server => p = q
  /\ \A m \in responses : m.request \in pending /\ m.request \notin requests
  /\ \A m1, m2 \in responses : m1.request = m2.request => m1 = m2

LEMMA SmallestNat ==
  ASSUME NEW T, T \subseteq Nat, T # {}
  PROVE  \E x \in T : \A y \in T : x <= y
<1>1. PICK x \in T : \A y \in T : ~(<<y, x>> \in OpToRel(<, Nat))
  BY NatLessThanWellFounded, WFMin
<1>2. \A y \in T : ~(y < x)
  <2>1. \A y, z \in Nat : y < z => <<y, z>> \in OpToRel(<, Nat)
    BY SMT DEF OpToRel
  <2> QED BY <1>1, <2>1
<1>3. \A a, b \in Nat : ~(a < b) => b <= a
  BY SMT
<1> QED BY <1>2, <1>3

\* Sets of servers and their sizes.
LEMMA ServerSets ==
  /\ QuorumSize \in Nat /\ QuorumSize > 0
  /\ \A S \in SUBSET Servers : Cardinality(S) \in Nat
  /\ \A S \in SUBSET Servers, T \in SUBSET Servers :
       S \subseteq T => Cardinality(S) <= Cardinality(T) /\ (S # T => Cardinality(S) < Cardinality(T))
  /\ Cardinality({}) = 0
<1>1. ASSUME NEW S \in SUBSET Servers
      PROVE  IsFiniteSet(S) /\ Cardinality(S) \in Nat
  BY FS_Subset, FS_CardinalityType, RedLeaseAssumption
<1>2. \A a, b \in Nat : a <= b /\ a # b => a < b
  BY SMT
<1>3. ASSUME NEW S \in SUBSET Servers, NEW T \in SUBSET Servers, S \subseteq T
      PROVE  Cardinality(S) <= Cardinality(T) /\ (S # T => Cardinality(S) < Cardinality(T))
  <2>1. Cardinality(S) <= Cardinality(T) /\ (Cardinality(T) = Cardinality(S) => T = S)
    BY <1>1, <1>3, FS_Subset
  <2> QED BY <1>1, <1>2, <2>1
<1>4. QuorumSize \in Nat /\ QuorumSize > 0
  <2>1. Cardinality(Servers) \in Nat /\ QuorumSize \in Nat /\ 2 * QuorumSize > Cardinality(Servers)
    BY <1>1, RedLeaseAssumption
  <2> QED BY <2>1, SMT
<1> QED BY <1>1, <1>3, <1>4, FS_EmptySet

\* The unexpired candidates are those from the earliest of them on.
LEMMA EarliestUnexpired ==
  ASSUME NEW c \in [Servers -> Nat], NEW t \in Nat, Unexpired(c, t) # {}
  PROVE  \E s \in Unexpired(c, t) : AtLeast(c, c[s]) = Unexpired(c, t)
<1> DEFINE times == {c[s] : s \in Unexpired(c, t)}
<1>1. times \subseteq Nat /\ times # {}
  BY DEF Unexpired
<1>2. PICK v \in times : \A w \in times : v <= w
  <2> HIDE DEF times
  <2> QED BY <1>1, SmallestNat
<1>3. PICK s \in Unexpired(c, t) : v = c[s]
  BY <1>2
<1>4. \A a, b, d \in Nat : (a <= b <=> b >= a) /\ (d < a /\ b >= a => d < b)
  BY SMT
<1>5. \A q \in Servers : c[q] \in Nat
  OBVIOUS
<1>6. \A q \in Servers : t < c[q] <=> c[q] >= c[s]
  BY <1>2, <1>3, <1>4, <1>5 DEF Unexpired
<1> QED BY <1>3, <1>6 DEF AtLeast, Unexpired

\* bestAcquireQuorum finds a time after t when the candidates after t make a quorum.
LEMMA QuorumTimeExists ==
  ASSUME NEW c \in [Servers -> Nat], NEW t \in Nat, Cardinality(Unexpired(c, t)) >= QuorumSize
  PROVE  \E v \in BestAcquireQuorum(c) : t < v
<1> DEFINE Good == {s \in Servers : t < c[s] /\ Cardinality(AtLeast(c, c[s])) >= QuorumSize}
           sizes == {Cardinality(AtLeast(c, c[s])) : s \in Good}
<1>1. \A a, b \in Nat : (a >= b /\ b > 0 => a # 0) /\ (a < b <=> ~(a >= b)) /\ (a <= b <=> ~(b < a))
  BY SMT
<1>2. \A v : AtLeast(c, v) \in SUBSET Servers /\ Unexpired(c, v) \in SUBSET Servers
  BY DEF AtLeast, Unexpired
<1>3. ASSUME NEW u \in Nat, Cardinality(Unexpired(c, u)) >= QuorumSize
      PROVE  \E s \in Servers : u < c[s] /\ AtLeast(c, c[s]) = Unexpired(c, u)
  <2>1. Unexpired(c, u) # {}
    BY <1>1, <1>2, <1>3, ServerSets
  <2> QED BY <2>1, EarliestUnexpired DEF Unexpired
<1>4. Good # {}
  BY <1>3
<1>5. sizes \subseteq Nat /\ sizes # {}
  BY <1>2, <1>4, ServerSets
<1>6. PICK n \in sizes : \A k \in sizes : n <= k
  <2> HIDE DEF sizes
  <2> QED BY <1>5, SmallestNat
<1>7. PICK s \in Good : n = Cardinality(AtLeast(c, c[s]))
  BY <1>6
<1>8. c[s] \in Nat /\ t < c[s] /\ Cardinality(AtLeast(c, c[s])) >= QuorumSize
  BY <1>7
<1>9. c[s] # 0
  BY <1>8, SMT
<1>10. Cardinality(Unexpired(c, c[s])) < QuorumSize
  <2> SUFFICES ASSUME Cardinality(Unexpired(c, c[s])) >= QuorumSize
               PROVE  FALSE
    BY <1>1, <1>2, ServerSets
  <2>1. PICK p \in Servers : c[s] < c[p] /\ AtLeast(c, c[p]) = Unexpired(c, c[s])
    BY <1>3, <1>8
  <2>2. p \in Good
    <3>1. t < c[p]
      BY <1>8, <2>1, SMT
    <3> QED BY <2>1, <3>1
  <2>3. AtLeast(c, c[p]) \subseteq AtLeast(c, c[s]) /\ s \in AtLeast(c, c[s]) /\ s \notin AtLeast(c, c[p])
    <3>1. \A a, b, d \in Nat : a < b => (d >= b => d >= a) /\ ~(a >= b) /\ a >= a
      BY SMT
    <3> QED BY <1>7, <1>8, <2>1, <3>1 DEF AtLeast
  <2>4. Cardinality(AtLeast(c, c[p])) < n
    BY <1>2, <1>7, <2>3, ServerSets
  <2>5. Cardinality(AtLeast(c, c[p])) \in sizes
    BY <2>2
  <2>6. n <= Cardinality(AtLeast(c, c[p])) /\ n \in Nat /\ Cardinality(AtLeast(c, c[p])) \in Nat
    BY <1>5, <1>6, <2>5
  <2> HIDE DEF sizes
  <2> QED BY <1>1, <2>4, <2>6
<1>11. c[s] \in BestAcquireQuorum(c)
  <2>1. \A a, b \in Nat : a > b <=> b < a
    BY SMT
  <2>2. {q \in Servers : c[q] > c[s]} = Unexpired(c, c[s])
    BY <1>8, <2>1 DEF Unexpired
  <2> QED BY <1>7, <1>8, <1>9, <1>10, <2>2 DEF BestAcquireQuorum, AtLeast
<1> QED BY <1>8, <1>11

-----------------------------------------------------------------------------
(* The calls on the network. *)

\* Calls that end, with their answers, disturb no other.
LEMMA FewerCalls ==
  ASSUME TypeOK, CallsSound, requests' = requests, pending' \subseteq pending,
         responses' \subseteq responses, \A m \in responses' : m.request \in pending',
         foreground' = foreground,
         \A l \in Leases : batches'[l] \in {batches[l], batches[l] + 1},
         \A l \in Leases : pc'[l] = "new" => pc[l] = "new" /\ batches'[l] = batches[l]
  PROVE  CallsSound'
<1>1. \A l \in Leases : foreground[l] \in Nat /\ batches[l] \in Nat
  BY DEF TypeOK
<1>2. \A r \in requests \cup pending : r.lease \in Leases /\ r.batch \in Nat
  BY DEF TypeOK, Request
<1>3. \A a, b \in Nat : a <= b => a <= b + 1
  BY SMT
<1>4. \A l \in Leases : foreground'[l] <= batches'[l] /\ (pc'[l] = "new" => batches'[l] = 0)
  BY <1>1, <1>3 DEF CallsSound
<1>5. ASSUME NEW r \in requests' \cup pending'
      PROVE  r.batch <= batches'[r.lease]
  <2>1. r.lease \in Leases /\ r.batch \in Nat /\ r.batch <= batches[r.lease]
    BY <1>2 DEF CallsSound
  <2>2. batches[r.lease] \in Nat /\ batches'[r.lease] \in {batches[r.lease], batches[r.lease] + 1}
    BY <1>1, <2>1
  <2> QED BY <1>3, <2>1, <2>2
<1> QED BY <1>4, <1>5 DEF CallsSound

\* Giving up a lease ends its calls and takes their answers; what it sends is no call.
LEMMA AbandonCalls ==
  ASSUME TypeOK, CallsSound, NEW l \in Leases, NEW stage \in {"released", "failed"},
         pc' = [pc EXCEPT ![l] = stage], AbandonAndRelease(l), UNCHANGED <<batches, foreground>>
  PROVE  CallsSound'
<1>1. \A r \in Releases(l) : r.lease = l /\ r.batch = 0
  BY SMT DEF Releases, Calls
<1>2. /\ pending' \subseteq pending /\ requests' = requests \cup Releases(l)
      /\ responses' \subseteq responses /\ \A m \in responses' : m.request.lease # l
      /\ \A p \in pending : p.lease # l => p \in pending'
  BY DEF AbandonAndRelease
<1>3. \A k \in Leases : batches[k] \in Nat /\ (pc'[k] = "new" => pc[k] = "new")
  BY DEF TypeOK
<1>4. \A n \in Nat : 0 <= n
  BY SMT
<1>5. \A r \in requests' \cup pending' : r.batch <= batches'[r.lease]
  BY <1>1, <1>2, <1>3, <1>4 DEF CallsSound
<1>6. \A m \in responses' : m.request \in pending' /\ m.request \notin requests'
  BY <1>1, <1>2 DEF CallsSound
<1> QED BY <1>2, <1>3, <1>5, <1>6 DEF CallsSound

\* A new batch has a number of its own, and one call for each server it goes to.
LEMMA NewBatch ==
  ASSUME TypeOK, CallsSound, NEW l \in Leases, NEW kind, NEW ttl, NEW start, NEW targets,
         requests' = requests \cup Calls(l, batches[l] + 1, kind, ttl, start, targets),
         pending' = pending \cup Calls(l, batches[l] + 1, kind, ttl, start, targets),
         responses' = responses, batches' = [batches EXCEPT ![l] = batches[l] + 1],
         \A k \in Leases : foreground'[k] = foreground[k] \/ (k = l /\ foreground'[k] = batches[k] + 1),
         \A k \in Leases : pc'[k] = "new" => pc[k] = "new" /\ k # l
  PROVE  CallsSound'
<1> DEFINE calls == Calls(l, batches[l] + 1, kind, ttl, start, targets)
<1>1. \A r \in calls : r.lease = l /\ r.batch = batches[l] + 1
  BY SMT DEF Calls
<1>2. \A p, q \in calls : p.server = q.server => p = q
  BY SMT DEF Calls
<1>3. \A k \in Leases : foreground[k] \in Nat /\ batches[k] \in Nat
  BY DEF TypeOK
<1>4. \A r \in requests \cup pending : r.lease \in Leases /\ r.batch \in Nat
  BY DEF TypeOK, Request
<1>5. \A a, b \in Nat : a + 1 \in Nat /\ a <= a /\ (a <= b => a <= b + 1 /\ a # b + 1)
  BY SMT
<1>6. \A k \in Leases : batches'[k] = IF k = l THEN batches[k] + 1 ELSE batches[k]
  BY DEF TypeOK
<1>7. requests' = requests \cup calls /\ pending' = pending \cup calls
  OBVIOUS
<1> HIDE DEF calls
<1>8. ASSUME NEW k \in Leases
      PROVE  foreground'[k] <= batches'[k] /\ (pc'[k] = "new" => batches'[k] = 0)
  <2>1. foreground[k] <= batches[k] /\ (pc[k] = "new" => batches[k] = 0)
    BY DEF CallsSound
  <2>2. CASE k = l
    <3>1. batches'[k] = batches[k] + 1 /\ pc'[k] # "new"
      BY <1>6, <2>2
    <3>2. foreground[k] \in Nat /\ batches[k] \in Nat
      BY <1>3
    <3>3. foreground'[k] = foreground[k] \/ foreground'[k] = batches[k] + 1
      OBVIOUS
    <3> QED BY <2>1, <3>1, <3>2, <3>3, SMT
  <2>3. CASE k # l
    <3>1. batches'[k] = batches[k] /\ foreground'[k] = foreground[k]
      BY <1>6, <2>3
    <3> QED BY <2>1, <3>1
  <2> QED BY <2>2, <2>3
<1>9. ASSUME NEW r \in requests' \cup pending'
      PROVE  r.batch <= batches'[r.lease]
  <2>1. CASE r \in calls
    <3>1. r.batch = batches[l] + 1 /\ batches'[r.lease] = batches[l] + 1 /\ batches[l] + 1 \in Nat
      BY <1>1, <1>3, <1>5, <1>6, <2>1
    <3> QED BY <1>5, <3>1
  <2>2. CASE r \notin calls
    <3>1. r.lease \in Leases /\ r.batch \in Nat /\ r.batch <= batches[r.lease]
      BY <1>4, <1>7, <2>2 DEF CallsSound
    <3>2. batches[r.lease] \in Nat /\ batches'[r.lease] \in {batches[r.lease], batches[r.lease] + 1}
      BY <1>3, <1>6, <3>1
    <3> QED BY <3>1, <3>2, SMT
  <2> QED BY <2>1, <2>2
<1>10. \A p \in pending : p.lease = l => p.batch # batches[l] + 1
  BY <1>3, <1>4, <1>5 DEF CallsSound
<1>11. \A p, q \in pending' :
         p.lease = q.lease /\ p.batch = q.batch /\ p.server = q.server => p = q
  BY <1>1, <1>2, <1>7, <1>10 DEF CallsSound
<1>12. \A m \in responses' : m.request \in pending' /\ m.request \notin requests'
  BY <1>1, <1>7, <1>10 DEF CallsSound
<1> QED BY <1>8, <1>9, <1>11, <1>12 DEF CallsSound

\* A server answers a call once.
LEMMA AnsweredOnce ==
  ASSUME TypeOK, CallsSound, NEW r \in requests, requests' = requests \ {r},
         NEW status, NEW ttl, Respond(r, status, ttl),
         UNCHANGED <<pending, pc, batches, foreground>>
  PROVE  CallsSound'
<1> DEFINE answer == [request |-> r, status |-> status, ttl |-> ttl]
<1>1. \A m \in responses' : m \in responses \/ (r \in pending /\ m = answer)
  BY DEF Respond
<1>2. answer.request = r
  OBVIOUS
<1> HIDE DEF answer
<1>3. \A m \in responses : m.request # r
  BY DEF CallsSound
<1>4. \A m \in responses' : m.request \in pending' /\ m.request \notin requests'
  BY <1>1, <1>2 DEF CallsSound
<1>5. \A m1, m2 \in responses' : m1.request = m2.request => m1 = m2
  BY <1>1, <1>2, <1>3 DEF CallsSound
<1> QED BY <1>4, <1>5 DEF CallsSound

\* The result of a call is consumed with the answer it came in, if it came in one.
LEMMA ConsumeCalls ==
  ASSUME TypeOK, CallsSound, NEW r, NEW m, Consume(r, m),
         \A a \in responses : a.request = r => a \in m,
         requests' = requests, batches' = batches, foreground' = foreground,
         \A l \in Leases : pc'[l] = "new" => pc[l] = "new"
  PROVE  CallsSound'
<1>1. pending' = pending \ {r} /\ responses' = responses \ m
  BY DEF Consume
<1>2. \A a \in responses' : a.request \in pending'
  BY <1>1 DEF CallsSound
<1> QED BY <1>1, <1>2, FewerCalls

LEMMA ContinuesCalls ==
  ASSUME TypeOK, CallsSound, NEW r \in Request, NEW m, NEW candidates, NEW confirmed,
         \A a \in responses : a.request = r => a \in m,
         \/ AcquireContinues(r, m, candidates, confirmed)
         \/ RenewContinues(r, m, candidates, confirmed)
  PROVE  CallsSound'
<1>1. r.lease \in Leases
  BY DEF Request
<1>2. CASE FailAcquire(r.lease)
  BY <1>1, <1>2, AbandonCalls DEF FailAcquire
<1>3. CASE Consume(r, m) /\ UNCHANGED <<requests, batches, foreground, pc>>
  BY <1>3, ConsumeCalls
<1>4. CASE RenewContinues(r, m, candidates, confirmed)
  <2>1. \A l \in Leases : pc'[l] = "new" => pc[l] = "new"
    BY <1>4 DEF RenewContinues, TypeOK
  <2>2. Consume(r, m) /\ requests' = requests /\ batches' = batches /\ foreground' = foreground
    BY <1>4 DEF RenewContinues
  <2> QED BY <2>1, <2>2, ConsumeCalls
<1> QED BY <1>2, <1>3, <1>4 DEF AcquireContinues

LEMMA ClientCalls ==
  ASSUME TypeOK, CallsSound, ClientSide
  PROVE  CallsSound'
<1>1. ASSUME NEW l \in Leases, NEW ttl \in RequestTTLs, NEW refused \in SUBSET Servers,
             Acquire(l, ttl, refused)
      PROVE  CallsSound'
  <2>3. pc[l] = "new"
    BY <1>1 DEF Acquire, IsNext
  <2>4. batches[l] = 0
    BY <2>3 DEF CallsSound
  <2>1. batches[l] = 0 /\ batches[l] + 1 = 1
    BY <2>4, SMT
  <2>2. \A k \in Leases : /\ foreground'[k] = foreground[k] \/ (k = l /\ foreground'[k] = batches[k] + 1)
                          /\ pc'[k] = "new" => pc[k] = "new" /\ k # l
    BY <1>1, <2>1 DEF Acquire, TypeOK
  <2> QED BY <1>1, <2>1, <2>2, NewBatch DEF Acquire
<1>2. ASSUME NEW l \in Leases, NEW ttl \in RequestTTLs, NEW refused \in SUBSET Servers,
             Renew(l, ttl, refused)
      PROVE  CallsSound'
  <2>1. \A k \in Leases : /\ foreground'[k] = foreground[k] \/ (k = l /\ foreground'[k] = batches[k] + 1)
                          /\ pc'[k] = "new" => pc[k] = "new" /\ k # l
    BY <1>2 DEF Renew, TypeOK
  <2> QED BY <1>2, <2>1, NewBatch DEF Renew
<1>3. ASSUME NEW l \in Leases, Release(l) \/ CancelAcquire(l) \/ AcquireRefused(l)
      PROVE  CallsSound'
  BY <1>3, AbandonCalls DEF Release, CancelAcquire, AcquireRefused, FailAcquire
<1>4. ASSUME UNCHANGED <<networkVars, batches, foreground>>,
             \A l \in Leases : pc'[l] = "new" => pc[l] = "new"
      PROVE  CallsSound'
  BY <1>4 DEF CallsSound, networkVars
<1>5. ASSUME NEW l \in Leases, CancelRenew(l) \/ HealingTargets(l)
      PROVE  CallsSound'
  BY <1>4, <1>5 DEF CancelRenew, HealingTargets, TypeOK
<1>6. ASSUME NEW l \in Leases, HealReplicas(l)
      PROVE  CallsSound'
  <2>1. CASE UNCHANGED <<requests, pending, batches>>
    BY <1>4, <1>6, <2>1 DEF HealReplicas, networkVars
  <2>2. CASE Valid(l) /\ ~UNCHANGED <<requests, pending, batches>>
    <3>1. pc[l] # "new" /\ pc' = pc /\ foreground' = foreground
      BY <1>6, <2>2 DEF HealReplicas, Valid, Owned
    <3> QED BY <1>6, <2>2, <3>1, NewBatch DEF HealReplicas
  <2> QED BY <1>6, <2>1, <2>2 DEF HealReplicas
<1>7. ASSUME NEW l \in Leases, RenewRefused(l)
      PROVE  CallsSound'
  <2>1. \A k \in Leases : /\ batches'[k] \in {batches[k], batches[k] + 1}
                          /\ pc'[k] = "new" => pc[k] = "new" /\ batches'[k] = batches[k]
    BY <1>7 DEF RenewRefused, TypeOK
  <2>2. \A m \in responses : m.request \in pending
    BY DEF CallsSound
  <2> QED BY <1>7, <2>1, <2>2, FewerCalls DEF RenewRefused, networkVars
<1>8. ASSUME NEW m \in responses, NEW until, QuorumReached(m, until)
      PROVE  CallsSound'
  <2>1. \A a \in responses : a.request = m.request => a \in {m}
    BY DEF CallsSound
  <2>2. \A l \in Leases : pc'[l] = "new" => pc[l] = "new"
    BY <1>8 DEF QuorumReached, TypeOK
  <2> QED BY <1>8, <2>1, <2>2, ConsumeCalls DEF QuorumReached
<1>9. ASSUME NEW m \in responses, AcquireResponse(m) \/ RenewResponse(m) \/ BackgroundResponse(m)
      PROVE  CallsSound'
  <2>1. m.request \in Request
    BY DEF TypeOK, Response
  <2>2. \A a \in responses : a.request = m.request => a \in {m}
    BY DEF CallsSound
  <2>3. CASE BackgroundResponse(m)
    BY <2>2, <2>3, ConsumeCalls DEF BackgroundResponse
  <2> QED BY <1>8, <1>9, <2>1, <2>2, <2>3, ContinuesCalls DEF AcquireResponse, RenewResponse
<1>10. ASSUME NEW r \in pending, CallFails(r)
       PROVE  CallsSound'
  <2> DEFINE arrived == {m \in responses : m.request = r}
             confirmed == IF r.kind = "renew" THEN ClearConfirmed(r.lease, r.server)
                                              ELSE confirmedUntil
  <2>1. r \in Request /\ \A a \in responses : a.request = r => a \in arrived
    BY DEF TypeOK
  <2>2. \/ AcquireContinues(r, arrived, candidate[r.lease], confirmed)
        \/ RenewContinues(r, arrived, candidate[r.lease], confirmed)
        \/ UNCHANGED <<requests, pc, batches, foreground>> /\ Consume(r, arrived)
    BY <1>10 DEF CallFails
  <2> HIDE DEF arrived, confirmed
  <2> QED BY <2>1, <2>2, ContinuesCalls, ConsumeCalls
<1>11. ASSUME SingleStep
       PROVE  CallsSound'
  <2>1. PICK r \in Request : FailAcquire(r.lease) \/ \E v \in Nat : SingleReturns(r, v)
    BY <1>11, SingleCases
  <2>2. r.lease \in Leases
    BY DEF Request
  <2>3. CASE FailAcquire(r.lease)
    BY <2>2, <2>3, AbandonCalls DEF FailAcquire
  <2>4. CASE \E v \in Nat : SingleReturns(r, v)
    <3>1. /\ EndCall(r) /\ \A l \in Leases : pc'[l] = "new" => pc[l] = "new"
      BY <2>4 DEF SingleReturns, TypeOK
    <3>2. /\ pending' \subseteq pending /\ responses' \subseteq responses
          /\ \A m \in responses' : m.request \in pending'
      BY <3>1 DEF EndCall, CallsSound
    <3> QED BY <3>1, <3>2, FewerCalls DEF EndCall
  <2> QED BY <2>1, <2>3, <2>4
<1> QED
  BY <1>1, <1>2, <1>3, <1>5, <1>6, <1>7, <1>9, <1>10, <1>11 DEF ClientSide, ClientStep, SingleStep

LEMMA CallsStep ==
  ASSUME TypeOK, CallsSound, [Next]_vars
  PROVE  CallsSound'
<1>1. CASE UNCHANGED <<requests, responses, pending, pc, batches, foreground>>
  BY <1>1 DEF CallsSound
<1>2. CASE ServerSide
  <2>1. UNCHANGED <<pending, pc, batches, foreground>>
    BY <1>2, ServerFrame DEF leaseVars
  <2>2. ASSUME NEW r \in requests, NEW status, NEW ttl, Respond(r, status, ttl),
               requests' = requests \ {r}
        PROVE  CallsSound'
    BY <2>1, <2>2, AnsweredOnce
  <2>3. ASSUME NEW s \in Servers, Restart(s) \/ EndQuarantine(s) \/ RemoveExpired(s)
        PROVE  CallsSound'
    BY <1>1, <2>1, <2>3 DEF Restart, EndQuarantine, RemoveExpired, networkVars
  <2>4. ASSUME NEW r \in requests, RejectNotReady(r)
        PROVE  CallsSound'
    BY <2>2, <2>4 DEF RejectNotReady
  <2>5. ASSUME NEW r \in requests, NEW t, NEW id, NEW until, NEW status, NEW ttl,
               HandlerEffect(r, t, id, until, status, ttl)
        PROVE  CallsSound'
    BY <2>2, <2>5 DEF HandlerEffect, FinishApply
  <2> QED BY <1>2, <2>3, <2>4, <2>5, ServerCases
<1>3. CASE Tick \/ UNCHANGED vars
  BY <1>1, <1>3 DEF Tick, vars, networkVars, leaseVars
<1> QED BY <1>2, <1>3, ClientCalls, NextSides

-----------------------------------------------------------------------------
(* The operations. *)

\* How a step may change the operation of a lease: not at all, apart from fewer open
\* calls; it returns; it starts; or it goes on to wait after a result.
Untouched(l) ==
  /\ pc'[l] = pc[l] /\ foreground'[l] = foreground[l] /\ candidate'[l] = candidate[l]
  /\ Awaited(l, foreground[l])' \subseteq Awaited(l, foreground[l])

Returned(l) ==
  /\ pc'[l] \notin {"acquiring", "renewing"}
  /\ candidate'[l] = ZeroTimes \/ (IsSingle(l) /\ candidate'[l] = candidate[l])

Started(l) == ~Operating(l) /\ candidate'[l] = candidate[l]

Waiting(l) ==
  /\ ~IsSingle(l) /\ Operating(l) /\ pc'[l] = pc[l] /\ foreground'[l] = foreground[l]
  /\ Cardinality(Unexpired(candidate'[l], OwnClock(l))) < QuorumSize
  /\ \A p \in pending' : p.lease = l /\ p.batch = foreground[l] => candidate'[l][p.server] = 0

OpEffect(l) == Untouched(l) \/ Returned(l) \/ Started(l) \/ Waiting(l)

LEMMA OpEffectSound ==
  ASSUME TypeOK, NEW l \in Leases, OpSound(l), OpEffect(l), clock' = clock, TypeOK'
  PROVE  OpSound(l)'
<1>1. OwnClock(l)' = OwnClock(l) /\ OwnClock(l) \in Nat
  BY LeaseClient DEF TypeOK, OwnClock, Nodes
<1>2. ASSUME candidate'[l] = ZeroTimes
      PROVE  OpSound(l)'
  <2>1. \A t \in Nat : ~(t < 0)
    BY SMT
  <2>2. Unexpired(ZeroTimes, OwnClock(l)) = {}
    BY <1>1, <2>1 DEF Unexpired, ZeroTimes
  <2>3. \A n \in Nat : n > 0 => 0 < n
    BY SMT
  <2>4. Cardinality(Unexpired(candidate'[l], OwnClock(l)')) < QuorumSize
    BY <1>1, <1>2, <2>2, <2>3, ServerSets
  <2>5. \A p \in pending' : p.server \in Servers
    BY DEF TypeOK, Request
  <2> QED BY <1>2, <2>4, <2>5 DEF OpSound, Unexpired, Awaited, ZeroTimes
<1>3. CASE Untouched(l)
  BY <1>1, <1>3 DEF OpSound, Untouched, Operating, Unexpired, Awaited
<1>4. CASE Returned(l)
  BY <1>2, <1>4 DEF OpSound, Returned
<1>5. CASE Started(l)
  BY <1>2, <1>5 DEF OpSound, Started
<1>6. CASE Waiting(l)
  BY <1>1, <1>6 DEF OpSound, Waiting, Operating, Unexpired, Awaited
<1> QED BY <1>3, <1>4, <1>5, <1>6 DEF OpEffect

\* Giving up a lease, and a result of another operation, add no call to the others.
LEMMA AbandonEffects ==
  ASSUME TypeOK, NEW l \in Leases, NEW stage \in {"released", "failed"},
         pc' = [pc EXCEPT ![l] = stage], AbandonAndRelease(l), foreground' = foreground,
         NEW k \in Leases
  PROVE  OpEffect(k)
<1>1. CASE k = l
  BY <1>1 DEF TypeOK, AbandonAndRelease, OpEffect, Returned
<1>2. CASE k # l
  BY <1>2 DEF TypeOK, AbandonAndRelease, OpEffect, Untouched, Awaited
<1> QED BY <1>1, <1>2

LEMMA ConsumeKeeps ==
  ASSUME NEW r, NEW m, Consume(r, m), NEW k, foreground'[k] = foreground[k]
  PROVE  Awaited(k, foreground[k])' \subseteq Awaited(k, foreground[k])
  BY DEF Consume, Awaited

\* A result that completes no quorum leaves fewer valid candidates than a quorum.
LEMMA NoQuorumTime ==
  ASSUME TypeOK, NEW l \in Leases, NEW candidates \in [Servers -> Nat], NEW success \in BOOLEAN,
         {v \in BestAcquireQuorum(candidates) : success /\ OwnClock(l) < v} = {},
         success \/ (candidates = candidate[l] /\ OpSound(l))
  PROVE  Cardinality(Unexpired(candidates, OwnClock(l))) < QuorumSize
<1>1. OwnClock(l) \in Nat
  BY LeaseClient DEF TypeOK, OwnClock, Nodes
<1>2. CASE success
  <2>1. ~(Cardinality(Unexpired(candidates, OwnClock(l))) >= QuorumSize)
    BY <1>1, <1>2, QuorumTimeExists
  <2>2. Cardinality(Unexpired(candidates, OwnClock(l))) \in Nat /\ QuorumSize \in Nat
    BY ServerSets DEF Unexpired
  <2>3. \A a, b \in Nat : ~(a >= b) => a < b
    BY SMT
  <2> QED BY <2>1, <2>2, <2>3
<1> QED BY <1>2 DEF OpSound

\* The candidates an operation has after the result of r are its candidates before it,
\* but for the one of r's server.
Collects(r, candidates) ==
  /\ candidates \in [Servers -> Nat]
  /\ \A s \in Servers : s # r.server => candidates[s] = candidate[r.lease][s]

LEMMA Collected ==
  ASSUME TypeOK, NEW m \in responses, NEW success \in BOOLEAN
  PROVE  Collects(m.request, IF success THEN CandidatesWith(m) ELSE candidate[m.request.lease])
<1>1. m.request.lease \in Leases /\ m.request.server \in Servers
  BY DEF TypeOK, Response, Request
<1>2. candidate[m.request.lease] \in [Servers -> Nat]
  BY <1>1 DEF TypeOK
<1>3. CASE success
  <2>1. \A s \in Servers : s # m.request.server =>
          CandidatesWith(m)[s] = candidate[m.request.lease][s]
    BY <1>1, <1>2 DEF CandidatesWith
  <2> QED BY <1>3, <2>1, CandidatesWithType DEF Collects
<1>4. CASE ~success
  BY <1>2, <1>4 DEF Collects
<1> QED BY <1>3, <1>4

\* The loops of Acquire and Renew after such a result, or after a failed call.
LEMMA ContinuesKeeps ==
  ASSUME TypeOK, CallsSound, NEW r \in pending, NEW m, NEW candidates, NEW confirmed,
         OpSound(r.lease), Collects(r, candidates), IsForeground(r), ~IsSingle(r.lease),
         Cardinality(Unexpired(candidates, OwnClock(r.lease))) < QuorumSize,
         \/ AcquireContinues(r, m, candidates, confirmed)
         \/ pc[r.lease] = "renewing" /\ RenewContinues(r, m, candidates, confirmed),
         NEW k \in Leases
  PROVE  OpEffect(k)
<1>1. /\ r.lease \in Leases /\ r.batch = foreground[r.lease] /\ Operating(r.lease)
      /\ candidates \in [Servers -> Nat]
  BY DEF TypeOK, Request, IsForeground, Operating, Collects
<1>2. CASE FailAcquire(r.lease)
  BY <1>1, <1>2, AbandonEffects DEF FailAcquire
<1>3. CASE /\ Consume(r, m)
           /\ pc'[r.lease] = pc[r.lease] /\ \A q \in Leases : q # r.lease => pc'[q] = pc[q]
           /\ candidate' = [candidate EXCEPT ![r.lease] = candidates]
           /\ foreground' = foreground
  <2>1. CASE k = r.lease
    <3>1. candidate'[k] = candidates
      BY <1>1, <1>3, <2>1 DEF TypeOK
    <3>2. ASSUME NEW p \in pending', p.lease = k, p.batch = foreground[k]
          PROVE  candidate'[k][p.server] = 0
      <4>1. p \in pending /\ p # r /\ p.server \in Servers
        <5>1. p \in pending /\ p # r
          BY <1>3 DEF Consume
        <5> QED BY <5>1 DEF TypeOK, Request
      <4>2. p.server # r.server
        <5>1. p.lease = r.lease /\ p.batch = r.batch
          BY <1>1, <2>1, <3>2
        <5>2. p.server = r.server => p = r
          BY <4>1, <5>1 DEF CallsSound
        <5> QED BY <4>1, <5>2
      <4>3. candidate[k][p.server] = 0
        BY <2>1, <3>2, <4>1 DEF OpSound, Awaited
      <4> QED BY <2>1, <3>1, <4>1, <4>2, <4>3 DEF Collects
    <3> QED BY <1>1, <1>3, <2>1, <3>1, <3>2 DEF OpEffect, Waiting
  <2>2. CASE k # r.lease
    <3>1. candidate'[k] = candidate[k]
      BY <1>3, <2>2 DEF TypeOK
    <3> QED BY <1>3, <2>2, <3>1, ConsumeKeeps DEF OpEffect, Untouched
  <2> QED BY <2>1, <2>2
<1>4. CASE /\ pc' = [pc EXCEPT ![r.lease] = "active"] /\ foreground' = foreground
           /\ candidate' = [candidate EXCEPT ![r.lease] = ZeroTimes] /\ Consume(r, m)
  <2>1. CASE k = r.lease
    BY <1>1, <1>4, <2>1 DEF TypeOK, OpEffect, Returned
  <2>2. CASE k # r.lease
    <3>1. candidate'[k] = candidate[k] /\ pc'[k] = pc[k]
      BY <1>4, <2>2 DEF TypeOK
    <3> QED BY <1>4, <2>2, <3>1, ConsumeKeeps DEF OpEffect, Untouched
  <2> QED BY <2>1, <2>2
<1>5. CASE AcquireContinues(r, m, candidates, confirmed)
  BY <1>2, <1>3, <1>5 DEF AcquireContinues
<1>6. CASE pc[r.lease] = "renewing" /\ RenewContinues(r, m, candidates, confirmed)
  <2>1. CASE GoesOn(r, candidates)
    <3>1. pc' = [pc EXCEPT ![r.lease] = pc[r.lease]]
      BY <1>6, <2>1 DEF RenewContinues
    <3>2. pc'[r.lease] = pc[r.lease] /\ \A q \in Leases : q # r.lease => pc'[q] = pc[q]
      BY <1>1, <3>1 DEF TypeOK
    <3> QED BY <1>3, <1>6, <2>1, <3>2 DEF RenewContinues
  <2>2. CASE ~GoesOn(r, candidates)
    BY <1>4, <1>6, <2>2 DEF RenewContinues
  <2> QED BY <2>1, <2>2
<1> QED BY <1>5, <1>6

LEMMA QuorumReachedReturns ==
  ASSUME TypeOK, NEW m \in responses, NEW until, QuorumReached(m, until), NEW k \in Leases
  PROVE  OpEffect(k)
<1>1. m.request.lease \in Leases
  BY DEF TypeOK, Response, Request
<1>2. CASE k = m.request.lease
  BY <1>1, <1>2 DEF TypeOK, QuorumReached, OpEffect, Returned
<1>3. CASE k # m.request.lease
  <2>1. candidate'[k] = candidate[k] /\ pc'[k] = pc[k] /\ foreground' = foreground
    BY <1>3 DEF TypeOK, QuorumReached
  <2>2. Consume(m.request, {m})
    BY DEF QuorumReached
  <2> QED BY <1>3, <2>1, <2>2, ConsumeKeeps DEF OpEffect, Untouched
<1> QED BY <1>2, <1>3

\* A new batch belongs to the operation that starts, or to none that runs.
LEMMA BatchEffects ==
  ASSUME TypeOK, CallsSound, NEW l \in Leases, NEW kind, NEW ttl, NEW start, NEW targets,
         pending' = pending \cup Calls(l, batches[l] + 1, kind, ttl, start, targets),
         candidate' = candidate,
         \A k \in Leases : (k # l \/ Operating(k)) => pc'[k] = pc[k] /\ foreground'[k] = foreground[k],
         NEW k \in Leases
  PROVE  OpEffect(k)
<1>1. \A r \in Calls(l, batches[l] + 1, kind, ttl, start, targets) :
        r.lease = l /\ r.batch = batches[l] + 1
  BY SMT DEF Calls
<1>2. CASE k # l
  BY <1>1, <1>2 DEF OpEffect, Untouched, Awaited
<1>3. CASE k = l /\ Operating(k)
  <2>1. \A a, b \in Nat : a <= b => a # b + 1
    BY SMT
  <2>2. foreground[k] # batches[k] + 1
    BY <2>1 DEF TypeOK, CallsSound
  <2> QED BY <1>1, <1>3, <2>2 DEF OpEffect, Untouched, Awaited
<1>4. CASE ~Operating(k)
  BY <1>4 DEF OpEffect, Started
<1> QED BY <1>2, <1>3, <1>4

\* Every step of a client.
LEMMA ClientOperations ==
  ASSUME TypeOK, CallsSound, ClientSide, \A l \in Leases : OpSound(l), NEW k \in Leases
  PROVE  OpEffect(k)
<1>1. ASSUME NEW l \in Leases, NEW ttl \in RequestTTLs, NEW refused \in SUBSET Servers,
             Acquire(l, ttl, refused) \/ Renew(l, ttl, refused)
      PROVE  OpEffect(k)
  <2>1. /\ ~Operating(l) /\ candidate' = candidate
        /\ \A q \in Leases : q # l => pc'[q] = pc[q] /\ foreground'[q] = foreground[q]
    BY <1>1 DEF TypeOK, Acquire, IsNext, Renew, Operating
  <2>2. \E b, kind : pending' = pending \cup Calls(l, b, kind, ttl, OwnClock(l), Servers \ refused)
    BY <1>1 DEF Acquire, Renew
  <2>3. CASE k = l
    BY <2>1, <2>3 DEF OpEffect, Started
  <2>4. CASE k # l
    <3>1. \A p \in pending' \ pending : p.lease = l
      BY <2>2, CallFields, SMTT(20)
    <3> QED BY <2>1, <2>4, <3>1 DEF OpEffect, Untouched, Awaited
  <2> QED BY <2>3, <2>4
<1>2. ASSUME NEW l \in Leases, HealReplicas(l)
      PROVE  OpEffect(k)
  <2>1. UNCHANGED <<pc, foreground, candidate>>
    BY <1>2 DEF HealReplicas
  <2>2. CASE UNCHANGED pending
    BY <2>1, <2>2 DEF OpEffect, Untouched, Awaited
  <2> QED BY <1>2, <2>1, <2>2, BatchEffects DEF HealReplicas
<1>3. ASSUME NEW l \in Leases, Release(l) \/ CancelAcquire(l) \/ AcquireRefused(l)
      PROVE  OpEffect(k)
  BY <1>3, AbandonEffects DEF Release, CancelAcquire, AcquireRefused, FailAcquire
<1>4. ASSUME NEW l \in Leases, CancelRenew(l)
      PROVE  OpEffect(k)
  <2>1. CASE k = l
    BY <1>4, <2>1 DEF TypeOK, CancelRenew, OpEffect, Returned
  <2>2. CASE k # l
    BY <1>4, <2>2 DEF TypeOK, CancelRenew, OpEffect, Untouched, Awaited, networkVars
  <2> QED BY <2>1, <2>2
<1>5. ASSUME NEW l \in Leases, HealingTargets(l) \/ RenewRefused(l)
      PROVE  OpEffect(k)
  BY <1>5 DEF HealingTargets, RenewRefused, OpEffect, Untouched, Awaited, networkVars
<1>6. ASSUME NEW m \in responses, AcquireResponse(m)
      PROVE  OpEffect(k)
  <2> DEFINE l == m.request.lease
             success == IsSuccessfulAcquire(m.status)
             candidates == IF success THEN CandidatesWith(m) ELSE candidate[l]
             times == {v \in BestAcquireQuorum(candidates) : success /\ OwnClock(l) < v}
  <2>1. m.request \in pending /\ l \in Leases
    BY DEF TypeOK, Response, Request, CallsSound
  <2>2. success \in BOOLEAN
    BY SMT DEF IsSuccessfulAcquire
  <2>3. success \/ (candidates = candidate[l] /\ OpSound(l))
    BY <2>1
  <2>4. IsForeground(m.request) /\ ~IsSingle(l)
    BY <1>6 DEF AcquireResponse
  <2>5. \/ \E v \in times : QuorumReached(m, v)
        \/ times = {} /\ AcquireContinues(m.request, {m}, candidates, ConfirmedAfter(m))
    BY <1>6 DEF AcquireResponse
  <2> HIDE DEF success
  <2>6. Collects(m.request, candidates) /\ candidates \in [Servers -> Nat]
    BY <2>2, Collected DEF Collects
  <2> HIDE DEF candidates
  <2>7. times = {} => Cardinality(Unexpired(candidates, OwnClock(l))) < QuorumSize
    BY <2>1, <2>2, <2>3, <2>6, NoQuorumTime
  <2> HIDE DEF times
  <2> QED BY <2>1, <2>4, <2>5, <2>6, <2>7, QuorumReachedReturns, ContinuesKeeps
<1>7. ASSUME NEW m \in responses, RenewResponse(m)
      PROVE  OpEffect(k)
  <2> DEFINE l == m.request.lease
             success == m.status = "OK"
             candidates == IF success THEN CandidatesWith(m) ELSE candidate[l]
             times == {v \in BestAcquireQuorum(candidates) : success /\ OwnClock(l) < v}
  <2>1. m.request \in pending /\ l \in Leases
    BY DEF TypeOK, Response, Request, CallsSound
  <2>2. success \in BOOLEAN
    OBVIOUS
  <2>3. success \/ (candidates = candidate[l] /\ OpSound(l))
    BY <2>1
  <2>4. IsForeground(m.request) /\ ~IsSingle(l) /\ pc[l] = "renewing"
    BY <1>7 DEF RenewResponse
  <2>5. \/ \E v \in times : QuorumReached(m, RenewedUntil(l, v))
        \/ times = {} /\ RenewContinues(m.request, {m}, candidates, ConfirmedAfter(m))
    BY <1>7 DEF RenewResponse
  <2> HIDE DEF success
  <2>6. Collects(m.request, candidates) /\ candidates \in [Servers -> Nat]
    BY <2>2, Collected DEF Collects
  <2> HIDE DEF candidates
  <2>7. times = {} => Cardinality(Unexpired(candidates, OwnClock(l))) < QuorumSize
    BY <2>1, <2>2, <2>3, <2>6, NoQuorumTime
  <2> HIDE DEF times
  <2> QED BY <2>1, <2>4, <2>5, <2>6, <2>7, QuorumReachedReturns, ContinuesKeeps
<1>8. ASSUME NEW r, NEW m, Consume(r, m), UNCHANGED <<pc, foreground, candidate>>
      PROVE  OpEffect(k)
  BY <1>8, ConsumeKeeps DEF OpEffect, Untouched
<1>9. ASSUME NEW m \in responses, BackgroundResponse(m)
      PROVE  OpEffect(k)
  BY <1>8, <1>9 DEF BackgroundResponse
<1>10. ASSUME NEW r \in pending, CallFails(r)
       PROVE  OpEffect(k)
  <2>1. r.lease \in Leases /\ OpSound(r.lease)
    BY DEF TypeOK, Request
  <2>2. /\ Collects(r, candidate[r.lease])
        /\ Cardinality(Unexpired(candidate[r.lease], OwnClock(r.lease))) < QuorumSize
    BY <2>1 DEF TypeOK, OpSound, Collects
  <2> QED BY <1>8, <1>10, <2>1, <2>2, ContinuesKeeps DEF CallFails
<1>11. ASSUME SingleStep
       PROVE  OpEffect(k)
  <2>1. PICK r \in Request : /\ IsSingle(r.lease)
                             /\ \/ FailAcquire(r.lease)
                                \/ \E v \in Nat : SingleReturns(r, v)
    BY <1>11, SingleCases
  <2>2. r.lease \in Leases
    BY DEF Request
  <2>3. CASE FailAcquire(r.lease)
    BY <2>2, <2>3, AbandonEffects DEF FailAcquire
  <2>4. CASE \E v \in Nat : SingleReturns(r, v)
    <3>1. CASE k = r.lease
      BY <2>1, <2>2, <2>4, <3>1 DEF TypeOK, SingleReturns, EndCall, OpEffect, Returned
    <3>2. CASE k # r.lease
      BY <2>4, <3>2 DEF TypeOK, SingleReturns, EndCall, OpEffect, Untouched, Awaited
    <3> QED BY <3>1, <3>2
  <2> QED BY <2>1, <2>3, <2>4
<1> QED
  BY <1>1, <1>2, <1>3, <1>4, <1>5, <1>6, <1>7, <1>9, <1>10, <1>11
     DEF ClientSide, ClientStep, SingleStep

\* Candidates only run out as time passes.
LEMMA TickOperations ==
  ASSUME TypeOK, Tick, NEW l \in Leases, OpSound(l)
  PROVE  OpSound(l)'
<1>1. OwnClock(l) \in Nat /\ OwnClock(l)' \in Nat /\ OwnClock(l) <= OwnClock(l)'
  <2>1. ClientOf(l) \in Nodes
    BY LeaseClient DEF Nodes
  <2>2. now + 1 \in Nat /\ now + 1 + Drift \in Nat
    BY RedLeaseAssumption, SMT DEF TypeOK
  <2>3. \A a, b \in Nat : a..b \subseteq Nat
    BY SMT
  <2>4. OwnClock(l) \in Nat /\ OwnClock(l)' \in Nat /\ OwnClock(l)' >= OwnClock(l)
    BY <2>1, <2>2, <2>3 DEF TypeOK, Tick, OwnClock
  <2> QED BY <2>4, SMT
<1>2. UNCHANGED <<pc, foreground, candidate, pending>>
  BY DEF Tick, leaseVars, networkVars
<1>3. candidate[l] \in [Servers -> Nat]
  BY DEF TypeOK
<1>4. \A a, b, d \in Nat : a <= b /\ b < d => a < d
  BY SMT
<1>5. Unexpired(candidate[l], OwnClock(l)') \subseteq Unexpired(candidate[l], OwnClock(l))
  BY <1>1, <1>3, <1>4 DEF Unexpired
<1>6. Cardinality(Unexpired(candidate[l], OwnClock(l)')) < QuorumSize
  <2> DEFINE later == Unexpired(candidate[l], OwnClock(l)')
             earlier == Unexpired(candidate[l], OwnClock(l))
  <2>1. later \in SUBSET Servers /\ earlier \in SUBSET Servers /\ later \subseteq earlier
    BY <1>5 DEF Unexpired
  <2>2. Cardinality(earlier) < QuorumSize
    BY DEF OpSound
  <2>3. \A a, b, d \in Nat : a <= b /\ b < d => a < d
    BY SMT
  <2> HIDE DEF later, earlier
  <2>4. Cardinality(later) < QuorumSize
    BY <2>1, <2>2, <2>3, ServerSets
  <2> QED BY <2>4 DEF later
<1> QED BY <1>2, <1>6 DEF OpSound, Operating, Awaited, Unexpired

-----------------------------------------------------------------------------
(* Giving up. *)

\* The response m is a success for the operation of its lease.
Success(m) == m.status = "OK" \/ (pc[m.request.lease] = "acquiring" /\ IsSuccessfulAcquire(m.status))

\* The open calls of a batch, r apart, are as many as the servers they went to.
LEMMA OpenCalls ==
  ASSUME TypeOK, CallsSound, NEW r
  PROVE  LET remaining == Awaited(r.lease, r.batch) \ {r}
             asked == {p.server : p \in remaining}
         IN  asked \in SUBSET Servers /\ Cardinality(remaining) = Cardinality(asked)
<1> DEFINE remaining == Awaited(r.lease, r.batch) \ {r}
           asked == {p.server : p \in remaining}
           f == [p \in remaining |-> p.server]
<1>1. asked \in SUBSET Servers
  <2>1. \A p \in pending : p.server \in Servers
    BY DEF TypeOK, Request
  <2> QED BY <2>1 DEF Awaited
<1>2. IsFiniteSet(asked)
  BY <1>1, FS_Subset, RedLeaseAssumption
<1>3. \A p, q \in remaining : p.server = q.server => p = q
  BY DEF Awaited, CallsSound
<1>4. f \in Injection(remaining, asked) /\ f \in Surjection(remaining, asked)
  BY <1>3 DEF Injection, IsInjective, Surjection
<1> HIDE DEF remaining, asked, f
<1>5. Cardinality(remaining) = Cardinality(asked)
  BY <1>2, <1>4, FS_Injection
<1> QED BY <1>1, <1>5 DEF remaining, asked

\* What an operation can still use when it gives up is no quorum: what it has
\* collected, and an answer for some of the calls that are open.
LEMMA GivingUp ==
  ASSUME TypeOK, CallsSound, NEW m \in responses, NEW l \in Leases, l = m.request.lease,
         OpSound(l), IsForeground(m.request), NEW candidates \in [Servers -> Nat],
         Success(m) => candidates = CandidatesWith(m),
         ~Success(m) => candidates = candidate[l],
         Cardinality(Unexpired(candidates, OwnClock(l))) < QuorumSize,
         ~GoesOn(m.request, candidates)
  PROVE  ~(Cardinality(Usable(l)) >= QuorumSize)
<1> DEFINE r == m.request
           remaining == Awaited(l, r.batch) \ {r}
           asked == {p.server : p \in remaining}
           good == Unexpired(candidates, OwnClock(l))
<1>1. /\ r \in pending /\ r.server \in Servers /\ r.batch = foreground[l]
      /\ candidate[l] \in [Servers -> Nat] /\ OwnClock(l) \in Nat
  <2>1. r \in pending
    BY DEF CallsSound
  <2>2. OwnClock(l) \in Nat
    BY LeaseClient DEF TypeOK, OwnClock, Nodes
  <2> QED BY <2>1, <2>2 DEF TypeOK, Request, IsForeground
<1>2. candidate[l][r.server] = 0
  BY <1>1 DEF OpSound, Awaited
<1>3. \A s \in Servers : /\ s # r.server => candidates[s] = candidate[l][s]
                         /\ s = r.server /\ Success(m) =>
                              candidates[s] = CandidateValidUntil(r.start, m.ttl)
  BY <1>1 DEF CandidatesWith
<1>4. ASSUME NEW s \in Usable(l)
      PROVE  s \in good \cup asked
  <2>1. s \in Servers
    BY DEF Usable
  <2>2. CASE OwnClock(l) < candidate[l][s]
    <3>1. \A t \in Nat : ~(t < 0)
      BY SMT
    <3>2. s # r.server
      BY <1>1, <1>2, <2>2, <3>1
    <3> QED BY <1>3, <2>1, <2>2, <3>2 DEF Unexpired
  <2>3. ASSUME NEW a \in responses, a.request.lease = l, a.request.batch = foreground[l],
               a.request.server = s, Success(a),
               OwnClock(l) < CandidateValidUntil(a.request.start, a.ttl)
        PROVE  s \in good \cup asked
    <3>1. CASE a.request = r
      <4>1. a = m
        BY <3>1 DEF CallsSound
      <4> QED BY <1>3, <2>1, <2>3, <4>1 DEF Unexpired
    <3>2. CASE a.request # r
      <4>1. a.request \in remaining
        BY <1>1, <2>3, <3>2 DEF Awaited, CallsSound
      <4> QED BY <2>3, <4>1
    <3> QED BY <3>1, <3>2
  <2> QED BY <2>2, <2>3 DEF Usable, Success
<1>5. asked \in SUBSET Servers /\ Cardinality(remaining) = Cardinality(asked)
  BY OpenCalls
<1>6. /\ remaining = {} \/ ~(Cardinality(good) + Cardinality(remaining) >= QuorumSize)
  BY DEF GoesOn, AcquireQuorumStillPossible, Unexpired
<1>7. good \in SUBSET Servers /\ Usable(l) \in SUBSET Servers
  BY DEF Unexpired, Usable
<1>8. remaining = {} => asked = {}
  OBVIOUS
<1>9. Cardinality(good) < QuorumSize
  OBVIOUS
<1> HIDE DEF remaining, asked, good, r
<1>10. Usable(l) \subseteq good \cup asked /\ good \cup asked \in SUBSET Servers
  BY <1>4, <1>5, <1>7
<1>11. /\ Cardinality(good) \in Nat /\ Cardinality(asked) \in Nat /\ QuorumSize \in Nat
       /\ Cardinality(good \cup asked) \in Nat /\ Cardinality(Usable(l)) \in Nat
       /\ Cardinality(good \cap asked) \in Nat
       /\ Cardinality(Usable(l)) <= Cardinality(good \cup asked)
  BY <1>5, <1>7, <1>10, ServerSets
<1>12. Cardinality(good \cup asked) = Cardinality(good) + Cardinality(asked) - Cardinality(good \cap asked)
  BY <1>5, <1>7, FS_Subset, FS_Union, RedLeaseAssumption
<1>13. CASE remaining = {}
  <2>1. good \cup asked = good
    BY <1>8, <1>13
  <2>2. Cardinality(Usable(l)) <= Cardinality(good)
    BY <1>11, <2>1
  <2>3. \A a, b, c \in Nat : a <= b /\ b < c => ~(a >= c)
    BY SMT
  <2> QED BY <1>9, <1>11, <2>2, <2>3
<1>14. CASE ~(Cardinality(good) + Cardinality(asked) >= QuorumSize)
  BY <1>11, <1>12, <1>14, SMT
<1> QED BY <1>5, <1>6, <1>13, <1>14

\* An operation that returns by itself has its quorum or gives up.
LEMMA Returns ==
  ASSUME TypeOK, CallsSound, ClientStep, NEW l \in Leases, OpSound(l), ~IsSingle(l),
         Operating(l), pc'[l] # pc[l], Cardinality(Usable(l)) >= QuorumSize
  PROVE  Valid(l)'
<1>1. ASSUME NEW k \in Leases, NEW ttl \in RequestTTLs, NEW refused \in SUBSET Servers,
             Acquire(k, ttl, refused) \/ Renew(k, ttl, refused)
      PROVE  FALSE
  BY <1>1 DEF TypeOK, Acquire, IsNext, Renew, Operating
<1>2. ASSUME NEW k \in Leases, \/ AcquireRefused(k) \/ RenewRefused(k) \/ Release(k)
                               \/ HealingTargets(k) \/ HealReplicas(k)
      PROVE  FALSE
  BY <1>2 DEF TypeOK, AcquireRefused, IsNext, FailAcquire, RenewRefused, Release, HealingTargets,
              HealReplicas, Operating
<1>3. ASSUME NEW m \in responses,
             BackgroundResponse(m) \/ SingleAcquireResponse(m) \/ SingleRenewResponse(m)
      PROVE  FALSE
  <2>1. CASE BackgroundResponse(m)
    BY <2>1 DEF BackgroundResponse
  <2>2. CASE SingleAcquireResponse(m) \/ SingleRenewResponse(m)
    <3>1. m.request.lease # l
      BY <2>2 DEF SingleAcquireResponse, SingleRenewResponse
    <3> QED BY <2>2, <3>1 DEF SingleAcquireResponse, SingleRenewResponse, FailAcquire, TypeOK
  <2> QED BY <1>3, <2>1, <2>2
<1>4. ASSUME NEW m \in responses, NEW v \in Nat, OwnClock(l) < v, m.request.lease = l,
             NEW until \in Nat, v <= until, QuorumReached(m, until)
      PROVE  Valid(l)'
  <2>1. pc'[l] = "active" /\ validUntil'[l] = until /\ OwnClock(l)' = OwnClock(l)
    BY <1>4 DEF QuorumReached, TypeOK, OwnClock, timeVars
  <2>2. OwnClock(l) \in Nat
    BY LeaseClient DEF TypeOK, OwnClock, Nodes
  <2>3. OwnClock(l) < until
    BY <1>4, <2>2, SMT
  <2> QED BY <2>1, <2>3 DEF Valid, Owned
<1>5. ASSUME NEW m \in responses, AcquireResponse(m)
      PROVE  Valid(l)'
  <2> DEFINE success == IsSuccessfulAcquire(m.status)
             candidates == IF success THEN CandidatesWith(m) ELSE candidate[m.request.lease]
             times == {v \in BestAcquireQuorum(candidates) : success /\ OwnClock(m.request.lease) < v}
  <2>1. /\ IsForeground(m.request) /\ pc[m.request.lease] = "acquiring"
        /\ \/ \E v \in times : QuorumReached(m, v)
           \/ times = {} /\ AcquireContinues(m.request, {m}, candidates, ConfirmedAfter(m))
    BY <1>5 DEF AcquireResponse
  <2>2. m.request.lease = l
    BY <2>1 DEF QuorumReached, AcquireContinues, FailAcquire, TypeOK
  <2>3. success \in BOOLEAN /\ (Success(m) <=> success)
    <3>1. success \in BOOLEAN /\ (m.status = "OK" => success)
      BY SMT DEF IsSuccessfulAcquire
    <3>2. success <=> IsSuccessfulAcquire(m.status)
      OBVIOUS
    <3> QED BY <2>1, <3>1, <3>2 DEF Success
  <2>4. success => candidates = CandidatesWith(m)
    OBVIOUS
  <2>5. ~success => candidates = candidate[l]
    BY <2>2
  <2> HIDE DEF success
  <2>6. candidates \in [Servers -> Nat]
    BY <2>3, Collected DEF Collects
  <2> HIDE DEF candidates
  <2>7. BestAcquireQuorum(candidates) \subseteq Nat
    BY <2>6 DEF BestAcquireQuorum
  <2>8. ASSUME NEW v \in times, QuorumReached(m, v)
        PROVE  Valid(l)'
    <3>1. v \in Nat /\ OwnClock(l) < v
      BY <2>2, <2>7
    <3>2. v <= v
      BY <3>1, SMT
    <3> QED BY <1>4, <2>2, <2>8, <3>1, <3>2
  <2>9. CASE times = {} /\ AcquireContinues(m.request, {m}, candidates, ConfirmedAfter(m))
    <3>1. ~GoesOn(m.request, candidates)
      BY <2>2, <2>9 DEF AcquireContinues
    <3>2. Cardinality(Unexpired(candidates, OwnClock(l))) < QuorumSize
      BY <2>2, <2>3, <2>5, <2>6, <2>9, NoQuorumTime
    <3> HIDE DEF times
    <3> QED BY <2>1, <2>2, <2>3, <2>4, <2>5, <2>6, <3>1, <3>2, GivingUp
  <2> QED BY <2>1, <2>8, <2>9
<1>6. ASSUME NEW m \in responses, RenewResponse(m)
      PROVE  Valid(l)'
  <2> DEFINE success == m.status = "OK"
             candidates == IF success THEN CandidatesWith(m) ELSE candidate[m.request.lease]
             times == {v \in BestAcquireQuorum(candidates) : success /\ OwnClock(m.request.lease) < v}
  <2>1. /\ IsForeground(m.request) /\ pc[m.request.lease] = "renewing"
        /\ \/ \E v \in times : QuorumReached(m, RenewedUntil(m.request.lease, v))
           \/ times = {} /\ RenewContinues(m.request, {m}, candidates, ConfirmedAfter(m))
    BY <1>6 DEF RenewResponse
  <2>2. m.request.lease = l
    BY <2>1 DEF QuorumReached, RenewContinues, TypeOK
  <2>3. success \in BOOLEAN /\ (Success(m) <=> success)
    BY <2>1 DEF Success
  <2>4. success => candidates = CandidatesWith(m)
    OBVIOUS
  <2>5. ~success => candidates = candidate[l]
    BY <2>2
  <2> HIDE DEF success
  <2>6. candidates \in [Servers -> Nat]
    BY <2>3, Collected DEF Collects
  <2> HIDE DEF candidates
  <2>7. BestAcquireQuorum(candidates) \subseteq Nat
    BY <2>6 DEF BestAcquireQuorum
  <2>8. ASSUME NEW v \in times, QuorumReached(m, RenewedUntil(l, v))
        PROVE  Valid(l)'
    <3>1. v \in Nat /\ OwnClock(l) < v /\ validUntil[l] \in Nat
      BY <2>2, <2>7 DEF TypeOK
    <3>2. RenewedUntil(l, v) \in Nat /\ v <= RenewedUntil(l, v)
      BY <3>1, SMT DEF RenewedUntil
    <3> QED BY <1>4, <2>2, <2>8, <3>1, <3>2
  <2>9. CASE times = {} /\ RenewContinues(m.request, {m}, candidates, ConfirmedAfter(m))
    <3>1. ~GoesOn(m.request, candidates)
      BY <2>2, <2>9 DEF RenewContinues, TypeOK
    <3>2. Cardinality(Unexpired(candidates, OwnClock(l))) < QuorumSize
      BY <2>2, <2>3, <2>5, <2>6, <2>9, NoQuorumTime
    <3> HIDE DEF times
    <3> QED BY <2>1, <2>2, <2>3, <2>4, <2>5, <2>6, <3>1, <3>2, GivingUp
  <2> QED BY <2>1, <2>2, <2>8, <2>9
<1> QED BY <1>1, <1>2, <1>3, <1>5, <1>6 DEF ClientStep

\* An Acquire or Renew that returns by itself returns a valid lease whenever the answers
\* given so far make a quorum: it neither gives up one answer too early nor passes over a
\* quorum among more candidates, for any number of servers and any quorum size.
THEOREM NoQuorumGivenUpHolds == Spec => NoQuorumGivenUp
<1> DEFINE AllSound == CallsSound /\ \A l \in Leases : OpSound(l)
           Kept == \A l \in Leases :
                     /\ ~IsSingle(l) /\ pc[l] \in {"acquiring", "renewing"} /\ pc'[l] # pc[l]
                     /\ faults' = faults /\ Cardinality(Usable(l)) >= QuorumSize
                     => Valid(l)'
<1>1. Init => AllSound
  <2> SUFFICES ASSUME Init
               PROVE  AllSound
    OBVIOUS
  <2>1. ASSUME NEW l \in Leases
        PROVE  OpSound(l)
    <3>1. OwnClock(l) = 1 /\ candidate[l] = ZeroTimes /\ ~Operating(l) /\ Awaited(l, foreground[l]) = {}
      BY LeaseClient DEF Init, OwnClock, Nodes, Operating, Awaited
    <3>2. ~(1 < 0)
      BY SMT
    <3>3. Unexpired(ZeroTimes, 1) = {}
      BY <3>2 DEF Unexpired, ZeroTimes
    <3>4. \A n \in Nat : n > 0 => 0 < n
      BY SMT
    <3> QED BY <3>1, <3>3, <3>4, ServerSets DEF OpSound
  <2>2. 0 <= 0
    BY SMT
  <2>3. CallsSound
    BY <2>2 DEF Init, CallsSound
  <2> QED BY <2>1, <2>3
<1>2. TypeOK /\ TypeOK' /\ AllSound /\ [Next]_vars => AllSound'
  <2> SUFFICES ASSUME TypeOK, TypeOK', AllSound, [Next]_vars
               PROVE  AllSound'
    OBVIOUS
  <2>1. ASSUME NEW l \in Leases
        PROVE  OpSound(l)'
    <3>1. CASE UNCHANGED <<clock, pc, foreground, candidate, pending>>
      BY <3>1 DEF OpSound, Operating, Awaited, Unexpired, OwnClock
    <3>2. CASE ClientSide
      BY <3>2, ClientFrame, ClientOperations, OpEffectSound DEF timeVars
    <3>3. CASE Tick
      BY <3>3, TickOperations
    <3>4. CASE ServerSide
      BY <3>1, <3>4, ServerFrame DEF timeVars, leaseVars
    <3>5. CASE UNCHANGED vars
      BY <3>1, <3>5 DEF vars, timeVars, leaseVars, networkVars
    <3> QED BY <3>2, <3>3, <3>4, <3>5, NextSides
  <2> QED BY <2>1, CallsStep
<1>3. TypeOK /\ AllSound /\ [Next]_vars => [Kept]_vars
  <2> SUFFICES ASSUME TypeOK, AllSound, Next, NEW l \in Leases, ~IsSingle(l), Operating(l),
                      pc'[l] # pc[l], faults' = faults, Cardinality(Usable(l)) >= QuorumSize
               PROVE  Valid(l)'
    BY DEF Operating
  <2>1. \A n \in Nat : n + 1 # n
    BY SMT
  <2>2. Tick \/ ServerStep \/ ClientStep
    BY <2>1 DEF Next, TypeOK
  <2>3. ~Tick /\ ~ServerStep
    BY ServerFrame DEF Tick, leaseVars, ServerSide
  <2> QED BY <2>2, <2>3, Returns
<1> QED
  BY <1>1, <1>2, <1>3, TypeCorrect, PTL DEF Spec, NoQuorumGivenUp
=============================================================================
