# RedLease: TLA+ models, checks and proofs

RedLease is a quorum lease service: a client owns a key for a short time when a
majority of 1, 3 or 5 independent, memory-only servers granted it a lease. There is
no replication between servers; safety rests on arithmetic with monotonic clocks,
on TTLs bounded by 5000 ms, on a 100 ms safety margin, and on a quarantine every
server keeps after it starts. This directory models the system in TLA+, checks the
models with TLC on small instances, and proves with TLAPS, for every instance, the
safety properties of all components but the lease storage, the refinement of an
abstract lease service by the protocol and of a bounded queue by the ring.

## The system and the modules

| part of the system | source | module |
| --- | --- | --- |
| lease arithmetic | `client/quorum.go`, `server/state.go`, `server/server.go` | `LeaseRules` |
| what a lease promises the application | (abstract) | `LeaseService` |
| quorum protocol: Acquire, Renew, Release, healing, server handlers, restart; the single-server client beside it | `client/{acquire,renew,release,healing,lease}.go`, `client1of1/lease.go`, `server/state.go` | `RedLease` |
| proofs about the protocol | | `RedLease_proofs` |
| goroutines that work on one lease: healing, late responses, Renew, Release | `client/{healing,release,renew,acquire,lease}.go` | `LeaseHealing`, `LeaseHealing_proofs` |
| delays between attempts | `internal/backoff/backoff.go` | `Backoff` |
| server lease storage: shards, mutexes, key counter, deadline heap, cleanup | `server/state.go` | `LeaseStore`, `DeadlineHeap` |
| server lifecycle and connections | `server/server.go`, `server/connection.go` | `LockServer`, `LockServer_proofs` |
| lock-free ring and its wakeup | `internal/mpscring/ring.go` | `MPSCRing`, implementing `BoundedQueue`; `MPSCRing_proofs` |
| client connections and pending calls | `client/{replica_conn,connection_generation,replica_responses}.go` | `ReplicaConn`, `ReplicaConn_proofs` |
| `Client.WaitReady` | `client/client.go` | `Readiness`, `Readiness_proofs` |
| single-server client: calls, connection, workers, Close, WaitReady | `client1of1/{client,connection,lease}.go` | `Client1Of1`, `Client1Of1_proofs` |
| launcher with an etcd slot | `cmd/redlease-server/{main,etcd_registration}.go` | `EtcdLauncher`, `EtcdLauncher_proofs` |

How the parts meet: `RedLease` is the whole system seen from the protocol. Its
network, which loses, delays and reorders, stands for `ReplicaConn`, the rings and
the server's connections. Its atomic request handlers stand for `LeaseStore`. Its
"time read before the lock" (`t \in r.sent..clock[s]`) stands for the worker that
reads `time.Now` and then waits for the shard mutex. `LockServer` and `ReplicaConn`
use the ring as a FIFO queue, which `MPSCRing` is shown to implement; so does
`Client1Of1`. `LeaseHealing` opens up what `RedLease` takes as one step: it has the
goroutines and critical sections of one lease, and leaves servers and the arithmetic
to `RedLease`.

Each `MC*.tla` module extends a specification for TLC, and each `.cfg` is a run.
`PROJECT.json` maps definitions to source lines, and lists the runs, the mutations
that show each property can fail, the hazards and the theorems. An operator whose
comment begins "Mutation of" or "Mutant" is such a mutation: a plausible bug, used by no
specification.

### RedLease

State: per server the phase, the end of its quarantine and the key's entry
(`holder`, `deadline`); per lease the application's position (`pc`), `validUntil`,
`confirmedUntil`, the candidates of the running operation and the healing flag; a
clock per node; the requests and responses under way; and `pending`, the calls an
operation still waits for. Actions: `Acquire` and `Renew`, each with the set of
replicas whose submit fails (`AcquireRefused` and `RenewRefused` when it is all of
them), `Release`, and their cancellation; `AcquireResponse` and `RenewResponse` (one
turn of the operation's loop, which goes on while `GoesOn`: a call is open and a
quorum still possible), `BackgroundResponse` (the collectors that outlive an
operation), `CallFails` (timeout, disconnect), `HealingTargets` and
`HealReplicas`; on the server `ApplyAcquire`, `ApplyRenew`, `ApplyRelease`,
`RejectNotReady`, `RemoveExpired`, `Restart`, `EndQuarantine`; and `Tick`. Clients in
`Singles` are single-server clients (`client1of1`), which ask one server and take its
one response for the whole answer: `SingleAcquireResponse`, `SingleRenewResponse`,
`SingleCallFails`.

Abstractions:

- One key. Keys meet only in the server's key limit; here that is a
  nondeterministic `KEY_LIMIT_REACHED` (`ApplyAcquireFull`), in `LeaseStore` it is
  the real counter.
- A client process that restarts is a new client, since its `bootID` is new.
- A request may be handled at any later time or never; a response may be ignored.
  A request is handled at most once, as the transport never repeats one. A restart of
  the server leaves the requests under way alone, since the client's queue outlives
  the connection; the new process handles them after its quarantine (`ApplyTimes`).
- A failed submit is counted by the operation and nothing more, as in the code: the
  loop looks whether a quorum is still possible only after a result.
- Release is atomic with respect to `healingBatches.Wait`, and the re-check in
  `finishBackgroundHealing` is part of the step that ends healing (both are taken
  apart in `LeaseHealing`).
- `Init` is the moment after every server's first quarantine. `lostHolder` is an
  auxiliary variable: what the restarted server forgot.
- `AbandonAndRelease` also zeroes client state that nobody can reach any more.
- Client.Close is not part of this module (see `ReplicaConn`).

### LeaseStore

A worker per shard and the cleaner, as threads. A step is one access to shared
state: locking a mutex, the work under it up to the next atomic access, a load or a
compare-and-swap of the key counter. A sweep of one shard is one critical section.
The heap of a shard is `DeadlineHeap`: slots, and the `heapIndex` of every lease;
`container/heap` is external and written out as its sift-up and sift-down. A lease is
named by its key; that the code recycles `lease` objects through a pool is not
visible, because an object goes back only after it has left both map and heap.

### LeaseHealing

One lease from the moment Acquire returned it: its fields under `stateMu`, the healing
goroutine of `backgroundHeal` with its two looks at the targets, its wait, its batch
under `healingBatches`, its results and `finishBackgroundHealing`; the collectors of
late responses; Renew, Release (mark, wait for the batches, send, close
`releaseDone`) and Client.Close. A submit may be refused and a call may fail at any
time; a success grants any time up to the TTL. Two slots for healing goroutines make
a second one visible.

### Backoff

`Exponential.Duration` as operators: the doubling that saturates at the maximum
without overflow, and the jitter. The random factor is any of its range.

### LockServer

The phase, the context, the accept loop, `fail` and `Close` in their single steps,
and per connection the reader, the writer, the response ring and the pending
group. The reader looks at the phase twice, when it has a frame (`ReadRequest`) and
when it decides what to do with the request (`ProcessRequest`), and the server may
fail or be closed in between. The writer flushes at the end of a batch, or earlier when
the buffer is full, and both flushes may fail. One shard with its worker stands for
all. `fail` is called by the listener
only: the other callers are the counter underflow, which `LeaseStore` shows
impossible, and a failing encoder. A temporary accept error changes nothing.

### MPSCRing

`tryEnqueue` and `tryDequeue`, one memory access per step, with any number of
producers and one consumer, and the one-token ready channel. A producer that finds
the ring full tries again, as `dispatch` does. Sequence numbers do not wrap (they
are 64 bits wide). The in-place halves (`TryStartEnqueue` and the others) have no
user and are left out.

### ReplicaConn

A replica's connection manager, the sessions it opens (writer and reader), the
completion worker, and callers: operations with a pooled collector of results that
submit, wait, time out, abort, release and return the collector. Client.Close
closes replicas in any order, which includes the order of the code. One pending
shard stands for sixteen. `complete` for several waits of one collector is one
step. What is buffered but not flushed is on the wire already.

### Readiness

WaitReady reads the replicas one at a time and sleeps on their channels while
connections come, go and are closed. The caller's context stays alive.

### Client1Of1

Application goroutines that acquire, renew once and release (a request is a lease
and an operation), the pooled futures, the pending table in shards, the persistent
request queue, the manager with one session at a time, the session's writer and
reader, a completion worker per shard with its bounded ring, Close in its single
steps, and WaitReady. A step is one critical section or one operation on a channel,
ring or socket. What a response is worth is a choice; its arithmetic is in
`RedLease`. What the writer has buffered counts as on the wire.

### EtcdLauncher

Discrete time; a launcher's timers are served promptly; requests to etcd are
applied late or never, also after the launcher gave up, and answers may be lost.
etcd itself and the other servers' slots are external: a lease exists until it is
revoked or some time after it expires. `server.Close` is taken as prompt.

## What the runs check

Twelve runs; eleven pass and one shows a violation. State counts are distinct
states. Where a module has a type invariant `TypeOK`, it is a conjunct of one of
the invariants its run checks, or proved.

| run | instance | properties | shows |
| --- | --- | --- | --- |
| quorum | 3 servers, 2 clients, quorum 2, servers with different maximum TTLs (462 k) | `Protection`, `NoQuorumGivenUp`, `ImplementsLeaseService` | competing Acquires, with replicas that refuse them, refine the abstract service; none gives up a quorum it has |
| mixed | 1 server, a quorum client and a single-server client, TTL 0 or 2, renewal, healing, one fault, long enough for a whole quarantine (1.52 M) | `MutualExclusion`, `ConfirmedReplicaHolds`, `LiveEntryKept`, `ValidityMovesForward` | the two kinds of client exclude each other through renewals, releases, restarts and late messages |
| ring | 3 producers, capacity 2, 2 values each (942 k) | `ImplementsQueue`, `RejectedOnlyWhenFull`, `EverythingTaken` | linearizable bounded FIFO; no lost wakeup |
| store | 2 shards, 3 keys, 2 identities, limit of 2 keys (130 k) | `KeysAccounted`, `HeapAgrees`, `HeapOperationsKeepOrder`, `EntryDiscipline`, `SweepIsComplete`, `EveryOperationAnswered` | counter, map and heap agree under contention; no live entry is lost to a sweep or a stranger, none is shortened, and a sweep takes what has expired |
| server_sessions | 2 connections, rings of 1 (1.2 M) | `HalfClosedGetsAnswers`, `StoppedShardIsDrained`, `LifecycleForward` | Close and fail against running connections |
| server_shutdown | 1 connection, 3 requests, rings of 1 (104 k) | `CloseReturns`, `FailureHandled` | shutdown ends, also with a peer that does not read |
| conn | 1 replica, 2 operations with pooled collectors, 2 sessions (88 k) | `OneResultPerWait`, `OneConsumer`, `ClosedForGood`, `EveryCallEnds`, `CloseEnds` | answer, timeout, abort and Close race for a wait; reconnecting, pooling and closing |
| readiness | 3 replicas, quorum 2 (4 k) | `NoLostWakeup`, `WaitReadyReturns` | no sleep through a quorum |
| launcher | 1 launcher, 2 slots, the code's timings in seconds, one restart (2.1 M) | `ActiveHoldsSlot`, `WatchSeesDeletion` | a serving server holds its slot; a waiting launcher misses no deletion |
| healing | 3 replicas, quorum 2, one Renew (320 k) | `OneHealer`, `HealingNotForgotten`, `DelayDoublesToMaximum`, `AcquireNeverFollowsRelease`, `HealingEnds` | one goroutine heals, none is forgotten, none takes a released lease again |
| healing_close | as healing | `HealingStopsWithClient` (violated) | see Findings |
| single_conn | 1 goroutine, 2 attempts, one renewal, a queue of 2, a ring of 1, any number of sessions (120 k) | `OneResultPerFuture`, `NothingLeftAfterClose`, `OneConsumer`, `ReleaseBehindAcquire`, `EveryCallReturns` | answers, timeouts, reconnects and Close of the single-server client |

`HeapOperationsKeepOrder` and `DelayDoublesToMaximum` are about pure functions: all
heaps of up to seven leases with three deadlines, and all policies with delays up to
nine and attempts up to six, against the definition of a heap and of the delay.

Why the bounds are enough for the questions asked:

- `MaxTime` lets a lease expire and be taken over, and in *mixed* a quarantine end.
- TTLs include zero, the code's special case (*mixed*).
- The protocol runs have one tick per millisecond, no drift and no margin; that
  rounding and drift are paid for by the margin is what the proofs show, for every
  value of these constants.
- Capacities of one or two make full and empty rings, and wrap-around, common.
- A key limit below the number of keys makes Acquires reach the limit and clean up.
- Several batches per lease (*mixed*) give a late answer a newer operation to
  interfere with.
- In *healing* a TTL of two ticks lets a confirmation run out before the validity does.
- Deadlock checking is off because every instance stops when its bounds are used
  up; that nobody waits for ever is stated by the liveness properties instead.
- Symmetry is used for interchangeable nodes in runs without liveness only.

### Fairness

- *ring*: the consumer and every producer run when they can; they are goroutines.
- *store*: weak fairness of every thread, and strong fairness of a worker
  waiting for `cleanupMu`: `sync.Mutex` hands over to a starved waiter.
- *server_shutdown*: weak fairness of the server's goroutines. Nothing is assumed
  of the peer: a write to one that does not read ends by the one-second write
  timeout.
- *conn*, *single_conn*: the client's goroutines and timers; nothing of network or server.
- *healing*: the healing goroutine, Release, the timeouts of calls, and time; nothing
  of Renew and of the collectors.
- *readiness*: the waiting goroutine only.

Safety runs assume no fairness.

## What is proved

| module | theorems | for every |
| --- | --- | --- |
| `RedLease_proofs` | `TypeCorrect`, `ProtectionHolds`, `MutualExclusionHolds`, `ConfirmedReplicaHoldsAlways`; `ValidityMovesForwardHolds`, `LiveEntryKeptHolds`, `NoQuorumGivenUpHolds`; `LeaseServiceImplemented` | finite set of servers, quorum and single-server clients, TTLs up to the maximum, margin, `TicksPerMS`, drift of at most half the margin |
| `ReplicaConn_proofs` | `OneResultPerWaitHolds`, `OneConsumerHolds`, `ClosedForGoodHolds` | callers, collectors, replicas, sessions and capacities of the rings |
| `LeaseHealing_proofs` | `OneHealerHolds`, `HealingNotForgottenHolds`, `AcquireNeverFollowsReleaseHolds` | replicas, TTL |
| `Client1Of1_proofs` | `ClientInvHolds`, `OneResultPerFutureHolds`, `NothingLeftAfterCloseHolds`, `OneConsumerHolds`, `ReleaseBehindAcquireHolds` | leases, futures, pending shards, capacities |
| `LockServer_proofs` | `LockServerInvHolds`, `HalfClosedGetsAnswersHolds`, `StoppedShardIsDrainedHolds`, `LifecycleForwardHolds` | connections, requests, capacities |
| `MPSCRing_proofs` | `RingInvariant`, `RejectedOnlyWhenFullHolds`, `QueueImplemented` | producers, capacity of at least two |
| `Readiness_proofs` | `NoLostWakeupHolds` | finite set of replicas, quorum |
| `EtcdLauncher_proofs` | `LauncherInvariant`, `ActiveHoldsSlotHolds`, `WatchSeesDeletionHolds` | launchers, slots, timings within the assumption |

All of them hold for every value of the bounds (`MaxTime`, `MaxCalls` and the others).
A theorem `PHolds` states `Spec => []P`, or `Spec => P` for an action property; the
refinements are `Spec => ImplementsLeaseService` and `Spec => ImplementsQueue`. The
inductive invariants, or the parts of them that say something, were checked with TLC
before they were proved.

### Assumptions

They are `ASSUME`s of the specifications, which TLC evaluates in every run.

- `LeaseRules`, `RedLease`: there is a server and finitely many; two quorums intersect
  (`2 * QuorumSize > Cardinality(Servers)`); single-server clients exist only where
  the quorum is one; configured TTLs lie within the protocol maximum;
  `2 * Drift <= Ticks(SafetyMarginMS)`.
- `Client1Of1`: `ShardOf` gives every request its shard; `None` is not a future, a
  request, an entry or a result.
- `MPSCRing`: a capacity of at least two, which `newRing` demands (and a power of
  two, which the proofs do not need).
- `Readiness`: the quorum is at least one and at most the number of replicas.
- `EtcdLauncher`: two keepalive periods are shorter than the lease TTL and than the
  quarantine; in the code they are 2 s, 3 s and 5.101 s.
- The others: capacities are positive, bounds are natural numbers.

### The protocol

Mutual exclusion is not inductive: nothing in it speaks of servers or of messages
under way. The inductive invariant `IInv` joins four parts: `TypeOK`; `ClocksClose`
(clocks are ahead of the reference time by at most `Drift`); `StartsPast` (an
operation's start lies in its client's past, a request's start is not later than
its sending, and a Release under way belongs to a lease given up); and
`Protection`. `Protection` says that every time a client holds against a server,
in a response under way, as a candidate or as a confirmation, is covered by that
server's entry plus the margin, or by the quarantine after it forgot the entry, and
that `validUntil` is covered by a quorum of servers.

The argument: `Handlers` brings every request handler to one form (the entry is
kept, extended, or was expired or released, and a success reports no more than is
left). `JustifiedStable` shows that no step takes protection away before the client
itself sees the time run out: the drift is paid for by the margin, and the maximum
TTL by the quarantine. `ClientSupported` shows that whatever a client step
remembers was supported before. Mutual exclusion then follows: two valid leases have
quorums of protecting servers, these share a server, and a server protects one
lease.

The refinement follows from one more lemma about clients: a step changes the life of
one lease only (`LeaseEffect`). Together with mutual exclusion in the state after the
step, every step then is a step of `LeaseService` or a stutter.

`NoQuorumGivenUp` counts servers, and its invariant says that nothing is counted
twice: a batch has one open call per server, a response answers an open call and each
call once (`CallsSound`); the candidates of a running operation make no quorum yet, and
a server with an open call has none (`OpSound`). An operation that gives up has fewer
unexpired candidates and open calls than a quorum, and every usable answer is one of
them (`GivingUp`). With a quorum of candidates it returns a valid lease instead: the
time that `bestAcquireQuorum` picks then exists and lies ahead (`QuorumTimeExists`,
`QuorumReachedReturns`).

### The connections

`OneResultPerWait` counts places and does not say who owns a collector. `WaitInv` adds
that an entry lies with the replica its request is for, that request numbers are used
once, that a pooled collector belongs to nobody, and that Close takes entries out of
the table before it sends their failures. `OneConsumer` and `ClosedForGood` follow
from `LifeInv`: only the session the manager runs has goroutines and only that one is
published (`SessionInv`), and what Close has put behind it at each of its steps
(`CloseInv`).

`ClientInv` of the single-server client says the same of futures (`Ownership`,
`Entered`, `Places`, `Holding`), what Close has emptied (`Closing`), and that in the
queue, in the writer's hand and on the wire the Release of a lease comes after its
Acquire (`Order`), which no reconnect changes as the queue is kept and its order too.

`NoLostWakeup` needs that the snapshot of the waiter is current for every replica whose
channel is still open (`SnapshotCurrent`), and that it sleeps only after a whole round
that found too few (`Asleep`).

### The server

`HalfClosedGetsAnswers` is about a moment, and the invariant about every request before
it: `LockServerInv` counts, for each connection, the requests in the reader's hand, in
the shard's queue (`Occurrences`), with the worker, in the response ring, with the
writer and sent. `Counted` says that the pending group is the number dispatched (a
request the reader has not decided about is not in it yet),
`Conserved` that no request is answered twice and none is lost in service, `Answered`
that a writer that returns after the end of the stream has sent them all. That the
stopped shard is drained rests on `ServerInv`: the worker ends only when told to, with
an empty queue, and is told when all connections are gone.

### The ring

`RingInv`: the positions from the first unreleased one form a window of one lap
(`Bounds`) in which every slot has the sequence of its position or the one after it
(`Laps`); a producer that won the tail is the only owner of its position until it
publishes (`Claims`); a compare-and-swap that can still succeed has room
(`Candidates`). For the refinement, the value of a claimed position that is not
written yet is its producer's; a step that publishes or releases changes one slot
only, since two positions of a window never share one.

### The healing and the launcher

The safety of `LeaseHealing` needs little: `OneHealer` and `HealingNotForgotten` are
inductive with the types; `AcquireNeverFollowsRelease` follows from `BatchOrder` (a
batch that submits is counted in `healingBatches`, a Release sends only with the
lease marked and no batch counted).

`ActiveHoldsSlot` is a matter of time. `Timing` says that the lease of a registered
launcher lasts beyond its next timer by the TTL less one period, and while a keepalive
is unanswered by the TTL less two, or else the server is still quarantined beyond that
timer. `Underway` says that no other request can touch the lease (a late Revoke is for
a lease with another number), and `Bound` that the lease keeps the slot while it
exists. `Watching` extends `WatchSeesDeletion` to the answered snapshot.

## What is only model-checked

- Liveness: `EverythingTaken`, `EveryOperationAnswered`, `CloseReturns`,
  `FailureHandled`, `EveryCallEnds`, `CloseEnds`, `WaitReadyReturns`, `HealingEnds`,
  `EveryCallReturns`. Fairness and ENABLED are out of the prover's reach.
- `LeaseStore`: `KeysAccounted`, `HeapAgrees`, `EntryDiscipline`, `SweepIsComplete`,
  and `HeapOperationsKeepOrder`. The sift operations and the sweep are recursive
  operators, with which the prover loses its arithmetic, and what they compute needs
  induction over the heap.
- `DelayDoublesToMaximum`: what a recursive function computes for every attempt.

## Findings

- *healing_close*: `README.md` (lines 241-243) says that closing a client stops the
  healing and retries of the universal client ("закрытие клиента останавливает его
  фоновые соединения, а у универсального клиента также healing и retry"). In
  `client/healing.go`, `waitForHealingRetry` returns at once when the client's context
  is done and the goroutine ends, but `finishBackgroundHealing` (lines 52-63) finds the
  lease still valid and not confirmed everywhere and starts it again, without a
  delay, until the validity runs out.

## Observations

- The lifecycle diagram in `Architecture.md` (line 136) leads from `QUARANTINE` only
  to `ACTIVE` and `CLOSED`. `fail` also leads from `QUARANTINE` to `FAILED`, when
  the listener breaks during the quarantine; `LifecycleForward` allows it.
- `WaitReadyReturns` is about a quorum of the same replicas that stays connected.
  A quorum that changes its members all the time may go unnoticed, because the
  replicas are read one after the other.

## Not modelled

- Frame boundaries (`internal/transport`) and FlatBuffers: data formats without
  control of their own; generated code.
- The in-place halves of the ring (`TryStartEnqueue` and the others): no user.
- The plain launcher without etcd, flags and the metrics endpoint of
  `cmd/redlease-server`.
- `cmd/redlease-load`, with its etcd discovery: a load generator that observes the
  clients from outside and that nothing depends on.
- `cmd/redlease-dummy-client`, `cmd/redlease-dummy-server`: transport benchmarks
  without lease state.
- Metrics, logging, flags and validation of configurations: straight-line code that
  no control flow of the models depends on.
- `internal/bootid`: a random number.
- `LockServer` and `LeaseStore` are not composed: each has the shard worker, one with
  the queue in front of it and one with the state behind it, and the product is out
  of TLC's reach.
