----------------------------- MODULE LeaseStore -----------------------------
(***************************************************************************)
(* server/state.go: the leases of one server, split over shards.  Each     *)
(* shard has a worker, which applies the operations on the shard's keys    *)
(* one at a time; a cleaner removes expired leases now and then, and so    *)
(* does a worker that finds the key limit reached.  A shard's map is       *)
(* guarded by its mutex, the sweep over all shards by cleanupMu, and the   *)
(* number of keys is an atomic counter changed by compare-and-swap loops.  *)
(* A step is one access to what the threads share: taking a mutex, the     *)
(* work done under it up to the next atomic access, a load or a            *)
(* compare-and-swap of the counter.  A lease is named by its key, in the   *)
(* shard's map as in its deadline heap.                                    *)
(***************************************************************************)
EXTENDS DeadlineHeap, FiniteSets, FiniteSetsExt, Functions

CONSTANTS
  Keys,         \* keys
  Requests,     \* operations clients send: kind, key, lease identity, effective TTL in ticks
  ShardCount,   \* Config.ShardCount
  ShardOf,      \* shardIndex
  MaxKeys,      \* Config.MaxKeys
  MaxTime,      \* bound: on the clock
  MaxOps        \* bound: operations each worker applies

Workers == 1..ShardCount
Cleaner == 0  \* runExpiredLeaseCleanup
Threads == Workers \cup {Cleaner}

ASSUME StoreAssumption ==
  /\ ShardCount \in Nat \ {0} /\ MaxKeys \in Nat \ {0}
  /\ ShardOf \in [Keys -> Workers]
  /\ \A o \in Requests : o.kind \in {"acquire", "renew", "release"} /\ o.key \in Keys /\ o.ttl \in Nat
  /\ MaxTime \in Nat /\ MaxOps \in [Workers -> Nat]

None == [id |-> "none", deadline |-> 0]
Leases == [id : {o.id : o \in Requests}, deadline : Nat]
NoOperation == [kind |-> "none"]
Nobody == -1  \* the owner of a free mutex

VARIABLES
  clock,
  leases,     \* leaseShard.leases, of all shards
  deadlines,  \* leaseShard.deadlines
  mu,         \* leaseShard.mu: the thread that holds it
  keys,       \* Server.keys
  cleanupMu,  \* Server.cleanupMu: the thread that holds it
  failed,     \* releaseKeys called fail
  pc,         \* where each thread is
  op, now,    \* the operation a worker applies, and its time.Now()
  attempted,  \* cleanupAttempted
  todo,       \* the next shard of a thread's sweep
  count,      \* keys a thread has removed and not yet subtracted
  loaded,     \* what it loaded from keys
  ops         \* operations a worker has taken

store == <<leases, deadlines, mu, keys, cleanupMu, failed>>
local == <<op, now, attempted, todo, count, loaded, ops>>
vars == <<clock, store, pc, local>>

\* The type of every variable.
TypeOK ==
  /\ clock \in Nat
  /\ leases \in [Keys -> Leases \cup {None}]
  /\ deadlines \in [Workers -> [slots : Seq(Keys), index : [Keys -> Int]]]
  /\ mu \in [Workers -> Workers \cup {Nobody}]
  /\ keys \in Nat
  /\ cleanupMu \in Threads \cup {Nobody}
  /\ failed \in BOOLEAN
  /\ pc \in [Threads -> {"idle", "lock", "body", "reserve", "reserveCAS", "cleanup",
                         "sweep", "release", "releaseCAS", "cleaned", "unlock"}]
  /\ op \in [Workers -> Requests \cup {NoOperation}]
  /\ now \in [Threads -> Nat]
  /\ attempted \in [Workers -> BOOLEAN]
  /\ todo \in [Threads -> 1..ShardCount + 1]
  /\ count \in [Threads -> Nat]
  /\ loaded \in [Threads -> Nat]
  /\ ops \in [Workers -> Nat]

Init ==
  /\ clock = 0
  /\ leases = [k \in Keys |-> None]
  /\ deadlines = [w \in Workers |-> Empty(Keys)]
  /\ mu = [w \in Workers |-> Nobody]
  /\ keys = 0 /\ cleanupMu = Nobody /\ failed = FALSE
  /\ pc = [t \in Threads |-> "idle"]
  /\ op = [w \in Workers |-> NoOperation]
  /\ now = [t \in Threads |-> 0]
  /\ attempted = [w \in Workers |-> FALSE]
  /\ todo = [t \in Threads |-> 1]
  /\ count = [t \in Threads |-> 0]
  /\ loaded = [t \in Threads |-> 0]
  /\ ops = [w \in Workers |-> 0]

Goto(t, label) == pc' = [pc EXCEPT ![t] = label]

\* Current lease of the key a worker works on.
Current(w) == leases[op[w].key]
Exists(l) == l # None
Live(l, t) == Exists(l) /\ l.deadline > t

DeadlineOf(map) == [k \in Keys |-> map[k].deadline]

\* Mutation of Respond: the shard stays locked.
RespondLocked(w) ==
  /\ op' = [op EXCEPT ![w] = NoOperation]
  /\ now' = [now EXCEPT ![w] = 0]
  /\ attempted' = [attempted EXCEPT ![w] = FALSE]
  /\ Goto(w, "idle")
  /\ UNCHANGED mu

\* The worker unlocks its shard and answers; its local variables are gone.
Respond(w) ==
  /\ mu' = [mu EXCEPT ![w] = Nobody]
  /\ op' = [op EXCEPT ![w] = NoOperation]
  /\ now' = [now EXCEPT ![w] = 0]
  /\ attempted' = [attempted EXCEPT ![w] = FALSE]
  /\ Goto(w, "idle")

StillWorking == UNCHANGED <<op, now, attempted>>

\* removeLease, and the key to be given back by releaseKeys(1).
RemoveLease(w) ==
  /\ leases' = [leases EXCEPT ![op[w].key] = None]
  /\ deadlines' = [deadlines EXCEPT ![w] = Remove(@, DeadlineOf(leases), @.index[op[w].key])]
  /\ count' = [count EXCEPT ![w] = 1]
  /\ Goto(w, "release")

-----------------------------------------------------------------------------
Tick ==
  /\ clock < MaxTime
  /\ clock' = clock + 1
  /\ UNCHANGED <<store, pc, local>>

\* applyOperation and apply: the time is read before the shard is locked.
Take(w) ==
  /\ pc[w] = "idle" /\ ~failed /\ ops[w] < MaxOps[w]
  /\ \E o \in Requests :
       /\ ShardOf[o.key] = w
       /\ op' = [op EXCEPT ![w] = o]
  /\ now' = [now EXCEPT ![w] = clock]
  /\ ops' = [ops EXCEPT ![w] = @ + 1]
  /\ Goto(w, "lock")
  /\ UNCHANGED <<clock, store, attempted, todo, count, loaded>>

Lock(w) ==
  /\ pc[w] = "lock" /\ mu[w] = Nobody
  /\ mu' = [mu EXCEPT ![w] = w]
  /\ Goto(w, "body")
  /\ UNCHANGED <<clock, leases, deadlines, keys, cleanupMu, failed, local>>

\* acquireLocked, up to the first use of the counter.
Acquire(w) ==
  /\ pc[w] = "body" /\ op[w].kind = "acquire"
  /\ \/ /\ Live(Current(w), now[w])
        /\ Respond(w)
        /\ UNCHANGED <<leases, deadlines, count>>
     \/ /\ Exists(Current(w)) /\ ~Live(Current(w), now[w])
        /\ RemoveLease(w)
        /\ StillWorking /\ UNCHANGED mu
     \/ /\ ~Exists(Current(w))
        /\ Goto(w, "reserve")
        /\ StillWorking /\ UNCHANGED <<mu, leases, deadlines, count>>
  /\ UNCHANGED <<clock, keys, cleanupMu, failed, todo, loaded, ops>>

\* Mutation of RenewedDeadline: takes the new deadline even if it is earlier.
NewDeadline(current, candidate) == candidate

RenewedDeadline(current, candidate) == IF candidate > current THEN candidate ELSE current

\* Mutation of Fixed: the heap is left as it was.
NotFixed(h, w) == h

\* Mutation of Fixed: the lease is pushed once more.
PushedAgain(h, w) == Push(h, DeadlineOf(leases'), op[w].key)

\* heap.Fix, if the deadline has moved.
Fixed(h, w) ==
  IF leases' = leases THEN h ELSE Fix(h, DeadlineOf(leases'), h.index[op[w].key])

Renew(w) ==
  /\ pc[w] = "body" /\ op[w].kind = "renew"
  /\ \/ /\ ~Exists(Current(w)) \/ (Live(Current(w), now[w]) /\ Current(w).id # op[w].id)
        /\ Respond(w)
        /\ UNCHANGED <<leases, deadlines, count>>
     \/ /\ Exists(Current(w)) /\ ~Live(Current(w), now[w])
        /\ RemoveLease(w)
        /\ StillWorking /\ UNCHANGED mu
     \/ /\ Live(Current(w), now[w]) /\ Current(w).id = op[w].id
        /\ leases' = [leases EXCEPT ![op[w].key].deadline = RenewedDeadline(@, now[w] + op[w].ttl)]
        /\ deadlines' = [deadlines EXCEPT ![w] = Fixed(@, w)]
        /\ Respond(w)
        /\ UNCHANGED count
  /\ UNCHANGED <<clock, keys, cleanupMu, failed, todo, loaded, ops>>

Release(w) ==
  /\ pc[w] = "body" /\ op[w].kind = "release"
  /\ \/ /\ ~Exists(Current(w)) \/ (Live(Current(w), now[w]) /\ Current(w).id # op[w].id)
        /\ Respond(w)
        /\ UNCHANGED <<leases, deadlines, count>>
     \/ /\ Exists(Current(w))
        /\ ~Live(Current(w), now[w]) \/ Current(w).id = op[w].id
        /\ RemoveLease(w)
        /\ StillWorking /\ UNCHANGED mu
  /\ UNCHANGED <<clock, keys, cleanupMu, failed, todo, loaded, ops>>

\* Renew and Release of a lease they removed, once the key is given back.
Unlock(w) ==
  /\ pc[w] = "unlock"
  /\ Respond(w)
  /\ UNCHANGED <<clock, leases, deadlines, keys, cleanupMu, failed, todo, count, loaded, ops>>

-----------------------------------------------------------------------------
(* reserveKey, called by acquireLocked; the retry of acquire. *)

LimitReached(k) == k >= MaxKeys

ReserveKey(w) ==
  /\ pc[w] = "reserve"
  /\ \/ /\ op[w].ttl = 0
        /\ Respond(w)
        /\ UNCHANGED loaded
     \/ /\ op[w].ttl # 0 /\ LimitReached(keys) /\ attempted[w]
        /\ Respond(w)
        /\ UNCHANGED loaded
     \/ /\ op[w].ttl # 0 /\ LimitReached(keys) /\ ~attempted[w]
        /\ mu' = [mu EXCEPT ![w] = Nobody]
        /\ Goto(w, "cleanup")
        /\ StillWorking /\ UNCHANGED loaded
     \/ /\ op[w].ttl # 0 /\ ~LimitReached(keys)
        /\ loaded' = [loaded EXCEPT ![w] = keys]
        /\ Goto(w, "reserveCAS")
        /\ StillWorking /\ UNCHANGED mu
  /\ UNCHANGED <<clock, leases, deadlines, keys, cleanupMu, failed, todo, count, ops>>

\* Mutation of Swaps: a plain store.
SwapsAlways(t) == TRUE

\* keys.CompareAndSwap(loaded, _) succeeds.
Swaps(t) == keys = loaded[t]

\* addLease
NewLease(w) == [id |-> op[w].id, deadline |-> now[w] + op[w].ttl]

CompareAndSwapReserve(w) ==
  /\ pc[w] = "reserveCAS"
  /\ \/ /\ Swaps(w)
        /\ keys' = loaded[w] + 1
        /\ leases' = [leases EXCEPT ![op[w].key] = NewLease(w)]
        /\ deadlines' = [deadlines EXCEPT ![w] = Push(@, DeadlineOf(leases'), op[w].key)]
        /\ Respond(w)
     \/ /\ ~Swaps(w)
        /\ Goto(w, "reserve")
        /\ StillWorking /\ UNCHANGED <<keys, leases, deadlines, mu>>
  /\ loaded' = [loaded EXCEPT ![w] = 0]
  /\ UNCHANGED <<clock, cleanupMu, failed, todo, count, ops>>

-----------------------------------------------------------------------------
(* removeExpiredKeys, by a worker at the key limit or by the cleaner. *)

\* The ticker of runExpiredLeaseCleanup fires.
StartCleanup ==
  /\ pc[Cleaner] = "idle" /\ ~failed
  /\ now' = [now EXCEPT ![Cleaner] = clock]
  /\ Goto(Cleaner, "cleanup")
  /\ UNCHANGED <<clock, store, op, attempted, todo, count, loaded, ops>>

LockCleanup(t) ==
  /\ pc[t] = "cleanup" /\ cleanupMu = Nobody
  /\ cleanupMu' = t
  /\ Goto(t, "sweep")
  /\ UNCHANGED <<clock, leases, deadlines, mu, keys, failed, local>>

\* removeExpiredKeysFromShard: locks the shard, removes what has expired, unlocks.
SweepShard(t) ==
  LET shard == todo[t]
      left == PopExpired(deadlines[shard], DeadlineOf(leases), now[t])
      gone == Range(deadlines[shard].slots) \ Range(left.slots)
  IN  /\ pc[t] = "sweep" /\ shard <= ShardCount /\ mu[shard] = Nobody
      /\ leases' = [k \in Keys |-> IF k \in gone THEN None ELSE leases[k]]
      /\ deadlines' = [deadlines EXCEPT ![shard] = left]
      /\ count' = [count EXCEPT ![t] = @ + Cardinality(gone)]
      /\ todo' = [todo EXCEPT ![t] = @ + 1]
      /\ UNCHANGED <<clock, mu, keys, cleanupMu, failed, pc, op, now, attempted, loaded, ops>>

EndSweep(t) ==
  /\ pc[t] = "sweep" /\ todo[t] > ShardCount
  /\ Goto(t, IF count[t] = 0 THEN "cleaned" ELSE "release")
  /\ UNCHANGED <<clock, store, local>>

EndCleanup(t) ==
  /\ pc[t] = "cleaned"
  /\ cleanupMu' = Nobody
  /\ attempted' = [w \in Workers |-> attempted[w] \/ w = t]
  /\ now' = [now EXCEPT ![Cleaner] = IF t = Cleaner THEN 0 ELSE @]
  /\ todo' = [todo EXCEPT ![t] = 1]
  /\ Goto(t, IF t = Cleaner THEN "idle" ELSE "lock")
  /\ UNCHANGED <<clock, leases, deadlines, mu, keys, failed, op, count, loaded, ops>>

-----------------------------------------------------------------------------
(* releaseKeys, called under cleanupMu or under the mutex of the shard. *)

\* Where the caller of releaseKeys goes on.
AfterRelease(t) ==
  IF cleanupMu = t THEN "cleaned"
  ELSE IF op[t].kind = "acquire" THEN "reserve" ELSE "unlock"

Underflows(t) == count[t] > keys

ReleaseKeys(t) ==
  /\ pc[t] = "release"
  /\ \/ /\ Underflows(t)
        /\ failed' = TRUE
        /\ count' = [count EXCEPT ![t] = 0]
        /\ Goto(t, AfterRelease(t))
        /\ UNCHANGED loaded
     \/ /\ ~Underflows(t)
        /\ loaded' = [loaded EXCEPT ![t] = keys]
        /\ Goto(t, "releaseCAS")
        /\ UNCHANGED <<failed, count>>
  /\ UNCHANGED <<clock, leases, deadlines, mu, keys, cleanupMu, op, now, attempted, todo, ops>>

Given(t) == count[t]

CompareAndSwapRelease(t) ==
  /\ pc[t] = "releaseCAS"
  /\ \/ /\ Swaps(t)
        /\ keys' = loaded[t] - Given(t)
        /\ count' = [count EXCEPT ![t] = 0]
        /\ Goto(t, AfterRelease(t))
     \/ /\ ~Swaps(t)
        /\ Goto(t, "release")
        /\ UNCHANGED <<keys, count>>
  /\ loaded' = [loaded EXCEPT ![t] = 0]
  /\ UNCHANGED <<clock, leases, deadlines, mu, cleanupMu, failed, op, now, attempted, todo, ops>>

-----------------------------------------------------------------------------
Clean(t) ==
  \/ LockCleanup(t) \/ SweepShard(t) \/ EndSweep(t) \/ EndCleanup(t)
  \/ ReleaseKeys(t) \/ CompareAndSwapRelease(t)

Apply(w) ==
  \/ Lock(w) \/ Acquire(w) \/ Renew(w) \/ Release(w) \/ Unlock(w)
  \/ ReserveKey(w) \/ CompareAndSwapReserve(w) \/ Clean(w)

Next ==
  \/ Tick \/ StartCleanup \/ Clean(Cleaner)
  \/ \E w \in Workers : Take(w) \/ Apply(w)

Spec == Init /\ [][Next]_vars

\* A goroutine that can run is run; nothing makes clients send or time pass.
\* Strong fairness for the workers: sync.Mutex hands the lock to a waiter that has
\* been starved for a millisecond, so that the cleaner cannot take a mutex ahead of
\* a worker for ever.
FairSpec ==
  /\ Spec
  /\ WF_vars(Clean(Cleaner))
  /\ \A w \in Workers : SF_vars(Apply(w))

-----------------------------------------------------------------------------
Stored == {k \in Keys : Exists(leases[k])}

\* The counter is the number of stored leases plus the keys removed by threads
\* that have not subtracted them yet, whatever the CompareAndSwap loops of
\* reserveKey and releaseKeys and the sweeps interleave to.  So no more leases are
\* stored than Config.MaxKeys, and releaseKeys never finds fewer keys than it has to
\* subtract ("lease key count underflow", which stops the server).
KeysAccounted ==
  /\ TypeOK
  /\ keys = Cardinality(Stored) + MapThenSumSet(LAMBDA t : count[t], Threads)
  /\ keys <= MaxKeys /\ ~failed

\* A lease leaves the map, or its deadline moves, only as the rules of a lease
\* allow: it has expired, or its own client released or renewed it, and renew
\* never shortens it.
EntryDiscipline ==
  [][\A k \in Keys : leases'[k] # leases[k] =>
       \/ leases[k] = None
       \/ leases'[k] = None /\ leases[k].deadline <= clock
       \/ \E w \in Workers :
            /\ pc[w] = "body" /\ op[w].key = k /\ op[w].id = leases[k].id
            /\ \/ op[w].kind = "release" /\ leases'[k] = None
               \/ /\ op[w].kind = "renew"
                  /\ leases'[k].id = leases[k].id
                  /\ leases'[k].deadline > leases[k].deadline]_vars

\* A shard's map and heap hold the same leases, each once, and heapIndex is the slot
\* of its lease, so that removeLease and renew work on the lease they mean.
HeapAgrees ==
  \A w \in Workers :
    LET h == deadlines[w] IN
    /\ Range(h.slots) = {k \in Stored : ShardOf[k] = w}
    /\ \A k \in Range(h.slots) : h.index[k] \in 0..Size(h) - 1 /\ At(h, h.index[k]) = k
    /\ \A i \in 0..Size(h) - 1 : h.index[At(h, i)] = i

\* A sweep leaves no lease behind that had expired when it began, although it only
\* looks at the top of the heap: nothing done to the heap before has hidden one.
SweepIsComplete ==
  [][\A t \in Threads :
       pc[t] = "sweep" /\ todo'[t] = todo[t] + 1 =>
         \A k \in Stored' : ShardOf[k] = todo[t] => leases'[k].deadline > now[t]]_vars

\* Every operation a worker takes is answered: the mutexes are taken in an order
\* that cannot deadlock, and the compare-and-swap loops end.
EveryOperationAnswered == \A w \in Workers : pc[w] # "idle" ~> pc[w] = "idle"
=============================================================================
