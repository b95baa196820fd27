-------------------------- MODULE Client1Of1_proofs --------------------------
(***************************************************************************)
(* The inductive invariant of the single-server client, for any number of  *)
(* leases, futures and shards and queues of any size, its preservation by  *)
(* every step, and what follows from it.                                   *)
(***************************************************************************)
EXTENDS Client1Of1, TLAPS

\* Most leaves are first-order reasoning; the ones that need arithmetic, functions or
\* sequences cite SMT.
USE Zenon

-----------------------------------------------------------------------------
(* The inductive invariant. *)

\* The shard a request of l is registered in.
Home(l) == ShardOf[Request(l)]

\* A future belongs to the one caller that waits on it.
Ownership ==
  /\ \A l \in Leases : future[l] # None <=> callerPc[l] = "await"
  /\ \A l, k \in Leases : l # k /\ future[l] # None => future[l] # future[k]

\* An entry is that of the caller that waits for its request.
Owned(e) == callerPc[e.request[1]] = "await" /\ e = Entry(e.request[1])

Entered ==
  /\ \A s \in Shards : \A e \in pending[s] : Owned(e) /\ ShardOf[e.request] = s
  /\ \A s \in Shards : sending[s] # None => Owned(sending[s]) /\ ShardOf[sending[s].request] = s
  /\ \A e \in failing : Owned(e)
  /\ \A f \in Futures : channel[f] # None =>
       Owned([request |-> channel[f].request, future |-> f])

\* The places of the result of a caller that waits.
IsPending(l) == Entry(l) \in pending[Home(l)]
IsTaken(l) == sending[Home(l)] = Entry(l)
IsFailing(l) == Entry(l) \in failing
IsSent(l) == channel[future[l]] # None

\* It is in exactly one of them.
OnePlace(l) ==
  /\ IsPending(l) \/ IsTaken(l) \/ IsFailing(l) \/ IsSent(l)
  /\ ~(IsPending(l) /\ IsTaken(l)) /\ ~(IsPending(l) /\ IsFailing(l)) /\ ~(IsPending(l) /\ IsSent(l))
  /\ ~(IsTaken(l) /\ IsFailing(l)) /\ ~(IsTaken(l) /\ IsSent(l)) /\ ~(IsFailing(l) /\ IsSent(l))

Places == \A l \in Leases : callerPc[l] = "await" => OnePlace(l)

\* What the goroutines of a session and the workers hold, and where they can be.
Holding ==
  /\ \A s \in Shards : worker[s] = "send" <=> sending[s] # None
  /\ writer \in {"check", "buffer"} <=> hand # None
  /\ reader = "deliver" <=> incoming # None
  /\ manager \in {"dial", "ended"} => WorkersJoined

\* What Close has put behind it.
Closing ==
  /\ closer \in {"wait", "closed"} => todo = {} /\ failing = {}
  /\ \A s \in Shards : Gone(s) => pending[s] = {} /\ Unlocked(s)
  /\ closer = "closed" => queue = <<>> /\ ManagerDone

\* The Release of a lease is queued after its Acquire, and sent after it.
Order ==
  \A l \in Leases :
    /\ \A i, j \in DOMAIN queue : queue[i] = <<l, "acquire">> /\ j <= i => queue[j] # <<l, "release">>
    /\ hand = <<l, "release">> \/ <<l, "release">> \in wire =>
         \A i \in DOMAIN queue : queue[i] # <<l, "acquire">>
    /\ <<l, "release">> \in wire => hand # <<l, "acquire">>
    /\ \/ hand = <<l, "release">> \/ <<l, "release">> \in wire
       \/ \E i \in DOMAIN queue : queue[i] = <<l, "release">>
       => op[l] = "release"

ClientInv == TypeOK /\ Ownership /\ Entered /\ Places /\ Holding /\ Closing /\ Order

-----------------------------------------------------------------------------
(* Requests and entries. *)

LEMMA RequestParts ==
  /\ \A r \in Requests : r[1] \in Leases /\ ShardOf[r] \in Shards /\ r # None
  /\ \A e \in Entries : e.request \in Requests /\ e.future \in Futures /\ e # None
  BY Client1Of1Assumption DEF Requests, Entries

LEMMA EntryParts ==
  ASSUME TypeOK
  PROVE  \A l \in Leases :
           /\ Request(l) \in Requests /\ Request(l)[1] = l /\ Home(l) \in Shards
           /\ Entry(l).request = Request(l) /\ Entry(l).future = future[l]
  BY Client1Of1Assumption DEF TypeOK, Request, Requests, Home, Entry

\* An entry is pending in the shard of its request only.
LEMMA PendingAtHome ==
  ASSUME ClientInv, NEW l \in Leases
  PROVE  \A s \in Shards : s # Home(l) => Entry(l) \notin pending[s]
<1>1. \A s \in Shards : \A e \in pending[s] : ShardOf[e.request] = s
  BY DEF ClientInv, Entered
<1>2. ShardOf[Entry(l).request] = Home(l)
  BY EntryParts DEF ClientInv, Home
<1> QED
  BY <1>1, <1>2

\* What a queue of requests returns and how long it is.
LEMMA QueueFacts ==
  \A q \in Seq(Requests) :
    /\ Len(q) \in Nat
    /\ \A r \in Requests : Append(q, r) \in Seq(Requests) /\ Len(Append(q, r)) = Len(q) + 1
    /\ q # <<>> => Head(q) \in Requests /\ Tail(q) \in Seq(Requests) /\ Len(Tail(q)) = Len(q) - 1
  BY SMT

-----------------------------------------------------------------------------
(* The steps of the callers. *)

\* What no caller writes.
otherVars == <<workVars, manager, connection, sessionVars, closeVars, readyVars>>

\* The caller of l has moved and does not wait (any more); no other caller has moved.
Moved(l) ==
  /\ callerPc' \in [Leases -> CallerStates] /\ op' \in [Leases -> Operations]
  /\ future' \in [Leases -> Futures \cup {None}]
  /\ \A k \in Leases \ {l} : callerPc'[k] = callerPc[k] /\ op'[k] = op[k] /\ future'[k] = future[k]
  /\ callerPc'[l] # "await" /\ future'[l] = None
  /\ op[l] = "release" => op'[l] = "release"
  /\ callerPc'[l] = "locked" => ~CtxDone

LEMMA FailMoves ==
  ASSUME TypeOK, NEW l \in Leases, Fail(l)
  PROVE  Moved(l)
<1>1. /\ op[l] \in Operations /\ callerPc \in [Leases -> CallerStates]
      /\ op \in [Leases -> Operations] /\ future \in [Leases -> Futures \cup {None}]
  BY DEF TypeOK
<1>2. PICK label \in {"call", "held", "done"} : callerPc' = [callerPc EXCEPT ![l] = label]
  BY <1>1 DEF Fail, Operations
<1>3. op' = [op EXCEPT ![l] = "release"] \/ op' = op
  BY DEF Fail
<1>4. future' = [future EXCEPT ![l] = None]
  BY DEF Fail
<1>5. op' \in [Leases -> Operations] /\ (op[l] = "release" => op'[l] = "release")
      /\ \A k \in Leases \ {l} : op'[k] = op[k]
  BY <1>1, <1>3 DEF Operations
<1> QED
  BY <1>1, <1>2, <1>4, <1>5 DEF Moved, CallerStates

LEMMA CallerMoves ==
  ASSUME TypeOK, Ownership, NEW l \in Leases, Acquire(l) \/ Renew(l) \/ Release(l) \/ Lock(l)
  PROVE  Moved(l) /\ callerPc[l] # "await" /\ UNCHANGED <<channel, pending, queue, otherVars>>
<1>1. callerPc[l] # "await" /\ UNCHANGED <<channel, pending, queue, otherVars>>
  BY DEF Acquire, Renew, Release, Lock, otherVars
<1>2. CASE Fail(l)
  BY <1>1, <1>2, FailMoves
<1>3. CASE ~Fail(l)
  <2>1. \E label \in CallerStates \ {"await"} :
          /\ callerPc' = [callerPc EXCEPT ![l] = label] /\ (label = "locked" => ~CtxDone)
    BY <1>3 DEF Acquire, Renew, Release, Lock, CallerStates
  <2>2. op' = op \/ \E o \in Operations : op' = [op EXCEPT ![l] = o] /\ (o = "release" \/ op[l] = "acquire")
    BY <1>3 DEF Acquire, Renew, Release, Lock, Operations
  <2>3. future' = future /\ future[l] = None
    BY <1>1, <1>3 DEF Acquire, Renew, Release, Lock, Ownership
  <2> QED
    <3>1. /\ callerPc \in [Leases -> CallerStates] /\ op \in [Leases -> Operations]
          /\ future \in [Leases -> Futures \cup {None}]
      BY DEF TypeOK
    <3>2. /\ callerPc' \in [Leases -> CallerStates] /\ callerPc'[l] # "await"
          /\ callerPc'[l] = "locked" => ~CtxDone
          /\ \A k \in Leases \ {l} : callerPc'[k] = callerPc[k]
      BY <2>1, <3>1
    <3>3. /\ op' \in [Leases -> Operations] /\ (op[l] = "release" => op'[l] = "release")
          /\ \A k \in Leases \ {l} : op'[k] = op[k]
      BY <2>2, <3>1
    <3> QED
      BY <1>1, <2>3, <3>1, <3>2, <3>3 DEF Moved
<1> QED
  BY <1>2, <1>3

\* A caller that stops waiting leaves nothing of its request behind.
LEMMA Leaves ==
  ASSUME ClientInv, NEW l \in Leases, Moved(l), UNCHANGED <<sending, failing>>,
         \A s \in Shards : pending'[s] = pending[s] \ {Entry(l)},
         \A f \in Futures : channel'[f] = IF f = future[l] THEN None ELSE channel[f],
         callerPc[l] = "await" => IsPending(l) \/ IsSent(l)
  PROVE  (Ownership /\ Entered /\ Places)'
<1>1. \A k \in Leases \ {l} : /\ Entry(k)' = Entry(k) /\ Home(k)' = Home(k)
                              /\ callerPc'[k] = callerPc[k] /\ future'[k] = future[k]
  BY DEF Moved, Entry, Home, Request
<1>2. Ownership'
  <2>1. Ownership /\ callerPc'[l] # "await" /\ future'[l] = None
    BY DEF ClientInv, Moved
  <2> QED
    BY <1>1, <2>1, SMT DEF Ownership
<1>3. TypeOK
  BY DEF ClientInv
<1>4. ASSUME NEW e, Owned(e), e.request[1] \in Leases \ {l} PROVE Owned(e)'
  BY <1>1, <1>4 DEF Owned
<1>5. ASSUME NEW e, Owned(e), e.request[1] = l PROVE e = Entry(l) /\ callerPc[l] = "await"
  BY <1>5 DEF Owned
<1>6. \A s \in Shards : \A e \in pending'[s] : Owned(e)' /\ ShardOf[e.request] = s
  <2> TAKE s \in Shards
  <2> TAKE e \in pending'[s]
  <2>1. e # Entry(l) /\ Owned(e) /\ ShardOf[e.request] = s /\ e.request[1] \in Leases
    BY <1>3, RequestParts, SMT DEF ClientInv, Entered, TypeOK
  <2> QED
    BY <1>4, <1>5, <2>1
<1>7. ASSUME NEW s \in Shards, sending[s] # None
      PROVE  Owned(sending[s])' /\ ShardOf[sending[s].request] = s
  <2>1. /\ Owned(sending[s]) /\ ShardOf[sending[s].request] = s /\ sending[s].request[1] \in Leases
    BY <1>3, <1>7, RequestParts, SMT DEF ClientInv, Entered, TypeOK
  <2>2. sending[s].request[1] # l
    <3> SUFFICES ASSUME sending[s].request[1] = l PROVE FALSE
      OBVIOUS
    <3>1. sending[s] = Entry(l) /\ callerPc[l] = "await" /\ sending[s].request = Request(l)
      BY <1>3, <1>5, <2>1, EntryParts, SMT
    <3>2. IsTaken(l) /\ OnePlace(l)
      BY <2>1, <3>1 DEF IsTaken, Home, ClientInv, Places
    <3> QED
      BY <3>1, <3>2 DEF OnePlace
  <2>3. callerPc'[sending[s].request[1]] = "await"
        /\ Entry(sending[s].request[1])' = Entry(sending[s].request[1])
    BY <1>1, <2>1, <2>2 DEF Owned
  <2> QED
    BY <2>1, <2>3 DEF Owned
<1>8. \A e \in failing : Owned(e)'
  <2> TAKE e \in failing
  <2>1. Owned(e) /\ e.request[1] \in Leases
    BY <1>3, RequestParts DEF ClientInv, Entered, TypeOK
  <2>2. e.request[1] # l
    BY <1>5, <2>1 DEF ClientInv, Places, OnePlace, IsFailing
  <2> QED
    BY <1>4, <2>1, <2>2
<1>9. ASSUME NEW f \in Futures, channel'[f] # None
      PROVE  Owned([request |-> channel[f].request, future |-> f])'
  <2>1. f # future[l] /\ channel'[f] = channel[f] /\ channel[f] # None
    BY <1>9
  <2>2. PICK r \in Requests : r = channel[f].request
    BY <1>3, <2>1 DEF TypeOK, Results
  <2>3. Owned([request |-> r, future |-> f]) /\ r[1] \in Leases
    BY <2>1, <2>2, RequestParts DEF ClientInv, Entered
  <2>4. r[1] # l
    BY <1>3, <2>1, <2>3, EntryParts, SMT DEF Owned
  <2>5. Owned([request |-> r, future |-> f])'
    BY <1>4, <2>3, <2>4
  <2> QED
    BY <2>1, <2>2, <2>5
<1>10. Entered'
  BY <1>6, <1>7, <1>8, <1>9 DEF Entered, Owned
<1>11. Places'
  <2> SUFFICES ASSUME NEW k \in Leases, callerPc'[k] = "await" PROVE OnePlace(k)'
    BY DEF Places
  <2>1. k # l /\ callerPc[k] = "await" /\ OnePlace(k) /\ Home(k) \in Shards
    BY <1>1, <1>3, EntryParts DEF Moved, ClientInv, Places
  <2>2. Entry(k) # Entry(l)
    BY <1>3, <2>1, EntryParts, SMT
  <2>3. future[k] \in Futures /\ future[k] # future[l]
    BY <1>3, <2>1, SMT DEF ClientInv, Ownership, TypeOK
  <2>4. IsPending(k)' <=> IsPending(k)
    BY <1>1, <2>1, <2>2, SMT DEF IsPending
  <2>5. (IsTaken(k)' <=> IsTaken(k)) /\ (IsFailing(k)' <=> IsFailing(k))
    BY <1>1, <2>1, SMT DEF IsTaken, IsFailing
  <2>6. IsSent(k)' <=> IsSent(k)
    BY <1>1, <2>1, <2>3, SMT DEF IsSent
  <2> QED
    BY <2>1, <2>4, <2>5, <2>6 DEF OnePlace
<1> QED
  BY <1>2, <1>10, <1>11

\* A caller that begins to wait has a future nobody else has, and its entry is new.
LEMMA Registers ==
  ASSUME ClientInv, NEW l \in Leases, callerPc[l] = "locked",
         NEW f \in Futures \ {future[k] : k \in Leases},
         callerPc' = [callerPc EXCEPT ![l] = "await"], future' = [future EXCEPT ![l] = f],
         pending' = [pending EXCEPT ![Home(l)] = @ \cup {[request |-> Request(l), future |-> f]}],
         UNCHANGED <<op, channel, sending, failing>>
  PROVE  (Ownership /\ Entered /\ Places)'
<1>1. TypeOK /\ Ownership
  BY DEF ClientInv
<1> PICK d \in Entries : d = [request |-> Request(l), future |-> f]
  BY <1>1, EntryParts DEF Entries
<1>2. /\ \A k \in Leases : Request(k)' = Request(k) /\ Home(k)' = Home(k)
      /\ \A k \in Leases \ {l} : Entry(k)' = Entry(k) /\ callerPc'[k] = callerPc[k] /\ future'[k] = future[k]
      /\ Entry(l)' = d /\ d.request = Request(l)
      /\ callerPc'[l] = "await" /\ future'[l] = f
  BY <1>1 DEF TypeOK, Entry, Home, Request
<1>3. \A s \in Shards : pending'[s] = IF s = Home(l) THEN pending[s] \cup {d} ELSE pending[s]
  BY <1>1, <1>2 DEF TypeOK
<1>4. Ownership'
  BY <1>1, <1>2, Client1Of1Assumption, SMT DEF Ownership
<1>5. ASSUME NEW e, Owned(e), e.request[1] \in Leases PROVE Owned(e)' /\ e.request[1] # l
  BY <1>2, <1>5 DEF Owned
<1>6. Owned(d)' /\ ShardOf[d.request] = Home(l)
  <2>1. Request(l)[1] = l
    BY <1>1, EntryParts
  <2> QED
    BY <1>2, <2>1 DEF Owned, Home
<1>7. \A s \in Shards : \A e \in pending'[s] : Owned(e)' /\ ShardOf[e.request] = s
  <2> TAKE s \in Shards
  <2> TAKE e \in pending'[s]
  <2>1. CASE e \in pending[s]
    <3>1. Owned(e) /\ e.request[1] \in Leases /\ ShardOf[e.request] = s
      BY <1>1, <2>1, RequestParts DEF ClientInv, Entered, TypeOK
    <3> QED
      BY <1>5, <3>1
  <2>2. CASE e = d /\ s = Home(l)
    BY <1>6, <2>2
  <2> QED
    BY <1>3, <2>1, <2>2, SMT
<1>8. ASSUME NEW s \in Shards, sending[s] # None
      PROVE  Owned(sending[s])' /\ ShardOf[sending[s].request] = s
  <2>1. /\ Owned(sending[s]) /\ ShardOf[sending[s].request] = s /\ sending[s].request[1] \in Leases
    BY <1>1, <1>8, RequestParts, SMT DEF ClientInv, Entered, TypeOK
  <2>2. sending[s].request[1] # l
    BY <1>5, <2>1
  <2> QED
    BY <1>2, <2>1, <2>2 DEF Owned
<1>9. \A e \in failing : Owned(e)'
  BY <1>1, <1>5, RequestParts DEF ClientInv, Entered, TypeOK
<1>10. ASSUME NEW g \in Futures, channel[g] # None
       PROVE  /\ Owned([request |-> channel[g].request, future |-> g])' /\ g # f
  <2>1. PICK r \in Requests : r = channel[g].request
    BY <1>1, <1>10 DEF TypeOK, Results
  <2>2. Owned([request |-> r, future |-> g]) /\ r[1] \in Leases
    BY <1>10, <2>1, RequestParts DEF ClientInv, Entered
  <2>3. g = future[r[1]]
    BY <1>1, <2>2, EntryParts, SMT DEF Owned
  <2> QED
    BY <1>5, <2>1, <2>2, <2>3
<1>11. Entered'
  BY <1>7, <1>8, <1>9, <1>10 DEF Entered, Owned
<1>12. Places'
  <2> SUFFICES ASSUME NEW k \in Leases, callerPc'[k] = "await" PROVE OnePlace(k)'
    BY DEF Places
  <2>1. CASE k = l
    <3>1. IsPending(l)'
      BY <1>1, <1>2, <1>3, EntryParts, SMT DEF IsPending
    <3>2. ~IsTaken(l)'
      <4> SUFFICES ASSUME sending[Home(l)] = d PROVE FALSE
        BY <1>2 DEF IsTaken
      <4>1. Owned(d) /\ d.request[1] = l
        BY <1>1, <1>2, EntryParts, RequestParts, SMT DEF ClientInv, Entered
      <4> QED
        BY <1>5, <4>1
    <3>3. ~IsFailing(l)'
      BY <1>1, <1>2, <1>5, <1>9, EntryParts, SMT DEF IsFailing, ClientInv, Entered
    <3>4. ~IsSent(l)'
      BY <1>2, <1>10 DEF IsSent
    <3> QED
      BY <2>1, <3>1, <3>2, <3>3, <3>4 DEF OnePlace
  <2>2. CASE k # l
    <3>1. callerPc[k] = "await" /\ OnePlace(k) /\ Home(k) \in Shards
      BY <1>1, <1>2, <2>2, EntryParts DEF ClientInv, Places
    <3>2. Entry(k) # d
      BY <1>1, <1>2, <2>2, EntryParts, SMT
    <3>3. /\ IsPending(k)' <=> IsPending(k)
      BY <1>2, <1>3, <2>2, <3>1, <3>2, SMT DEF IsPending
    <3>4. /\ IsTaken(k)' <=> IsTaken(k)
          /\ IsFailing(k)' <=> IsFailing(k)
          /\ IsSent(k)' <=> IsSent(k)
      BY <1>2, <2>2 DEF IsTaken, IsFailing, IsSent
    <3> QED
      BY <3>1, <3>3, <3>4 DEF OnePlace
  <2> QED
    BY <2>1, <2>2
<1> QED
  BY <1>4, <1>11, <1>12

\* What a queue keeps of its order when a request is appended or taken.
LEMMA QueuePlaces ==
  ASSUME NEW q \in Seq(Requests)
  PROVE  /\ DOMAIN q = 1..Len(q)
         /\ \A r \in Requests : \A i \in DOMAIN Append(q, r) :
              \/ i \in DOMAIN q /\ Append(q, r)[i] = q[i]
              \/ i = Len(q) + 1 /\ Append(q, r)[i] = r
         /\ q # <<>> => /\ Head(q) = q[1] /\ 1 \in DOMAIN q
                        /\ \A i \in DOMAIN Tail(q) : i + 1 \in DOMAIN q /\ Tail(q)[i] = q[i + 1]
  BY SMT

\* What a caller's step leaves of the rest: it adds to the queue and to a pending map
\* only under the lock of the shard, which it takes only before Close has begun.
LEMMA CallerRest ==
  ASSUME ClientInv, UNCHANGED otherVars, NEW l \in Leases,
         callerPc' \in [Leases -> CallerStates], op' \in [Leases -> Operations],
         future' \in [Leases -> Futures \cup {None}], channel' \in [Futures -> Results \cup {None}],
         pending' \in [Shards -> SUBSET Entries],
         queue' = queue \/ (callerPc[l] = "locked" /\ ~QueueFull /\ queue' = Append(queue, Request(l))),
         \A k \in Leases : op[k] = "release" => op'[k] = "release",
         \A k \in Leases : callerPc'[k] = "locked" =>
           ~CtxDone \/ (callerPc[k] = "locked" /\ op'[k] = op[k]),
         \A s \in Shards : \/ pending'[s] \subseteq pending[s]
                           \/ callerPc[l] = "locked" /\ s = Home(l)
  PROVE  (TypeOK /\ Holding /\ Closing /\ Order)'
<1>1. TypeOK /\ Request(l) \in Requests /\ Home(l) \in Shards /\ queue \in Seq(Requests)
  BY EntryParts DEF ClientInv, TypeOK
<1>2. TypeOK'
  <2>1. queue' \in Seq(Requests) /\ Len(queue') <= QueueCapacity
    <3>1. CASE queue' = queue
      BY <1>1, <3>1 DEF TypeOK
    <3>2. CASE ~QueueFull /\ queue' = Append(queue, Request(l))
      BY <1>1, <3>2, QueueFacts, Client1Of1Assumption, SMT DEF QueueFull
    <3> QED
      BY <3>1, <3>2
  <2> QED
    BY <1>1, <2>1 DEF TypeOK, otherVars, workVars, sessionVars, closeVars, readyVars
<1>3. Holding'
  BY DEF ClientInv, Holding, WorkersJoined, otherVars, workVars, sessionVars
<1>4. Closing'
  <2>1. ASSUME NEW s \in Shards, Gone(s)
        PROVE  pending'[s] = {} /\ Unlocked(s)' /\ (callerPc[l] = "locked" => Home(l) # s)
    <3>1. pending[s] = {} /\ Unlocked(s) /\ CtxDone
      BY <2>1 DEF ClientInv, Closing, Gone
    <3>2. callerPc[l] = "locked" => Home(l) # s
      BY <3>1 DEF Unlocked, Home
    <3>3. Unlocked(s)'
      BY <3>1 DEF Unlocked, Request
    <3> QED
      BY <3>1, <3>2, <3>3
  <2>2. closer = "closed" => queue' = queue /\ ManagerDone'
    <3> SUFFICES ASSUME closer = "closed" PROVE queue' = queue /\ ManagerDone'
      OBVIOUS
    <3>1. Gone(Home(l))
      BY <1>1 DEF ClientInv, Closing, Gone, CtxDone
    <3> QED
      BY <1>1, <2>1, <3>1 DEF ClientInv, Closing, ManagerDone, otherVars, workVars
  <2>3. \A s \in Shards : Gone(s)' <=> Gone(s)
    BY DEF Gone, CtxDone, otherVars, closeVars
  <2> QED
    BY <2>1, <2>2, <2>3 DEF ClientInv, Closing, otherVars, closeVars
<1>5. Order'
  <2> SUFFICES ASSUME NEW k \in Leases
      PROVE /\ \A i, j \in DOMAIN queue' : queue'[i] = <<k, "acquire">> /\ j <= i =>
                 queue'[j] # <<k, "release">>
            /\ hand = <<k, "release">> \/ <<k, "release">> \in wire =>
                 \A i \in DOMAIN queue' : queue'[i] # <<k, "acquire">>
            /\ <<k, "release">> \in wire => hand # <<k, "acquire">>
            /\ \/ hand = <<k, "release">> \/ <<k, "release">> \in wire
               \/ \E i \in DOMAIN queue' : queue'[i] = <<k, "release">>
               => op'[k] = "release"
    BY DEF Order, otherVars, sessionVars
  <2>1. CASE queue' = queue
    BY <2>1, SMT DEF ClientInv, Order
  <2>2. CASE queue' = Append(queue, Request(l))
    <3>1. /\ Request(l) = <<k, "acquire">> => op[k] = "acquire"
          /\ Request(l) = <<k, "release">> => op[k] = "release"
      BY DEF Request
    <3>2. \A i \in DOMAIN queue' : \/ i \in DOMAIN queue /\ queue'[i] = queue[i]
                                   \/ i = Len(queue) + 1 /\ queue'[i] = Request(l)
      BY <1>1, <2>2, QueuePlaces, SMT
    <3>3. Len(queue) \in Nat /\ DOMAIN queue = 1..Len(queue)
      BY <1>1, QueuePlaces, SMT
    <3>4. /\ \A i, j \in DOMAIN queue : queue[i] = <<k, "acquire">> /\ j <= i => queue[j] # <<k, "release">>
          /\ hand = <<k, "release">> \/ <<k, "release">> \in wire =>
               \A i \in DOMAIN queue : queue[i] # <<k, "acquire">>
          /\ <<k, "release">> \in wire => hand # <<k, "acquire">>
          /\ \/ hand = <<k, "release">> \/ <<k, "release">> \in wire
             \/ \E i \in DOMAIN queue : queue[i] = <<k, "release">>
             => op[k] = "release"
      BY DEF ClientInv, Order
    <3>5. ASSUME NEW i \in DOMAIN queue', NEW j \in DOMAIN queue', queue'[i] = <<k, "acquire">>, j <= i
          PROVE  queue'[j] # <<k, "release">>
      <4>1. CASE i \in DOMAIN queue /\ queue'[i] = queue[i]
        <5>1. j \in DOMAIN queue /\ queue'[j] = queue[j]
          BY <3>2, <3>3, <3>5, <4>1, SMT
        <5> QED
          BY <3>4, <3>5, <4>1, <5>1
      <4>2. CASE queue'[i] = Request(l)
        <5>1. op[k] = "acquire"
          BY <3>1, <3>5, <4>2
        <5> QED
          BY <3>1, <3>2, <3>4, <5>1
      <4> QED
        BY <3>2, <4>1, <4>2
    <3> QED
      BY <3>1, <3>2, <3>4, <3>5
  <2> QED
    BY <2>1, <2>2
<1> QED
  BY <1>2, <1>3, <1>4, <1>5

\* Every step of a caller keeps the invariant.
LEMMA CallersKeep ==
  ASSUME ClientInv, NEW l \in Leases, Acquire(l) \/ Renew(l) \/ Release(l) \/ Caller(l)
  PROVE  ClientInv'
<1>1. /\ TypeOK /\ Ownership /\ Home(l) \in Shards /\ Request(l) \in Requests
      /\ channel \in [Futures -> Results \cup {None}] /\ pending \in [Shards -> SUBSET Entries]
      /\ callerPc \in [Leases -> CallerStates] /\ op \in [Leases -> Operations]
      /\ future \in [Leases -> Futures \cup {None}]
  BY EntryParts DEF ClientInv, TypeOK
<1>2. UNCHANGED otherVars
  BY DEF Acquire, Renew, Release, Caller, Lock, Enqueue, GiveUp, TakeResult, otherVars
<1>3. UNCHANGED <<sending, failing>>
  BY <1>2 DEF otherVars, workVars, closeVars
<1>4. future[l] # None => future[l] \in Futures /\ callerPc[l] = "await"
  BY <1>1 DEF Ownership
<1>5. CASE Moved(l) /\ (callerPc'[l] = "locked" => ~CtxDone) /\ UNCHANGED <<channel, pending>>
           /\ callerPc[l] # "await"
           /\ (queue' = queue \/ (callerPc[l] = "locked" /\ ~QueueFull /\ queue' = Append(queue, Request(l))))
  <2>1. future[l] = None /\ \A s \in Shards : Entry(l) \notin pending[s]
    <3>1. \A s \in Shards : \A e \in pending[s] : Owned(e)
      BY DEF ClientInv, Entered
    <3> QED
      BY <1>1, <1>5, <3>1, EntryParts, SMT DEF Owned, Ownership
  <2>2. (Ownership /\ Entered /\ Places)'
    BY <1>1, <1>3, <1>5, <2>1, Leaves, Client1Of1Assumption, SMT
  <2>3. (TypeOK /\ Holding /\ Closing /\ Order)'
    BY <1>1, <1>2, <1>5, CallerRest DEF Moved
  <2> QED
    BY <2>2, <2>3 DEF ClientInv
<1>6. CASE Acquire(l) \/ Renew(l) \/ Release(l) \/ Lock(l)
  BY <1>1, <1>5, <1>6, CallerMoves DEF Moved
<1>7. CASE Enqueue(l)
  <2>1. callerPc[l] = "locked" /\ UNCHANGED channel
    BY <1>7 DEF Enqueue
  <2>2. CASE QueueFull
    <3>1. Moved(l) /\ UNCHANGED <<pending, queue>>
      BY <1>1, <1>7, <2>2, FailMoves DEF Enqueue
    <3> QED
      BY <1>5, <2>1, <3>1 DEF Moved
  <2>3. CASE ~QueueFull /\ op[l] = "release"
    <3>1. /\ queue' = Append(queue, Request(l)) /\ callerPc' = [callerPc EXCEPT ![l] = "done"]
          /\ UNCHANGED <<pending, future, op>>
      BY <1>7, <2>3 DEF Enqueue, Registered
    <3>2. Moved(l)
      BY <1>1, <1>4, <2>1, <3>1 DEF Moved, CallerStates
    <3> QED
      BY <1>5, <2>1, <2>3, <3>1, <3>2 DEF Moved
  <2>4. CASE ~QueueFull /\ op[l] # "release"
    <3>1. PICK f \in Futures \ {future[k] : k \in Leases} :
            /\ callerPc' = [callerPc EXCEPT ![l] = "await"] /\ future' = [future EXCEPT ![l] = f]
            /\ pending' = [pending EXCEPT ![Home(l)] = @ \cup {[request |-> Request(l), future |-> f]}]
      BY <1>7, <2>4 DEF Enqueue, Registered, Home
    <3>2. queue' = Append(queue, Request(l)) /\ UNCHANGED op
      BY <1>7, <2>4 DEF Enqueue, Registered
    <3>3. (Ownership /\ Entered /\ Places)'
      BY <1>3, <2>1, <3>1, <3>2, Registers
    <3>4. [request |-> Request(l), future |-> f] \in Entries
      BY <1>1 DEF Entries
    <3>5. /\ callerPc' \in [Leases -> CallerStates] /\ future' \in [Leases -> Futures \cup {None}]
          /\ pending' \in [Shards -> SUBSET Entries]
      BY <1>1, <3>1, <3>4 DEF CallerStates
    <3>6. \A k \in Leases : callerPc'[k] = "locked" => callerPc[k] = "locked"
      BY <1>1, <3>1
    <3>7. \A s \in Shards : pending'[s] \subseteq pending[s] \/ s = Home(l)
      BY <1>1, <3>1
    <3>8. (TypeOK /\ Holding /\ Closing /\ Order)'
      BY <1>1, <1>2, <2>1, <2>4, <3>2, <3>5, <3>6, <3>7, CallerRest
    <3> QED
      BY <3>3, <3>8 DEF ClientInv
  <2> QED
    BY <2>2, <2>3, <2>4
<1>8. CASE GiveUp(l)
  <2>1. /\ callerPc[l] = "await" /\ IsPending(l) /\ Moved(l) /\ UNCHANGED <<channel, queue>>
        /\ pending' = [pending EXCEPT ![Home(l)] = @ \ {Entry(l)}]
    BY <1>1, <1>8, FailMoves DEF GiveUp, Home, IsPending
  <2>2. ~IsSent(l)
    BY <2>1 DEF ClientInv, Places, OnePlace
  <2>3. \A s \in Shards : s # Home(l) => Entry(l) \notin pending[s]
    BY PendingAtHome
  <2>4. /\ \A s \in Shards : pending'[s] = pending[s] \ {Entry(l)}
        /\ pending' \in [Shards -> SUBSET Entries]
    BY <1>1, <2>1, <2>3
  <2>5. \A f \in Futures : channel'[f] = IF f = future[l] THEN None ELSE channel[f]
    BY <2>1, <2>2 DEF IsSent
  <2>6. (Ownership /\ Entered /\ Places)'
    BY <1>3, <2>1, <2>4, <2>5, Leaves
  <2>7. (TypeOK /\ Holding /\ Closing /\ Order)'
    BY <1>1, <1>2, <2>1, <2>4, CallerRest DEF Moved
  <2> QED
    BY <2>6, <2>7 DEF ClientInv
<1>9. CASE TakeResult(l)
  <2>1. /\ callerPc[l] = "await" /\ IsSent(l) /\ UNCHANGED <<pending, queue>>
        /\ channel' = [channel EXCEPT ![future[l]] = None]
    BY <1>9 DEF TakeResult, IsSent
  <2>2. Moved(l)
    <3>1. CASE Fail(l)
      BY <1>1, <3>1, FailMoves
    <3>2. CASE /\ callerPc' = [callerPc EXCEPT ![l] = "held"]
               /\ future' = [future EXCEPT ![l] = None] /\ UNCHANGED op
      BY <1>1, <3>2 DEF Moved, CallerStates
    <3> QED
      BY <1>9, <3>1, <3>2 DEF TakeResult
  <2>3. future[l] \in Futures /\ ~IsPending(l)
    BY <1>1, <2>1 DEF Ownership, ClientInv, Places, OnePlace
  <2>4. \A s \in Shards : Entry(l) \notin pending[s]
    BY <2>3, PendingAtHome DEF IsPending
  <2>5. /\ \A f \in Futures : channel'[f] = IF f = future[l] THEN None ELSE channel[f]
        /\ channel' \in [Futures -> Results \cup {None}]
    BY <1>1, <2>1
  <2>6. (Ownership /\ Entered /\ Places)'
    BY <1>3, <2>1, <2>2, <2>4, <2>5, Leaves, SMT
  <2>7. (TypeOK /\ Holding /\ Closing /\ Order)'
    BY <1>1, <1>2, <2>1, <2>2, <2>5, CallerRest DEF Moved
  <2> QED
    BY <2>6, <2>7 DEF ClientInv
<1> QED
  BY <1>6, <1>7, <1>8, <1>9 DEF Caller

-----------------------------------------------------------------------------
(* Entries and results on their way. *)

\* While no caller moves, every entry has the owner it had.
LEMMA StillOwned ==
  ASSUME UNCHANGED <<callerPc, op, future>>
  PROVE  /\ \A e : Owned(e)' <=> Owned(e)
         /\ \A l : /\ Entry(l)' = Entry(l) /\ Home(l)' = Home(l)
         /\ \A s : Unlocked(s)' <=> Unlocked(s)
         /\ Ownership' <=> Ownership
  BY DEF Owned, Entry, Home, Request, Unlocked, Ownership

\* While no entry and no result moves either, the tokens stay where they are.
LEMMA QuietTokens ==
  ASSUME ClientInv, UNCHANGED <<callerPc, op, future, channel, pending, sending, failing>>
  PROVE  (Ownership /\ Entered /\ Places)'
<1>1. Ownership /\ Entered /\ Places
  BY DEF ClientInv
<1>2. Entered'
  BY <1>1, StillOwned DEF Entered
<1>3. Places'
  BY <1>1, StillOwned DEF Places, OnePlace, IsPending, IsTaken, IsFailing, IsSent
<1> QED
  BY <1>1, <1>2, <1>3, StillOwned

\* A worker takes the entry of the response, if there is one: only one is.
LEMMA WorkerTakesKeeps ==
  ASSUME ClientInv, NEW s \in Shards, WorkerTakes(s)
  PROVE  ClientInv'
<1> DEFINE request == Head(responses[s])
           found == {e \in pending[s] : e.request = request}
<1> HIDE DEF found, request
<1>1. /\ TypeOK /\ responses \in [Shards -> Seq(Requests)] /\ pending \in [Shards -> SUBSET Entries]
      /\ worker \in [Shards -> {"receive", "send", "ended"}] /\ sending \in [Shards -> Entries \cup {None}]
      /\ \A t \in Shards : Len(responses[t]) <= RingCapacity
  BY DEF ClientInv, TypeOK
<1>2. /\ worker[s] = "receive" /\ sending[s] = None /\ responses[s] # <<>>
      /\ responses' = [responses EXCEPT ![s] = Tail(@)]
      /\ pending' = [pending EXCEPT ![s] = @ \ found]
      /\ UNCHANGED <<callerPc, op, future, channel, queue>>
      /\ UNCHANGED <<manager, connection, sessionVars, closeVars, readyVars>>
  BY DEF WorkerTakes, ClientInv, Holding, found, request
<1>3. \/ found = {} /\ UNCHANGED <<worker, sending>>
      \/ \E e \in found : /\ worker' = [worker EXCEPT ![s] = "send"]
                          /\ sending' = [sending EXCEPT ![s] = e]
  BY DEF WorkerTakes, found, request
<1>4. /\ responses' \in [Shards -> Seq(Requests)] /\ pending' \in [Shards -> SUBSET Entries]
      /\ worker' \in [Shards -> {"receive", "send", "ended"}] /\ sending' \in [Shards -> Entries \cup {None}]
  <2>1. Tail(responses[s]) \in Seq(Requests) /\ found \subseteq Entries
    BY <1>1, <1>2, QueueFacts DEF found
  <2> QED
    BY <1>1, <1>2, <1>3, <2>1
<1>5. \A t \in Shards : Len(responses'[t]) <= RingCapacity
  <2>1. Len(responses[s]) \in Nat /\ Len(Tail(responses[s])) = Len(responses[s]) - 1
    BY <1>1, <1>2, QueueFacts
  <2> QED
    BY <1>1, <1>2, <2>1, Client1Of1Assumption, SMT
<1>6. TypeOK'
  BY <1>1, <1>2, <1>4, <1>5 DEF TypeOK, sessionVars, closeVars, readyVars
<1>7. Holding'
  <2>1. \A t \in Shards : worker'[t] = "send" <=> sending'[t] # None
    BY <1>1, <1>2, <1>3, RequestParts, SMT DEF ClientInv, Holding, found
  <2> QED
    BY <1>2, <2>1 DEF ClientInv, Holding, WorkersJoined, sessionVars
<1>8. Closing'
  <2>1. closer # "closed"
    BY <1>2 DEF ClientInv, Closing, ManagerDone
  <2>2. \A t \in Shards : pending'[t] \subseteq pending[t] /\ (Gone(t)' <=> Gone(t))
    BY <1>1, <1>2 DEF Gone, CtxDone, closeVars
  <2> QED
    BY <1>2, <2>1, <2>2, StillOwned DEF ClientInv, Closing, closeVars
<1>9. Order'
  BY <1>2 DEF ClientInv, Order, sessionVars
<1>10. UNCHANGED failing
  BY <1>2 DEF closeVars
<1>11. \A t \in Shards : pending'[t] = IF t = s THEN pending[t] \ found ELSE pending[t]
  BY <1>1, <1>2
<1>12. CASE found = {} /\ UNCHANGED <<worker, sending>>
  <2>1. UNCHANGED pending
    BY <1>1, <1>2, <1>12
  <2> QED
    BY <1>2, <1>6, <1>7, <1>8, <1>9, <1>10, <1>12, <2>1, QuietTokens DEF ClientInv
<1>13. ASSUME NEW d \in found, sending' = [sending EXCEPT ![s] = d] PROVE (Entered /\ Places)'
  <2>1. /\ d \in pending[s] /\ d \in Entries /\ Owned(d) /\ ShardOf[d.request] = s
        /\ d.request[1] \in Leases
    BY <1>1, RequestParts DEF found, ClientInv, Entered
  <2>2. \A e \in found : e = d
    <3> TAKE e \in found
    <3>1. e.request = d.request /\ e \in pending[s]
      BY DEF found
    <3>2. Owned(e)
      BY <3>1 DEF ClientInv, Entered
    <3> QED
      BY <2>1, <3>1, <3>2 DEF Owned
  <2>3. PICK k \in Leases : k = d.request[1]
    BY <2>1
  <2>4. callerPc[k] = "await" /\ d = Entry(k) /\ Home(k) = s
    BY <1>1, <2>1, <2>3, EntryParts, SMT DEF Owned, Home
  <2>5. \A t \in Shards : /\ pending'[t] = IF t = s THEN pending[t] \ {d} ELSE pending[t]
                          /\ sending'[t] = IF t = s THEN d ELSE sending[t]
    BY <1>1, <1>11, <1>13, <2>2
  <2>6. Entered'
    <3>1. Entered
      BY DEF ClientInv
    <3>2. \A t \in Shards : \A e \in pending'[t] : Owned(e) /\ ShardOf[e.request] = t
      BY <2>5, <3>1 DEF Entered
    <3>3. \A t \in Shards : sending'[t] # None => Owned(sending'[t]) /\ ShardOf[sending'[t].request] = t
      BY <2>1, <2>5, <3>1 DEF Entered
    <3> QED
      BY <1>2, <1>10, <3>1, <3>2, <3>3, StillOwned DEF Entered
  <2>7. Places'
    <3> SUFFICES ASSUME NEW m \in Leases, callerPc[m] = "await" PROVE OnePlace(m)'
      BY <1>2 DEF Places
    <3>1. OnePlace(m) /\ Home(m) \in Shards /\ Entry(m)' = Entry(m) /\ Home(m)' = Home(m)
      BY <1>1, <1>2, EntryParts, StillOwned DEF ClientInv, Places
    <3>2. (IsFailing(m)' <=> IsFailing(m)) /\ (IsSent(m)' <=> IsSent(m))
      BY <1>2, <1>10, <3>1 DEF IsFailing, IsSent
    <3>3. CASE m = k
      <4>1. IsPending(m) /\ ~IsPending(m)' /\ IsTaken(m)'
        BY <2>1, <2>4, <2>5, <3>1, <3>3 DEF IsPending, IsTaken
      <4> QED
        BY <3>1, <3>2, <4>1 DEF OnePlace
    <3>4. CASE m # k
      <4>1. Entry(m) # d
        BY <1>1, <2>3, <3>4, EntryParts
      <4>2. IsPending(m)' <=> IsPending(m)
        BY <2>5, <3>1, <4>1 DEF IsPending
      <4>3. IsTaken(m)' <=> IsTaken(m)
        <5>1. future[m] \in Futures
          BY <1>1 DEF ClientInv, Ownership, TypeOK
        <5>2. Entry(m) \in Entries
          BY <1>1, <5>1, EntryParts DEF Entries, Entry
        <5>3. Entry(m) # None
          BY <5>2, Client1Of1Assumption
        <5> QED
          BY <1>2, <2>5, <3>1, <4>1, <5>3 DEF IsTaken
      <4> QED
        BY <3>1, <3>2, <4>2, <4>3 DEF OnePlace
    <3> QED
      BY <3>3, <3>4
  <2> QED
    BY <2>6, <2>7
<1>14. CASE \E e \in found : sending' = [sending EXCEPT ![s] = e]
  BY <1>2, <1>6, <1>7, <1>8, <1>9, <1>13, <1>14, StillOwned DEF ClientInv
<1> QED
  BY <1>3, <1>12, <1>14

\* The holder of an entry, a worker or Close, sends the result to its owner.
LEMMA ResultSent ==
  ASSUME ClientInv, UNCHANGED <<callerPc, op, future, pending>>,
         NEW d \in Entries, Owned(d), NEW kind \in {"response", "error"},
         channel' = [channel EXCEPT ![d.future] = [request |-> d.request, kind |-> kind]],
         \/ /\ IsTaken(d.request[1]) /\ UNCHANGED failing
            /\ sending' = [sending EXCEPT ![ShardOf[d.request]] = None]
         \/ d \in failing /\ failing' = failing \ {d} /\ UNCHANGED sending
  PROVE  channel' \in [Futures -> Results \cup {None}] /\ (Entered /\ Places)'
<1>1. /\ TypeOK /\ Entered /\ channel \in [Futures -> Results \cup {None}]
      /\ sending \in [Shards -> Entries \cup {None}]
  BY DEF ClientInv, TypeOK
<1>2. PICK k \in Leases : k = d.request[1]
  BY RequestParts
<1>3. /\ callerPc[k] = "await" /\ d = Entry(k) /\ d.future = future[k] /\ d.future \in Futures
      /\ Home(k) = ShardOf[d.request] /\ Home(k) \in Shards /\ d.request \in Requests
  BY <1>1, <1>2, EntryParts, RequestParts, SMT DEF Owned, Home
<1>4. /\ [request |-> d.request, kind |-> kind] \in Results
      /\ [request |-> d.request, kind |-> kind] # None
  BY <1>3, Client1Of1Assumption, SMT DEF Results
<1>5. /\ channel' \in [Futures -> Results \cup {None}]
      /\ \A f \in Futures : channel'[f] = IF f = future[k] THEN [request |-> d.request, kind |-> kind]
                                          ELSE channel[f]
  BY <1>1, <1>3, <1>4
<1>6. \A t \in Shards : sending'[t] = sending[t] \/ sending'[t] = None
  BY <1>1
<1>7. Entered'
  <2>1. \A f \in Futures : channel'[f] # None => Owned([request |-> channel'[f].request, future |-> f])
    <3> TAKE f \in Futures
    <3>1. CASE f = future[k]
      <4>1. [request |-> d.request, future |-> f] = d
        BY <1>3, <3>1 DEF Entries
      <4> QED
        BY <1>5, <3>1, <4>1, SMT
    <3>2. CASE f # future[k]
      BY <1>1, <1>5, <3>2 DEF Entered
    <3> QED
      BY <3>1, <3>2
  <2>2. \A t \in Shards : sending'[t] # None => Owned(sending'[t]) /\ ShardOf[sending'[t].request] = t
    BY <1>1, <1>6 DEF Entered
  <2>3. \A e \in failing' : Owned(e)
    BY <1>1 DEF Entered
  <2> QED
    BY <1>1, <2>1, <2>2, <2>3, StillOwned DEF Entered
<1>8. Places'
  <2> SUFFICES ASSUME NEW m \in Leases, callerPc[m] = "await" PROVE OnePlace(m)'
    BY DEF Places
  <2>1. OnePlace(m) /\ Home(m) \in Shards /\ Entry(m)' = Entry(m) /\ Home(m)' = Home(m)
    BY <1>1, EntryParts, StillOwned DEF ClientInv, Places
  <2>2. IsPending(m)' <=> IsPending(m)
    BY <2>1 DEF IsPending
  <2>3. future[m] \in Futures
    BY <1>1 DEF ClientInv, Ownership, TypeOK
  <2>4. Entry(m) # None
    <3>1. Entry(m) \in Entries
      BY <1>1, <2>3, EntryParts DEF Entries, Entry
    <3> QED
      BY <3>1, Client1Of1Assumption
  <2>5. CASE m = k
    <3>1. IsSent(m)'
      BY <1>3, <1>4, <1>5, <2>5 DEF IsSent
    <3>2. CASE IsTaken(k) /\ UNCHANGED failing /\ sending' = [sending EXCEPT ![Home(k)] = None]
      <4>1. ~IsTaken(m)' /\ (IsFailing(m)' <=> IsFailing(m))
        BY <1>1, <1>3, <2>1, <2>4, <2>5, <3>2, SMT DEF IsTaken, IsFailing
      <4> QED
        BY <2>1, <2>2, <2>5, <3>1, <3>2, <4>1 DEF OnePlace
    <3>3. CASE d \in failing /\ failing' = failing \ {d} /\ UNCHANGED sending
      <4>1. IsFailing(m) /\ ~IsFailing(m)' /\ (IsTaken(m)' <=> IsTaken(m))
        BY <1>3, <2>1, <2>5, <3>3 DEF IsTaken, IsFailing
      <4> QED
        BY <2>1, <2>2, <3>1, <4>1 DEF OnePlace
    <3> QED
      BY <1>2, <1>3, <3>2, <3>3
  <2>6. CASE m # k
    <3>1. future[m] # future[k] /\ Entry(m) # d
      <4>1. future[m] # None
        BY <2>3, Client1Of1Assumption
      <4>2. future[m] # future[k]
        BY <2>6, <4>1 DEF ClientInv, Ownership
      <4>3. Entry(m).future = future[m]
        BY <1>1, EntryParts
      <4> QED
        BY <1>3, <4>2, <4>3
    <3>2. IsSent(m)' <=> IsSent(m)
      BY <1>5, <2>3, <3>1 DEF IsSent
    <3>3. IsFailing(m)' <=> IsFailing(m)
      BY <2>1, <3>1 DEF IsFailing
    <3>4. IsTaken(m)' <=> IsTaken(m)
      <4>1. \/ sending'[Home(m)] = sending[Home(m)]
            \/ sending[Home(m)] = d /\ sending'[Home(m)] = None
        <5>1. \/ sending' = sending
              \/ sending[Home(k)] = d /\ sending' = [sending EXCEPT ![Home(k)] = None]
          BY <1>2, <1>3 DEF IsTaken
        <5> QED
          BY <1>1, <1>3, <2>1, <5>1
      <4> QED
        BY <2>1, <2>4, <3>1, <4>1 DEF IsTaken
    <3> QED
      BY <2>1, <2>2, <3>2, <3>3, <3>4 DEF OnePlace
  <2> QED
    BY <2>5, <2>6
<1> QED
  BY <1>5, <1>7, <1>8

INSTANCE FiniteSetTheorems

-----------------------------------------------------------------------------
(* The steps of the workers, the manager, the session and Close. *)

LEMMA WorkerSendsKeeps ==
  ASSUME ClientInv, NEW s \in Shards, WorkerSends(s)
  PROVE  ClientInv'
<1>1. /\ TypeOK /\ worker \in [Shards -> {"receive", "send", "ended"}]
      /\ sending \in [Shards -> Entries \cup {None}]
  BY DEF ClientInv, TypeOK
<1>2. PICK d \in Entries : d = sending[s] /\ Owned(d) /\ ShardOf[d.request] = s
  BY <1>1, SMT DEF WorkerSends, ClientInv, Holding, Entered
<1>3. IsTaken(d.request[1])
  BY <1>1, <1>2, RequestParts, EntryParts, SMT DEF Owned, IsTaken, Home
<1>4. /\ worker[s] = "send" /\ worker' = [worker EXCEPT ![s] = "receive"]
      /\ sending' = [sending EXCEPT ![s] = None]
      /\ channel' = [channel EXCEPT ![d.future] = [request |-> d.request, kind |-> "response"]]
      /\ UNCHANGED <<callerPc, op, future, pending, queue, responses>>
      /\ UNCHANGED <<manager, connection, sessionVars, closeVars, readyVars>>
  BY <1>2 DEF WorkerSends
<1>5. channel' \in [Futures -> Results \cup {None}] /\ (Entered /\ Places)'
  BY <1>2, <1>3, <1>4, ResultSent DEF closeVars
<1>6. TypeOK'
  BY <1>1, <1>4, <1>5 DEF TypeOK, sessionVars, closeVars, readyVars
<1>7. Holding'
  <2>1. \A t \in Shards : worker'[t] = "send" <=> sending'[t] # None
    BY <1>1, <1>4 DEF ClientInv, Holding
  <2> QED
    BY <1>4, <2>1 DEF ClientInv, Holding, WorkersJoined, sessionVars
<1>8. Closing'
  <2>1. closer # "closed"
    BY <1>4 DEF ClientInv, Closing, ManagerDone
  <2>2. \A t \in Shards : Gone(t)' <=> Gone(t)
    BY <1>4 DEF Gone, CtxDone, closeVars
  <2> QED
    BY <1>4, <2>1, <2>2, StillOwned DEF ClientInv, Closing, closeVars
<1>9. Order'
  BY <1>4 DEF ClientInv, Order, sessionVars
<1> QED
  BY <1>4, <1>5, <1>6, <1>7, <1>8, <1>9, StillOwned DEF ClientInv

LEMMA WorkersKeep ==
  ASSUME ClientInv, NEW s \in Shards, Worker(s)
  PROVE  ClientInv'
<1>1. CASE WorkerEnds(s)
  <2>1. /\ worker[s] = "receive" /\ worker' = [worker EXCEPT ![s] = "ended"]
        /\ UNCHANGED <<responses, sending, callerPc, op, future, channel, pending, queue>>
        /\ UNCHANGED <<manager, connection, sessionVars, closeVars, readyVars>>
    BY <1>1 DEF WorkerEnds, callVars
  <2>2. TypeOK /\ worker \in [Shards -> {"receive", "send", "ended"}]
    BY DEF ClientInv, TypeOK
  <2>3. TypeOK'
    BY <2>1, <2>2 DEF TypeOK, sessionVars, closeVars, readyVars
  <2>4. Holding'
    <3>1. \A t \in Shards : worker'[t] = "send" <=> sending'[t] # None
      BY <2>1, <2>2 DEF ClientInv, Holding
    <3> QED
      BY <2>1, <3>1 DEF ClientInv, Holding, WorkersJoined, sessionVars
  <2>5. Closing'
    <3>1. closer # "closed"
      BY <2>1 DEF ClientInv, Closing, ManagerDone
    <3>2. \A t \in Shards : Gone(t)' <=> Gone(t)
      BY <2>1 DEF Gone, CtxDone, closeVars
    <3> QED
      BY <2>1, <3>1, <3>2, StillOwned DEF ClientInv, Closing, closeVars
  <2>6. Order'
    BY <2>1 DEF ClientInv, Order, sessionVars
  <2> QED
    BY <2>1, <2>3, <2>4, <2>5, <2>6, QuietTokens DEF ClientInv, closeVars
<1> QED
  BY <1>1, WorkerTakesKeeps, WorkerSendsKeeps DEF Worker


LEMMA ManagerKeeps ==
  ASSUME ClientInv, Manager
  PROVE  ClientInv'
<1>1. UNCHANGED <<callVars, workVars, closeVars, hand, incoming, waiter>>
  BY DEF Manager, Publish, StopDialing, EndSession, Join, sessionVars, readyVars
<1>2. UNCHANGED <<callerPc, op, future, channel, pending, queue, responses, worker, sending, closer, todo, failing>>
  BY <1>1 DEF callVars, workVars, closeVars
<1>3. wire' \subseteq wire
  BY DEF Manager, Publish, StopDialing, EndSession, Join, sessionVars
<1>4. TypeOK
  BY DEF ClientInv
<1>5. /\ manager' \in ManagerStates /\ writer' \in {"next", "check", "buffer", "ended"}
      /\ reader' \in {"read", "deliver", "ended"}
  BY <1>4 DEF TypeOK, Manager, Publish, StopDialing, EndSession, Join, sessionVars, ManagerStates
<1>6. connOpen' \in BOOLEAN /\ connection' \in BOOLEAN /\ stop' \in BOOLEAN /\ notified' \in BOOLEAN
  <2>1. connOpen \in BOOLEAN /\ connection \in BOOLEAN /\ stop \in BOOLEAN /\ notified \in BOOLEAN
    BY <1>4 DEF TypeOK
  <2>2. CASE Publish
    BY <2>2 DEF Publish, Notify
  <2>3. CASE StopDialing
    BY <2>1, <2>3 DEF StopDialing, sessionVars, readyVars
  <2>4. CASE EndSession
    BY <2>1, <2>4 DEF EndSession, readyVars
  <2>5. CASE Join
    BY <2>1, <2>5 DEF Join, Notify
  <2> QED
    BY <2>2, <2>3, <2>4, <2>5 DEF Manager
<1>7. TypeOK'
  <2>1. {connOpen', connection', stop', notified'} \subseteq BOOLEAN
    BY <1>6
  <2> QED
    BY <1>1, <1>2, <1>3, <1>4, <1>5, <2>1 DEF TypeOK
<1>8. Holding'
  <2>1. /\ writer \in {"check", "buffer"} <=> hand # None
        /\ reader = "deliver" <=> incoming # None
        /\ manager \in {"dial", "ended"} => WorkersJoined
        /\ \A s \in Shards : worker[s] = "send" <=> sending[s] # None
    BY DEF ClientInv, Holding
  <2>2. CASE Publish
    BY <1>1, <1>2, <2>1, <2>2 DEF Publish, Holding, WorkersJoined
  <2>3. CASE StopDialing
    BY <1>1, <1>2, <2>1, <2>3 DEF StopDialing, Holding, WorkersJoined, sessionVars
  <2>4. CASE EndSession
    BY <1>1, <1>2, <2>1, <2>4 DEF EndSession, Holding, WorkersJoined
  <2>5. CASE Join
    BY <1>1, <1>2, <2>1, <2>5 DEF Join, Holding, WorkersJoined
  <2> QED
    BY <2>2, <2>3, <2>4, <2>5 DEF Manager
<1>9. Closing'
  <2>1. manager # "ended"
    BY DEF Manager, Publish, StopDialing, EndSession, Join
  <2>2. \A s \in Shards : Gone(s)' <=> Gone(s)
    BY <1>2 DEF Gone, CtxDone
  <2> QED
    BY <1>2, <2>1, <2>2, StillOwned DEF ClientInv, Closing, ManagerDone
<1>10. Order'
  BY <1>1, <1>2, <1>3 DEF ClientInv, Order
<1> QED
  BY <1>2, <1>7, <1>8, <1>9, <1>10, QuietTokens DEF ClientInv

\* The writer takes requests from the head of the queue and sends them in that order.
LEMMA WriterKeeps ==
  ASSUME ClientInv, Writer
  PROVE  ClientInv'
<1>1. /\ UNCHANGED <<callerPc, op, future, channel, pending, responses, worker, sending>>
      /\ UNCHANGED <<manager, connection, connOpen, stop, reader, incoming, closer, todo, failing>>
      /\ UNCHANGED <<waiter, notified>>
  BY DEF Writer, WriterFrame, workVars, closeVars, readyVars
<1>2. /\ TypeOK /\ queue \in Seq(Requests) /\ hand \in Requests \cup {None} /\ wire \subseteq Requests
      /\ (writer \in {"check", "buffer"} <=> hand # None)
      /\ (manager \in {"dial", "ended"} => WorkersJoined)
  BY DEF ClientInv, TypeOK, Holding
<1>3. writer # "ended" /\ writer' \in {"next", "check", "buffer", "ended"}
  BY DEF Writer, WriterStops, WriterDequeues, WriterDrops, WriterGoesOn, WriterBuffers, WriterFails
<1>4. \/ UNCHANGED <<queue, hand>> /\ wire' = wire
         /\ (writer' \in {"check", "buffer"} <=> writer \in {"check", "buffer"})
      \/ UNCHANGED queue /\ hand' = None /\ writer' \in {"next", "ended"}
         /\ (wire' = wire \/ (hand # None /\ wire' = wire \cup {hand}))
      \/ queue # <<>> /\ hand' = Head(queue) /\ queue' = Tail(queue) /\ writer' = "check"
         /\ (wire' = wire \/ (hand # None /\ wire' = wire \cup {hand}))
  <2>1. CASE WriterStops \/ WriterGoesOn
    BY <2>1 DEF WriterStops, WriterGoesOn
  <2>2. CASE WriterDequeues
    BY <2>2 DEF WriterDequeues
  <2>3. CASE WriterDrops \/ WriterFails
    BY <2>3 DEF WriterDrops, WriterFails
  <2>4. CASE WriterBuffers
    <3>1. wire' = wire \/ (hand # None /\ wire' = wire \cup {hand})
      BY <1>2, <2>4 DEF WriterBuffers
    <3> QED
      BY <2>4, <3>1 DEF WriterBuffers
  <2> QED
    BY <2>1, <2>2, <2>3, <2>4 DEF Writer
<1>5. /\ queue # <<>> => Head(queue) \in Requests /\ Tail(queue) \in Seq(Requests)
                         /\ Len(Tail(queue)) = Len(queue) - 1
      /\ Len(queue) \in Nat /\ Len(queue) <= QueueCapacity /\ QueueCapacity \in Nat
  BY <1>2, QueueFacts, Client1Of1Assumption DEF TypeOK
<1>6. /\ queue' \in Seq(Requests) /\ Len(queue') <= QueueCapacity
      /\ hand' \in Requests \cup {None} /\ wire' \subseteq Requests
      /\ (writer' \in {"check", "buffer"} <=> hand' # None)
  BY <1>2, <1>4, <1>5, RequestParts, SMT
<1>7. TypeOK'
  BY <1>1, <1>2, <1>3, <1>6 DEF TypeOK
<1>8. Holding'
  BY <1>1, <1>2, <1>3, <1>6 DEF ClientInv, Holding, WorkersJoined
<1>9. Closing'
  <2>1. manager # "ended"
    BY <1>2, <1>3 DEF WorkersJoined
  <2>2. \A s \in Shards : Gone(s)' <=> Gone(s)
    BY <1>1 DEF Gone, CtxDone
  <2> QED
    BY <1>1, <2>1, <2>2, StillOwned DEF ClientInv, Closing, ManagerDone
<1>10. ASSUME NEW l \in Leases
       PROVE /\ \A i, j \in DOMAIN queue' : queue'[i] = <<l, "acquire">> /\ j <= i =>
                  queue'[j] # <<l, "release">>
             /\ hand' = <<l, "release">> \/ <<l, "release">> \in wire' =>
                  \A i \in DOMAIN queue' : queue'[i] # <<l, "acquire">>
             /\ <<l, "release">> \in wire' => hand' # <<l, "acquire">>
             /\ \/ hand' = <<l, "release">> \/ <<l, "release">> \in wire'
                \/ \E i \in DOMAIN queue' : queue'[i] = <<l, "release">>
                => op'[l] = "release"
  <2>1. /\ \A i, j \in DOMAIN queue : queue[i] = <<l, "acquire">> /\ j <= i => queue[j] # <<l, "release">>
        /\ hand = <<l, "release">> \/ <<l, "release">> \in wire =>
             \A i \in DOMAIN queue : queue[i] # <<l, "acquire">>
        /\ <<l, "release">> \in wire => hand # <<l, "acquire">>
        /\ \/ hand = <<l, "release">> \/ <<l, "release">> \in wire
           \/ \E i \in DOMAIN queue : queue[i] = <<l, "release">>
           => op[l] = "release"
    BY DEF ClientInv, Order
  <2>2. <<l, "acquire">> \in Requests /\ <<l, "release">> \in Requests
    BY DEF Requests, Operations
  <2>3. <<l, "acquire">> # None /\ <<l, "release">> # None
    BY <2>2, Client1Of1Assumption
  <2>4. <<l, "release">> \in wire' => hand = <<l, "release">> \/ <<l, "release">> \in wire
    BY <1>4
  <2>5. CASE UNCHANGED <<queue, hand>>
    <3>1. wire' = wire \/ hand = None
      BY <1>4, <2>5, SMT
    <3> QED
      BY <1>1, <2>1, <2>3, <2>4, <2>5, <3>1
  <2>6. CASE UNCHANGED queue /\ hand' = None
    BY <1>1, <2>1, <2>3, <2>4, <2>6
  <2>7. CASE queue # <<>> /\ hand' = Head(queue) /\ queue' = Tail(queue)
    <3>1. /\ hand' = queue[1] /\ 1 \in DOMAIN queue
          /\ \A i \in DOMAIN queue' : i + 1 \in DOMAIN queue /\ queue'[i] = queue[i + 1]
      BY <1>2, <2>7, QueuePlaces
    <3>2. \A i \in DOMAIN queue : i \in Nat /\ 1 <= i
      BY <1>2, QueuePlaces, SMT
    <3>3. \A i \in DOMAIN queue' : i \in Nat
      BY <1>6, QueuePlaces, SMT
    <3>4. ASSUME NEW i \in DOMAIN queue', NEW j \in DOMAIN queue', queue'[i] = <<l, "acquire">>, j <= i
          PROVE  queue'[j] # <<l, "release">>
      <4>1. i + 1 \in DOMAIN queue /\ j + 1 \in DOMAIN queue /\ j + 1 <= i + 1
        BY <3>1, <3>3, <3>4, SMT
      <4> QED
        BY <2>1, <3>1, <3>4, <4>1
    <3>5. hand' = <<l, "release">> => \A i \in DOMAIN queue : queue[i] # <<l, "acquire">>
      BY <2>1, <3>1, <3>2
    <3>6. /\ <<l, "release">> \in wire' => hand' # <<l, "acquire">>
          /\ hand' = <<l, "release">> \/ <<l, "release">> \in wire' =>
               \A i \in DOMAIN queue' : queue'[i] # <<l, "acquire">>
      BY <2>1, <2>4, <3>1, <3>5
    <3>7. \/ hand' = <<l, "release">> \/ <<l, "release">> \in wire'
          \/ \E i \in DOMAIN queue' : queue'[i] = <<l, "release">>
          => op'[l] = "release"
      BY <1>1, <2>1, <2>4, <3>1
    <3> QED
      BY <3>4, <3>6, <3>7
  <2> QED
    BY <1>4, <2>5, <2>6, <2>7
<1>11. Order'
  BY <1>10 DEF Order
<1> QED
  BY <1>1, <1>7, <1>8, <1>9, <1>11, QuietTokens DEF ClientInv

LEMMA ReaderKeeps ==
  ASSUME ClientInv, Reader
  PROVE  ClientInv'
<1>1. /\ UNCHANGED <<callerPc, op, future, channel, pending, queue, worker, sending>>
      /\ UNCHANGED <<manager, connection, connOpen, stop, writer, hand, closer, todo, failing>>
      /\ UNCHANGED <<waiter, notified>>
  BY DEF Reader, ReaderFrame, callVars, closeVars, readyVars
<1>2. /\ TypeOK /\ responses \in [Shards -> Seq(Requests)] /\ wire \subseteq Requests
      /\ (reader = "deliver" <=> incoming # None) /\ incoming \in Requests \cup {None}
      /\ \A s \in Shards : Len(responses[s]) <= RingCapacity
  BY DEF ClientInv, TypeOK, Holding
<1>3. /\ reader # "ended" /\ wire' \subseteq wire /\ reader' \in {"read", "deliver", "ended"}
      /\ incoming' \in Requests \cup {None} /\ (reader' = "deliver" <=> incoming' # None)
      /\ \/ UNCHANGED responses
         \/ \E r \in Requests : /\ ~RingFull(ShardOf[r])
                                /\ responses' = [responses EXCEPT ![ShardOf[r]] = Append(@, r)]
  <2>1. CASE ReaderReads
    <3>1. PICK r \in wire :
            /\ wire' = wire \ {r}
            /\ IF RingFull(ShardOf[r])
               THEN incoming' = r /\ reader' = "deliver" /\ UNCHANGED responses
               ELSE /\ responses' = [responses EXCEPT ![ShardOf[r]] = Append(@, r)]
                    /\ UNCHANGED <<incoming, reader>>
      BY <2>1 DEF ReaderReads
    <3>2. r \in Requests /\ r # None /\ reader = "read"
      BY <1>2, <2>1, RequestParts DEF ReaderReads
    <3> QED
      BY <1>2, <3>1, <3>2
  <2>2. CASE ReaderFails
    BY <1>2, <2>2 DEF ReaderFails
  <2>3. CASE ReaderDelivers
    BY <1>2, <2>3 DEF ReaderDelivers
  <2> QED
    BY <2>1, <2>2, <2>3 DEF Reader
<1>4. /\ responses' \in [Shards -> Seq(Requests)]
      /\ \A s \in Shards : Len(responses'[s]) <= RingCapacity
  <2>1. ASSUME NEW r \in Requests, ~RingFull(ShardOf[r]),
               responses' = [responses EXCEPT ![ShardOf[r]] = Append(@, r)]
        PROVE  /\ responses' \in [Shards -> Seq(Requests)]
               /\ \A s \in Shards : Len(responses'[s]) <= RingCapacity
    <3>1. PICK s \in Shards : s = ShardOf[r]
      BY RequestParts
    <3>2. /\ responses[s] \in Seq(Requests) /\ Append(responses[s], r) \in Seq(Requests)
          /\ Len(responses[s]) \in Nat /\ Len(Append(responses[s], r)) = Len(responses[s]) + 1
      BY <1>2, QueueFacts
    <3>3. Len(Append(responses[s], r)) <= RingCapacity
      BY <2>1, <3>1, <3>2, Client1Of1Assumption, SMT DEF RingFull
    <3> QED
      BY <1>2, <2>1, <3>1, <3>2, <3>3
  <2> QED
    BY <1>2, <1>3, <2>1
<1>5. TypeOK'
  BY <1>1, <1>2, <1>3, <1>4 DEF TypeOK
<1>6. Holding'
  BY <1>1, <1>3 DEF ClientInv, Holding, WorkersJoined
<1>7. Closing'
  <2>1. \A s \in Shards : Gone(s)' <=> Gone(s)
    BY <1>1 DEF Gone, CtxDone
  <2> QED
    BY <1>1, <2>1, StillOwned DEF ClientInv, Closing, ManagerDone
<1>8. Order'
  BY <1>1, <1>3 DEF ClientInv, Order
<1> QED
  BY <1>1, <1>5, <1>6, <1>7, <1>8, QuietTokens DEF ClientInv

\* Close takes the map of a shard: its entries are now Close's to fail.
LEMMA FailShardKeeps ==
  ASSUME ClientInv, NEW s \in Shards, FailShard(s)
  PROVE  ClientInv'
<1>1. /\ closer = "shards" /\ s \in todo /\ failing = {} /\ Unlocked(s)
      /\ failing' = pending[s] /\ pending' = [pending EXCEPT ![s] = {}] /\ todo' = todo \ {s}
      /\ UNCHANGED <<closer, callerPc, op, future, channel, queue, responses, worker, sending>>
      /\ UNCHANGED <<manager, connection, sessionVars, readyVars>>
  BY DEF FailShard, workVars
<1>2. TypeOK /\ Entered /\ pending \in [Shards -> SUBSET Entries] /\ todo \subseteq Shards
  BY DEF ClientInv, TypeOK
<1>3. \A t \in Shards : pending'[t] = IF t = s THEN {} ELSE pending[t]
  BY <1>1, <1>2
<1>4. TypeOK'
  <2>1. pending' \in [Shards -> SUBSET Entries] /\ failing' \subseteq Entries /\ todo' \subseteq Shards
    BY <1>1, <1>2
  <2> QED
    BY <1>1, <1>2, <2>1 DEF TypeOK, sessionVars, readyVars
<1>5. Entered'
  <2>1. \A t \in Shards : \A e \in pending'[t] : Owned(e) /\ ShardOf[e.request] = t
    BY <1>2, <1>3 DEF Entered
  <2>2. \A e \in failing' : Owned(e)
    BY <1>1, <1>2 DEF Entered
  <2> QED
    BY <1>1, <1>2, <2>1, <2>2, StillOwned DEF Entered
<1>6. Places'
  <2> SUFFICES ASSUME NEW m \in Leases, callerPc[m] = "await" PROVE OnePlace(m)'
    BY <1>1 DEF Places
  <2>1. OnePlace(m) /\ Home(m) \in Shards /\ Entry(m)' = Entry(m) /\ Home(m)' = Home(m)
    BY <1>1, <1>2, EntryParts, StillOwned DEF ClientInv, Places
  <2>2. (IsTaken(m)' <=> IsTaken(m)) /\ (IsSent(m)' <=> IsSent(m)) /\ ~IsFailing(m)
    BY <1>1, <2>1 DEF IsTaken, IsSent, IsFailing
  <2>3. IsFailing(m)' => Home(m) = s
    <3>1. \A e \in pending[s] : ShardOf[e.request] = s
      BY <1>2 DEF Entered
    <3>2. Entry(m).request = Request(m)
      BY <1>2, EntryParts
    <3> QED
      BY <1>1, <2>1, <3>1, <3>2 DEF IsFailing, Home
  <2>4. /\ IsPending(m)' <=> IsPending(m) /\ Home(m) # s
        /\ IsFailing(m)' <=> IsPending(m) /\ Home(m) = s
    BY <1>1, <1>3, <2>1, <2>3, SMT DEF IsPending, IsFailing
  <2> QED
    BY <2>1, <2>2, <2>4 DEF OnePlace
<1>7. Holding'
  BY <1>1 DEF ClientInv, Holding, WorkersJoined, sessionVars
<1>8. Closing'
  <2>1. \A t \in Shards : t # s => (Gone(t)' <=> Gone(t))
    BY <1>1 DEF Gone, CtxDone
  <2> QED
    BY <1>1, <1>3, <2>1, StillOwned DEF ClientInv, Closing
<1>9. Order'
  BY <1>1 DEF ClientInv, Order, sessionVars
<1> QED
  BY <1>1, <1>4, <1>5, <1>6, <1>7, <1>8, <1>9, StillOwned DEF ClientInv

LEMMA FailWaiterKeeps ==
  ASSUME ClientInv, FailWaiter
  PROVE  ClientInv'
<1>1. TypeOK /\ Entered /\ failing \subseteq Entries
  BY DEF ClientInv, TypeOK
<1>2. PICK d \in failing :
        /\ channel' = [channel EXCEPT ![d.future] = [request |-> d.request, kind |-> "error"]]
        /\ failing' = failing \ {d}
        /\ UNCHANGED <<closer, todo, callerPc, op, future, pending, queue>>
        /\ UNCHANGED <<workVars, manager, connection, sessionVars, readyVars>>
  BY DEF FailWaiter
<1>3. channel' \in [Futures -> Results \cup {None}] /\ (Entered /\ Places)'
  <2>1. d \in Entries /\ Owned(d)
    BY <1>1, <1>2 DEF Entered
  <2> QED
    BY <1>2, <2>1, ResultSent DEF workVars
<1>4. TypeOK'
  <2>1. failing' \subseteq Entries
    BY <1>1, <1>2
  <2> QED
    BY <1>1, <1>2, <1>3, <2>1 DEF TypeOK, workVars, sessionVars, readyVars
<1>5. Holding'
  BY <1>2 DEF ClientInv, Holding, WorkersJoined, workVars, sessionVars
<1>6. Closing'
  <2>1. \A t \in Shards : Gone(t)' <=> Gone(t)
    BY <1>2 DEF Gone, CtxDone
  <2> QED
    BY <1>2, <2>1, StillOwned DEF ClientInv, Closing, ManagerDone, workVars
<1>7. Order'
  BY <1>2 DEF ClientInv, Order, sessionVars
<1> QED
  BY <1>2, <1>3, <1>4, <1>5, <1>6, <1>7, StillOwned DEF ClientInv

\* The rest of Close, and WaitReady.
LEMMA CloserKeeps ==
  ASSUME ClientInv, Cancel \/ Closer \/ Woken \/ WaitCanceled
  PROVE  ClientInv'
<1>1. TypeOK /\ waiter \in {"idle", "wait"} /\ connection \in BOOLEAN /\ connOpen \in BOOLEAN
      /\ stop \in BOOLEAN /\ notified \in BOOLEAN
  BY DEF ClientInv, TypeOK
<1>2. CASE Cancel
  <2>1. /\ closer = "open" /\ closer' = "state"
        /\ UNCHANGED <<todo, failing, callerPc, op, future, channel, pending, queue>>
        /\ UNCHANGED <<workVars, manager, connection, sessionVars, readyVars>>
    BY <1>2 DEF Cancel, callVars
  <2>2. TypeOK'
    BY <1>1, <2>1 DEF TypeOK, CloserStates, workVars, sessionVars, readyVars
  <2>3. Holding' /\ Order'
    BY <2>1 DEF ClientInv, Holding, Order, WorkersJoined, workVars, sessionVars
  <2>4. Closing'
    BY <2>1 DEF Closing, Gone
  <2> QED
    BY <2>1, <2>2, <2>3, <2>4, QuietTokens DEF ClientInv, workVars
<1>3. CASE MarkClosed
  <2>1. /\ closer' = "shards" /\ todo' = Shards /\ connection' = FALSE /\ notified' = (waiter = "wait")
        /\ UNCHANGED <<failing, callerPc, op, future, channel, pending, queue>>
        /\ UNCHANGED <<workVars, manager, sessionVars, waiter>>
    BY <1>3 DEF MarkClosed, callVars, Notify
  <2>2. TypeOK'
    <3>1. {connOpen, connection', stop, notified'} \subseteq BOOLEAN
      BY <1>1, <2>1
    <3> QED
      BY <1>1, <2>1, <3>1 DEF TypeOK, CloserStates, workVars, sessionVars
  <2>3. Holding' /\ Order'
    BY <2>1 DEF ClientInv, Holding, Order, WorkersJoined, workVars, sessionVars
  <2>4. Closing'
    BY <2>1 DEF Closing, Gone
  <2> QED
    BY <2>1, <2>2, <2>3, <2>4, QuietTokens DEF ClientInv, workVars
<1>4. CASE CloseConn
  <2>1. /\ closer = "shards" /\ closer' = "wait" /\ todo = {} /\ failing = {} /\ connOpen' = FALSE
        /\ UNCHANGED <<todo, failing, callerPc, op, future, channel, pending, queue>>
        /\ UNCHANGED <<workVars, manager, connection, stop, writer, hand, wire, reader, incoming, readyVars>>
    BY <1>4 DEF CloseConn, callVars
  <2>2. TypeOK'
    <3>1. {connOpen', connection', stop', notified'} \subseteq BOOLEAN
      BY <1>1, <2>1 DEF readyVars
    <3> QED
      BY <1>1, <2>1, <3>1 DEF TypeOK, CloserStates, workVars, readyVars
  <2>3. Holding' /\ Order'
    BY <2>1 DEF ClientInv, Holding, Order, WorkersJoined, workVars
  <2>4. Closing'
    <3>1. \A s \in Shards : Gone(s)' <=> Gone(s)
      BY <2>1 DEF Gone, CtxDone
    <3> QED
      BY <2>1, <3>1, StillOwned DEF ClientInv, Closing
  <2> QED
    BY <2>1, <2>2, <2>3, <2>4, QuietTokens DEF ClientInv, workVars
<1>5. CASE DiscardQueued
  <2>1. /\ closer = "wait" /\ ManagerDone /\ closer' = "closed" /\ queue' = <<>>
        /\ UNCHANGED <<todo, failing, callerPc, op, future, channel, pending>>
        /\ UNCHANGED <<workVars, manager, connection, sessionVars, readyVars>>
    BY <1>5 DEF DiscardQueued
  <2>2. TypeOK'
    <3>1. queue' \in Seq(Requests) /\ Len(queue') <= QueueCapacity
      BY <2>1, Client1Of1Assumption, SMT
    <3> QED
      BY <1>1, <2>1, <3>1 DEF TypeOK, CloserStates, workVars, sessionVars, readyVars
  <2>3. Holding'
    BY <2>1 DEF ClientInv, Holding, WorkersJoined, workVars, sessionVars
  <2>4. Order'
    <3>1. DOMAIN queue' = {}
      BY <2>1, SMT
    <3> QED
      BY <2>1, <3>1 DEF ClientInv, Order, sessionVars
  <2>5. Closing'
    <3>1. \A s \in Shards : Gone(s)' <=> Gone(s)
      BY <2>1 DEF Gone, CtxDone
    <3> QED
      BY <2>1, <3>1, StillOwned DEF ClientInv, Closing, ManagerDone, workVars
  <2> QED
    BY <2>1, <2>2, <2>3, <2>4, <2>5, QuietTokens DEF ClientInv, workVars
<1>6. CASE Woken \/ WaitCanceled
  <2>1. /\ waiter' \in {"idle", "wait"} /\ notified' = FALSE
        /\ UNCHANGED <<callVars, workVars, manager, connection, sessionVars, closeVars>>
    BY <1>6 DEF Woken, WaitCanceled, WaiterFrame
  <2>2. TypeOK'
    <3>1. {connOpen', connection', stop', notified'} \subseteq BOOLEAN
      BY <1>1, <2>1 DEF sessionVars
    <3> QED
      BY <1>1, <2>1, <3>1 DEF TypeOK, callVars, workVars, sessionVars, closeVars
  <2>3. Holding' /\ Order'
    BY <2>1 DEF ClientInv, Holding, Order, WorkersJoined, callVars, workVars, sessionVars
  <2>4. Closing'
    <3>1. \A s \in Shards : Gone(s)' <=> Gone(s)
      BY <2>1 DEF Gone, CtxDone, closeVars
    <3>2. UNCHANGED <<callerPc, op, future, pending, queue, closer, todo, failing, manager, worker>>
      BY <2>1 DEF callVars, closeVars, workVars
    <3> QED
      BY <3>1, <3>2, StillOwned DEF ClientInv, Closing, ManagerDone
  <2> QED
    BY <2>1, <2>2, <2>3, <2>4, QuietTokens DEF ClientInv, callVars, workVars, closeVars
<1> QED
  BY <1>2, <1>3, <1>4, <1>5, <1>6, FailShardKeeps, FailWaiterKeeps DEF Closer

-----------------------------------------------------------------------------
(* The invariant holds, and what follows from it. *)

LEMMA ClientInvInit ==
  Init => ClientInv
<1> SUFFICES ASSUME Init PROVE ClientInv
  OBVIOUS
<1>1. TypeOK
  <2>1. queue \in Seq(Requests) /\ Len(queue) <= QueueCapacity /\ responses \in [Shards -> Seq(Requests)]
        /\ \A s \in Shards : Len(responses[s]) <= RingCapacity
    BY Client1Of1Assumption, SMT DEF Init
  <2> QED
    BY <2>1 DEF Init, TypeOK, CallerStates, Operations, ManagerStates, CloserStates
<1>2. Ownership /\ Entered /\ Places
  BY DEF Init, Ownership, Entered, Places
<1>3. Holding /\ Closing
  BY DEF Init, Holding, Closing, WorkersJoined, Gone, CtxDone
<1>4. Order
  <2>1. \A l \in Leases : <<l, "release">> \in Requests /\ <<l, "release">> # None
    <3>1. \A l \in Leases : <<l, "release">> \in Requests
      BY DEF Requests, Operations
    <3> QED
      BY <3>1, Client1Of1Assumption
  <2>2. DOMAIN queue = {}
    BY SMT DEF Init
  <2> QED
    BY <2>1, <2>2 DEF Init, Order
<1> QED
  BY <1>1, <1>2, <1>3, <1>4 DEF ClientInv

LEMMA ClientInvStep ==
  ClientInv /\ [Next]_vars => ClientInv'
<1> SUFFICES ASSUME ClientInv, [Next]_vars PROVE ClientInv'
  OBVIOUS
<1>1. CASE UNCHANGED vars
  <2>1. UNCHANGED <<callVars, workVars, manager, connection, sessionVars, closeVars, readyVars>>
    BY <1>1 DEF vars
  <2>2. TypeOK' /\ Holding' /\ Order'
    BY <2>1 DEF ClientInv, TypeOK, Holding, Order, WorkersJoined,
                callVars, workVars, sessionVars, closeVars, readyVars
  <2>3. UNCHANGED <<callerPc, op, future, channel, pending, queue, sending, closer, todo, failing, manager, worker>>
    BY <2>1 DEF callVars, workVars, closeVars
  <2>4. Closing'
    <3>1. \A s \in Shards : Gone(s)' <=> Gone(s)
      BY <2>3 DEF Gone, CtxDone
    <3> QED
      BY <2>3, <3>1, StillOwned DEF ClientInv, Closing, ManagerDone
  <2> QED
    BY <2>2, <2>3, <2>4, QuietTokens DEF ClientInv
<1>2. CASE Next
  BY <1>2, CallersKeep, WorkersKeep, ManagerKeeps, WriterKeeps, ReaderKeeps, CloserKeeps DEF Next
<1> QED
  BY <1>1, <1>2

\* Every state the client can be in satisfies the invariant.
THEOREM ClientInvHolds == Spec => []ClientInv
  BY ClientInvInit, ClientInvStep, PTL DEF Spec

\* The result of a caller that waits is the one token of its future.
LEMMA TokenOfOwner ==
  ASSUME ClientInv, NEW l \in Leases, future[l] # None
  PROVE  \E t : Tokens(future[l]) = {t} /\ t[2].request = Request(l)
<1> DEFINE f == future[l]
           P == {e \in UNION {pending[s] : s \in Shards} : e.future = f}
           W == {e \in {sending[s] : s \in Shards} \ {None} : e.future = f}
           C == {e \in failing : e.future = f}
<1>1. /\ TypeOK /\ callerPc[l] = "await" /\ f \in Futures /\ Home(l) \in Shards
      /\ Entry(l).request = Request(l) /\ Entry(l).future = f
  <2>1. TypeOK /\ callerPc[l] = "await" /\ future[l] \in Futures
    BY DEF ClientInv, Ownership, TypeOK
  <2> QED
    BY <2>1, EntryParts
<1>2. Entry(l) # None
  <2>1. Entry(l) \in Entries
    BY <1>1, EntryParts DEF Entries, Entry
  <2> QED
    BY <2>1, Client1Of1Assumption
<1>3. ASSUME NEW e \in Entries, Owned(e), e.future = f PROVE e = Entry(l)
  <2>1. PICK k \in Leases : k = e.request[1]
    BY RequestParts
  <2>2. e = Entry(k) /\ e.future = future[k]
    BY <1>1, <1>3, <2>1, EntryParts DEF Owned
  <2>3. k = l
    BY <1>3, <2>2 DEF ClientInv, Ownership
  <2> QED
    BY <2>2, <2>3
<1>4. P = IF IsPending(l) THEN {Entry(l)} ELSE {}
  <2>1. ASSUME NEW e \in P PROVE e = Entry(l) /\ IsPending(l)
    <3>1. PICK s \in Shards : e \in pending[s]
      OBVIOUS
    <3>2. e \in Entries /\ Owned(e) /\ ShardOf[e.request] = s
      BY <1>1, <3>1 DEF ClientInv, Entered, TypeOK
    <3>3. e = Entry(l)
      BY <1>3, <3>2
    <3> QED
      BY <1>1, <3>1, <3>2, <3>3 DEF IsPending, Home
  <2>2. IsPending(l) => Entry(l) \in P
    BY <1>1 DEF IsPending
  <2> QED
    BY <2>1, <2>2
<1>5. W = IF IsTaken(l) THEN {Entry(l)} ELSE {}
  <2>1. ASSUME NEW e \in W PROVE e = Entry(l) /\ IsTaken(l)
    <3>1. PICK s \in Shards : e = sending[s] /\ e # None
      OBVIOUS
    <3>2. e \in Entries /\ Owned(e) /\ ShardOf[e.request] = s
      BY <1>1, <3>1 DEF ClientInv, Entered, TypeOK
    <3>3. e = Entry(l)
      BY <1>3, <3>2
    <3> QED
      BY <1>1, <3>1, <3>2, <3>3 DEF IsTaken, Home
  <2>2. IsTaken(l) => Entry(l) \in W
    BY <1>1, <1>2 DEF IsTaken
  <2> QED
    BY <2>1, <2>2
<1>6. C = IF IsFailing(l) THEN {Entry(l)} ELSE {}
  <2>1. ASSUME NEW e \in C PROVE e = Entry(l) /\ IsFailing(l)
    <3>1. e \in failing /\ e \in Entries /\ Owned(e)
      BY <1>1 DEF ClientInv, Entered, TypeOK
    <3> QED
      BY <1>3, <3>1 DEF IsFailing
  <2>2. IsFailing(l) => Entry(l) \in C
    BY <1>1 DEF IsFailing
  <2> QED
    BY <2>1, <2>2
<1>7. IsSent(l) => channel[f].request = Request(l)
  <2> SUFFICES ASSUME IsSent(l) PROVE channel[f].request = Request(l)
    OBVIOUS
  <2>1. PICK r \in Requests : r = channel[f].request
    BY <1>1 DEF TypeOK, Results, IsSent
  <2>2. PICK e \in Entries : e = [request |-> r, future |-> f]
    BY <1>1 DEF Entries
  <2>3. Owned(e) /\ e.future = f
    BY <1>1, <2>1, <2>2 DEF ClientInv, Entered, IsSent
  <2>4. e = Entry(l)
    BY <1>3, <2>3
  <2> QED
    <3>1. e.request = r
      BY <2>2
    <3> QED
      BY <1>1, <2>1, <2>4, <3>1
<1>8. Tokens(f) = {<<"pending", e>> : e \in P} \cup {<<"worker", e>> : e \in W}
                  \cup {<<"close", e>> : e \in C} \cup {<<"channel", c>> : c \in {channel[f]} \ {None}}
  BY DEF Tokens
<1> HIDE DEF f, P, W, C
<1>9. OnePlace(l)
  BY <1>1 DEF ClientInv, Places
<1>10. IsSent(l) <=> channel[f] # None
  BY DEF IsSent, f
<1>11. ASSUME NEW place, NEW e, Tokens(f) = {<<place, e>>}, e.request = Request(l)
       PROVE  \E t : Tokens(future[l]) = {t} /\ t[2].request = Request(l)
  <2>1. <<place, e>>[2] = e
    OBVIOUS
  <2> WITNESS <<place, e>>
  <2> QED
    BY <1>11, <2>1 DEF f
<1>12. CASE IsPending(l)
  <2>1. P = {Entry(l)} /\ W = {} /\ C = {} /\ channel[f] = None
    BY <1>4, <1>5, <1>6, <1>9, <1>10, <1>12 DEF OnePlace
  <2>2. Tokens(f) = {<<"pending", Entry(l)>>}
    BY <1>8, <2>1
  <2> QED
    BY <1>1, <1>11, <2>2
<1>13. CASE IsTaken(l)
  <2>1. P = {} /\ W = {Entry(l)} /\ C = {} /\ channel[f] = None
    BY <1>4, <1>5, <1>6, <1>9, <1>10, <1>13 DEF OnePlace
  <2>2. Tokens(f) = {<<"worker", Entry(l)>>}
    BY <1>8, <2>1
  <2> QED
    BY <1>1, <1>11, <2>2
<1>14. CASE IsFailing(l)
  <2>1. P = {} /\ W = {} /\ C = {Entry(l)} /\ channel[f] = None
    BY <1>4, <1>5, <1>6, <1>9, <1>10, <1>14 DEF OnePlace
  <2>2. Tokens(f) = {<<"close", Entry(l)>>}
    BY <1>8, <2>1
  <2> QED
    BY <1>1, <1>11, <2>2
<1>15. CASE IsSent(l)
  <2>1. P = {} /\ W = {} /\ C = {} /\ channel[f] # None
    BY <1>4, <1>5, <1>6, <1>9, <1>10, <1>15 DEF OnePlace
  <2>2. Tokens(f) = {<<"channel", channel[f]>>}
    BY <1>8, <2>1
  <2> QED
    BY <1>7, <1>15, <1>11, <2>2
<1> QED
  BY <1>9, <1>12, <1>13, <1>14, <1>15 DEF OnePlace

\* A future in the pool has no token.
LEMMA NoTokenInPool ==
  ASSUME ClientInv, NEW f \in Futures, \A l \in Leases : future[l] # f
  PROVE  Tokens(f) = {}
<1>1. TypeOK /\ Entered
  BY DEF ClientInv
<1>2. ASSUME NEW e \in Entries, Owned(e) PROVE e.future # f
  <2>1. PICK k \in Leases : k = e.request[1]
    BY RequestParts
  <2>2. e.future = future[k]
    BY <1>1, <1>2, <2>1, EntryParts DEF Owned
  <2> QED
    BY <2>2
<1>3. \A s \in Shards : \A e \in pending[s] : e.future # f
  BY <1>1, <1>2 DEF Entered, TypeOK
<1>4. \A s \in Shards : sending[s] # None => sending[s].future # f
  BY <1>1, <1>2 DEF Entered, TypeOK
<1>5. \A e \in failing : e.future # f
  BY <1>1, <1>2 DEF Entered, TypeOK
<1>6. channel[f] = None
  <2> SUFFICES ASSUME channel[f] # None PROVE FALSE
    OBVIOUS
  <2>1. PICK r \in Requests : r = channel[f].request
    BY <1>1 DEF TypeOK, Results
  <2>2. PICK e \in Entries : e = [request |-> r, future |-> f]
    BY DEF Entries
  <2> QED
    BY <1>1, <1>2, <2>1, <2>2 DEF Entered
<1> QED
  BY <1>3, <1>4, <1>5, <1>6 DEF Tokens

\* A future has exactly one result to come while a caller waits on it, that of the
\* caller's own request, and none while it is in the pool, whichever of the worker,
\* Close and the caller's own timeout takes the entry from the pending table first.
THEOREM OneResultPerFutureHolds == Spec => []OneResultPerFuture
<1>1. ClientInv => OneResultPerFuture
  <2> SUFFICES ASSUME ClientInv, NEW f \in Futures
      PROVE  LET owners == {l \in Leases : future[l] = f} IN
             /\ Cardinality(Tokens(f)) = Cardinality(owners)
             /\ \A l \in owners, t \in Tokens(f) : t[2].request = Request(l)
    BY DEF OneResultPerFuture, ClientInv
  <2> DEFINE owners == {l \in Leases : future[l] = f}
  <2>1. CASE \E l \in Leases : future[l] = f
    <3>1. PICK l \in Leases : future[l] = f
      BY <2>1
    <3>2. future[l] # None
      BY <3>1, Client1Of1Assumption
    <3>3. PICK t : Tokens(f) = {t} /\ t[2].request = Request(l)
      BY <3>1, <3>2, TokenOfOwner
    <3>4. owners = {l}
      BY <3>1, <3>2 DEF ClientInv, Ownership
    <3>5. Cardinality({t}) = 1 /\ Cardinality({l}) = 1
      BY FS_Singleton
    <3> QED
      BY <3>3, <3>4, <3>5
  <2>2. CASE ~\E l \in Leases : future[l] = f
    <3>1. Tokens(f) = {} /\ owners = {}
      BY <2>2, NoTokenInPool
    <3> QED
      BY <3>1
  <2> QED
    BY <2>1, <2>2
<1> QED
  BY <1>1, ClientInvHolds, PTL

\* When Close has returned nothing of the client runs or is queued and no caller
\* waits for a result nobody will send; and no request enters a map Close has taken.
THEOREM NothingLeftAfterCloseHolds == Spec => []NothingLeftAfterClose
<1>1. ClientInv => NothingLeftAfterClose
  <2> SUFFICES ASSUME ClientInv PROVE NothingLeftAfterClose
    OBVIOUS
  <2>1. \A s \in Shards : Gone(s) => pending[s] = {} /\ Unlocked(s)
    BY DEF ClientInv, Closing
  <2>2. ASSUME closer = "closed"
        PROVE  /\ queue = <<>> /\ manager = "ended" /\ WorkersJoined
               /\ \A s \in Shards : worker[s] = "ended"
    BY <2>2 DEF ClientInv, Closing, Holding, ManagerDone
  <2>3. ASSUME closer = "closed", NEW l \in Leases, callerPc[l] = "await"
        PROVE  channel[future[l]] # None
    <3>1. TypeOK /\ OnePlace(l) /\ Home(l) \in Shards /\ todo = {} /\ failing = {}
      BY <2>3, EntryParts DEF ClientInv, Places, Closing
    <3>2. pending[Home(l)] = {}
      BY <2>1, <2>3, <3>1 DEF Gone, CtxDone
    <3>3. future[l] \in Futures
      BY <2>3, <3>1 DEF ClientInv, Ownership, TypeOK
    <3>4. Entry(l) \in Entries
      BY <3>1, <3>3, EntryParts DEF Entries, Entry
    <3>5. sending[Home(l)] = None
      BY <2>2, <2>3, <3>1 DEF ClientInv, Holding
    <3>6. ~IsPending(l) /\ ~IsTaken(l) /\ ~IsFailing(l)
      BY <3>1, <3>2, <3>4, <3>5, Client1Of1Assumption DEF IsPending, IsTaken, IsFailing
    <3> QED
      BY <3>1, <3>6 DEF OnePlace, IsSent
  <2> QED
    BY <2>1, <2>2, <2>3 DEF NothingLeftAfterClose
<1> QED
  BY <1>1, ClientInvHolds, PTL

\* The queue has one consumer at a time: the writer of the session the manager runs,
\* and after all sessions Close.
THEOREM OneConsumerHolds == Spec => []OneConsumer
<1>1. ClientInv => OneConsumer
  BY DEF ClientInv, OneConsumer, Holding, Closing, ManagerDone, WorkersJoined, TypeOK, ManagerStates
<1> QED
  BY <1>1, ClientInvHolds, PTL

\* While the Acquire of a lease is still to be sent, its Release is behind it in the
\* queue or was never queued.
THEOREM ReleaseBehindAcquireHolds == Spec => []ReleaseBehindAcquire
<1>1. ClientInv => ReleaseBehindAcquire
  <2> SUFFICES ASSUME ClientInv, NEW l \in Leases
      PROVE  LET acquire == <<l, "acquire">>
                 release == <<l, "release">>
                 unsent == (IF hand = None THEN <<>> ELSE <<hand>>) \o queue IN
             \A i \in DOMAIN unsent : unsent[i] = acquire =>
                 release \notin wire /\ \A j \in 1 .. i : unsent[j] # release
    BY DEF ReleaseBehindAcquire
  <2> DEFINE acquire == <<l, "acquire">>
             release == <<l, "release">>
             unsent == (IF hand = None THEN <<>> ELSE <<hand>>) \o queue
  <2>1. queue \in Seq(Requests) /\ hand \in Requests \cup {None}
    BY DEF ClientInv, TypeOK
  <2>2. /\ \A i, j \in DOMAIN queue : queue[i] = acquire /\ j <= i => queue[j] # release
        /\ hand = release \/ release \in wire => \A i \in DOMAIN queue : queue[i] # acquire
        /\ release \in wire => hand # acquire
    BY DEF ClientInv, Order
  <2>3. acquire # release
    OBVIOUS
  <2> HIDE DEF acquire, release
  <2>4. DOMAIN queue = 1..Len(queue) /\ Len(queue) \in Nat
    BY <2>1, QueuePlaces, SMT
  <2> SUFFICES ASSUME NEW i \in DOMAIN unsent, unsent[i] = acquire
      PROVE  release \notin wire /\ \A j \in 1 .. i : unsent[j] # release
    BY DEF acquire, release
  <2>5. CASE hand = None
    <3>1. unsent = queue
      BY <2>1, <2>5, SMT
    <3> QED
      BY <2>2, <2>4, <3>1, SMT
  <2>6. CASE hand # None
    <3>1. /\ DOMAIN unsent = 1 .. Len(queue) + 1 /\ unsent[1] = hand
          /\ \A j \in 1 .. Len(queue) + 1 : j # 1 => j - 1 \in DOMAIN queue /\ unsent[j] = queue[j - 1]
      BY <2>1, <2>4, <2>6, SMT
    <3> HIDE DEF unsent
    <3>2. CASE i = 1
      <4>1. hand = acquire
        BY <3>1, <3>2
      <4>2. \A j \in 1 .. i : j = 1
        BY <3>2, SMT
      <4> QED
        BY <2>2, <2>3, <3>1, <4>1, <4>2
    <3>3. CASE i # 1
      <4>1. i - 1 \in DOMAIN queue /\ queue[i - 1] = acquire /\ i \in Nat
        BY <2>4, <3>1, <3>3, SMT
      <4>2. release \notin wire /\ hand # release
        BY <2>2, <4>1
      <4>3. ASSUME NEW j \in 1 .. i PROVE unsent[j] # release
        <5>1. CASE j = 1
          BY <3>1, <4>2, <5>1
        <5>2. CASE j # 1
          <6>1. j - 1 \in DOMAIN queue /\ unsent[j] = queue[j - 1] /\ j - 1 <= i - 1
            BY <2>4, <3>1, <5>2, SMT
          <6> QED
            BY <2>2, <4>1, <6>1
        <5> QED
          BY <5>1, <5>2
      <4> QED
        BY <4>2, <4>3
    <3> QED
      BY <3>2, <3>3
  <2> QED
    BY <2>5, <2>6
<1> QED
  BY <1>1, ClientInvHolds, PTL

==============================================================================
