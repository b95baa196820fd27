------------------------------ MODULE Client1Of1 ------------------------------
(***************************************************************************)
(* The single-server client (client1of1).  Application goroutines submit   *)
(* requests through one persistent FIFO (reqQueue) and wait on pooled      *)
(* futures; a manager goroutine keeps one TCP session at a time, each with *)
(* one writer and one reader; one worker per shard completes responses;    *)
(* Close stops all of them.                                                *)
(*                                                                         *)
(* A request is <<lease, operation>>: every attempt to acquire is a lease  *)
(* of its own, which may be renewed once and is released at the end.  Time *)
(* is not here: what a response is worth (status, remaining validity) is a *)
(* choice, and the lease protocol over time is the subject of RedLease.    *)
(***************************************************************************)
EXTENDS Integers, Sequences, FiniteSets

CONSTANTS
    Leases,           \* the acquire attempts, numbered
    CallerOf,         \* the application goroutine that makes each attempt
    Renewing,         \* the leases that may be renewed (once)
    Futures,          \* the futures of futurePool, as many as are ever in use
    Shards,           \* the shards of the pending table, 1 .. n
    ShardOf,          \* pendingShardIndex: the shard of a request
    QueueCapacity,    \* reqQueueCapacity
    RingCapacity,     \* responseQueueCapacity
    None              \* nothing: no future, no result, no request

VARIABLES
    callerPc,         \* what the caller of a lease is doing
    op,               \* the operation it is in
    future,           \* the future it waits on
    channel,          \* the one-place result channel of each future
    pending,          \* shard.pending, as a set of entries [request, future]
    queue,            \* reqQueue
    responses,        \* shard.responses
    worker, sending,  \* completeResponses: where it stands, the entry it took
    manager,          \* where manageConnection stands
    connOpen,         \* the socket of the session is open
    connection,       \* c.connection is not nil
    stop,             \* the stop channel of the session is closed
    writer, hand,     \* sendRequests: where it stands, the request it holds
    wire,             \* the frames of the session the server has yet to answer
    reader, incoming, \* receive: where it stands, the response it holds
    closer,           \* where Close stands
    todo, failing,    \* the shards left to fail, the entries taken from one
    waiter, notified  \* WaitReady, and whether its changed channel is closed

callVars == <<callerPc, op, future, channel, pending, queue>>
workVars == <<responses, worker, sending>>
sessionVars == <<connOpen, stop, writer, hand, wire, reader, incoming>>
closeVars == <<closer, todo, failing>>
readyVars == <<waiter, notified>>
vars == <<callVars, workVars, manager, connection, sessionVars, closeVars, readyVars>>

Operations == {"acquire", "renew", "release"}
Requests == Leases \X Operations
Entries == [request : Requests, future : Futures]
Results == [request : Requests, kind : {"response", "error"}]

ASSUME Client1Of1Assumption ==
    /\ ShardOf \in [Requests -> Shards]
    /\ QueueCapacity \in Nat /\ RingCapacity \in Nat
    /\ None \notin Futures /\ None \notin Requests
    /\ None \notin Entries /\ None \notin Results

CallerStates == {"idle", "call", "locked", "await", "held", "done"}
ManagerStates == {"dial", "run", "join", "ended"}
CloserStates == {"open", "state", "shards", "wait", "closed"}

\* The type of every variable; the queue and the rings stay within their slots.
TypeOK ==
    /\ callerPc \in [Leases -> CallerStates]
    /\ op \in [Leases -> Operations]
    /\ future \in [Leases -> Futures \cup {None}]
    /\ channel \in [Futures -> Results \cup {None}]
    /\ pending \in [Shards -> SUBSET Entries]
    /\ queue \in Seq(Requests) /\ Len(queue) <= QueueCapacity
    /\ responses \in [Shards -> Seq(Requests)]
    /\ \A s \in Shards : Len(responses[s]) <= RingCapacity
    /\ worker \in [Shards -> {"receive", "send", "ended"}]
    /\ sending \in [Shards -> Entries \cup {None}]
    /\ manager \in ManagerStates
    /\ {connOpen, connection, stop, notified} \subseteq BOOLEAN
    /\ writer \in {"next", "check", "buffer", "ended"}
    /\ hand \in Requests \cup {None}
    /\ wire \subseteq Requests
    /\ reader \in {"read", "deliver", "ended"}
    /\ incoming \in Requests \cup {None}
    /\ closer \in CloserStates
    /\ todo \subseteq Shards /\ failing \subseteq Entries
    /\ waiter \in {"idle", "wait"}

-----------------------------------------------------------------------------
(* New: the workers and the manager start, no session yet.                 *)

Init ==
    /\ callerPc = [l \in Leases |-> "idle"]
    /\ op = [l \in Leases |-> "acquire"]
    /\ future = [l \in Leases |-> None]
    /\ channel = [f \in Futures |-> None]
    /\ pending = [s \in Shards |-> {}]
    /\ queue = <<>>
    /\ responses = [s \in Shards |-> <<>>]
    /\ worker = [s \in Shards |-> "receive"]
    /\ sending = [s \in Shards |-> None]
    /\ manager = "dial"
    /\ connOpen = FALSE /\ connection = FALSE /\ stop = TRUE
    /\ writer = "ended" /\ hand = None
    /\ wire = {}
    /\ reader = "ended" /\ incoming = None
    /\ closer = "open" /\ todo = {} /\ failing = {}
    /\ waiter = "wait" /\ notified = FALSE

\* c.ctx is done: Close has called cancel.
CtxDone == closer # "open"

Request(l) == <<l, op[l]>>

\* shard.mu is free.  Only enqueue holds it over more than one step here.
Unlocked(s) ==
    \A l \in Leases : callerPc[l] = "locked" => ShardOf[Request(l)] # s

\* A shard whose map Close has replaced by nil.
Gone(s) == CtxDone /\ closer # "state" /\ s \notin todo

-----------------------------------------------------------------------------
(* The callers: Acquire, Renew and Release of a lease.                     *)

\* What an error makes of the operation: a failed Acquire goes on to queue its
\* cleanup Release, a failed Renew leaves the lease as it was, and the error of
\* a Release is dropped.
Fail(l) ==
    /\ callerPc' = [callerPc EXCEPT ![l] =
                      CASE op[l] = "acquire" -> "call"
                        [] op[l] = "renew" -> "held"
                        [] op[l] = "release" -> "done"]
    /\ op' = IF op[l] = "acquire" THEN [op EXCEPT ![l] = "release"] ELSE op
    /\ future' = [future EXCEPT ![l] = None]

\* Acquire: the check before a sequence number is taken.  A goroutine makes its
\* attempts one after the other.
Acquire(l) ==
    /\ callerPc[l] = "idle"
    /\ \A k \in Leases : k < l /\ CallerOf[k] = CallerOf[l] => callerPc[k] = "done"
    /\ callerPc' = [callerPc EXCEPT ![l] = IF CtxDone THEN "done" ELSE "call"]
    /\ UNCHANGED <<op, future, channel, pending, queue>>
    /\ UNCHANGED <<workVars, manager, connection, sessionVars, closeVars, readyVars>>

Renew(l) ==
    /\ callerPc[l] = "held" /\ l \in Renewing /\ op[l] = "acquire"
    /\ callerPc' = [callerPc EXCEPT ![l] = "call"]
    /\ op' = [op EXCEPT ![l] = "renew"]
    /\ UNCHANGED <<future, channel, pending, queue>>
    /\ UNCHANGED <<workVars, manager, connection, sessionVars, closeVars, readyVars>>

Release(l) ==
    /\ callerPc[l] = "held"
    /\ callerPc' = [callerPc EXCEPT ![l] = "call"]
    /\ op' = [op EXCEPT ![l] = "release"]
    /\ UNCHANGED <<future, channel, pending, queue>>
    /\ UNCHANGED <<workVars, manager, connection, sessionVars, closeVars, readyVars>>

\* Mutant: enqueue does not look at the context under the shard's lock.
LockUnchecked(l) ==
    /\ callerPc[l] = "call"
    /\ Unlocked(ShardOf[Request(l)])
    /\ callerPc' = [callerPc EXCEPT ![l] = "locked"]
    /\ UNCHANGED <<op, future, channel, pending, queue>>
    /\ UNCHANGED <<workVars, manager, connection, sessionVars, closeVars, readyVars>>

\* enqueue takes the shard's lock and looks at the context.
Lock(l) ==
    /\ callerPc[l] = "call"
    /\ Unlocked(ShardOf[Request(l)])
    /\ IF CtxDone
       THEN Fail(l)
       ELSE /\ callerPc' = [callerPc EXCEPT ![l] = "locked"]
            /\ UNCHANGED <<op, future>>
    /\ UNCHANGED <<channel, pending, queue>>
    /\ UNCHANGED <<workVars, manager, connection, sessionVars, closeVars, readyVars>>

QueueFull == Len(queue) >= QueueCapacity

\* The rest of enqueue, with the lock still held: the waiter is registered and
\* the request queued, or the entry is deleted again because the ring is full.
\* The future is one from the pool or a new one: nobody else has it.
\* A Release registers no waiter and its caller does not wait.
Registered(l) ==
    /\ queue' = Append(queue, Request(l))
    /\ IF op[l] = "release"
       THEN /\ callerPc' = [callerPc EXCEPT ![l] = "done"]
            /\ UNCHANGED <<pending, future>>
       ELSE \E f \in Futures \ {future[k] : k \in Leases} :
            /\ callerPc' = [callerPc EXCEPT ![l] = "await"]
            /\ future' = [future EXCEPT ![l] = f]
            /\ pending' = [pending EXCEPT ![ShardOf[Request(l)]] =
                             @ \cup {[request |-> Request(l), future |-> f]}]
    /\ UNCHANGED op

\* Mutant: enqueue waits for room instead of reporting a full queue.
EnqueueWaits(l) ==
    /\ callerPc[l] = "locked"
    /\ ~QueueFull
    /\ Registered(l)
    /\ UNCHANGED channel
    /\ UNCHANGED <<workVars, manager, connection, sessionVars, closeVars, readyVars>>

Enqueue(l) ==
    /\ callerPc[l] = "locked"
    /\ IF QueueFull THEN Fail(l) /\ UNCHANGED <<pending, queue>> ELSE Registered(l)
    /\ UNCHANGED channel
    /\ UNCHANGED <<workVars, manager, connection, sessionVars, closeVars, readyVars>>

Entry(l) == [request |-> Request(l), future |-> future[l]]

\* Mutant: a caller that gives up leaves its entry in the pending table.
GiveUpAndForget(l) ==
    /\ callerPc[l] = "await"
    /\ Fail(l)
    /\ UNCHANGED <<channel, pending, queue>>
    /\ UNCHANGED <<workVars, manager, connection, sessionVars, closeVars, readyVars>>

\* await: the caller's context or the response timeout fires.  completeInShard
\* takes the entry if it is still there; the error then goes through the
\* caller's own channel and comes straight back, which is one step here.
\* Otherwise somebody else has the entry and the caller waits on for the result.
GiveUp(l) ==
    LET s == ShardOf[Request(l)] IN
    /\ callerPc[l] = "await"
    /\ Unlocked(s)
    /\ Entry(l) \in pending[s]
    /\ pending' = [pending EXCEPT ![s] = @ \ {Entry(l)}]
    /\ Fail(l)
    /\ UNCHANGED <<channel, queue>>
    /\ UNCHANGED <<workVars, manager, connection, sessionVars, closeVars, readyVars>>

\* The caller receives from its channel, puts the future back into the pool and
\* accepts or refuses the response.  Nothing is accepted once the client is
\* closed; a refusal is a status that is not a success, a validity already
\* over, or the caller's own cancellation.
TakeResult(l) ==
    /\ callerPc[l] = "await"
    /\ channel[future[l]] # None
    /\ channel' = [channel EXCEPT ![future[l]] = None]
    /\ \/ Fail(l)
       \/ /\ channel[future[l]].kind = "response" /\ ~CtxDone
          /\ callerPc' = [callerPc EXCEPT ![l] = "held"]
          /\ future' = [future EXCEPT ![l] = None]
          /\ UNCHANGED op
    /\ UNCHANGED <<pending, queue>>
    /\ UNCHANGED <<workVars, manager, connection, sessionVars, closeVars, readyVars>>

Caller(l) == Lock(l) \/ Enqueue(l) \/ GiveUp(l) \/ TakeResult(l)

-----------------------------------------------------------------------------
(* The response workers.                                                   *)

\* completeResponses takes a response; completeInShard takes its entry, if the
\* caller still waits, and must then send the result.
WorkerTakes(s) ==
    LET request == Head(responses[s])
        found == {e \in pending[s] : e.request = request} IN
    /\ worker[s] = "receive" /\ responses[s] # <<>>
    /\ Unlocked(s)
    /\ responses' = [responses EXCEPT ![s] = Tail(@)]
    /\ pending' = [pending EXCEPT ![s] = @ \ found]
    /\ IF found = {}
       THEN UNCHANGED <<worker, sending>>
       ELSE /\ worker' = [worker EXCEPT ![s] = "send"]
            /\ sending' = [sending EXCEPT ![s] = CHOOSE e \in found : TRUE]
    /\ UNCHANGED <<callerPc, op, future, channel, queue>>
    /\ UNCHANGED <<manager, connection, sessionVars, closeVars, readyVars>>

WorkerSends(s) ==
    /\ worker[s] = "send"
    /\ channel[sending[s].future] = None
    /\ channel' = [channel EXCEPT ![sending[s].future] =
                     [request |-> sending[s].request, kind |-> "response"]]
    /\ worker' = [worker EXCEPT ![s] = "receive"]
    /\ sending' = [sending EXCEPT ![s] = None]
    /\ UNCHANGED <<callerPc, op, future, pending, queue, responses>>
    /\ UNCHANGED <<manager, connection, sessionVars, closeVars, readyVars>>

\* The worker finds its ring empty and the client closed.
WorkerEnds(s) ==
    /\ worker[s] = "receive" /\ responses[s] = <<>> /\ CtxDone
    /\ worker' = [worker EXCEPT ![s] = "ended"]
    /\ UNCHANGED <<responses, sending, callVars>>
    /\ UNCHANGED <<manager, connection, sessionVars, closeVars, readyVars>>

Worker(s) == WorkerTakes(s) \/ WorkerSends(s) \/ WorkerEnds(s)

-----------------------------------------------------------------------------
(* The manager: dial, publish, run one session, join it, clear, back off.  *)

\* notifyStateChangeLocked closes the channel a waiting WaitReady selects on.
Notify == notified' = (waiter = "wait")

\* A dial succeeds and publish accepts the connection: the client is not
\* closed.  runConnection starts the writer and the reader.  Failed dials, with
\* the backoff after each, change nothing here.
Publish ==
    /\ manager = "dial" /\ ~CtxDone
    /\ manager' = "run" /\ connection' = TRUE /\ Notify
    /\ connOpen' = TRUE /\ stop' = FALSE
    /\ writer' = "next" /\ reader' = "read"
    /\ UNCHANGED <<hand, wire, incoming>>
    /\ UNCHANGED <<callVars, workVars, closeVars, waiter>>

\* The client is closed while the manager dials or backs off, or publish
\* refuses the connection (which is closed again at once).
StopDialing ==
    /\ manager = "dial" /\ CtxDone
    /\ manager' = "ended"
    /\ UNCHANGED <<callVars, workVars, connection, sessionVars, closeVars, readyVars>>

\* runConnection sees a worker return or the client close.
EndSession ==
    /\ manager = "run"
    /\ writer = "ended" \/ reader = "ended" \/ CtxDone
    /\ manager' = "join" /\ stop' = TRUE /\ connOpen' = FALSE
    /\ UNCHANGED <<writer, hand, wire, reader, incoming>>
    /\ UNCHANGED <<callVars, workVars, connection, closeVars, readyVars>>

\* Mutant: the manager waits for the reader only.
ReaderJoined == reader = "ended"

WorkersJoined == writer = "ended" /\ reader = "ended"

\* workers.Wait, then clear: the connection is nil already if Close took it.
Join ==
    /\ manager = "join" /\ WorkersJoined
    /\ manager' = IF CtxDone THEN "ended" ELSE "dial"
    /\ connection' = FALSE
    /\ IF connection THEN Notify ELSE UNCHANGED notified
    /\ wire' = {}
    /\ UNCHANGED <<connOpen, stop, writer, hand, reader, incoming>>
    /\ UNCHANGED <<callVars, workVars, closeVars, waiter>>

Manager == Publish \/ StopDialing \/ EndSession \/ Join

-----------------------------------------------------------------------------
(* The writer of a session.                                                *)

\* The writer has nothing in hand: it returns when stop is closed, takes the
\* next request, or waits for one of the two.  It looks at stop first, so it may
\* take one request after stop was closed.
WriterStops ==
    /\ writer = "next" /\ stop
    /\ writer' = "ended"
    /\ UNCHANGED <<queue, hand, wire>>

WriterDequeues ==
    /\ writer = "next" /\ queue # <<>>
    /\ writer' = "check" /\ hand' = Head(queue) /\ queue' = Tail(queue)
    /\ UNCHANGED wire

\* Mutant: the request in hand goes back to the queue when the session stops.
WriterPutsBack ==
    /\ writer = "check" /\ stop
    /\ writer' = "ended" /\ hand' = None
    /\ queue' = IF QueueFull THEN queue ELSE Append(queue, hand)
    /\ UNCHANGED wire

\* The request in hand is dropped: the session is over.
WriterDrops ==
    /\ writer = "check" /\ stop
    /\ writer' = "ended" /\ hand' = None
    /\ UNCHANGED <<queue, wire>>

WriterGoesOn ==
    /\ writer = "check" /\ ~stop
    /\ writer' = "buffer"
    /\ UNCHANGED <<queue, hand, wire>>

\* BufferFrame takes the frame, and the next request follows or the batch is
\* flushed, which may fail.  From here on the server may see the frame: the
\* buffer is written out when it is full or by the Flush that ends the batch.
WriterBuffers ==
    /\ writer = "buffer"
    /\ wire' = IF connOpen THEN wire \cup {hand} ELSE wire
    /\ IF queue = <<>>
       THEN writer' \in {"next", "ended"} /\ hand' = None /\ UNCHANGED queue
       ELSE writer' = "check" /\ hand' = Head(queue) /\ queue' = Tail(queue)

\* BufferFrame fails.
WriterFails ==
    /\ writer = "buffer"
    /\ writer' = "ended" /\ hand' = None
    /\ UNCHANGED <<queue, wire>>

WriterFrame ==
    /\ UNCHANGED <<callerPc, op, future, channel, pending, workVars, manager, connection>>
    /\ UNCHANGED <<connOpen, stop, reader, incoming, closeVars, readyVars>>

Writer ==
    /\ \/ WriterStops \/ WriterDequeues \/ WriterDrops \/ WriterGoesOn
       \/ WriterBuffers \/ WriterFails
    /\ WriterFrame

-----------------------------------------------------------------------------
(* The reader of a session.  The server answers the frames of one session  *)
(* in any order: they belong to different workers of the server.           *)

RingFull(s) == Len(responses[s]) >= RingCapacity

\* A response is read and put into the ring of its shard; if that is full the
\* reader keeps the response and spins.
ReaderReads ==
    /\ reader = "read"
    /\ \E request \in wire :
          LET s == ShardOf[request] IN
          /\ wire' = wire \ {request}
          /\ IF RingFull(s)
             THEN /\ incoming' = request /\ reader' = "deliver"
                  /\ UNCHANGED responses
             ELSE /\ responses' = [responses EXCEPT ![s] = Append(@, request)]
                  /\ UNCHANGED <<incoming, reader>>

\* ReadFrame fails: always once the socket is closed and its buffer is empty.
ReaderFails ==
    /\ reader = "read"
    /\ reader' = "ended"
    /\ UNCHANGED <<incoming, wire, responses>>

\* The spinning ends when there is room or the client is closed.
ReaderDelivers ==
    LET s == ShardOf[incoming] IN
    /\ reader = "deliver"
    /\ IF RingFull(s)
       THEN CtxDone /\ reader' = "ended" /\ UNCHANGED responses
       ELSE /\ responses' = [responses EXCEPT ![s] = Append(@, incoming)]
            /\ reader' = "read"
    /\ incoming' = None /\ UNCHANGED wire

ReaderFrame ==
    /\ UNCHANGED <<callVars, worker, sending, manager, connection, connOpen, stop>>
    /\ UNCHANGED <<writer, hand, closeVars, readyVars>>

Reader ==
    /\ ReaderReads \/ ReaderFails \/ ReaderDelivers
    /\ ReaderFrame

-----------------------------------------------------------------------------
(* Close.                                                                  *)

Cancel ==
    /\ closer = "open"
    /\ closer' = "state"
    /\ UNCHANGED <<todo, failing, callVars, workVars, manager, connection>>
    /\ UNCHANGED <<sessionVars, readyVars>>

\* Under stateMu: closed is set, the connection is taken, waiters are told.
\* The socket is closed after the shards; runConnection closes it too.
MarkClosed ==
    /\ closer = "state"
    /\ closer' = "shards" /\ todo' = Shards
    /\ connection' = FALSE /\ Notify
    /\ UNCHANGED <<failing, callVars, workVars, manager, sessionVars, waiter>>

\* The map of the next shard is replaced by nil; its waiters are failed below.
FailShard(s) ==
    /\ closer = "shards" /\ s \in todo /\ failing = {}
    /\ \A t \in todo : s <= t
    /\ Unlocked(s)
    /\ failing' = pending[s]
    /\ pending' = [pending EXCEPT ![s] = {}]
    /\ todo' = todo \ {s}
    /\ UNCHANGED <<closer, callerPc, op, future, channel, queue, workVars>>
    /\ UNCHANGED <<manager, connection, sessionVars, readyVars>>

FailWaiter ==
    \E e \in failing :
        /\ channel[e.future] = None
        /\ channel' = [channel EXCEPT ![e.future] =
                         [request |-> e.request, kind |-> "error"]]
        /\ failing' = failing \ {e}
        /\ UNCHANGED <<closer, todo, callerPc, op, future, pending, queue>>
        /\ UNCHANGED <<workVars, manager, connection, sessionVars, readyVars>>

CloseConn ==
    /\ closer = "shards" /\ todo = {} /\ failing = {}
    /\ closer' = "wait" /\ connOpen' = FALSE
    /\ UNCHANGED <<todo, failing, callVars, workVars, manager, connection>>
    /\ UNCHANGED <<stop, writer, hand, wire, reader, incoming, readyVars>>

ManagerDone == manager = "ended" /\ \A s \in Shards : worker[s] = "ended"

\* manager.Wait, then discardQueuedRequests.
DiscardQueued ==
    /\ closer = "wait" /\ ManagerDone
    /\ closer' = "closed" /\ queue' = <<>>
    /\ UNCHANGED <<todo, failing, callerPc, op, future, channel, pending>>
    /\ UNCHANGED <<workVars, manager, connection, sessionVars, readyVars>>

Closer ==
    \/ MarkClosed
    \/ \E s \in Shards : FailShard(s)
    \/ FailWaiter
    \/ CloseConn
    \/ DiscardQueued

-----------------------------------------------------------------------------
(* WaitReady, called once by an application goroutine that starts up.      *)

WaiterFrame ==
    /\ UNCHANGED <<callVars, workVars, manager, connection, sessionVars, closeVars>>

\* The channel it kept is closed, or the client is: under stateMu the waiter
\* sees the connection and returns, or keeps the channel that the next change of
\* state closes.
Woken ==
    /\ waiter = "wait" /\ (notified \/ CtxDone)
    /\ waiter' = IF connection \/ CtxDone THEN "idle" ELSE "wait"
    /\ notified' = FALSE
    /\ WaiterFrame

\* The caller of WaitReady cancels it.
WaitCanceled ==
    /\ waiter = "wait"
    /\ waiter' = "idle" /\ notified' = FALSE
    /\ WaiterFrame

-----------------------------------------------------------------------------

Next ==
    \/ \E l \in Leases : Acquire(l) \/ Renew(l) \/ Release(l) \/ Caller(l)
    \/ \E s \in Shards : Worker(s)
    \/ Manager
    \/ Writer
    \/ Reader
    \/ Cancel
    \/ Closer
    \/ Woken \/ WaitCanceled

Spec == Init /\ [][Next]_vars

\* Every step of these brings a call, a response or Close nearer to its end.
Work ==
    \/ \E l \in Leases : Caller(l)
    \/ \E s \in Shards : Worker(s)
    \/ ReaderDelivers /\ ReaderFrame
    \/ Closer

\* The manager, and the writer and the reader of a session whose socket is closed.
Sessions ==
    \/ Manager
    \/ Writer /\ ~connOpen
    \/ ReaderFails /\ ReaderFrame /\ ~connOpen

\* Goroutines that can run do run, the response timeout of a waiting caller
\* fires, a dial ends and a backoff delay passes.  Reads and writes on an open
\* socket may block for ever; on a closed one they fail.
FairSpec ==
    /\ Spec
    /\ WF_vars(Work)
    /\ WF_vars(Sessions)
    /\ WF_vars(Woken)

-----------------------------------------------------------------------------
(* Properties.                                                             *)

\* Everything that stands for the one result of future f: its entry in the
\* pending table, the same entry in the hands of a worker or of Close, or the
\* result in its channel.
Tokens(f) ==
    {<<"pending", e>> : e \in {e \in UNION {pending[s] : s \in Shards} : e.future = f}}
    \cup {<<"worker", e>> : e \in {e \in {sending[s] : s \in Shards} \ {None} : e.future = f}}
    \cup {<<"close", e>> : e \in {e \in failing : e.future = f}}
    \cup {<<"channel", c>> : c \in {channel[f]} \ {None}}

\* A future has exactly one result to come, and it is the result of the request
\* its present owner sent; a future in the pool has none.  So a pooled future
\* never brings its next owner an old answer, no sender blocks on a full
\* channel, and no waiter is forgotten, whichever of the worker, Close and the
\* caller's own timeout gets to the entry first.
OneResultPerFuture ==
    /\ TypeOK
    /\ \A f \in Futures :
          LET owners == {l \in Leases : future[l] = f} IN
          /\ Cardinality(Tokens(f)) = Cardinality(owners)
          /\ \A l \in owners, t \in Tokens(f) : t[2].request = Request(l)

\* When Close returns nothing of the client is left running or queued: the
\* queue is empty and stays empty, no goroutine of the client runs, and no
\* caller waits for a result that nobody will send.  And before that, nobody puts
\* a request into a pending map Close has already set to nil: it would panic.
NothingLeftAfterClose ==
    /\ \A s \in Shards : Gone(s) => pending[s] = {} /\ Unlocked(s)
    /\ closer = "closed" =>
          /\ queue = <<>>
          /\ manager = "ended" /\ WorkersJoined
          /\ \A s \in Shards : worker[s] = "ended"
          /\ \A l \in Leases : callerPc[l] = "await" => channel[future[l]] # None

\* The queue has one consumer at a time: the writer of the session the manager
\* is running, and after all sessions Close.
OneConsumer ==
    /\ writer # "ended" => manager \in {"run", "join"}
    /\ closer = "closed" => writer = "ended"

\* The cleanup Release of a lease never overtakes its Acquire, across timeouts
\* and reconnects: while the Acquire is still to be sent, the Release is behind
\* it in the queue or was never queued.
ReleaseBehindAcquire ==
    \A l \in Leases :
        LET acquire == <<l, "acquire">>
            release == <<l, "release">>
            unsent == (IF hand = None THEN <<>> ELSE <<hand>>) \o queue IN
        \A i \in DOMAIN unsent : unsent[i] = acquire =>
            /\ release \notin wire
            /\ \A j \in 1 .. i : unsent[j] # release

\* Every Acquire, Renew and Release comes back to its caller, whatever the
\* connection, the queue and Close do.  Close returns, even with full response
\* rings and a blocked socket.  WaitReady returns while the connection is up or
\* when the client is closed: no state change is lost between its look and its wait.
EveryCallReturns ==
    /\ \A l \in Leases :
          callerPc[l] \in {"call", "locked", "await"} ~> callerPc[l] \in {"held", "done"}
    /\ CtxDone ~> closer = "closed"
    /\ waiter = "wait" /\ (connection \/ CtxDone)
          ~> waiter = "idle" \/ ~(connection \/ CtxDone)

=============================================================================
