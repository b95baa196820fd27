----------------------------- MODULE LockServer -----------------------------
(***************************************************************************)
(* The goroutines of one lock-server: server/server.go and                 *)
(* server/connection.go.  The listener registers connections; each has a   *)
(* reader, a writer and bounded queues; a shard worker applies what the    *)
(* readers dispatch (one shard stands for all: they do not interact here); *)
(* the quarantine ends; a failing Accept makes the server fail, and its    *)
(* owner closes it at any time.  What an operation does to the leases is   *)
(* in LeaseStore; the queues are the FIFOs of BoundedQueue.                *)
(***************************************************************************)
EXTENDS Naturals, Sequences

CONSTANTS
  Conns,          \* TCP connections that clients open
  QueueCapacity,  \* shardQueueCapacity, 256 in the code
  RespCapacity,   \* responseQueueCapacity, 4096 in the code
  MaxRequests     \* bound: requests read from one connection

ASSUME ServerAssumption ==
  QueueCapacity \in Nat \ {0} /\ RespCapacity \in Nat \ {0} /\ MaxRequests \in Nat

None == "none"

VARIABLES
  phase,          \* Server.phase
  cancelled,      \* Server.ctx is done
  listening,      \* the listener is open
  fatal,          \* errors in the channel Server.fatal
  listenerPc, accepted, observed,  \* runListener: its place, its connection, fail's load of phase
  closePc,        \* where Close is
  registered,     \* Server.connections
  open,           \* connections that are not closed on our side
  writerPc,       \* runConnection and sendResponses
  readerPc,       \* receiveRequests
  recvDone,       \* what the reader left in recvDone
  responsesDone,  \* closed responsesDone channels
  pending,        \* connectionSession.pending
  responses,      \* length of respQueue
  buffered,       \* responses in the FrameWriter
  queue,          \* the shard's operations, by session
  workerPc, workerSession, stop,  \* runShard, and shard.stop
  received, delivered,  \* requests read, responses flushed
  broken          \* connections on which a write has failed

lifecycle == <<phase, cancelled, listening, fatal, closePc, stop>>
listenerVars == <<listenerPc, accepted, observed>>
connVars == <<registered, open, writerPc, buffered, delivered, broken>>
sessionVars == <<readerPc, recvDone, responsesDone, pending, responses, received>>
workerVars == <<queue, workerPc, workerSession>>
vars == <<lifecycle, listenerVars, connVars, sessionVars, workerVars>>

\* The type of every variable.
TypeOK ==
  /\ phase \in {"QUARANTINE", "ACTIVE", "FAILED", "CLOSED"}
  /\ cancelled \in BOOLEAN /\ listening \in BOOLEAN /\ stop \in BOOLEAN
  /\ fatal \in 0..1
  /\ listenerPc \in {"accept", "register", "load", "swap", "cancel", "close", "fatal", "done"}
  /\ accepted \in Conns \cup {None}
  /\ observed \in {None, "QUARANTINE", "ACTIVE", "FAILED"}
  /\ closePc \in {"open", "cancel", "close", "waitConnections", "waitWorkers", "done"}
  /\ registered \subseteq Conns /\ open \subseteq Conns
  /\ writerPc \in [Conns -> {"new", "start", "dequeue", "select", "buffer", "full", "flush",
                             "return", "join", "done"}]
  /\ readerPc \in [Conns -> {"off", "read", "request", "reply", "dispatch", "done"}]
  /\ recvDone \in [Conns -> {"empty", "EOF", "error", "nil"}]
  /\ responsesDone \subseteq Conns
  /\ pending \in [Conns -> 0..MaxRequests]
  /\ responses \in [Conns -> 0..RespCapacity]
  /\ buffered \in [Conns -> 0..MaxRequests]
  /\ queue \in Seq(Conns) /\ Len(queue) <= QueueCapacity
  /\ workerPc \in {"dequeue", "respond", "finish", "done"} /\ workerSession \in Conns \cup {None}
  /\ received \in [Conns -> 0..MaxRequests] /\ delivered \in [Conns -> 0..MaxRequests]
  /\ broken \subseteq Conns

\* New: the server starts in quarantine, with every goroutine running.
Init ==
  /\ phase = "QUARANTINE" /\ cancelled = FALSE /\ listening = TRUE /\ fatal = 0
  /\ listenerPc = "accept" /\ accepted = None /\ observed = None
  /\ closePc = "open"
  /\ registered = {} /\ open = Conns
  /\ writerPc = [c \in Conns |-> "new"] /\ readerPc = [c \in Conns |-> "off"]
  /\ recvDone = [c \in Conns |-> "empty"] /\ responsesDone = {}
  /\ pending = [c \in Conns |-> 0] /\ responses = [c \in Conns |-> 0]
  /\ buffered = [c \in Conns |-> 0]
  /\ queue = <<>> /\ workerPc = "dequeue" /\ workerSession = None /\ stop = FALSE
  /\ received = [c \in Conns |-> 0] /\ delivered = [c \in Conns |-> 0]
  /\ broken = {}

\* unavailableError() # nil
Unavailable == phase \in {"FAILED", "CLOSED"}

\* closeConnections, under connectionMu.
CloseConnections ==
  /\ listening' = FALSE
  /\ open' = open \ registered

\* The session's context is done: the server's is, or runConnection cancelled it.
SessionDone(c) == cancelled \/ writerPc[c] \in {"join", "done"}

WriterGoto(c, label) == writerPc' = [writerPc EXCEPT ![c] = label]
ReaderGoto(c, label) == readerPc' = [readerPc EXCEPT ![c] = label]

-----------------------------------------------------------------------------
(* The listener, and fail, which it calls. *)

Accept(c) ==
  /\ listenerPc = "accept" /\ listening /\ writerPc[c] = "new"
  /\ accepted' = c
  /\ listenerPc' = "register"
  /\ UNCHANGED <<lifecycle, observed, connVars, sessionVars, workerVars>>

\* Accept fails for good: the listener was closed, or is broken.
AcceptFails ==
  /\ listenerPc = "accept"
  /\ listenerPc' = IF Unavailable THEN "done" ELSE "load"
  /\ UNCHANGED <<lifecycle, accepted, observed, connVars, sessionVars, workerVars>>

\* Under connectionMu.
Register ==
  /\ listenerPc = "register"
  /\ \/ /\ Unavailable
        /\ open' = open \ {accepted}
        /\ WriterGoto(accepted, "done")
        /\ listenerPc' = "done"
        /\ UNCHANGED registered
     \/ /\ ~Unavailable
        /\ registered' = registered \cup {accepted}
        /\ WriterGoto(accepted, "start")
        /\ listenerPc' = "accept"
        /\ UNCHANGED open
  /\ accepted' = None
  /\ UNCHANGED <<lifecycle, observed, buffered, delivered, broken, sessionVars, workerVars>>

FailLoad ==
  /\ listenerPc = "load"
  /\ \/ phase = "CLOSED" /\ listenerPc' = "done" /\ UNCHANGED observed
     \/ phase # "CLOSED" /\ listenerPc' = "swap" /\ observed' = phase
  /\ UNCHANGED <<lifecycle, accepted, connVars, sessionVars, workerVars>>

\* Mutation of FailSwaps: a plain store.
FailStores == TRUE

\* phase.CompareAndSwap(observed, phaseFailed) succeeds.
FailSwaps == phase = observed

FailSwap ==
  /\ listenerPc = "swap"
  /\ \/ FailSwaps /\ phase' = "FAILED" /\ listenerPc' = "cancel"
     \/ ~FailSwaps /\ listenerPc' = "load" /\ UNCHANGED phase
  /\ observed' = None
  /\ UNCHANGED <<cancelled, listening, fatal, closePc, stop, accepted, connVars, sessionVars, workerVars>>

FailCancel ==
  /\ listenerPc = "cancel"
  /\ cancelled' = TRUE
  /\ listenerPc' = "close"
  /\ UNCHANGED <<phase, listening, fatal, closePc, stop, accepted, observed,
                 connVars, sessionVars, workerVars>>

\* Mutation of FailClose: closes the listener only.
FailCloseListener ==
  /\ listenerPc = "close"
  /\ listening' = FALSE
  /\ listenerPc' = "fatal"
  /\ UNCHANGED <<phase, cancelled, fatal, closePc, stop, accepted, observed,
                 connVars, sessionVars, workerVars>>

FailClose ==
  /\ listenerPc = "close"
  /\ CloseConnections
  /\ listenerPc' = "fatal"
  /\ UNCHANGED <<phase, cancelled, fatal, closePc, stop, accepted, observed,
                 registered, writerPc, buffered, delivered, broken, sessionVars, workerVars>>

\* The channel has room for one error.
FailFatal ==
  /\ listenerPc = "fatal" /\ fatal = 0
  /\ fatal' = 1
  /\ listenerPc' = "done"
  /\ UNCHANGED <<phase, cancelled, listening, closePc, stop, accepted, observed,
                 connVars, sessionVars, workerVars>>

-----------------------------------------------------------------------------
(* A connection: receiveRequests. *)

\* The reader ends: its deferred functions close requestsDone and start the
\* goroutine that waits for pending.
ReaderEnds(c, result) ==
  /\ recvDone' = [recvDone EXCEPT ![c] = result]
  /\ ReaderGoto(c, "done")

\* A well-formed frame arrives; only now does the reader look whether the server is
\* still in service.
ReadRequest(c) ==
  /\ readerPc[c] = "read" /\ c \in open /\ received[c] < MaxRequests
  /\ received' = [received EXCEPT ![c] = @ + 1]
  /\ \/ Unavailable /\ ReaderEnds(c, "error")
     \/ ~Unavailable /\ ReaderGoto(c, "request") /\ UNCHANGED recvDone
  /\ UNCHANGED <<lifecycle, listenerVars, connVars, responsesDone, pending, responses, workerVars>>

\* processRequest: the reader answers GetTTL, and in quarantine every operation, and
\* dispatches the others, in a phase that may no longer be the one ReadRequest saw.
ProcessRequest(c) ==
  /\ readerPc[c] = "request"
  /\ \/ ReaderGoto(c, "reply") /\ UNCHANGED pending
     \/ /\ phase # "QUARANTINE"
        /\ pending' = [pending EXCEPT ![c] = @ + 1]
        /\ ReaderGoto(c, "dispatch")
  /\ UNCHANGED <<lifecycle, listenerVars, connVars, recvDone, responsesDone, responses, received,
                 workerVars>>

\* The client closes its sending side; or the connection fails, or the frame or the
\* request in it is malformed.
ReadEnds(c) ==
  /\ readerPc[c] = "read" /\ c \in open
  /\ \E result \in {"EOF", "error"} : ReaderEnds(c, result)
  /\ UNCHANGED <<lifecycle, listenerVars, connVars, responsesDone, pending, responses, received,
                 workerVars>>

ReadClosed(c) ==
  /\ readerPc[c] = "read" /\ c \notin open
  /\ ReaderEnds(c, "error")
  /\ UNCHANGED <<lifecycle, listenerVars, connVars, responsesDone, pending, responses, received,
                 workerVars>>

\* enqueueResponse by the reader.
Reply(c) ==
  /\ readerPc[c] = "reply"
  /\ \/ /\ responses[c] < RespCapacity
        /\ responses' = [responses EXCEPT ![c] = @ + 1]
        /\ ReaderGoto(c, "read")
     \/ /\ responses[c] = RespCapacity /\ SessionDone(c)
        /\ ReaderGoto(c, "done")
        /\ UNCHANGED responses
  /\ UNCHANGED <<lifecycle, listenerVars, connVars, recvDone, responsesDone, pending, received,
                 workerVars>>

Dispatch(c) ==
  /\ readerPc[c] = "dispatch"
  /\ \/ /\ Len(queue) < QueueCapacity
        /\ queue' = Append(queue, c)
        /\ ReaderGoto(c, "read")
        /\ UNCHANGED pending
     \/ /\ Len(queue) = QueueCapacity /\ SessionDone(c)
        /\ pending' = [pending EXCEPT ![c] = @ - 1]
        /\ ReaderGoto(c, "done")
        /\ UNCHANGED queue
  /\ UNCHANGED <<lifecycle, listenerVars, connVars, recvDone, responsesDone, responses, received,
                 workerPc, workerSession>>

\* The goroutine started by receiveRequests: pending.Wait(), close(responsesDone).
CloseResponses(c) ==
  /\ readerPc[c] = "done" /\ pending[c] = 0 /\ c \notin responsesDone
  /\ responsesDone' = responsesDone \cup {c}
  /\ UNCHANGED <<lifecycle, listenerVars, connVars, readerPc, recvDone, pending, responses, received,
                 workerVars>>

-----------------------------------------------------------------------------
(* A connection: runConnection and sendResponses. *)

StartConnection(c) ==
  /\ writerPc[c] = "start"
  /\ \/ Unavailable /\ WriterGoto(c, "join") /\ UNCHANGED readerPc
     \/ ~Unavailable /\ WriterGoto(c, "dequeue") /\ ReaderGoto(c, "read")
  /\ UNCHANGED <<lifecycle, listenerVars, registered, open, buffered, delivered, broken, recvDone,
                 responsesDone, pending, responses, received, workerVars>>

TakeResponse(c, otherwise) ==
  \/ /\ responses[c] > 0
     /\ responses' = [responses EXCEPT ![c] = @ - 1]
     /\ WriterGoto(c, "buffer")
  \/ /\ responses[c] = 0
     /\ WriterGoto(c, otherwise)
     /\ UNCHANGED responses

Dequeue(c) ==
  /\ writerPc[c] = "dequeue"
  /\ TakeResponse(c, "select")
  /\ UNCHANGED <<lifecycle, listenerVars, registered, open, buffered, delivered, broken, readerPc, recvDone,
                 responsesDone, pending, received, workerVars>>

\* Mutation of SelectDone: returns without another look at the queue.
ReturnWhenDone(c) ==
  /\ c \in responsesDone
  /\ WriterGoto(c, "return")
  /\ UNCHANGED <<responses, recvDone>>

\* case <-s.responsesDone
SelectDone(c) ==
  /\ c \in responsesDone
  /\ TakeResponse(c, "return")
  /\ UNCHANGED recvDone

\* The select of sendResponses; Ready may also be left over from a response
\* already taken, which brings the writer back here.
Select(c) ==
  /\ writerPc[c] = "select"
  /\ \/ responses[c] > 0 /\ WriterGoto(c, "dequeue") /\ UNCHANGED <<responses, recvDone>>
     \/ SelectDone(c)
     \/ recvDone[c] = "error" /\ WriterGoto(c, "return") /\ UNCHANGED <<responses, recvDone>>
     \/ /\ recvDone[c] = "EOF"
        /\ recvDone' = [recvDone EXCEPT ![c] = "nil"]
        /\ WriterGoto(c, "dequeue")
        /\ UNCHANGED responses
     \/ cancelled /\ WriterGoto(c, "return") /\ UNCHANGED <<responses, recvDone>>
  /\ UNCHANGED <<lifecycle, listenerVars, registered, open, buffered, delivered, broken, readerPc,
                 responsesDone, pending, received, workerVars>>

\* bufferResponse, and the attempt to take the next response of the batch; or the
\* buffer has no room for the response before its batch is flushed.
BufferResponse(c) ==
  /\ writerPc[c] = "buffer"
  /\ \/ /\ Unavailable
        /\ WriterGoto(c, "return")
        /\ UNCHANGED <<buffered, responses>>
     \/ /\ ~Unavailable
        /\ buffered' = [buffered EXCEPT ![c] = @ + 1]
        /\ TakeResponse(c, "flush")
     \/ /\ ~Unavailable /\ buffered[c] > 0
        /\ WriterGoto(c, "full")
        /\ UNCHANGED <<buffered, responses>>
  /\ UNCHANGED <<lifecycle, listenerVars, registered, open, delivered, broken, readerPc, recvDone,
                 responsesDone, pending, received, workerVars>>

\* The client reads.  After the flush of a full buffer the response in hand is buffered.
Flush(c) ==
  /\ c \in open
  /\ \/ /\ writerPc[c] = "flush"
        /\ buffered' = [buffered EXCEPT ![c] = 0]
        /\ WriterGoto(c, "dequeue")
        /\ UNCHANGED responses
     \/ /\ writerPc[c] = "full"
        /\ buffered' = [buffered EXCEPT ![c] = 1]
        /\ TakeResponse(c, "flush")
  /\ delivered' = [delivered EXCEPT ![c] = @ + buffered[c]]
  /\ UNCHANGED <<lifecycle, listenerVars, registered, open, broken, readerPc, recvDone,
                 responsesDone, pending, received, workerVars>>

\* The connection fails or was closed, or the client does not read and the write
\* timeout passes.
FlushFails(c) ==
  /\ writerPc[c] \in {"full", "flush"}
  /\ broken' = broken \cup {c}
  /\ WriterGoto(c, "return")
  /\ UNCHANGED <<lifecycle, listenerVars, registered, open, buffered, delivered, sessionVars,
                 workerVars>>

\* cancel() and conn.Close(); what is still in the FrameWriter is lost.
EndSession(c) ==
  /\ writerPc[c] = "return"
  /\ open' = open \ {c}
  /\ buffered' = [buffered EXCEPT ![c] = 0]
  /\ WriterGoto(c, "join")
  /\ UNCHANGED <<lifecycle, listenerVars, registered, delivered, broken, sessionVars, workerVars>>

\* <-session.requestsDone and the deferred functions; connectionWG.Done is the last.
Deregister(c) ==
  /\ writerPc[c] = "join" /\ readerPc[c] \in {"off", "done"}
  /\ open' = open \ {c}
  /\ registered' = registered \ {c}
  /\ WriterGoto(c, "done")
  /\ UNCHANGED <<lifecycle, listenerVars, buffered, delivered, broken, sessionVars, workerVars>>

\* discardResponses, running on after the connection is gone.
DiscardResponses(c) ==
  /\ writerPc[c] = "done" /\ c \in responsesDone /\ responses[c] > 0
  /\ responses' = [responses EXCEPT ![c] = 0]
  /\ UNCHANGED <<lifecycle, listenerVars, connVars, readerPc, recvDone, responsesDone, pending,
                 received, workerVars>>

-----------------------------------------------------------------------------
(* The shard worker: runShard and applyOperation. *)

\* Takes an operation and applies it, or drops it if the server is not active.
WorkerApply ==
  /\ workerPc = "dequeue" /\ queue # <<>>
  /\ workerSession' = Head(queue) /\ queue' = Tail(queue)
  /\ workerPc' = IF phase = "ACTIVE" THEN "respond" ELSE "finish"
  /\ UNCHANGED <<lifecycle, listenerVars, connVars, sessionVars>>

WorkerStops ==
  /\ workerPc = "dequeue" /\ queue = <<>> /\ stop
  /\ workerPc' = "done"
  /\ UNCHANGED <<lifecycle, listenerVars, connVars, sessionVars, queue, workerSession>>

\* Mutation of GivesUp: waits for room in the queue of a connection that is gone.
NeverGivesUp(c) == FALSE

\* The full queue of a session whose context is done is not waited for.
GivesUp(c) == responses[c] = RespCapacity /\ SessionDone(c)

\* enqueueResponse by the worker.
WorkerRespond ==
  /\ workerPc = "respond"
  /\ \/ /\ responses[workerSession] < RespCapacity
        /\ responses' = [responses EXCEPT ![workerSession] = @ + 1]
     \/ GivesUp(workerSession) /\ UNCHANGED responses
  /\ workerPc' = "finish"
  /\ UNCHANGED <<lifecycle, listenerVars, connVars, readerPc, recvDone, responsesDone, pending,
                 received, queue, workerSession>>

\* The deferred pending.Done().
WorkerFinish ==
  /\ workerPc = "finish"
  /\ pending' = [pending EXCEPT ![workerSession] = @ - 1]
  /\ workerSession' = None
  /\ workerPc' = "dequeue"
  /\ UNCHANGED <<lifecycle, listenerVars, connVars, readerPc, recvDone, responsesDone, responses,
                 received, queue>>

-----------------------------------------------------------------------------
(* Close, and the end of the quarantine. *)

Close ==
  /\ closePc = "open"
  /\ phase' = "CLOSED"
  /\ closePc' = "cancel"
  /\ UNCHANGED <<cancelled, listening, fatal, stop, listenerVars, connVars,
                 sessionVars, workerVars>>

CloseCancel ==
  /\ closePc = "cancel"
  /\ cancelled' = TRUE
  /\ closePc' = "close"
  /\ UNCHANGED <<phase, listening, fatal, stop, listenerVars, connVars,
                 sessionVars, workerVars>>

CloseCloseConnections ==
  /\ closePc = "close"
  /\ CloseConnections
  /\ closePc' = "waitConnections"
  /\ UNCHANGED <<phase, cancelled, fatal, stop, listenerVars, registered,
                 writerPc, buffered, delivered, broken, sessionVars, workerVars>>

\* Mutation of ConnectionsDone: looks at the map instead of the WaitGroup.
ConnectionsClosed == open \cap registered = {}

\* connectionWG.Wait() returns.
ConnectionsDone == \A c \in Conns : writerPc[c] \in {"new", "done"}

CloseStopShards ==
  /\ closePc = "waitConnections" /\ ConnectionsDone
  /\ stop' = TRUE
  /\ closePc' = "waitWorkers"
  /\ UNCHANGED <<phase, cancelled, listening, fatal, listenerVars, connVars,
                 sessionVars, workerVars>>

\* wg.Wait() returns; the goroutines of the quarantine timer and the cleanup ticker
\* only wait for the context.
CloseReturn ==
  /\ closePc = "waitWorkers" /\ workerPc = "done" /\ listenerPc = "done" /\ cancelled
  /\ closePc' = "done"
  /\ UNCHANGED <<phase, cancelled, listening, fatal, stop, listenerVars, connVars, sessionVars,
                 workerVars>>

\* runQuarantine: the timer fires and CompareAndSwap succeeds.
EndQuarantine ==
  /\ phase = "QUARANTINE"
  /\ phase' = "ACTIVE"
  /\ UNCHANGED <<cancelled, listening, fatal, closePc, stop, listenerVars, connVars, sessionVars,
                 workerVars>>

-----------------------------------------------------------------------------
Listener ==
  \/ Register \/ FailLoad \/ FailSwap \/ FailCancel \/ FailClose \/ FailFatal
  \/ ~listening /\ AcceptFails

Reader(c) == ReadClosed(c) \/ ProcessRequest(c) \/ Reply(c) \/ Dispatch(c) \/ CloseResponses(c)

Writer(c) ==
  \/ StartConnection(c) \/ Dequeue(c) \/ Select(c) \/ BufferResponse(c)
  \/ c \notin open /\ FlushFails(c)
  \/ EndSession(c) \/ Deregister(c) \/ DiscardResponses(c)

Worker == WorkerApply \/ WorkerRespond \/ WorkerFinish \/ WorkerStops

Closer == CloseCancel \/ CloseCloseConnections \/ CloseStopShards \/ CloseReturn

\* What clients, the network and the server's owner do.
Environment ==
  \/ AcceptFails \/ Close
  \/ \E c \in Conns : Accept(c) \/ ReadRequest(c) \/ ReadEnds(c) \/ Flush(c) \/ FlushFails(c)

Next ==
  \/ Environment \/ Listener \/ Closer \/ EndQuarantine \/ Worker
  \/ \E c \in Conns : Reader(c) \/ Writer(c)

Spec == Init /\ [][Next]_vars

\* A goroutine that can run is run.  Nothing makes clients connect, send or read,
\* connections or Accept fail, or the owner call Close.
FairSpec ==
  /\ Spec
  /\ WF_vars(Listener) /\ WF_vars(Closer) /\ WF_vars(Worker)
  /\ \A c \in Conns : WF_vars(Reader(c)) /\ WF_vars(Writer(c))

-----------------------------------------------------------------------------
Rank == [QUARANTINE |-> 0, ACTIVE |-> 1, FAILED |-> 2, CLOSED |-> 3]

\* The lifecycle is one-way: no race of the quarantine timer, fail and Close ever
\* brings a server back from FAILED or CLOSED.
LifecycleForward == [][Rank[phase'] >= Rank[phase]]_vars

\* A client that closes only its sending side gets an answer to every request the
\* server read before the server closes the connection, if the server is still in
\* service and no write failed: once it has seen the end of the requests (recvDone is
\* nil), sendResponses returns only when nothing is pending or queued.
HalfClosedGetsAnswers ==
  \A c \in Conns :
    /\ writerPc[c] \in {"return", "join", "done"}
    /\ recvDone[c] = "nil" /\ c \notin broken /\ ~Unavailable
    => delivered[c] = received[c]

\* What Close relies on when it stops the shards: no reader is left that could
\* dispatch, and when a worker has stopped no operation is left in its queue or
\* counted in a pending WaitGroup (whose counter, by its type, is never negative).
StoppedShardIsDrained ==
  /\ TypeOK
  /\ stop => \A c \in Conns : readerPc[c] \in {"off", "done"}
  /\ workerPc = "done" => queue = <<>> /\ \A c \in Conns : pending[c] = 0

\* Close returns, whatever clients that do not read, full queues and a failing
\* listener are doing: nobody waits for ever on anybody.
CloseReturns == closePc # "open" ~> closePc = "done"

\* A failed server reports its failure on the Fatal channel and closes all its
\* connections, also without a call of Close.
FailureHandled == phase = "FAILED" ~> fatal = 1 /\ registered = {}
=============================================================================
