-------------------------- MODULE LockServer_proofs --------------------------
(***************************************************************************)
(* The goroutines of a lock-server, for any number of connections and      *)
(* requests and queues of any size: a client that closes its sending side  *)
(* gets all its answers, a stopped shard is drained, and the lifecycle     *)
(* only moves forward.                                                     *)
(***************************************************************************)
EXTENDS LockServer, FiniteSets, TLAPS

\* Most leaves are first-order reasoning; the ones that need arithmetic, functions or
\* sequences cite SMT.
USE Zenon

-----------------------------------------------------------------------------
(* The inductive invariant counts the requests of a connection. *)

\* How often c is in a queue.
Occurrences(q, c) == Cardinality({i \in DOMAIN q : q[i] = c})

\* Where a request can be that has been read: in the hands of the reader, in the
\* shard's queue, with the worker, or answered and with the writer.
Reading(c) == IF readerPc[c] \in {"request", "reply", "dispatch"} THEN 1 ELSE 0
Deciding(c) == IF readerPc[c] = "request" THEN 1 ELSE 0
Dispatching(c) == IF readerPc[c] = "dispatch" THEN 1 ELSE 0
Queued(c) == Occurrences(queue, c)
Applying(c) == IF workerPc = "respond" /\ workerSession = c THEN 1 ELSE 0
Finishing(c) == IF workerPc = "finish" /\ workerSession = c THEN 1 ELSE 0
Writing(c) == IF writerPc[c] \in {"buffer", "full"} THEN 1 ELSE 0

\* The responses of a connection, from the queue to the client.
Sent(c) == responses[c] + Writing(c) + buffered[c] + delivered[c]

Accounted(c) == Reading(c) + Queued(c) + Applying(c) + Sent(c)

Dispatched(c) == Dispatching(c) + Queued(c) + Applying(c) + Finishing(c)

\* The pending WaitGroup counts the dispatched operations; the request that the reader
\* has not decided about is not among them yet.
Counted(c) ==
  /\ pending[c] = Dispatched(c)
  /\ pending[c] + Deciding(c) <= received[c]

\* No request is answered twice, and none is lost while the server is in service and
\* the session goes on.
Conserved(c) ==
  /\ Accounted(c) <= received[c]
  /\ ~Unavailable /\ c \notin broken /\ writerPc[c] \notin {"return", "join", "done"}
       => Accounted(c) = received[c]

\* The goroutines of a connection are in step.
InStep(c) ==
  /\ writerPc[c] \in {"new", "start", "dequeue", "select"} => buffered[c] = 0
  /\ writerPc[c] \in {"new", "start"} => readerPc[c] = "off"
  /\ writerPc[c] = "done" => readerPc[c] \in {"off", "done"}
  /\ recvDone[c] \in {"EOF", "nil"} => readerPc[c] = "done"
  /\ c \in responsesDone => readerPc[c] = "done" /\ pending[c] = 0

Answered(c) ==
  /\ writerPc[c] \in {"return", "join", "done"}
  /\ recvDone[c] = "nil" /\ c \notin broken /\ ~Unavailable
  => delivered[c] = received[c]

ConnInv(c) == Counted(c) /\ Conserved(c) /\ InStep(c) /\ Answered(c)

\* The server: fail and Close set the phase first, a stopping server has no
\* connections, and operations exist only after the quarantine.
ServerInv ==
  /\ cancelled \/ listenerPc \in {"cancel", "close", "fatal"} => Unavailable
  /\ closePc # "open" => phase = "CLOSED"
  /\ listenerPc = "register" => accepted \in Conns /\ writerPc[accepted] = "new"
  /\ stop => closePc # "open" /\ \A c \in Conns : writerPc[c] \in {"new", "done"}
  /\ workerPc = "done" => stop /\ queue = <<>>
  /\ workerPc \in {"respond", "finish"} => workerSession \in Conns
  /\ phase = "QUARANTINE" => queue = <<>> /\ \A c \in Conns : readerPc[c] # "dispatch"

LockServerInv == TypeOK /\ ServerInv /\ \A c \in Conns : ConnInv(c)

-----------------------------------------------------------------------------
(* Counting. *)

\* What the proofs below use of Occurrences; the lemma CountingHolds proves it.
Counting ==
  /\ \A c \in Conns : Occurrences(<<>>, c) = 0
  /\ \A q \in Seq(Conns), c \in Conns : Occurrences(q, c) \in Nat
  /\ \A q \in Seq(Conns), d \in Conns, c \in Conns :
       /\ d = c => Occurrences(Append(q, d), c) = Occurrences(q, c) + 1
       /\ d # c => Occurrences(Append(q, d), c) = Occurrences(q, c)
  /\ \A q \in Seq(Conns), c \in Conns :
       q # <<>> => /\ Head(q) = c => Occurrences(q, c) = Occurrences(Tail(q), c) + 1
                   /\ Head(q) # c => Occurrences(q, c) = Occurrences(Tail(q), c)

\* The places of a connection's requests, counted.
LEMMA Places ==
  ASSUME Counting, TypeOK, NEW c \in Conns
  PROVE  /\ Reading(c) \in {0, 1} /\ Deciding(c) \in {0, 1} /\ Dispatching(c) \in {0, 1}
         /\ Queued(c) \in Nat /\ Applying(c) \in {0, 1} /\ Finishing(c) \in {0, 1} /\ Sent(c) \in Nat
<1>1. Queued(c) \in Nat
  BY DEF Counting, Queued, TypeOK
<1>2. /\ Reading(c) \in {0, 1} /\ Deciding(c) \in {0, 1} /\ Dispatching(c) \in {0, 1}
      /\ Applying(c) \in {0, 1} /\ Finishing(c) \in {0, 1} /\ Writing(c) \in {0, 1}
  BY DEF Reading, Deciding, Dispatching, Applying, Finishing, Writing
<1>3. /\ responses[c] \in 0..RespCapacity /\ buffered[c] \in 0..MaxRequests
      /\ delivered[c] \in 0..MaxRequests
  BY DEF TypeOK
<1>4. Sent(c) \in Nat
  BY <1>2, <1>3, ServerAssumption, SMT DEF Sent
<1> QED
  BY <1>1, <1>2, <1>4

\* What a queue of sessions returns and how long it is.
LEMMA QueueFacts ==
  \A q \in Seq(Conns) :
    /\ Len(q) \in Nat
    /\ \A c \in Conns : Append(q, c) \in Seq(Conns) /\ Len(Append(q, c)) = Len(q) + 1
    /\ q # <<>> => Head(q) \in Conns /\ Tail(q) \in Seq(Conns) /\ Len(Tail(q)) = Len(q) - 1
  BY SMT

-----------------------------------------------------------------------------
(* The steps. *)

\* A step that leaves a connection alone.
Spared(c) ==
  /\ writerPc'[c] = writerPc[c] /\ readerPc'[c] = readerPc[c] /\ recvDone'[c] = recvDone[c]
  /\ pending'[c] = pending[c] /\ responses'[c] = responses[c] /\ buffered'[c] = buffered[c]
  /\ received'[c] = received[c] /\ delivered'[c] = delivered[c]
  /\ c \in responsesDone' <=> c \in responsesDone
  /\ c \in broken' <=> c \in broken
  /\ Queued(c)' = Queued(c) /\ Applying(c)' = Applying(c) /\ Finishing(c)' = Finishing(c)

LEMMA SparedKept ==
  ASSUME NEW c \in Conns, ConnInv(c), Spared(c), Unavailable => Unavailable'
  PROVE  ConnInv(c)'
<1>1. /\ Reading(c)' = Reading(c) /\ Dispatching(c)' = Dispatching(c)
      /\ Deciding(c)' = Deciding(c) /\ Writing(c)' = Writing(c)
  BY DEF Spared, Reading, Deciding, Dispatching, Writing
<1>2. Accounted(c)' = Accounted(c)
  BY <1>1 DEF Spared, Accounted, Sent
<1>3. Counted(c)'
  BY <1>1 DEF ConnInv, Counted, Dispatched, Spared
<1>4. Conserved(c)'
  BY <1>2 DEF ConnInv, Conserved, Spared
<1>5. InStep(c)' /\ Answered(c)'
  BY DEF ConnInv, InStep, Answered, Spared
<1> QED
  BY <1>3, <1>4, <1>5 DEF ConnInv

\* A step of one connection.
LEMMA OneConnection ==
  ASSUME LockServerInv, Unavailable => Unavailable', NEW c \in Conns,
         \A d \in Conns \ {c} : Spared(d), TypeOK', ServerInv', ConnInv(c)'
  PROVE  LockServerInv'
<1>1. \A d \in Conns \ {c} : ConnInv(d)'
  BY SparedKept DEF LockServerInv
<1> QED
  BY <1>1 DEF LockServerInv

\* A step of the server that moves no connection.
LEMMA NoConnection ==
  ASSUME LockServerInv, Unavailable => Unavailable',
         UNCHANGED <<writerPc, buffered, delivered, broken, sessionVars, workerVars>>,
         TypeOK', ServerInv'
  PROVE  LockServerInv'
<1>1. \A c \in Conns : Spared(c)
  BY DEF Spared, Queued, Applying, Finishing, sessionVars, workerVars
<1> QED
  BY <1>1, SparedKept DEF LockServerInv

\* The variables of one connection have their types.
Typed(c) ==
  /\ writerPc[c] \in {"new", "start", "dequeue", "select", "buffer", "full", "flush", "return", "join",
                     "done"}
  /\ readerPc[c] \in {"off", "read", "request", "reply", "dispatch", "done"}
  /\ recvDone[c] \in {"empty", "EOF", "error", "nil"}
  /\ responses[c] \in 0..RespCapacity /\ pending[c] \in 0..MaxRequests
  /\ buffered[c] \in 0..MaxRequests /\ received[c] \in 0..MaxRequests /\ delivered[c] \in 0..MaxRequests

\* A step of a goroutine that serves one connection changes what belongs to that
\* connection, and the shard's queue and worker in a way that does not concern the others.
Local(c) ==
  /\ UNCHANGED <<lifecycle, listenerVars>>
  /\ registered' \subseteq registered /\ open' \subseteq open
  /\ responsesDone' \in {responsesDone, responsesDone \cup {c}}
  /\ broken' \in {broken, broken \cup {c}}
  /\ writerPc' = [writerPc EXCEPT ![c] = writerPc'[c]]
  /\ readerPc' = [readerPc EXCEPT ![c] = readerPc'[c]]
  /\ recvDone' = [recvDone EXCEPT ![c] = recvDone'[c]]
  /\ pending' = [pending EXCEPT ![c] = pending'[c]]
  /\ responses' = [responses EXCEPT ![c] = responses'[c]]
  /\ buffered' = [buffered EXCEPT ![c] = buffered'[c]]
  /\ received' = [received EXCEPT ![c] = received'[c]]
  /\ delivered' = [delivered EXCEPT ![c] = delivered'[c]]

ShardLocal(c) ==
  /\ queue' \in Seq(Conns) /\ Len(queue') <= QueueCapacity
  /\ workerPc' \in {"dequeue", "respond", "finish", "done"} /\ workerSession' \in Conns \cup {None}
  /\ \A d \in Conns \ {c} : /\ Queued(d)' = Queued(d) /\ Applying(d)' = Applying(d)
                            /\ Finishing(d)' = Finishing(d)

\* What such a step respects of the server.
ServerLocal(c) ==
  /\ writerPc[c] \in {"new", "done"} => writerPc'[c] = writerPc[c]
  /\ workerPc' = "done" => stop /\ queue' = <<>>
  /\ workerPc' \in {"respond", "finish"} => workerSession' \in Conns
  /\ phase = "QUARANTINE" => queue' = <<>> /\ readerPc'[c] # "dispatch"

LEMMA FlagTypes ==
  ASSUME TypeOK, UNCHANGED lifecycle
  PROVE  cancelled' \in BOOLEAN /\ listening' \in BOOLEAN /\ stop' \in BOOLEAN
  BY DEF TypeOK, lifecycle

\* A step that changes at most the worker's place keeps the types.
LEMMA TypesKept ==
  ASSUME TypeOK, UNCHANGED <<lifecycle, listenerVars, connVars, sessionVars, queue, workerSession>>,
         workerPc' \in {"dequeue", "respond", "finish", "done"}
  PROVE  TypeOK'
<1>1. cancelled' \in BOOLEAN /\ listening' \in BOOLEAN /\ stop' \in BOOLEAN
  BY FlagTypes
<1>2. /\ UNCHANGED <<phase, fatal, listenerPc, accepted, observed, closePc, registered, open, writerPc>>
      /\ UNCHANGED <<readerPc, recvDone, responsesDone, pending, responses, buffered, queue>>
      /\ UNCHANGED <<workerSession, received, delivered, broken>>
  BY DEF lifecycle, listenerVars, connVars, sessionVars
<1>3. /\ pending' \in [Conns -> 0..MaxRequests] /\ responses' \in [Conns -> 0..RespCapacity]
      /\ buffered' \in [Conns -> 0..MaxRequests] /\ received' \in [Conns -> 0..MaxRequests]
      /\ delivered' \in [Conns -> 0..MaxRequests] /\ queue' \in Seq(Conns) /\ Len(queue') <= QueueCapacity
  BY <1>2 DEF TypeOK
<1>4. /\ phase' \in {"QUARANTINE", "ACTIVE", "FAILED", "CLOSED"} /\ fatal' \in 0..1
      /\ observed' \in {None, "QUARANTINE", "ACTIVE", "FAILED"}
      /\ closePc' \in {"open", "cancel", "close", "waitConnections", "waitWorkers", "done"}
      /\ readerPc' \in [Conns -> {"off", "read", "request", "reply", "dispatch", "done"}]
      /\ recvDone' \in [Conns -> {"empty", "EOF", "error", "nil"}] /\ responsesDone' \subseteq Conns
      /\ workerPc' \in {"dequeue", "respond", "finish", "done"} /\ workerSession' \in Conns \cup {None}
  BY <1>2 DEF TypeOK
<1>5. /\ listenerPc' \in {"accept", "register", "load", "swap", "cancel", "close", "fatal", "done"}
      /\ accepted' \in Conns \cup {None} /\ broken' \subseteq Conns
      /\ registered' \subseteq Conns /\ open' \subseteq Conns
      /\ writerPc' \in [Conns -> {"new", "start", "dequeue", "select", "buffer", "full", "flush",
                                 "return", "join", "done"}]
  BY <1>2 DEF TypeOK
<1> QED
  BY <1>1, <1>3, <1>4, <1>5 DEF TypeOK

LEMMA LocalTypes ==
  ASSUME TypeOK, NEW c \in Conns, Local(c), ShardLocal(c), Typed(c)'
  PROVE  TypeOK'
<1>1. cancelled' \in BOOLEAN /\ listening' \in BOOLEAN /\ stop' \in BOOLEAN
  BY FlagTypes DEF Local
<1>2. /\ phase' \in {"QUARANTINE", "ACTIVE", "FAILED", "CLOSED"} /\ fatal' \in 0..1
      /\ listenerPc' \in {"accept", "register", "load", "swap", "cancel", "close", "fatal", "done"}
      /\ accepted' \in Conns \cup {None} /\ observed' \in {None, "QUARANTINE", "ACTIVE", "FAILED"}
      /\ closePc' \in {"open", "cancel", "close", "waitConnections", "waitWorkers", "done"}
  BY DEF TypeOK, Local, lifecycle, listenerVars
<1>3. /\ registered' \subseteq Conns /\ open' \subseteq Conns
      /\ broken' \subseteq Conns /\ responsesDone' \subseteq Conns
  <2>1. registered \subseteq Conns /\ open \subseteq Conns /\ broken \subseteq Conns /\ responsesDone \subseteq Conns
    BY DEF TypeOK
  <2>2. /\ registered' \subseteq registered /\ open' \subseteq open
        /\ responsesDone' \in {responsesDone, responsesDone \cup {c}} /\ broken' \in {broken, broken \cup {c}}
    BY DEF Local
  <2> QED
    BY <2>1, <2>2, SMT
<1>4. /\ writerPc' \in [Conns -> {"new", "start", "dequeue", "select", "buffer", "full", "flush",
                                  "return", "join", "done"}]
      /\ readerPc' \in [Conns -> {"off", "read", "request", "reply", "dispatch", "done"}]
      /\ recvDone' \in [Conns -> {"empty", "EOF", "error", "nil"}]
  BY DEF TypeOK, Local, Typed
<1>5. /\ pending' \in [Conns -> 0..MaxRequests] /\ responses' \in [Conns -> 0..RespCapacity]
      /\ buffered' \in [Conns -> 0..MaxRequests]
  BY DEF TypeOK, Local, Typed
<1>6. received' \in [Conns -> 0..MaxRequests] /\ delivered' \in [Conns -> 0..MaxRequests]
  BY DEF TypeOK, Local, Typed
<1> QED
  BY <1>1, <1>2, <1>3, <1>4, <1>5, <1>6 DEF TypeOK, ShardLocal

LEMMA LocalKeeps ==
  ASSUME LockServerInv, NEW c \in Conns, Local(c), ShardLocal(c), ServerLocal(c), Typed(c)', ConnInv(c)'
  PROVE  LockServerInv'
<1>1. TypeOK /\ ServerInv /\ TypeOK'
  BY LocalTypes DEF LockServerInv
<1>2. UNCHANGED <<phase, cancelled, closePc, stop, listenerPc, accepted>> /\ (Unavailable => Unavailable')
  BY DEF Local, lifecycle, listenerVars, Unavailable
<1>3. \A d \in Conns \ {c} : Spared(d)
  <2>1. \A d \in Conns \ {c} :
          /\ writerPc'[d] = writerPc[d] /\ readerPc'[d] = readerPc[d] /\ recvDone'[d] = recvDone[d]
          /\ pending'[d] = pending[d] /\ responses'[d] = responses[d] /\ buffered'[d] = buffered[d]
          /\ received'[d] = received[d] /\ delivered'[d] = delivered[d]
    BY <1>1, SMT DEF TypeOK, Local
  <2>2. \A d \in Conns \ {c} : /\ d \in responsesDone' <=> d \in responsesDone
                               /\ d \in broken' <=> d \in broken
    BY DEF Local
  <2> QED
    BY <2>1, <2>2 DEF Spared, ShardLocal
<1>4. \A d \in Conns \ {c} : writerPc'[d] = writerPc[d] /\ readerPc'[d] = readerPc[d]
  BY <1>3 DEF Spared
<1>5. ServerInv'
  <2>1. \A d \in Conns : /\ writerPc[d] \in {"new", "done"} => writerPc'[d] = writerPc[d]
                         /\ phase = "QUARANTINE" => readerPc'[d] # "dispatch"
    BY <1>1, <1>4 DEF ServerInv, ServerLocal
  <2> QED
    BY <1>1, <1>2, <2>1 DEF ServerInv, ServerLocal, Unavailable
<1> QED
  BY <1>1, <1>2, <1>3, <1>5, OneConnection

\* A connection in a state of the invariant.
LEMMA LocalFacts ==
  ASSUME LockServerInv, NEW c \in Conns
  PROVE  TypeOK /\ ServerInv /\ ConnInv(c) /\ Typed(c)
<1>1. TypeOK /\ ServerInv /\ ConnInv(c)
  BY DEF LockServerInv
<1>2. Typed(c)
  BY <1>1 DEF TypeOK, Typed
<1> QED
  BY <1>1, <1>2

\* What such a step may do to the counts: a request that is read is counted, then
\* dispatched or not; one that has been dispatched is done; and requests get lost only
\* when the server or the session has ended.
Balance(c) ==
  /\ \/ pending'[c] = pending[c] /\ Dispatched(c)' = Dispatched(c)
     \/ /\ pending'[c] = pending[c] + 1 /\ Dispatched(c)' = Dispatched(c) + 1
        /\ Deciding(c) = 1 /\ Deciding(c)' = 0
     \/ pending'[c] = pending[c] - 1 /\ Dispatched(c)' = Dispatched(c) - 1
  /\ Deciding(c)' \in {0, Deciding(c)} \/ received'[c] = received[c] + 1
  /\ \/ received'[c] = received[c] /\ Accounted(c)' = Accounted(c)
     \/ received'[c] = received[c] + 1 /\ Accounted(c)' = Accounted(c) + 1
     \/ /\ received'[c] \in {received[c], received[c] + 1} /\ Accounted(c)' <= Accounted(c)
        /\ Unavailable \/ c \in broken' \/ writerPc'[c] \in {"return", "join", "done"}

LEMMA BalanceKeeps ==
  ASSUME Counting, TypeOK, NEW c \in Conns, Local(c), Balance(c), Typed(c)', Accounted(c)' \in Nat,
         Counted(c), Conserved(c),
         writerPc[c] \in {"return", "join", "done"} => writerPc'[c] \in {"return", "join", "done"}
  PROVE  Counted(c)' /\ Conserved(c)'
<1>1. /\ received[c] \in Nat /\ received'[c] \in Nat /\ pending[c] \in Nat /\ pending'[c] \in Nat
  BY ServerAssumption, SMT DEF Typed, TypeOK
<1>2. Dispatched(c) \in Nat /\ Accounted(c) \in Nat /\ Deciding(c) \in {0, 1}
  <2>1. /\ Reading(c) \in {0, 1} /\ Deciding(c) \in {0, 1} /\ Dispatching(c) \in {0, 1} /\ Queued(c) \in Nat
        /\ Applying(c) \in {0, 1} /\ Finishing(c) \in {0, 1} /\ Sent(c) \in Nat
    BY Places
  <2> QED
    BY <2>1, SMT DEF Dispatched, Accounted
<1>3. (c \in broken => c \in broken') /\ (Unavailable' <=> Unavailable)
  BY DEF Local, lifecycle, Unavailable
<1>4. Counted(c)'
  <2>1. Deciding(c)' \in {0, 1}
    BY DEF Deciding
  <2> QED
    BY <1>1, <1>2, <2>1, SMT DEF Balance, Counted
<1>5. Conserved(c)'
  BY <1>1, <1>2, <1>3, SMT DEF Balance, Conserved
<1> QED
  BY <1>4, <1>5

-----------------------------------------------------------------------------
(* The reader. *)

ReaderStep(c) ==
  \/ ReadRequest(c) \/ ReadEnds(c) \/ ReadClosed(c) \/ ProcessRequest(c) \/ Reply(c) \/ Dispatch(c)
  \/ CloseResponses(c)

LEMMA ReaderLocal ==
  ASSUME TypeOK, NEW c \in Conns, ReaderStep(c)
  PROVE  Local(c) /\ UNCHANGED <<connVars, workerPc, workerSession>>
<1>1. UNCHANGED <<lifecycle, listenerVars, connVars, workerPc, workerSession>>
  BY DEF ReaderStep, ReadRequest, ReadEnds, ReadClosed, ProcessRequest, Reply, Dispatch, CloseResponses, workerVars
<1>2. /\ readerPc' = [readerPc EXCEPT ![c] = readerPc'[c]]
      /\ recvDone' = [recvDone EXCEPT ![c] = recvDone'[c]]
  BY DEF TypeOK, ReaderStep, ReadRequest, ReadEnds, ReadClosed, ProcessRequest, Reply, Dispatch, CloseResponses,
         ReaderEnds, ReaderGoto
<1>3. responsesDone' \in {responsesDone, responsesDone \cup {c}}
  BY DEF ReaderStep, ReadRequest, ReadEnds, ReadClosed, ProcessRequest, Reply, Dispatch, CloseResponses
<1>4. pending' = [pending EXCEPT ![c] = pending'[c]]
  BY DEF TypeOK, ReaderStep, ReadRequest, ReadEnds, ReadClosed, ProcessRequest, Reply, Dispatch, CloseResponses
<1>5. /\ responses' = [responses EXCEPT ![c] = responses'[c]]
      /\ received' = [received EXCEPT ![c] = received'[c]]
  BY DEF TypeOK, ReaderStep, ReadRequest, ReadEnds, ReadClosed, ProcessRequest, Reply, Dispatch, CloseResponses
<1>6. /\ writerPc' = [writerPc EXCEPT ![c] = writerPc'[c]]
      /\ buffered' = [buffered EXCEPT ![c] = buffered'[c]]
      /\ delivered' = [delivered EXCEPT ![c] = delivered'[c]]
  BY <1>1 DEF TypeOK, connVars
<1> QED
  BY <1>1, <1>2, <1>3, <1>4, <1>5, <1>6 DEF Local, connVars

\* How the reader moves on.
ReaderMoves(c) ==
  /\ readerPc[c] \in {"off", "done"} => /\ readerPc'[c] = readerPc[c] /\ recvDone'[c] = recvDone[c]
                                        /\ received'[c] = received[c] /\ pending'[c] = pending[c]
  /\ readerPc'[c] \in {"off", "read", "request", "reply", "dispatch", "done"}
  /\ readerPc'[c] = "dispatch" => phase # "QUARANTINE"
  /\ recvDone'[c] = recvDone[c] \/ (readerPc'[c] = "done" /\ recvDone'[c] \in {"EOF", "error"})
  /\ responsesDone' = responsesDone \/ (readerPc[c] = "done" /\ pending[c] = 0)
  /\ queue' = queue \/ (readerPc[c] = "dispatch" /\ Len(queue) < QueueCapacity /\ queue' = Append(queue, c))

LEMMA ReaderMoving ==
  ASSUME TypeOK, NEW c \in Conns, ReaderStep(c)
  PROVE  ReaderMoves(c)
<1>1. /\ readerPc \in [Conns -> {"off", "read", "request", "reply", "dispatch", "done"}]
      /\ recvDone \in [Conns -> {"empty", "EOF", "error", "nil"}]
  BY DEF TypeOK
<1>2. CASE ReadRequest(c)
  BY <1>1, <1>2 DEF ReadRequest, ReaderEnds, ReaderGoto, ReaderMoves, workerVars
<1>3. CASE ReadEnds(c) \/ ReadClosed(c)
  BY <1>1, <1>3 DEF ReadEnds, ReadClosed, ReaderEnds, ReaderGoto, ReaderMoves, workerVars
<1>7. CASE ProcessRequest(c)
  BY <1>1, <1>7 DEF ProcessRequest, ReaderGoto, ReaderMoves, workerVars
<1>4. CASE Reply(c)
  BY <1>1, <1>4 DEF Reply, ReaderGoto, ReaderMoves, workerVars
<1>5. CASE Dispatch(c)
  BY <1>1, <1>5 DEF Dispatch, ReaderGoto, ReaderMoves
<1>6. CASE CloseResponses(c)
  BY <1>1, <1>6 DEF CloseResponses, ReaderMoves, workerVars
<1> QED
  BY <1>2, <1>3, <1>4, <1>5, <1>6, <1>7 DEF ReaderStep

\* A request that is read is counted where the reader puts it.
LEMMA ReaderKeeps ==
  ASSUME Counting, LockServerInv, NEW c \in Conns, ReaderStep(c)
  PROVE  LockServerInv'
<1>1. TypeOK /\ ServerInv /\ ConnInv(c) /\ Typed(c)
  BY LocalFacts
<1>2. ReaderMoves(c) /\ Local(c) /\ UNCHANGED <<connVars, workerPc, workerSession>>
  BY <1>1, ReaderLocal, ReaderMoving
<1>3. /\ UNCHANGED <<phase, stop, writerPc, buffered, delivered, broken, workerPc, workerSession>>
      /\ (Unavailable' <=> Unavailable)
  BY <1>2 DEF Local, lifecycle, connVars, Unavailable
<1>4. InStep(c) /\ Answered(c) /\ Counted(c) /\ Conserved(c)
  BY <1>1 DEF ConnInv
<1>5. InStep(c)' /\ Answered(c)'
  BY <1>2, <1>3, <1>4 DEF InStep, Answered, ReaderMoves
<1>6. ServerLocal(c)
  <2>1. readerPc[c] = "dispatch" => ~stop
    BY <1>1, <1>4 DEF InStep, ServerInv
  <2> QED
    BY <1>1, <1>2, <1>3, <2>1 DEF ServerLocal, ServerInv, ReaderMoves
<1>7. /\ queue' \in Seq(Conns) /\ Len(queue') <= QueueCapacity
      /\ \A d \in Conns \ {c} : Queued(d)' = Queued(d)
  <2>1. queue \in Seq(Conns) /\ Len(queue) <= QueueCapacity /\ Len(queue) \in Nat /\ QueueCapacity \in Nat
    BY <1>1, QueueFacts, ServerAssumption DEF TypeOK
  <2>2. CASE queue' = queue
    BY <2>1, <2>2 DEF Queued
  <2>3. CASE Len(queue) < QueueCapacity /\ queue' = Append(queue, c)
    <3>1. queue' \in Seq(Conns) /\ Len(queue') = Len(queue) + 1
      BY <2>1, <2>3, QueueFacts
    <3>2. \A d \in Conns \ {c} : Queued(d)' = Queued(d)
      BY <2>1, <2>3 DEF Counting, Queued
    <3> QED
      BY <2>1, <2>3, <3>1, <3>2, SMT
  <2> QED
    BY <1>2, <2>2, <2>3 DEF ReaderMoves
<1>8. ShardLocal(c)
  BY <1>1, <1>3, <1>7 DEF ShardLocal, Applying, Finishing, TypeOK
<1>9. /\ Queued(c) \in Nat /\ Sent(c) \in Nat /\ Applying(c) \in Nat /\ Finishing(c) \in Nat
      /\ Applying(c)' = Applying(c) /\ Finishing(c)' = Finishing(c)
      /\ queue' = queue => Queued(c)' = Queued(c)
      /\ responses'[c] = responses[c] => Sent(c)' = Sent(c)
  BY <1>1, <1>3, Places DEF Applying, Finishing, Queued, Sent, Writing
<1>10. /\ readerPc[c] = "read" => Reading(c) = 0 /\ Deciding(c) = 0 /\ Dispatching(c) = 0
       /\ readerPc[c] = "request" => Reading(c) = 1 /\ Deciding(c) = 1 /\ Dispatching(c) = 0
       /\ readerPc[c] = "reply" => Reading(c) = 1 /\ Deciding(c) = 0 /\ Dispatching(c) = 0
       /\ readerPc[c] = "dispatch" => Reading(c) = 1 /\ Deciding(c) = 0 /\ Dispatching(c) = 1
  BY DEF Reading, Deciding, Dispatching
<1>11. /\ readerPc'[c] \in {"read", "done"} => Reading(c)' = 0 /\ Deciding(c)' = 0 /\ Dispatching(c)' = 0
       /\ readerPc'[c] = "request" => Reading(c)' = 1 /\ Deciding(c)' = 1 /\ Dispatching(c)' = 0
       /\ readerPc'[c] = "reply" => Reading(c)' = 1 /\ Deciding(c)' = 0 /\ Dispatching(c)' = 0
       /\ readerPc'[c] = "dispatch" => Reading(c)' = 1 /\ Deciding(c)' = 0 /\ Dispatching(c)' = 1
  BY DEF Reading, Deciding, Dispatching
<1>12. /\ readerPc \in [Conns -> {"off", "read", "request", "reply", "dispatch", "done"}]
       /\ pending \in [Conns -> 0..MaxRequests] /\ responses \in [Conns -> 0..RespCapacity]
       /\ received \in [Conns -> 0..MaxRequests]
  BY <1>1 DEF TypeOK
<1>13. SessionDone(c) => Unavailable \/ writerPc'[c] \in {"return", "join", "done"}
  BY <1>1, <1>3 DEF SessionDone, ServerInv
<1>14. Balance(c) /\ Accounted(c)' \in Nat
       /\ received'[c] \in 0..MaxRequests /\ pending'[c] \in 0..MaxRequests
       /\ responses'[c] \in 0..RespCapacity
  <2>1. CASE ReadRequest(c)
    <3>1. /\ readerPc[c] = "read" /\ received[c] < MaxRequests /\ received'[c] = received[c] + 1
          /\ UNCHANGED <<queue, pending, responses>>
          /\ (Unavailable /\ readerPc'[c] = "done") \/ readerPc'[c] = "request"
      BY <1>12, <2>1 DEF ReadRequest, ReaderEnds, ReaderGoto, workerVars
    <3>2. received'[c] \in 0..MaxRequests
      BY <1>12, <3>1, ServerAssumption, SMT
    <3>3. Balance(c) /\ Accounted(c)' \in Nat
      BY <1>9, <1>10, <1>11, <3>1, SMT DEF Balance, Accounted, Dispatched
    <3> QED
      BY <1>12, <3>1, <3>2, <3>3
  <2>2. CASE ReadEnds(c) \/ ReadClosed(c)
    <3>1. /\ readerPc[c] = "read" /\ readerPc'[c] = "done" /\ UNCHANGED <<queue, responses, received, pending>>
      BY <1>12, <2>2 DEF ReadEnds, ReadClosed, ReaderEnds, ReaderGoto, workerVars
    <3>2. Balance(c) /\ Accounted(c)' \in Nat
      BY <1>9, <1>10, <1>11, <3>1, SMT DEF Balance, Accounted, Dispatched
    <3> QED
      BY <1>12, <3>1, <3>2
  <2>6. CASE ProcessRequest(c)
    <3>1. /\ readerPc[c] = "request" /\ UNCHANGED <<queue, received, responses>>
          /\ \/ readerPc'[c] = "reply" /\ pending'[c] = pending[c]
             \/ readerPc'[c] = "dispatch" /\ pending'[c] = pending[c] + 1
      BY <1>12, <2>6 DEF ProcessRequest, ReaderGoto, workerVars
    <3>2. pending'[c] \in 0..MaxRequests
      <4>1. pending[c] + 1 <= received[c]
        BY <1>4, <1>10, <3>1 DEF Counted
      <4> QED
        BY <1>12, <3>1, <4>1, ServerAssumption, SMT
    <3>3. Balance(c) /\ Accounted(c)' \in Nat
      BY <1>9, <1>10, <1>11, <3>1, SMT DEF Balance, Accounted, Dispatched
    <3> QED
      BY <1>12, <3>1, <3>2, <3>3
  <2>3. CASE Reply(c)
    <3>1. /\ readerPc[c] = "reply" /\ UNCHANGED <<queue, received, pending>>
          /\ \/ readerPc'[c] = "read" /\ responses[c] < RespCapacity /\ responses'[c] = responses[c] + 1
             \/ SessionDone(c) /\ readerPc'[c] = "done" /\ responses'[c] = responses[c]
      BY <1>12, <2>3 DEF Reply, ReaderGoto, workerVars
    <3>2. responses'[c] \in 0..RespCapacity
      BY <1>12, <3>1, ServerAssumption, SMT
    <3>3. responses'[c] = responses[c] + 1 => Sent(c)' = Sent(c) + 1
      <4>1. responses[c] \in Nat /\ buffered[c] \in Nat /\ delivered[c] \in Nat
        BY <1>1, ServerAssumption, SMT DEF Typed
      <4>2. Writing(c) \in {0, 1} /\ Writing(c)' = Writing(c)
        BY <1>3 DEF Writing
      <4> QED
        BY <1>3, <4>1, <4>2, SMT DEF Sent
    <3>4. Balance(c) /\ Accounted(c)' \in Nat
      BY <1>9, <1>10, <1>11, <1>13, <3>1, <3>3, SMT DEF Balance, Accounted, Dispatched
    <3> QED
      BY <1>12, <3>1, <3>2, <3>4
  <2>4. CASE Dispatch(c)
    <3>1. /\ readerPc[c] = "dispatch" /\ UNCHANGED <<responses, received>>
          /\ \/ readerPc'[c] = "read" /\ queue' = Append(queue, c) /\ pending'[c] = pending[c]
             \/ SessionDone(c) /\ readerPc'[c] = "done" /\ queue' = queue /\ pending'[c] = pending[c] - 1
      BY <1>12, <2>4 DEF Dispatch, ReaderGoto
    <3>2. queue' = Append(queue, c) => Queued(c)' = Queued(c) + 1
      BY <1>1, SMT DEF Counting, Queued, TypeOK
    <3>3. pending[c] >= 1
      BY <1>4, <1>9, <1>10, <3>1, SMT DEF Counted, Dispatched
    <3>4. pending'[c] \in 0..MaxRequests
      BY <1>12, <3>1, <3>3, ServerAssumption, SMT
    <3>5. /\ Reading(c) = 1 /\ Dispatching(c) = 1 /\ Reading(c)' = 0 /\ Dispatching(c)' = 0
          /\ Deciding(c)' = 0 /\ Sent(c)' = Sent(c)
      BY <1>9, <1>10, <1>11, <3>1
    <3>6. Balance(c) /\ Accounted(c)' \in Nat
      <4>1. CASE pending'[c] = pending[c] /\ Queued(c)' = Queued(c) + 1
        <5>1. Dispatched(c)' = Dispatched(c) /\ Accounted(c)' = Accounted(c) /\ Accounted(c)' \in Nat
          BY <1>9, <3>5, <4>1, SMT DEF Accounted, Dispatched
        <5> QED
          BY <3>1, <3>5, <4>1, <5>1 DEF Balance
      <4>2. CASE SessionDone(c) /\ Queued(c)' = Queued(c) /\ pending'[c] = pending[c] - 1
        <5>1. /\ Dispatched(c)' = Dispatched(c) - 1 /\ Accounted(c)' <= Accounted(c)
              /\ Accounted(c)' \in Nat
          BY <1>9, <3>5, <4>2, SMT DEF Accounted, Dispatched
        <5> QED
          BY <1>13, <3>1, <3>5, <4>2, <5>1 DEF Balance
      <4> QED
        BY <1>9, <3>1, <3>2, <4>1, <4>2
    <3> QED
      BY <1>12, <3>1, <3>4, <3>6
  <2>5. CASE CloseResponses(c)
    <3>1. UNCHANGED <<readerPc, queue, responses, received, pending>>
      BY <2>5 DEF CloseResponses, workerVars
    <3>2. /\ Reading(c)' = Reading(c) /\ Dispatching(c)' = Dispatching(c) /\ Deciding(c)' = Deciding(c)
          /\ Reading(c) \in {0, 1}
      BY <3>1 DEF Reading, Dispatching, Deciding
    <3>3. Balance(c) /\ Accounted(c)' \in Nat
      BY <1>9, <3>1, <3>2, SMT DEF Balance, Accounted, Dispatched
    <3> QED
      BY <1>12, <3>1, <3>3
  <2> QED
    BY <2>1, <2>2, <2>3, <2>4, <2>5, <2>6 DEF ReaderStep
<1>15. Typed(c)'
  BY <1>1, <1>2, <1>3, <1>14 DEF Typed, ReaderMoves
<1>16. Counted(c)' /\ Conserved(c)'
  BY <1>1, <1>2, <1>3, <1>4, <1>14, <1>15, BalanceKeeps
<1> QED
  BY <1>2, <1>5, <1>6, <1>8, <1>15, <1>16, LocalKeeps DEF ConnInv

-----------------------------------------------------------------------------
(* The writer. *)

WriterStep(c) ==
  \/ StartConnection(c) \/ Dequeue(c) \/ Select(c) \/ BufferResponse(c) \/ Flush(c) \/ FlushFails(c)
  \/ EndSession(c) \/ Deregister(c) \/ DiscardResponses(c)

LEMMA WriterLocal ==
  ASSUME TypeOK, NEW c \in Conns, WriterStep(c)
  PROVE  Local(c) /\ UNCHANGED <<responsesDone, pending, received, workerVars>>
<1>1. /\ UNCHANGED <<lifecycle, listenerVars, responsesDone, pending, received, workerVars>>
      /\ registered' \subseteq registered /\ open' \subseteq open /\ broken' \in {broken, broken \cup {c}}
  BY DEF WriterStep, StartConnection, Dequeue, Select, BufferResponse, Flush, FlushFails, EndSession,
         Deregister, DiscardResponses, connVars, sessionVars
<1>2. /\ writerPc' = [writerPc EXCEPT ![c] = writerPc'[c]]
  BY DEF TypeOK, WriterStep, StartConnection, Dequeue, Select, BufferResponse, Flush, FlushFails, EndSession,
         Deregister, DiscardResponses, connVars, TakeResponse, SelectDone, WriterGoto
<1>3. /\ readerPc' = [readerPc EXCEPT ![c] = readerPc'[c]]
      /\ recvDone' = [recvDone EXCEPT ![c] = recvDone'[c]]
  BY DEF TypeOK, WriterStep, StartConnection, Dequeue, Select, BufferResponse, Flush, FlushFails, EndSession,
         Deregister, DiscardResponses, sessionVars, ReaderGoto, SelectDone
<1>4. responses' = [responses EXCEPT ![c] = responses'[c]]
  BY DEF TypeOK, WriterStep, StartConnection, Dequeue, Select, BufferResponse, Flush, FlushFails, EndSession,
         Deregister, DiscardResponses, sessionVars, TakeResponse, SelectDone
<1>5. /\ buffered' = [buffered EXCEPT ![c] = buffered'[c]]
      /\ delivered' = [delivered EXCEPT ![c] = delivered'[c]]
  BY DEF TypeOK, WriterStep, StartConnection, Dequeue, Select, BufferResponse, Flush, FlushFails, EndSession,
         Deregister, DiscardResponses, connVars
<1>6. pending' = [pending EXCEPT ![c] = pending'[c]] /\ received' = [received EXCEPT ![c] = received'[c]]
  BY <1>1 DEF TypeOK
<1> QED
  BY <1>1, <1>2, <1>3, <1>4, <1>5, <1>6 DEF Local

\* How the writer moves on.
WriterMoves(c) ==
  /\ writerPc[c] # "new" /\ (writerPc[c] = "done" => writerPc'[c] = "done")
  /\ writerPc'[c] \in {"dequeue", "select", "buffer", "full", "flush", "return", "join", "done"}
  /\ writerPc'[c] = "done" => writerPc[c] = "done" \/ readerPc[c] \in {"off", "done"}
  /\ \/ readerPc'[c] = readerPc[c]
     \/ writerPc[c] = "start" /\ readerPc'[c] = "read" /\ writerPc'[c] = "dequeue"
  /\ recvDone'[c] = recvDone[c] \/ (recvDone[c] = "EOF" /\ recvDone'[c] = "nil" /\ writerPc'[c] = "dequeue")
  /\ \/ writerPc'[c] \notin {"dequeue", "select"} \/ buffered'[c] = 0
     \/ writerPc[c] \in {"start", "dequeue", "select"} /\ buffered'[c] = buffered[c]
  /\ writerPc'[c] \in {"return", "join", "done"} => delivered'[c] = delivered[c]
  /\ writerPc[c] \in {"return", "join", "done"} => writerPc'[c] \in {"return", "join", "done"}
  /\ \/ writerPc[c] \in {"return", "join", "done"} \/ writerPc'[c] \notin {"return", "join", "done"}
     \/ Unavailable \/ cancelled \/ c \in broken' \/ recvDone'[c] = "error"
     \/ writerPc[c] = "select" /\ c \in responsesDone /\ responses[c] = 0

LEMMA WriterMoving ==
  ASSUME TypeOK, NEW c \in Conns, WriterStep(c)
  PROVE  WriterMoves(c)
<1>1. /\ writerPc \in [Conns -> {"new", "start", "dequeue", "select", "buffer", "full", "flush",
                                 "return", "join", "done"}]
      /\ readerPc \in [Conns -> {"off", "read", "request", "reply", "dispatch", "done"}]
      /\ recvDone \in [Conns -> {"empty", "EOF", "error", "nil"}]
      /\ buffered \in [Conns -> 0..MaxRequests]
  BY DEF TypeOK
<1>2. CASE StartConnection(c)
  BY <1>1, <1>2 DEF StartConnection, WriterGoto, ReaderGoto, WriterMoves
<1>3. CASE Dequeue(c)
  BY <1>1, <1>3 DEF Dequeue, TakeResponse, WriterGoto, WriterMoves
<1>4. CASE Select(c)
  BY <1>1, <1>4 DEF Select, SelectDone, TakeResponse, WriterGoto, WriterMoves
<1>5. CASE BufferResponse(c)
  BY <1>1, <1>5 DEF BufferResponse, TakeResponse, WriterGoto, WriterMoves
<1>6. CASE Flush(c) \/ FlushFails(c)
  BY <1>1, <1>6 DEF Flush, FlushFails, TakeResponse, WriterGoto, WriterMoves, sessionVars
<1>7. CASE EndSession(c) \/ Deregister(c)
  BY <1>1, <1>7 DEF EndSession, Deregister, WriterGoto, WriterMoves, sessionVars
<1>8. CASE DiscardResponses(c)
  BY <1>8 DEF DiscardResponses, WriterMoves, connVars
<1> QED
  BY <1>2, <1>3, <1>4, <1>5, <1>6, <1>7, <1>8 DEF WriterStep

\* The responses of one connection in the hands of its writer: they move on, to the
\* client, and are lost only when the writer gives up.
LEMMA WriterSends ==
  ASSUME TypeOK, NEW c \in Conns, WriterStep(c), Sent(c) \in 0..MaxRequests
  PROVE  /\ responses'[c] \in 0..RespCapacity
         /\ buffered'[c] \in 0..MaxRequests /\ delivered'[c] \in 0..MaxRequests
         /\ Sent(c)' \in Nat /\ Sent(c)' <= Sent(c)
         /\ Sent(c)' = Sent(c) \/ Unavailable \/ writerPc'[c] \in {"return", "join", "done"}
<1>1. /\ writerPc \in [Conns -> {"new", "start", "dequeue", "select", "buffer", "full", "flush",
                                 "return", "join", "done"}]
      /\ responses \in [Conns -> 0..RespCapacity]
      /\ buffered \in [Conns -> 0..MaxRequests] /\ delivered \in [Conns -> 0..MaxRequests]
  BY DEF TypeOK
<1>2. /\ responses[c] \in Nat /\ responses[c] <= RespCapacity /\ RespCapacity \in Nat
      /\ buffered[c] \in Nat /\ delivered[c] \in Nat /\ MaxRequests \in Nat
      /\ responses[c] + Writing(c) + buffered[c] + delivered[c] <= MaxRequests
  BY <1>1, ServerAssumption, SMT DEF Sent
<1>3. /\ writerPc[c] \in {"buffer", "full"} => Writing(c) = 1
      /\ writerPc[c] \notin {"buffer", "full"} => Writing(c) = 0
      /\ writerPc'[c] \in {"buffer", "full"} => Writing(c)' = 1
      /\ writerPc'[c] \notin {"buffer", "full"} => Writing(c)' = 0
  BY DEF Writing
<1>4. \/ /\ writerPc[c] \notin {"buffer", "full"} /\ writerPc'[c] \notin {"buffer", "full"}
         /\ responses'[c] = responses[c] /\ buffered'[c] = buffered[c] /\ delivered'[c] = delivered[c]
      \/ /\ writerPc[c] \notin {"buffer", "full"} /\ writerPc'[c] = "buffer" /\ responses[c] > 0
         /\ responses'[c] = responses[c] - 1 /\ buffered'[c] = buffered[c] /\ delivered'[c] = delivered[c]
      \/ /\ writerPc[c] \in {"buffer", "full"} /\ writerPc'[c] \in {"full", "return"}
         /\ responses'[c] = responses[c] /\ buffered'[c] = buffered[c] /\ delivered'[c] = delivered[c]
      \/ /\ writerPc[c] \in {"buffer", "full"}
         /\ \/ writerPc'[c] = "buffer" /\ responses[c] > 0 /\ responses'[c] = responses[c] - 1
            \/ writerPc'[c] = "flush" /\ responses'[c] = responses[c]
         /\ \/ buffered'[c] = buffered[c] + 1 /\ delivered'[c] = delivered[c]
            \/ buffered'[c] = 1 /\ delivered'[c] = delivered[c] + buffered[c]
      \/ /\ writerPc[c] = "flush" /\ writerPc'[c] = "dequeue" /\ responses'[c] = responses[c]
         /\ buffered'[c] = 0 /\ delivered'[c] = delivered[c] + buffered[c]
      \/ /\ writerPc[c] \in {"return", "done"} /\ writerPc'[c] \in {"join", "done"}
         /\ responses'[c] \in {0, responses[c]} /\ buffered'[c] \in {0, buffered[c]}
         /\ delivered'[c] = delivered[c]
  <2>1. CASE StartConnection(c)
    BY <1>1, <2>1 DEF StartConnection, WriterGoto
  <2>2. CASE Dequeue(c)
    BY <1>1, <2>2 DEF Dequeue, TakeResponse, WriterGoto
  <2>3. CASE Select(c)
    BY <1>1, <2>3 DEF Select, SelectDone, TakeResponse, WriterGoto
  <2>4. CASE BufferResponse(c)
    BY <1>1, <2>4 DEF BufferResponse, TakeResponse, WriterGoto
  <2>5. CASE Flush(c)
    BY <1>1, <2>5 DEF Flush, TakeResponse, WriterGoto
  <2>6. CASE FlushFails(c) \/ Deregister(c)
    BY <1>1, <2>6 DEF FlushFails, Deregister, WriterGoto, sessionVars
  <2>7. CASE EndSession(c) \/ DiscardResponses(c)
    BY <1>1, <2>7 DEF EndSession, DiscardResponses, WriterGoto, sessionVars, connVars
  <2> QED
    BY <2>1, <2>2, <2>3, <2>4, <2>5, <2>6, <2>7 DEF WriterStep
<1>5. /\ responses'[c] \in 0..RespCapacity
      /\ buffered'[c] \in 0..MaxRequests /\ delivered'[c] \in 0..MaxRequests
  BY <1>2, <1>3, <1>4, SMT
<1>6. Sent(c)' \in Nat /\ Sent(c)' <= Sent(c)
  BY <1>2, <1>3, <1>4, SMT DEF Sent
<1>7. Sent(c)' = Sent(c) \/ Unavailable \/ writerPc'[c] \in {"return", "join", "done"}
  BY <1>2, <1>3, <1>4, SMT DEF Sent
<1> QED
  BY <1>5, <1>6, <1>7

LEMMA WriterKeeps ==
  ASSUME Counting, LockServerInv, NEW c \in Conns, WriterStep(c)
  PROVE  LockServerInv'
<1>1. TypeOK /\ ServerInv /\ ConnInv(c) /\ Typed(c)
  BY LocalFacts
<1>2. /\ WriterMoves(c) /\ Local(c)
      /\ UNCHANGED <<responsesDone, pending, received, queue, workerPc, workerSession>>
  BY <1>1, WriterLocal, WriterMoving DEF workerVars
<1>3. InStep(c) /\ Answered(c) /\ Counted(c) /\ Conserved(c)
  BY <1>1 DEF ConnInv
<1>4. /\ UNCHANGED <<phase, cancelled, stop>> /\ (Unavailable' <=> Unavailable) /\ (cancelled => Unavailable)
      /\ (c \in broken => c \in broken')
  BY <1>1, <1>2 DEF Local, lifecycle, Unavailable, ServerInv
<1>5. ServerLocal(c) /\ ShardLocal(c)
  <2>1. ServerLocal(c)
    BY <1>1, <1>2, <1>4 DEF ServerLocal, ServerInv, WriterMoves
  <2>2. ShardLocal(c)
    BY <1>1, <1>2 DEF ShardLocal, Queued, Applying, Finishing, TypeOK
  <2> QED
    BY <2>1, <2>2
<1>6. InStep(c)'
  BY <1>2, <1>3 DEF InStep, WriterMoves
<1>7. /\ Reading(c) \in {0, 1} /\ Deciding(c) \in {0, 1} /\ Dispatching(c) \in {0, 1} /\ Queued(c) \in Nat
      /\ Applying(c) \in {0, 1} /\ Finishing(c) \in {0, 1} /\ Sent(c) \in Nat
  BY <1>1, Places
<1>8. /\ Queued(c)' = Queued(c) /\ Applying(c)' = Applying(c) /\ Finishing(c)' = Finishing(c)
      /\ Reading(c)' = Reading(c) /\ Deciding(c)' = Deciding(c) /\ Dispatching(c)' = Dispatching(c)
  BY <1>2, <1>3 DEF Queued, Applying, Finishing, Reading, Deciding, Dispatching, WriterMoves, InStep
<1>9. received[c] \in 0..MaxRequests /\ MaxRequests \in Nat
  BY <1>1, ServerAssumption DEF Typed
<1>10. Sent(c) \in 0..MaxRequests
  BY <1>3, <1>7, <1>9, SMT DEF Conserved, Accounted
<1>11. /\ responses'[c] \in 0..RespCapacity
       /\ buffered'[c] \in 0..MaxRequests /\ delivered'[c] \in 0..MaxRequests
       /\ Sent(c)' \in Nat /\ Sent(c)' <= Sent(c)
       /\ Sent(c)' = Sent(c) \/ Unavailable \/ writerPc'[c] \in {"return", "join", "done"}
  BY <1>1, <1>10, WriterSends
<1>12. Typed(c)'
  BY <1>1, <1>2, <1>11 DEF Typed, WriterMoves
<1>13. Balance(c) /\ Accounted(c)' \in Nat
  BY <1>2, <1>7, <1>8, <1>11, SMT DEF Balance, Dispatched, Accounted
<1>14. Counted(c)' /\ Conserved(c)'
  BY <1>1, <1>2, <1>3, <1>12, <1>13, BalanceKeeps DEF WriterMoves
<1>15. Answered(c)'
  <2>1. ASSUME writerPc[c] = "select", c \in responsesDone, responses[c] = 0, ~Unavailable, c \notin broken
        PROVE  delivered[c] = received[c]
    <3>1. readerPc[c] = "done" /\ pending[c] = 0 /\ buffered[c] = 0 /\ delivered[c] \in Nat
      BY <1>1, <1>3, <2>1, ServerAssumption, SMT DEF InStep, Typed
    <3>2. Reading(c) = 0 /\ Writing(c) = 0
      BY <2>1, <3>1 DEF Reading, Writing
    <3>3. Queued(c) = 0 /\ Applying(c) = 0
      BY <1>3, <1>7, <3>1, SMT DEF Counted, Dispatched
    <3>4. Accounted(c) = delivered[c]
      BY <2>1, <3>1, <3>2, <3>3, SMT DEF Accounted, Sent
    <3> QED
      BY <1>3, <2>1, <3>4 DEF Conserved
  <2> QED
    BY <1>2, <1>3, <1>4, <2>1 DEF Answered, WriterMoves
<1> QED
  BY <1>2, <1>5, <1>6, <1>12, <1>14, <1>15, LocalKeeps DEF ConnInv

-----------------------------------------------------------------------------
(* The shard worker. *)

LEMMA WorkerLocal ==
  ASSUME TypeOK, ServerInv, NEW c \in Conns,
         \/ WorkerApply /\ c = Head(queue)
         \/ WorkerRespond /\ c = workerSession
         \/ WorkerFinish /\ c = workerSession
         \/ WorkerStops
  PROVE  Local(c) /\ UNCHANGED <<connVars, readerPc, recvDone, responsesDone, received>>
<1>1. UNCHANGED <<lifecycle, listenerVars, connVars, readerPc, recvDone, responsesDone, received>>
  BY DEF WorkerApply, WorkerRespond, WorkerFinish, WorkerStops, sessionVars
<1>2. /\ pending' = [pending EXCEPT ![c] = pending'[c]]
      /\ responses' = [responses EXCEPT ![c] = responses'[c]]
  BY DEF TypeOK, WorkerApply, WorkerRespond, WorkerFinish, WorkerStops, sessionVars
<1>3. /\ writerPc' = [writerPc EXCEPT ![c] = writerPc'[c]]
      /\ readerPc' = [readerPc EXCEPT ![c] = readerPc'[c]]
      /\ recvDone' = [recvDone EXCEPT ![c] = recvDone'[c]]
  BY <1>1 DEF TypeOK, connVars
<1>4. /\ buffered' = [buffered EXCEPT ![c] = buffered'[c]]
      /\ received' = [received EXCEPT ![c] = received'[c]]
      /\ delivered' = [delivered EXCEPT ![c] = delivered'[c]]
  BY <1>1 DEF TypeOK, connVars
<1> QED
  BY <1>1, <1>2, <1>3, <1>4 DEF Local, connVars

\* A step of the worker for the connection it serves.
LEMMA WorkerServes ==
  ASSUME Counting, LockServerInv, NEW c \in Conns, Local(c), Balance(c), ShardLocal(c), ServerLocal(c),
         UNCHANGED <<connVars, readerPc, recvDone, responsesDone, received>>,
         responses'[c] \in 0..RespCapacity,
         pending'[c] = pending[c] \/ (pending[c] >= 1 /\ pending'[c] = pending[c] - 1),
         Accounted(c)' \in Nat
  PROVE  LockServerInv'
<1>1. TypeOK /\ ServerInv /\ ConnInv(c) /\ Typed(c)
  BY LocalFacts
<1>2. UNCHANGED <<writerPc, buffered, delivered, broken>> /\ (Unavailable' <=> Unavailable)
  BY DEF Local, connVars, lifecycle, Unavailable
<1>3. pending'[c] \in 0..MaxRequests /\ (pending[c] = 0 => pending'[c] = 0)
  BY <1>1, ServerAssumption, SMT DEF Typed
<1>4. Typed(c)'
  BY <1>1, <1>2, <1>3 DEF Typed
<1>5. InStep(c) /\ Answered(c) /\ Counted(c) /\ Conserved(c)
  BY <1>1 DEF ConnInv
<1>6. InStep(c)' /\ Answered(c)'
  BY <1>2, <1>3, <1>5 DEF InStep, Answered
<1>7. Counted(c)' /\ Conserved(c)'
  BY <1>1, <1>2, <1>4, <1>5, BalanceKeeps
<1> QED
  BY <1>4, <1>6, <1>7, LocalKeeps DEF ConnInv

\* A dispatched operation is answered, unless the server or the session has ended, and
\* then done.
LEMMA WorkerKeeps ==
  ASSUME Counting, LockServerInv, Worker
  PROVE  LockServerInv'
<1>1. TypeOK /\ ServerInv /\ \A c \in Conns : ConnInv(c)
  BY DEF LockServerInv
<1>2. /\ queue \in Seq(Conns) /\ Len(queue) <= QueueCapacity /\ Len(queue) \in Nat /\ QueueCapacity \in Nat
      /\ workerSession \in Conns \cup {None}
  BY <1>1, QueueFacts, ServerAssumption DEF TypeOK
<1>3. ASSUME NEW c \in Conns
      PROVE  /\ Reading(c) \in {0, 1} /\ Dispatching(c) \in {0, 1} /\ Queued(c) \in Nat
             /\ Applying(c) \in {0, 1} /\ Finishing(c) \in {0, 1} /\ Sent(c) \in Nat
             /\ responses[c] \in 0..RespCapacity /\ buffered[c] \in Nat /\ delivered[c] \in Nat
             /\ Writing(c) \in {0, 1} /\ RespCapacity \in Nat /\ pending[c] \in Nat
  <2>1. /\ responses[c] \in 0..RespCapacity /\ buffered[c] \in Nat /\ delivered[c] \in Nat
        /\ RespCapacity \in Nat /\ pending[c] \in Nat
    BY <1>1, ServerAssumption, SMT DEF TypeOK
  <2> QED
    BY <1>1, <2>1, Places DEF Writing
<1>4. ASSUME NEW c \in Conns, UNCHANGED <<connVars, readerPc>>
      PROVE  /\ Reading(c)' = Reading(c) /\ Deciding(c)' = Deciding(c) /\ Dispatching(c)' = Dispatching(c)
             /\ responses'[c] = responses[c] => Sent(c)' = Sent(c)
             /\ responses'[c] = responses[c] + 1 => Sent(c)' = Sent(c) + 1
  <2>1. /\ Reading(c)' = Reading(c) /\ Deciding(c)' = Deciding(c) /\ Dispatching(c)' = Dispatching(c)
        /\ Writing(c)' = Writing(c)
    BY <1>4 DEF Reading, Deciding, Dispatching, Writing, connVars
  <2> QED
    BY <1>3, <1>4, <2>1, SMT DEF Sent, connVars
<1>5. CASE WorkerApply
  <2>1. workerPc = "dequeue" /\ queue # <<>> /\ UNCHANGED <<pending, responses>>
    BY <1>5 DEF WorkerApply, sessionVars
  <2>2. PICK c \in Conns : c = Head(queue) /\ workerSession' = c /\ queue' = Tail(queue)
    BY <1>2, <1>5, <2>1, QueueFacts DEF WorkerApply
  <2>3. Local(c) /\ UNCHANGED <<connVars, readerPc, recvDone, responsesDone, received>>
    BY <1>1, <1>5, <2>2, WorkerLocal
  <2>4. queue' \in Seq(Conns) /\ Len(queue') <= QueueCapacity
    BY <1>2, <2>1, <2>2, QueueFacts, SMT
  <2>5. Queued(c)' = Queued(c) - 1 /\ Queued(c)' \in Nat /\ \A d \in Conns \ {c} : Queued(d)' = Queued(d)
    <3>1. Occurrences(queue, c) = Occurrences(Tail(queue), c) + 1 /\ Occurrences(Tail(queue), c) \in Nat
      BY <1>2, <2>1, <2>2, <2>4 DEF Counting
    <3>2. \A d \in Conns \ {c} : Occurrences(queue, d) = Occurrences(Tail(queue), d)
      BY <1>2, <2>1, <2>2 DEF Counting
    <3> QED
      BY <2>2, <3>1, <3>2, SMT DEF Queued
  <2>6. phase # "QUARANTINE" /\ (phase = "ACTIVE" \/ Unavailable)
    BY <1>1, <2>1 DEF ServerInv, TypeOK, Unavailable
  <2>7. (phase = "ACTIVE" /\ workerPc' = "respond") \/ (Unavailable /\ workerPc' = "finish")
    BY <1>5, <2>6 DEF WorkerApply, Unavailable
  <2>8. ServerLocal(c) /\ ShardLocal(c)
    BY <2>1, <2>2, <2>3, <2>4, <2>5, <2>6, <2>7 DEF ServerLocal, ShardLocal, Applying, Finishing, connVars
  <2>9. /\ Applying(c) = 0 /\ Finishing(c) = 0
        /\ \/ Applying(c)' = 1 /\ Finishing(c)' = 0
           \/ Unavailable /\ Applying(c)' = 0 /\ Finishing(c)' = 1
    BY <2>1, <2>2, <2>7 DEF Applying, Finishing
  <2>10. /\ Dispatched(c)' = Dispatched(c) /\ Accounted(c)' \in Nat
         /\ Accounted(c)' = Accounted(c) \/ (Unavailable /\ Accounted(c)' <= Accounted(c))
    <3>1. Reading(c)' = Reading(c) /\ Dispatching(c)' = Dispatching(c) /\ Sent(c)' = Sent(c)
      BY <1>4, <2>1, <2>3
    <3> QED
      BY <1>3, <2>5, <2>9, <3>1, SMT DEF Dispatched, Accounted
  <2>11. Balance(c)
    BY <1>4, <2>1, <2>3, <2>10 DEF Balance
  <2> QED
    BY <1>3, <2>1, <2>3, <2>8, <2>10, <2>11, WorkerServes
<1>6. CASE WorkerRespond
  <2>1. workerPc = "respond" /\ workerPc' = "finish" /\ UNCHANGED <<pending, queue, workerSession>>
    BY <1>6 DEF WorkerRespond
  <2>2. PICK c \in Conns : c = workerSession
    BY <1>1, <2>1 DEF ServerInv
  <2>3. Local(c) /\ UNCHANGED <<connVars, readerPc, recvDone, responsesDone, received>>
    BY <1>1, <1>6, <2>2, WorkerLocal
  <2>4. \/ responses[c] < RespCapacity /\ responses'[c] = responses[c] + 1
        \/ SessionDone(c) /\ responses'[c] = responses[c]
    BY <1>1, <1>6, <2>2 DEF WorkerRespond, GivesUp, TypeOK
  <2>5. responses'[c] \in 0..RespCapacity
    BY <1>3, <2>4, SMT
  <2>6. SessionDone(c) => Unavailable \/ writerPc'[c] \in {"return", "join", "done"}
    BY <1>1, <2>3 DEF SessionDone, ServerInv, connVars
  <2>7. ServerLocal(c) /\ ShardLocal(c)
    BY <1>1, <1>2, <2>1, <2>2, <2>3
       DEF ServerLocal, ShardLocal, ServerInv, Queued, Applying, Finishing, connVars
  <2>8. /\ Applying(c) = 1 /\ Finishing(c) = 0 /\ Applying(c)' = 0 /\ Finishing(c)' = 1
        /\ Queued(c)' = Queued(c)
    BY <2>1, <2>2 DEF Applying, Finishing, Queued
  <2>9. Balance(c) /\ Accounted(c)' \in Nat
    <3>1. Reading(c)' = Reading(c) /\ Dispatching(c)' = Dispatching(c)
      BY <1>4, <2>3
    <3>2. \/ Sent(c)' = Sent(c) + 1
          \/ Sent(c)' = Sent(c) /\ (Unavailable \/ writerPc'[c] \in {"return", "join", "done"})
      BY <1>4, <2>3, <2>4, <2>6
    <3>3. Dispatched(c)' = Dispatched(c)
      BY <1>3, <2>8, <3>1, SMT DEF Dispatched
    <3>4. /\ Accounted(c)' \in Nat
          /\ Sent(c)' = Sent(c) + 1 => Accounted(c)' = Accounted(c)
          /\ Sent(c)' = Sent(c) => Accounted(c)' <= Accounted(c)
      BY <1>3, <2>8, <3>1, <3>2, SMT DEF Accounted
    <3> QED
      BY <1>4, <2>1, <2>3, <3>2, <3>3, <3>4 DEF Balance
  <2> QED
    BY <2>1, <2>3, <2>5, <2>7, <2>9, WorkerServes
<1>7. CASE WorkerFinish
  <2>1. /\ workerPc = "finish" /\ workerPc' = "dequeue" /\ workerSession' = None
        /\ UNCHANGED <<responses, queue>>
    BY <1>7 DEF WorkerFinish
  <2>2. PICK c \in Conns : c = workerSession
    BY <1>1, <2>1 DEF ServerInv
  <2>3. Local(c) /\ UNCHANGED <<connVars, readerPc, recvDone, responsesDone, received>>
    BY <1>1, <1>7, <2>2, WorkerLocal
  <2>4. /\ Applying(c) = 0 /\ Finishing(c) = 1 /\ Applying(c)' = 0 /\ Finishing(c)' = 0
        /\ Queued(c)' = Queued(c)
    BY <2>1, <2>2 DEF Applying, Finishing, Queued
  <2>5. pending'[c] = pending[c] - 1
    BY <1>1, <1>7, <2>2 DEF WorkerFinish, TypeOK
  <2>6. pending[c] >= 1
    BY <1>1, <1>3, <2>4, SMT DEF ConnInv, Counted, Dispatched
  <2>7. ServerLocal(c) /\ ShardLocal(c)
    BY <1>1, <1>2, <2>1, <2>2, <2>3
       DEF ServerLocal, ShardLocal, ServerInv, Queued, Applying, Finishing, connVars
  <2>8. Balance(c) /\ Accounted(c)' \in Nat
    <3>1. Reading(c)' = Reading(c) /\ Dispatching(c)' = Dispatching(c) /\ Sent(c)' = Sent(c)
      BY <1>4, <2>1, <2>3
    <3>2. /\ Dispatched(c)' = Dispatched(c) - 1
          /\ Accounted(c)' = Accounted(c) /\ Accounted(c)' \in Nat
      BY <1>3, <2>4, <3>1, SMT DEF Dispatched, Accounted
    <3> QED
      BY <1>4, <2>3, <2>5, <3>2 DEF Balance
  <2> QED
    BY <1>3, <2>1, <2>3, <2>5, <2>6, <2>7, <2>8, WorkerServes
<1>8. CASE WorkerStops
  <2>1. /\ workerPc = "dequeue" /\ workerPc' = "done" /\ queue = <<>> /\ stop
        /\ UNCHANGED <<lifecycle, listenerVars, connVars, sessionVars, queue, workerSession>>
    BY <1>8 DEF WorkerStops
  <2>2. TypeOK'
    BY <1>1, <2>1, TypesKept
  <2>3. ServerInv' /\ (Unavailable => Unavailable')
    BY <1>1, <2>1 DEF ServerInv, Unavailable, lifecycle, listenerVars, connVars, sessionVars
  <2>4. \A c \in Conns : Spared(c)
    BY <2>1 DEF Spared, Applying, Finishing, Queued, connVars, sessionVars
  <2> QED
    BY <1>1, <2>2, <2>3, <2>4, SparedKept DEF LockServerInv
<1> QED
  BY <1>5, <1>6, <1>7, <1>8 DEF Worker

-----------------------------------------------------------------------------
(* The listener, fail, the end of the quarantine and Close. *)

LEMMA ServerKeeps ==
  ASSUME LockServerInv, Unavailable => Unavailable',
         \/ AcceptFails \/ FailLoad \/ FailSwap \/ FailCancel \/ FailClose \/ FailFatal
         \/ (\E c \in Conns : Accept(c))
         \/ Close \/ CloseCancel \/ CloseCloseConnections \/ CloseStopShards \/ CloseReturn
         \/ EndQuarantine
  PROVE  LockServerInv'
<1>1. UNCHANGED <<registered, writerPc, buffered, delivered, broken, sessionVars, workerVars>>
  BY DEF AcceptFails, FailLoad, FailSwap, FailCancel, FailClose, FailFatal, Accept, Close, CloseCancel,
         CloseCloseConnections, CloseStopShards, CloseReturn, EndQuarantine, connVars
<1>2. TypeOK /\ ServerInv
  BY DEF LockServerInv
<1>3. phase' \in {"QUARANTINE", "ACTIVE", "FAILED", "CLOSED"} /\ fatal' \in 0..1
  <2>1. phase' \in {"QUARANTINE", "ACTIVE", "FAILED", "CLOSED"}
    BY <1>2 DEF TypeOK, AcceptFails, FailLoad, FailSwap, FailCancel, FailClose, FailFatal, Accept, Close,
                CloseCancel, CloseCloseConnections, CloseStopShards, CloseReturn, EndQuarantine, lifecycle
  <2>2. fatal' = fatal \/ fatal' = 1
    BY DEF AcceptFails, FailLoad, FailSwap, FailCancel, FailClose, FailFatal, Accept, Close, CloseCancel,
           CloseCloseConnections, CloseStopShards, CloseReturn, EndQuarantine, lifecycle
  <2> QED
    BY <1>2, <2>1, <2>2, SMT DEF TypeOK
<1>4. /\ listenerPc' \in {"accept", "register", "load", "swap", "cancel", "close", "fatal", "done"}
      /\ closePc' \in {"open", "cancel", "close", "waitConnections", "waitWorkers", "done"}
  BY <1>2 DEF TypeOK, AcceptFails, FailLoad, FailSwap, FailCancel, FailClose, FailFatal, Accept, Close,
              CloseCancel, CloseCloseConnections, CloseStopShards, CloseReturn, EndQuarantine, lifecycle,
              listenerVars
<1>5. /\ accepted' \in Conns \cup {None} /\ open' \subseteq Conns
      /\ observed' \in {None, "QUARANTINE", "ACTIVE", "FAILED"}
  BY <1>2 DEF TypeOK, AcceptFails, FailLoad, FailSwap, FailCancel, FailClose, FailFatal, Accept, Close,
              CloseCancel, CloseCloseConnections, CloseStopShards, CloseReturn, EndQuarantine, lifecycle,
              listenerVars, connVars, CloseConnections
<1>6. cancelled' \in BOOLEAN /\ listening' \in BOOLEAN /\ stop' \in BOOLEAN
  <2>1. cancelled \in BOOLEAN /\ listening \in BOOLEAN /\ stop \in BOOLEAN
    BY <1>2 DEF TypeOK
  <2>2. cancelled' \in {cancelled, TRUE} /\ listening' \in {listening, FALSE} /\ stop' \in {stop, TRUE}
    BY DEF AcceptFails, FailLoad, FailSwap, FailCancel, FailClose, FailFatal, Accept, Close, CloseCancel,
           CloseCloseConnections, CloseStopShards, CloseReturn, EndQuarantine, lifecycle, CloseConnections
  <2> QED
    BY <2>1, <2>2
<1>7. TypeOK'
  BY <1>1, <1>2, <1>3, <1>4, <1>5, <1>6 DEF TypeOK, sessionVars, workerVars
<1>8. cancelled' \/ listenerPc' \in {"cancel", "close", "fatal"} => Unavailable'
  <2>1. CASE FailSwap
    BY <1>2, <2>1 DEF FailSwap, ServerInv, Unavailable
  <2>2. CASE CloseCancel
    BY <1>2, <2>2 DEF CloseCancel, ServerInv, Unavailable
  <2>3. CASE ~FailSwap /\ ~CloseCancel
    <3>1. cancelled' \/ listenerPc' \in {"cancel", "close", "fatal"} =>
            cancelled \/ listenerPc \in {"cancel", "close", "fatal"}
      BY <2>3 DEF AcceptFails, FailLoad, FailCancel, FailClose, FailFatal, Accept, Close,
                  CloseCloseConnections, CloseStopShards, CloseReturn, EndQuarantine, lifecycle, listenerVars
    <3> QED
      BY <1>2, <3>1 DEF ServerInv
  <2> QED
    BY <2>1, <2>2, <2>3
<1>9. closePc' # "open" => phase' = "CLOSED"
  <2>1. CASE FailSwap
    BY <1>2, <2>1 DEF FailSwap, FailSwaps, ServerInv, TypeOK, None
  <2>2. CASE ~FailSwap
    BY <1>2, <2>2 DEF AcceptFails, FailLoad, FailCancel, FailClose, FailFatal, Accept, Close, CloseCancel,
                      CloseCloseConnections, CloseStopShards, CloseReturn, EndQuarantine, lifecycle,
                      ServerInv
  <2> QED
    BY <2>1, <2>2
<1>10. listenerPc' = "register" => accepted' \in Conns /\ writerPc'[accepted'] = "new"
  <2>1. CASE \E c \in Conns : Accept(c)
    BY <1>1, <2>1 DEF Accept
  <2>2. CASE ~\E c \in Conns : Accept(c)
    <3>1. listenerPc' = "register" => listenerPc = "register" /\ accepted' = accepted
      BY <2>2 DEF AcceptFails, FailLoad, FailSwap, FailCancel, FailClose, FailFatal, Close, CloseCancel,
                  CloseCloseConnections, CloseStopShards, CloseReturn, EndQuarantine, listenerVars
    <3> QED
      BY <1>1, <1>2, <3>1 DEF ServerInv
  <2> QED
    BY <2>1, <2>2
<1>11. stop' => closePc' # "open" /\ \A c \in Conns : writerPc'[c] \in {"new", "done"}
  <2>1. CASE CloseStopShards
    BY <1>1, <2>1 DEF CloseStopShards, ConnectionsDone
  <2>2. CASE ~CloseStopShards
    <3>1. stop' = stop /\ (closePc # "open" => closePc' # "open")
      BY <2>2 DEF AcceptFails, FailLoad, FailSwap, FailCancel, FailClose, FailFatal, Accept, Close,
                  CloseCancel, CloseCloseConnections, CloseReturn, EndQuarantine, lifecycle
    <3> QED
      BY <1>1, <1>2, <3>1 DEF ServerInv
  <2> QED
    BY <2>1, <2>2
<1>12. /\ stop => stop'
       /\ phase' = "QUARANTINE" => phase = "QUARANTINE"
  BY SMT DEF AcceptFails, FailLoad, FailSwap, FailCancel, FailClose, FailFatal, Accept, Close, CloseCancel,
         CloseCloseConnections, CloseStopShards, CloseReturn, EndQuarantine, lifecycle
<1>13. ServerInv'
  BY <1>1, <1>2, <1>8, <1>9, <1>10, <1>11, <1>12 DEF ServerInv, sessionVars, workerVars
<1> QED
  BY <1>1, <1>7, <1>13, NoConnection

LEMMA RegisterKeeps ==
  ASSUME LockServerInv, Unavailable => Unavailable', Register
  PROVE  LockServerInv'
<1>1. PICK c \in Conns : c = accepted /\ writerPc[c] = "new" /\ listenerPc = "register"
  BY DEF Register, LockServerInv, ServerInv
<1>2. PICK label \in {"start", "done"} :
        /\ writerPc' = [writerPc EXCEPT ![c] = label]
        /\ label = "start" <=> ~Unavailable
  BY <1>1 DEF Register, WriterGoto
<1>3. /\ UNCHANGED <<lifecycle, observed, buffered, delivered, broken, sessionVars, workerVars>>
      /\ accepted' = None /\ listenerPc' \in {"accept", "done"}
      /\ open' \subseteq open /\ registered' \subseteq registered \cup {c}
  BY <1>1 DEF Register
<1>4. TypeOK /\ ServerInv /\ ConnInv(c) /\ (Unavailable' <=> Unavailable)
  BY <1>3 DEF LockServerInv, Unavailable, lifecycle
<1>5. writerPc'[c] = label /\ \A d \in Conns \ {c} : writerPc'[d] = writerPc[d]
  BY <1>2, <1>4 DEF TypeOK
<1>6. TypeOK'
  <2>1. writerPc' \in [Conns -> {"new", "start", "dequeue", "select", "buffer", "full", "flush",
                                 "return", "join", "done"}]
    BY <1>2, <1>4 DEF TypeOK
  <2>2. open' \subseteq Conns /\ registered' \subseteq Conns
    BY <1>3, <1>4 DEF TypeOK
  <2>3. cancelled' \in BOOLEAN /\ listening' \in BOOLEAN /\ stop' \in BOOLEAN
    BY <1>3, <1>4 DEF TypeOK, lifecycle
  <2>4. /\ UNCHANGED <<phase, fatal, observed, closePc, readerPc, recvDone, responsesDone, pending, responses>>
        /\ UNCHANGED <<queue, workerPc, workerSession, received>>
    BY <1>3 DEF lifecycle, sessionVars, workerVars
  <2>5. /\ pending' \in [Conns -> 0..MaxRequests] /\ responses' \in [Conns -> 0..RespCapacity]
        /\ buffered' \in [Conns -> 0..MaxRequests] /\ received' \in [Conns -> 0..MaxRequests]
        /\ delivered' \in [Conns -> 0..MaxRequests] /\ queue' \in Seq(Conns) /\ Len(queue') <= QueueCapacity
    BY <1>3, <1>4, <2>4 DEF TypeOK
  <2>6. /\ phase' \in {"QUARANTINE", "ACTIVE", "FAILED", "CLOSED"} /\ fatal' \in 0..1
        /\ observed' \in {None, "QUARANTINE", "ACTIVE", "FAILED"}
        /\ closePc' \in {"open", "cancel", "close", "waitConnections", "waitWorkers", "done"}
        /\ readerPc' \in [Conns -> {"off", "read", "request", "reply", "dispatch", "done"}]
        /\ recvDone' \in [Conns -> {"empty", "EOF", "error", "nil"}] /\ responsesDone' \subseteq Conns
        /\ workerPc' \in {"dequeue", "respond", "finish", "done"} /\ workerSession' \in Conns \cup {None}
    BY <1>4, <2>4 DEF TypeOK
  <2>7. /\ listenerPc' \in {"accept", "register", "load", "swap", "cancel", "close", "fatal", "done"}
        /\ accepted' \in Conns \cup {None} /\ broken' \subseteq Conns
    BY <1>3, <1>4 DEF TypeOK
  <2> QED
    BY <2>1, <2>2, <2>3, <2>5, <2>6, <2>7 DEF TypeOK
<1>7. ServerInv'
  <2>1. stop => Unavailable
    BY <1>4 DEF ServerInv, Unavailable
  <2>2. stop => \A d \in Conns : writerPc'[d] \in {"new", "done"}
    BY <1>2, <1>4, <1>5, <2>1 DEF ServerInv
  <2> QED
    BY <1>3, <1>4, <2>2 DEF ServerInv, Unavailable, lifecycle, sessionVars, workerVars
<1>8. \A d \in Conns \ {c} : Spared(d)
  BY <1>3, <1>5 DEF Spared, Queued, Applying, Finishing, sessionVars, workerVars
<1>9. ConnInv(c)'
  <2>1. UNCHANGED <<readerPc, recvDone, responsesDone, pending, responses, received, queue, workerPc, workerSession>>
    BY <1>3 DEF sessionVars, workerVars
  <2>2. /\ Reading(c)' = Reading(c) /\ Dispatching(c)' = Dispatching(c) /\ Queued(c)' = Queued(c)
        /\ Applying(c)' = Applying(c) /\ Finishing(c)' = Finishing(c) /\ Writing(c) = 0 /\ Writing(c)' = 0
        /\ Deciding(c)' = Deciding(c)
    BY <1>1, <1>5, <2>1 DEF Reading, Deciding, Dispatching, Queued, Applying, Finishing, Writing
  <2>3. Counted(c)'
    BY <1>4, <2>1, <2>2 DEF ConnInv, Counted, Dispatched
  <2>4. Conserved(c)'
    <3>1. Accounted(c)' = Accounted(c)
      BY <1>3, <2>1, <2>2 DEF Accounted, Sent
    <3> QED
      BY <1>1, <1>3, <1>4, <2>1, <3>1 DEF ConnInv, Conserved
  <2>5. InStep(c)' /\ Answered(c)'
    BY <1>1, <1>2, <1>3, <1>4, <1>5, <2>1 DEF ConnInv, InStep, Answered
  <2> QED
    BY <2>3, <2>4, <2>5 DEF ConnInv
<1> QED
  BY <1>6, <1>7, <1>8, <1>9, OneConnection

-----------------------------------------------------------------------------
(* The invariant. *)

LEMMA LockServerInvInit ==
  ASSUME Counting, Init
  PROVE  LockServerInv
<1>1. 0 \in 0..MaxRequests /\ 0 \in 0..RespCapacity /\ 0 <= QueueCapacity
  BY ServerAssumption, SMT
<1>2. TypeOK
  <2>1. cancelled \in BOOLEAN /\ listening \in BOOLEAN /\ stop \in BOOLEAN
    BY DEF Init
  <2>2. queue \in Seq(Conns) /\ Len(queue) <= QueueCapacity
    BY <1>1, SMT DEF Init
  <2>3. /\ pending \in [Conns -> 0..MaxRequests] /\ responses \in [Conns -> 0..RespCapacity]
        /\ buffered \in [Conns -> 0..MaxRequests] /\ received \in [Conns -> 0..MaxRequests]
        /\ delivered \in [Conns -> 0..MaxRequests]
    BY <1>1 DEF Init
  <2> QED
    BY <2>1, <2>2, <2>3, SMT DEF Init, TypeOK
<1>3. ServerInv
  BY DEF Init, ServerInv
<1>4. ASSUME NEW c \in Conns PROVE ConnInv(c)
  <2>1. Occurrences(<<>>, c) = 0
    BY <1>4 DEF Counting
  <2>2. /\ Reading(c) = 0 /\ Dispatching(c) = 0 /\ Queued(c) = 0 /\ Applying(c) = 0
        /\ Finishing(c) = 0 /\ Writing(c) = 0 /\ Deciding(c) = 0
    BY <2>1 DEF Init, Reading, Deciding, Dispatching, Queued, Applying, Finishing, Writing
  <2>3. pending[c] = 0 /\ responses[c] = 0 /\ buffered[c] = 0 /\ received[c] = 0 /\ delivered[c] = 0
    BY DEF Init
  <2>4. Counted(c) /\ Conserved(c)
    BY <2>2, <2>3, SMT DEF Counted, Conserved, Dispatched, Accounted, Sent
  <2>5. InStep(c) /\ Answered(c)
    BY <2>3 DEF Init, InStep, Answered
  <2> QED
    BY <2>4, <2>5 DEF ConnInv
<1> QED
  BY <1>2, <1>3, <1>4 DEF LockServerInv

\* The phase only moves forward.
LEMMA PhaseStep ==
  ASSUME [Next]_vars
  PROVE  \/ phase' = phase
         \/ phase = observed /\ phase' = "FAILED"
         \/ phase' = "CLOSED"
         \/ phase = "QUARANTINE" /\ phase' = "ACTIVE"
  BY DEF Next, Environment, Listener, Closer, Worker, Reader, Writer, AcceptFails, Close, Accept,
         ReadRequest, ProcessRequest, ReadEnds, Flush, FlushFails, Register, FailLoad, FailSwap, FailCancel, FailClose,
         FailFatal, CloseCancel, CloseCloseConnections, CloseStopShards, CloseReturn, EndQuarantine,
         WorkerApply, WorkerRespond, WorkerFinish, WorkerStops, ReadClosed, Reply, Dispatch,
         CloseResponses, StartConnection, Dequeue, Select, BufferResponse, EndSession, Deregister,
         DiscardResponses, FailSwaps, lifecycle, vars

LEMMA LockServerInvStep ==
  ASSUME Counting, LockServerInv, [Next]_vars
  PROVE  LockServerInv'
<1>1. Unavailable => Unavailable'
  BY PhaseStep DEF Unavailable
<1>2. CASE UNCHANGED vars
  <2>1. TypeOK /\ ServerInv
    BY DEF LockServerInv
  <2>2. TypeOK'
    BY <1>2, <2>1, TypesKept DEF vars, workerVars, TypeOK
  <2>3. ServerInv'
    BY <1>2, <2>1 DEF ServerInv, Unavailable, vars, lifecycle, listenerVars, connVars, sessionVars, workerVars
  <2>4. UNCHANGED <<writerPc, buffered, delivered, broken, sessionVars, workerVars>>
    BY <1>2 DEF vars, connVars
  <2> QED
    BY <1>1, <2>2, <2>3, <2>4, NoConnection
<1>3. CASE Next
  <2>1. \/ Register \/ Worker
        \/ \/ AcceptFails \/ FailLoad \/ FailSwap \/ FailCancel \/ FailClose \/ FailFatal
           \/ (\E c \in Conns : Accept(c))
           \/ Close \/ CloseCancel \/ CloseCloseConnections \/ CloseStopShards \/ CloseReturn
           \/ EndQuarantine
        \/ \E c \in Conns : ReaderStep(c)
        \/ \E c \in Conns : WriterStep(c)
    BY <1>3 DEF Next, Environment, Listener, Closer, Reader, Writer, ReaderStep, WriterStep
  <2> QED
    BY <1>1, <2>1, RegisterKeeps, WorkerKeeps, ServerKeeps, ReaderKeeps, WriterKeeps
<1> QED
  BY <1>2, <1>3

-----------------------------------------------------------------------------
(* Counting the occurrences of a session in a queue. *)

INSTANCE FiniteSetTheorems

LEMMA OccurrencesNat ==
  ASSUME NEW q \in Seq(Conns), NEW c
  PROVE  IsFiniteSet({i \in DOMAIN q : q[i] = c}) /\ Occurrences(q, c) \in Nat
<1>1. IsFiniteSet(1..Len(q)) /\ DOMAIN q = 1..Len(q)
  BY FS_Interval, SMT
<1>2. {i \in DOMAIN q : q[i] = c} \subseteq 1..Len(q)
  BY <1>1
<1>3. IsFiniteSet({i \in DOMAIN q : q[i] = c})
  BY <1>1, <1>2, FS_Subset
<1> QED
  BY <1>3, FS_CardinalityType DEF Occurrences

LEMMA NoOccurrences ==
  ASSUME NEW c
  PROVE  Occurrences(<<>>, c) = 0
<1>1. {i \in DOMAIN <<>> : <<>>[i] = c} = {}
  BY SMT
<1>2. Cardinality({i \in DOMAIN <<>> : <<>>[i] = c}) = Cardinality({})
  BY <1>1
<1> QED
  BY <1>2, FS_EmptySet DEF Occurrences

LEMMA OccurrencesAppend ==
  ASSUME NEW q \in Seq(Conns), NEW d \in Conns, NEW c
  PROVE  /\ d = c => Occurrences(Append(q, d), c) = Occurrences(q, c) + 1
         /\ d # c => Occurrences(Append(q, d), c) = Occurrences(q, c)
<1> DEFINE S == {i \in DOMAIN q : q[i] = c}
           T == {i \in DOMAIN Append(q, d) : Append(q, d)[i] = c}
<1>1. IsFiniteSet(S) /\ Cardinality(S) \in Nat
  BY OccurrencesNat, FS_CardinalityType
<1>2. CASE d = c
  <2>1. T = S \cup {Len(q) + 1} /\ Len(q) + 1 \notin S
    <3>1. /\ DOMAIN Append(q, d) = DOMAIN q \cup {Len(q) + 1} /\ Len(q) + 1 \notin DOMAIN q
          /\ \A i \in DOMAIN q : Append(q, d)[i] = q[i]
          /\ Append(q, d)[Len(q) + 1] = d
      BY SMT
    <3> QED
      BY <1>2, <3>1
  <2>2. Occurrences(q, c) = Cardinality(S) /\ Occurrences(Append(q, d), c) = Cardinality(T)
    BY DEF Occurrences
  <2> HIDE DEF S, T
  <2>3. Cardinality(S \cup {Len(q) + 1}) = Cardinality(S) + 1
    BY <1>1, <2>1, FS_AddElement
  <2> QED
    BY <1>2, <2>1, <2>2, <2>3
<1>3. CASE d # c
  <2>1. T = S
    BY <1>3, SMT
  <2>2. Cardinality(T) = Cardinality(S)
    BY <2>1
  <2> QED
    BY <1>3, <2>2 DEF Occurrences
<1> QED
  BY <1>2, <1>3

LEMMA OccurrencesTail ==
  ASSUME NEW q \in Seq(Conns), q # <<>>, NEW c
  PROVE  /\ Head(q) = c => Occurrences(q, c) = Occurrences(Tail(q), c) + 1
         /\ Head(q) # c => Occurrences(q, c) = Occurrences(Tail(q), c)
<1> DEFINE S == {i \in DOMAIN q : q[i] = c}
           T == {i \in DOMAIN Tail(q) : Tail(q)[i] = c}
           f == [i \in T |-> i + 1]
<1>1. IsFiniteSet(S) /\ IsFiniteSet(T) /\ Cardinality(S) \in Nat /\ Cardinality(T) \in Nat
  <2>1. Tail(q) \in Seq(Conns)
    BY SMT
  <2> QED
    BY <2>1, OccurrencesNat, FS_CardinalityType
<1>2. /\ \A i \in T : i \in Nat /\ i + 1 \in S /\ i + 1 # 1
      /\ \A i \in S : i # 1 => i - 1 \in T /\ i \in Nat
      /\ 1 \in S <=> Head(q) = c
  BY SMT
<1>7. Occurrences(q, c) = Cardinality(S) /\ Occurrences(Tail(q), c) = Cardinality(T)
  BY DEF Occurrences
<1> HIDE DEF S, T
<1>3. f \in Bijection(T, S \ {1})
  <2>1. f \in Injection(T, S \ {1})
    BY <1>2, SMT DEF Injection, IsInjective
  <2>2. f \in Surjection(T, S \ {1})
    <3>1. \A j \in S \ {1} : j - 1 \in T /\ f[j - 1] = j
      BY <1>2, SMT
    <3> QED
      BY <1>2, <3>1 DEF Surjection
  <2> QED
    BY <2>1, <2>2 DEF Bijection
<1>4. Cardinality(S \ {1}) = Cardinality(T)
  BY <1>1, <1>3, FS_Bijection DEF ExistsBijection
<1>5. CASE Head(q) = c
  <2>1. Cardinality(S \ {1}) = Cardinality(S) - 1
    BY <1>1, <1>2, <1>5, FS_RemoveElement
  <2> QED
    BY <1>1, <1>4, <1>5, <1>7, <2>1, SMT
<1>6. CASE Head(q) # c
  <2>1. S \ {1} = S
    BY <1>2, <1>6
  <2>2. Cardinality(S \ {1}) = Cardinality(S)
    BY <2>1
  <2> QED
    BY <1>1, <1>4, <1>6, <1>7, <2>2
<1> QED
  BY <1>5, <1>6

LEMMA CountingHolds == Counting
<1>1. \A c \in Conns : Occurrences(<<>>, c) = 0
  BY NoOccurrences
<1>2. \A q \in Seq(Conns), c \in Conns : Occurrences(q, c) \in Nat
  BY OccurrencesNat
<1>3. \A q \in Seq(Conns), d \in Conns, c \in Conns :
        /\ d = c => Occurrences(Append(q, d), c) = Occurrences(q, c) + 1
        /\ d # c => Occurrences(Append(q, d), c) = Occurrences(q, c)
  BY OccurrencesAppend
<1>4. \A q \in Seq(Conns), c \in Conns :
        q # <<>> => /\ Head(q) = c => Occurrences(q, c) = Occurrences(Tail(q), c) + 1
                    /\ Head(q) # c => Occurrences(q, c) = Occurrences(Tail(q), c)
  BY OccurrencesTail
<1> QED
  BY <1>1, <1>2, <1>3, <1>4 DEF Counting

-----------------------------------------------------------------------------
(* The theorems. *)

\* The requests of every connection are accounted for, in every behaviour.
THEOREM LockServerInvHolds == Spec => []LockServerInv
<1>1. Init => LockServerInv
  BY CountingHolds, LockServerInvInit
<1>2. LockServerInv /\ [Next]_vars => LockServerInv'
  BY CountingHolds, LockServerInvStep
<1> QED
  BY <1>1, <1>2, PTL DEF Spec

\* A client that closes only its sending side gets an answer to every request the
\* server has read, while the server is in service: when sendResponses finds
\* responsesDone closed and its queue empty, no request is left anywhere.
THEOREM HalfClosedGetsAnswersHolds == Spec => []HalfClosedGetsAnswers
<1>1. LockServerInv => HalfClosedGetsAnswers
  BY DEF LockServerInv, ConnInv, Answered, HalfClosedGetsAnswers
<1> QED
  BY <1>1, LockServerInvHolds, PTL

\* No reader can dispatch to a shard that Close has stopped, and a worker that has
\* stopped leaves nothing in its queue and no pending WaitGroup above zero.
THEOREM StoppedShardIsDrainedHolds == Spec => []StoppedShardIsDrained
<1>1. LockServerInv => StoppedShardIsDrained
  <2> SUFFICES ASSUME LockServerInv PROVE StoppedShardIsDrained
    OBVIOUS
  <2>1. stop => \A c \in Conns : readerPc[c] \in {"off", "done"}
    BY DEF LockServerInv, ServerInv, ConnInv, InStep
  <2>2. ASSUME workerPc = "done", NEW c \in Conns PROVE pending[c] = 0
    <3>1. queue = <<>> /\ readerPc[c] \in {"off", "done"}
      BY <2>1, <2>2 DEF LockServerInv, ServerInv
    <3>2. Queued(c) = 0
      BY <3>1, NoOccurrences DEF Queued
    <3>3. Dispatching(c) = 0 /\ Applying(c) = 0 /\ Finishing(c) = 0
      BY <2>2, <3>1 DEF Dispatching, Applying, Finishing
    <3> QED
      BY <3>2, <3>3, SMT DEF LockServerInv, ConnInv, Counted, Dispatched
  <2> QED
    BY <2>1, <2>2 DEF StoppedShardIsDrained, LockServerInv, ServerInv
<1> QED
  BY <1>1, LockServerInvHolds, PTL

\* No step brings the server back to an earlier phase: fail replaces only the phase it
\* has loaded, the quarantine timer only QUARANTINE, and Close moves to the last.
THEOREM LifecycleForwardHolds == Spec => LifecycleForward
<1>1. LockServerInv /\ [Next]_vars => [Rank[phase'] >= Rank[phase]]_vars
  <2> SUFFICES ASSUME LockServerInv, [Next]_vars PROVE Rank[phase'] >= Rank[phase]
    OBVIOUS
  <2>1. phase \in {"QUARANTINE", "ACTIVE", "FAILED", "CLOSED"} /\ observed # "CLOSED"
    BY DEF LockServerInv, TypeOK, None
  <2> QED
    BY <2>1, PhaseStep, SMT DEF Rank
<1> QED
  BY <1>1, LockServerInvHolds, PTL DEF Spec, LifecycleForward
=============================================================================
