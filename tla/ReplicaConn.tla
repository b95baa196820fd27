----------------------------- MODULE ReplicaConn -----------------------------
(***************************************************************************)
(* How the client talks to its replicas: client/replica_conn.go,           *)
(* client/connection_generation.go and client/replica_responses.go.        *)
(*                                                                         *)
(* A replica connection outlives its TCP sessions (generations): its       *)
(* manager dials, runs one generation with a sender and a receiver, and    *)
(* dials again.  Requests wait in one queue.  A request that expects a     *)
(* response is in the pending map until somebody removes it and sends its  *)
(* result: the worker that takes responses from a ring, the caller that    *)
(* times out or gives up, or Close.  A caller collects the results of its  *)
(* requests in a pooled collector (replicaResponses).                      *)
(*                                                                         *)
(* One pending shard stands for the sixteen of the code.                   *)
(***************************************************************************)
EXTENDS Naturals, FiniteSets, Sequences

CONSTANTS
  Replicas,
  Callers,       \* operations in flight: Acquire, Renew or a healing batch, with
                 \* the goroutine that collects their remaining results
  ReqCapacity,   \* reqQueueCapacity, 4096 in the code
  RespCapacity,  \* responseQueueCapacity, 512 in the code
  MaxCalls,      \* bound: operations of one caller
  MaxSessions    \* bound: TCP sessions of one replica

ASSUME ReplicaConnAssumption ==
  /\ ReqCapacity \in Nat \ {0} /\ RespCapacity \in Nat \ {0}
  /\ MaxCalls \in Nat /\ MaxSessions \in Nat

Sessions == 1..MaxSessions
NoSession == 0

\* The kinds of request: a "call" expects a response, a "release" does not.
\* nextRequestID gives every request its own number.
Requests == Callers \X (1..MaxCalls) \X Replicas \X {"call", "release"}
Collectors == Callers  \* as many as are ever in use at the same time
Entries == Requests \X Collectors
NoEntry == <<>>

VARIABLES
  done,        \* replicas whose replicaConn.ctx is done
  closed,      \* replicas whose replicaConn.closed is set
  closePc,     \* where Close is
  closing,     \* the generation Close terminates
  managerPc,   \* where manage is
  session,     \* the latest generation of manage
  generation,  \* replicaConn.generation
  live,        \* generations that are not terminated
  sender,      \* sendRequests of a generation: "off", "take", or the request it took
  receiver,    \* generations whose receiveResponses runs
  queue,       \* reqQueue
  wire,        \* requests a generation has sent, not answered yet
  ring,        \* pendingShard.responses
  worker,      \* completeResponses runs
  inHand,      \* the entry completeResponses removed from pending and has not sent
  pending,     \* pendingShard.pending: request and the collector it answers to
  nilMap,      \* replicas whose pendingShard.pending is nil
  failing,     \* entries failPending removed from pending and has not sent
  callerPc,    \* where a caller is
  calls,       \* operations it has begun
  collector,   \* its replicaResponses
  todo,        \* the replicas it has still to submit to
  pool,        \* replicaResponsesPool
  waits,       \* replicaResponses.waits, as a set of requests
  results      \* replicaResponses.results

lifeVars == <<done, closed, closePc, closing>>
managerVars == <<managerPc, session, generation>>
wireVars == <<sender, receiver, wire>>
pendingVars == <<pending, nilMap, failing>>
\* What no caller writes.
connVars == <<lifeVars, managerVars, live, wireVars, ring, worker, inHand>>
callerVars == <<callerPc, calls, collector, todo, pool>>
vars == <<lifeVars, managerVars, live, wireVars, queue, ring, worker, inHand,
          pendingVars, callerVars, waits, results>>

\* The type of every variable.
TypeOK ==
  /\ done \subseteq Replicas /\ closed \subseteq Replicas
  /\ nilMap \subseteq Replicas /\ worker \subseteq Replicas
  /\ closePc \in [Replicas -> {"open", "mark", "terminate", "manager", "fail", "worker",
                               "discard", "done"}]
  /\ managerPc \in [Replicas -> {"dial", "publish", "run", "close", "done"}]
  /\ session \in [Replicas -> Sessions \cup {NoSession}]
  /\ generation \in [Replicas -> Sessions \cup {NoSession}]
  /\ closing \in [Replicas -> Sessions \cup {NoSession}]
  /\ live \in [Replicas -> SUBSET Sessions] /\ receiver \in [Replicas -> SUBSET Sessions]
  /\ sender \in [Replicas -> [Sessions -> {<<"off">>, <<"take">>} \cup Requests]]
  /\ wire \in [Replicas -> [Sessions -> SUBSET Requests]]
  /\ \A r \in Replicas :
       /\ queue[r] \in Seq(Requests) /\ Len(queue[r]) <= ReqCapacity
       /\ ring[r] \in Seq(Requests) /\ Len(ring[r]) <= RespCapacity
  /\ pending \in [Replicas -> SUBSET Entries] /\ failing \in [Replicas -> SUBSET Entries]
  /\ inHand \in [Replicas -> Entries \cup {NoEntry}]
  /\ callerPc \in [Callers -> {"idle", "submit", "wait", "expired", "abort", "release"}]
  /\ calls \in [Callers -> 0..MaxCalls] /\ collector \in [Callers -> Collectors]
  /\ todo \in [Callers -> SUBSET Replicas] /\ pool \subseteq Collectors
  /\ waits \in [Collectors -> SUBSET Requests] /\ results \in [Collectors -> SUBSET Requests]

Init ==
  /\ done = {} /\ closed = {} /\ nilMap = {} /\ worker = Replicas
  /\ closePc = [r \in Replicas |-> "open"] /\ closing = [r \in Replicas |-> NoSession]
  /\ managerPc = [r \in Replicas |-> "dial"]
  /\ session = [r \in Replicas |-> NoSession] /\ generation = [r \in Replicas |-> NoSession]
  /\ live = [r \in Replicas |-> {}] /\ receiver = [r \in Replicas |-> {}]
  /\ sender = [r \in Replicas |-> [s \in Sessions |-> <<"off">>]]
  /\ wire = [r \in Replicas |-> [s \in Sessions |-> {}]]
  /\ queue = [r \in Replicas |-> <<>>] /\ ring = [r \in Replicas |-> <<>>]
  /\ pending = [r \in Replicas |-> {}] /\ failing = [r \in Replicas |-> {}]
  /\ inHand = [r \in Replicas |-> NoEntry]
  /\ callerPc = [c \in Callers |-> "idle"] /\ calls = [c \in Callers |-> 0]
  /\ collector = [c \in Callers |-> c] /\ todo = [c \in Callers |-> {}]
  /\ pool = Collectors
  /\ waits = [k \in Collectors |-> {}] /\ results = [k \in Collectors |-> {}]

CallerGoto(c, label) == callerPc' = [callerPc EXCEPT ![c] = label]
ManagerGoto(r, label) == managerPc' = [managerPc EXCEPT ![r] = label]
CloseGoto(r, label) == closePc' = [closePc EXCEPT ![r] = label]

\* terminate: closes done and the TCP connection, whoever comes first.
Terminate(r, s) == live' = [live EXCEPT ![r] = @ \ {s}]

\* workers.Wait of a generation returns once both of its goroutines have ended.
WorkersDone(r, s) == sender[r][s] = <<"off">> /\ s \notin receiver[r]

\* The channel send that ends the wait of an entry.
Send(e) == results' = [results EXCEPT ![e[2]] = @ \cup {e[1]}]

-----------------------------------------------------------------------------
(* The caller: replica_responses.go, driven by Acquire, Renew and healReplicas. *)

\* acquireReplicaResponses; Acquire and Renew submit to every replica, a healing
\* batch to the unconfirmed ones.
Begin(c) ==
  /\ callerPc[c] = "idle" /\ calls[c] < MaxCalls
  /\ \E k \in pool, R \in SUBSET Replicas \ {{}} :
       /\ collector' = [collector EXCEPT ![c] = k]
       /\ pool' = pool \ {k}
       /\ todo' = [todo EXCEPT ![c] = R]
  /\ calls' = [calls EXCEPT ![c] = @ + 1]
  /\ CallerGoto(c, "submit")
  /\ UNCHANGED <<connVars, queue, pendingVars, waits, results>>

\* Mutation of Accepts: does not look at the connection's context.
AcceptsWhenDone(r) == Len(queue[r]) < ReqCapacity

\* Under the shard's mutex: a done connection takes nothing more, nor does a full queue.
Accepts(r) == r \notin done /\ Len(queue[r]) < ReqCapacity

\* submit and submitForOperation: the wait begins only when the queue took the request.
Submit(c) ==
  /\ callerPc[c] = "submit"
  /\ \E r \in todo[c] :
       LET i == <<c, calls[c], r, "call">> IN
       /\ todo' = [todo EXCEPT ![c] = @ \ {r}]
       /\ IF Accepts(r)
            THEN /\ pending' = [pending EXCEPT ![r] = @ \cup {<<i, collector[c]>>}]
                 /\ queue' = [queue EXCEPT ![r] = Append(@, i)]
                 /\ waits' = [waits EXCEPT ![collector[c]] = @ \cup {i}]
            ELSE UNCHANGED <<pending, queue, waits>>
  /\ UNCHANGED <<connVars, nilMap, failing, callerPc, calls, collector, pool, results>>

\* The operation's context is done: the submits that are left return its error.
SubmitCanceled(c) ==
  /\ callerPc[c] = "submit" /\ todo[c] # {}
  /\ todo' = [todo EXCEPT ![c] = {}]
  /\ UNCHANGED <<connVars, queue, pendingVars, callerPc, calls, collector, pool, waits, results>>

Submitted(c) ==
  /\ callerPc[c] = "submit" /\ todo[c] = {}
  /\ CallerGoto(c, "wait")
  /\ UNCHANGED <<connVars, queue, pendingVars, calls, collector, todo, pool, waits, results>>

\* Mutation of CompleteAll: sends without looking the request up.
CompleteUnchecked(k, I) ==
  /\ pending' = [r \in Replicas |-> {e \in pending[r] : e[1] \notin I}]
  /\ results' = [results EXCEPT ![k] = @ \cup I]

\* complete, for the requests I of one collector: whoever removes the entry from
\* pending sends the result, nobody else does.
CompleteAll(k, I) ==
  LET mine == {i \in I : <<i, k>> \in pending[i[3]]} IN
  /\ pending' = [r \in Replicas |-> {e \in pending[r] : e[1] \notin mine}]
  /\ results' = [results EXCEPT ![k] = @ \cup mine]

\* consume: clears the wait of a result.
Consume(c) ==
  LET k == collector[c] IN
  \E i \in results[k] :
    /\ results' = [results EXCEPT ![k] = @ \ {i}]
    /\ waits' = [waits EXCEPT ![k] = @ \ {i}]

\* next takes a result; so does abort while results are outstanding.
Receive(c) ==
  /\ callerPc[c] \in {"wait", "expired", "abort"}
  /\ Consume(c)
  /\ CallerGoto(c, IF callerPc[c] = "expired" THEN "wait" ELSE callerPc[c])
  /\ UNCHANGED <<connVars, queue, pendingVars, calls, collector, todo, pool>>

\* Mutation of Expire: only waits of connected replicas have a timeout.
ExpireConnected(c) ==
  /\ callerPc[c] = "wait"
  /\ \E I \in SUBSET {i \in waits[collector[c]] : generation[i[3]] # NoSession} \ {{}} :
       CompleteAll(collector[c], I)
  /\ CallerGoto(c, "expired")
  /\ UNCHANGED <<connVars, queue, nilMap, failing, calls, collector, todo, pool, waits>>

\* expireResponses: some waits are past their expiry; next then takes a result
\* and does nothing else before it has one.
Expire(c) ==
  /\ callerPc[c] = "wait"
  /\ \E I \in SUBSET waits[collector[c]] \ {{}} : CompleteAll(collector[c], I)
  /\ CallerGoto(c, "expired")
  /\ UNCHANGED <<connVars, queue, nilMap, failing, calls, collector, todo, pool, waits>>

\* abort: the caller's context is done, the lease is released, or Acquire cannot
\* reach its quorum any more.
Abort(c) ==
  /\ callerPc[c] = "wait"
  /\ CompleteAll(collector[c], waits[collector[c]])
  /\ CallerGoto(c, "abort")
  /\ UNCHANGED <<connVars, queue, nilMap, failing, calls, collector, todo, pool, waits>>

\* A failed Acquire goes on to releaseAll once abort has drained its results.
Aborted(c) ==
  /\ callerPc[c] = "abort" /\ waits[collector[c]] = {}
  /\ todo' = [todo EXCEPT ![c] = Replicas]
  /\ CallerGoto(c, "release")
  /\ UNCHANGED <<connVars, queue, pendingVars, calls, collector, pool, waits, results>>

\* submitNoResponse: one attempt on each replica.
SubmitRelease(c) ==
  /\ callerPc[c] = "release"
  /\ \E r \in todo[c] :
       /\ todo' = [todo EXCEPT ![c] = @ \ {r}]
       /\ queue' = [queue EXCEPT ![r] =
                      IF Accepts(r) THEN Append(@, <<c, calls[c], r, "release">>) ELSE @]
  /\ UNCHANGED <<connVars, pendingVars, callerPc, calls, collector, pool, waits, results>>

\* The operation is over: every wait has had its result.
Drained(c) ==
  \/ callerPc[c] \in {"wait", "abort"} /\ waits[collector[c]] = {}
  \/ callerPc[c] = "release" /\ todo[c] = {}

\* release: the collector goes back to the pool.
Finish(c) ==
  /\ Drained(c)
  /\ pool' = pool \cup {collector[c]}
  /\ CallerGoto(c, "idle")
  /\ UNCHANGED <<connVars, queue, pendingVars, calls, collector, todo, waits, results>>

Caller(c) ==
  \/ Begin(c) \/ Submit(c) \/ SubmitCanceled(c) \/ Submitted(c)
  \/ Receive(c) \/ Expire(c) \/ Abort(c) \/ Aborted(c) \/ SubmitRelease(c) \/ Finish(c)
-----------------------------------------------------------------------------
(* A generation: connection_generation.go. *)

\* sendRequests, at TryDequeue: takes the next request, or ends when the
\* generation is terminated.  It looks at done before the request is taken, so
\* one more request may be taken after the termination.
SenderTakes(r, s) ==
  /\ sender[r][s] = <<"take">> /\ queue[r] # <<>>
  /\ sender' = [sender EXCEPT ![r][s] = Head(queue[r])]
  /\ queue' = [queue EXCEPT ![r] = Tail(@)]
  /\ UNCHANGED <<lifeVars, managerVars, live, receiver, wire, ring, worker, inHand, pendingVars,
                 callerVars, waits, results>>

\* BufferFrame, and Flush once the queue is empty; a request in hand when the
\* generation is terminated is lost.
SenderWrites(r, s) ==
  /\ sender[r][s] \in Requests /\ s \in live[r]
  /\ wire' = [wire EXCEPT ![r][s] = @ \cup {sender[r][s]}]
  /\ sender' = [sender EXCEPT ![r][s] = <<"take">>]
  /\ UNCHANGED <<lifeVars, managerVars, live, receiver, queue, ring, worker, inHand, pendingVars,
                 callerVars, waits, results>>

SenderEnds(r, s) ==
  /\ sender[r][s] # <<"off">> /\ s \notin live[r]
  /\ sender' = [sender EXCEPT ![r][s] = <<"off">>]
  /\ UNCHANGED <<lifeVars, managerVars, live, receiver, wire, queue, ring, worker, inHand, pendingVars,
                 callerVars, waits, results>>

\* A write or a flush fails: the sender terminates the generation and ends.
SenderFails(r, s) ==
  /\ sender[r][s] # <<"off">> /\ s \in live[r]
  /\ sender' = [sender EXCEPT ![r][s] = <<"off">>]
  /\ Terminate(r, s)
  /\ UNCHANGED <<lifeVars, managerVars, receiver, wire, queue, ring, worker, inHand, pendingVars,
                 callerVars, waits, results>>

\* receiveResponses: the server answers in any order.  The reader retries a full
\* ring until there is room or the generation is terminated.
ReceiverTakes(r, s) ==
  /\ s \in receiver[r] /\ Len(ring[r]) < RespCapacity
  /\ \E i \in wire[r][s] :
       /\ wire' = [wire EXCEPT ![r][s] = @ \ {i}]
       /\ ring' = [ring EXCEPT ![r] = Append(@, i)]
  /\ UNCHANGED <<lifeVars, managerVars, live, sender, receiver, queue, worker, inHand, pendingVars,
                 callerVars, waits, results>>

\* The connection breaks, or was closed under the reader: what was sent is lost.
ReceiverEnds(r, s) ==
  /\ s \in receiver[r]
  /\ receiver' = [receiver EXCEPT ![r] = @ \ {s}]
  /\ wire' = [wire EXCEPT ![r][s] = {}]
  /\ Terminate(r, s)
  /\ UNCHANGED <<lifeVars, managerVars, sender, queue, ring, worker, inHand, pendingVars,
                 callerVars, waits, results>>

\* completeResponses and completeInShard: a response whose request is not pending
\* any more is dropped.
WorkerTakes(r) ==
  /\ r \in worker /\ inHand[r] = NoEntry /\ ring[r] # <<>>
  /\ ring' = [ring EXCEPT ![r] = Tail(@)]
  /\ LET found == {e \in pending[r] : e[1] = Head(ring[r])} IN
       /\ pending' = [pending EXCEPT ![r] = @ \ found]
       /\ inHand' = [inHand EXCEPT ![r] = IF found = {} THEN NoEntry ELSE CHOOSE e \in found : TRUE]
  /\ UNCHANGED <<lifeVars, managerVars, live, wireVars, queue, worker, nilMap, failing,
                 callerVars, waits, results>>

WorkerSends(r) ==
  /\ inHand[r] # NoEntry
  /\ Send(inHand[r])
  /\ inHand' = [inHand EXCEPT ![r] = NoEntry]
  /\ UNCHANGED <<lifeVars, managerVars, live, wireVars, queue, ring, worker, pendingVars,
                 callerVars, waits>>

WorkerEnds(r) ==
  /\ r \in worker /\ inHand[r] = NoEntry /\ ring[r] = <<>> /\ r \in done
  /\ worker' = worker \ {r}
  /\ UNCHANGED <<lifeVars, managerVars, live, wireVars, queue, ring, inHand, pendingVars,
                 callerVars, waits, results>>

-----------------------------------------------------------------------------
(* manage: replica_conn.go. *)

\* What the manager writes only when it opens a generation.
dataVars == <<lifeVars, wireVars, queue, ring, worker, inHand, pendingVars, callerVars,
              waits, results>>

\* open succeeds and newConnectionGeneration starts the two goroutines.  A dial
\* that fails and its backoff change nothing.
Open(r) ==
  /\ managerPc[r] = "dial" /\ session[r] < MaxSessions
  /\ LET s == session[r] + 1 IN
       /\ session' = [session EXCEPT ![r] = s]
       /\ live' = [live EXCEPT ![r] = @ \cup {s}]
       /\ sender' = [sender EXCEPT ![r][s] = <<"take">>]
       /\ receiver' = [receiver EXCEPT ![r] = @ \cup {s}]
  /\ ManagerGoto(r, "publish")
  /\ UNCHANGED <<lifeVars, generation, wire, queue, ring, worker, inHand, pendingVars,
                 callerVars, waits, results>>

\* publish: a closed connection gets no new generation, and manage returns once
\* it has closed the one it opened.
Publish(r) ==
  /\ managerPc[r] = "publish"
  /\ IF r \in closed
       THEN /\ ManagerGoto(r, "close") /\ Terminate(r, session[r])
            /\ UNCHANGED generation
       ELSE /\ ManagerGoto(r, "run") /\ generation' = [generation EXCEPT ![r] = session[r]]
            /\ UNCHANGED live
  /\ UNCHANGED <<dataVars, session>>

\* The generation is terminated or the context is done: clear, then Close.
SessionOver(r) ==
  /\ managerPc[r] = "run"
  /\ session[r] \notin live[r] \/ r \in done
  /\ generation' = [generation EXCEPT ![r] = IF @ = session[r] THEN NoSession ELSE @]
  /\ Terminate(r, session[r])
  /\ ManagerGoto(r, "close")
  /\ UNCHANGED <<dataVars, session>>

\* Mutation of SessionClosed: does not wait for the goroutines of the generation.
SessionTerminated(r) == session[r] \notin live[r]

\* generation.Close returns.
SessionClosed(r) == WorkersDone(r, session[r])

\* manage returns when the context is done, and dials again otherwise.
Redial(r) ==
  /\ managerPc[r] = "close" /\ SessionClosed(r)
  /\ ManagerGoto(r, IF r \in done THEN "done" ELSE "dial")
  /\ UNCHANGED <<dataVars, session, generation, live>>

\* Mutation of ManagerEnds: dials again although the wait was cut short.
ManagerKeepsDialing(r) == managerPc[r] = "dial" /\ r \in done /\ UNCHANGED vars

\* A dial or a backoff is cut short by the context.
ManagerEnds(r) ==
  /\ managerPc[r] = "dial" /\ r \in done
  /\ ManagerGoto(r, "done")
  /\ UNCHANGED <<dataVars, session, generation, live>>
-----------------------------------------------------------------------------
(* Close: replica_conn.go and client.go. *)

\* Client.Close closes one replica after the other; cancel comes first.
CloseCancel(r) ==
  /\ closePc[r] = "open"
  /\ \A q \in Replicas : closePc[q] \in {"open", "done"}
  /\ done' = done \cup {r}
  /\ CloseGoto(r, "mark")
  /\ UNCHANGED <<closed, closing, managerVars, live, wireVars, queue, ring, worker, inHand,
                 pendingVars, callerVars, waits, results>>

\* markClosed takes the published generation away.
CloseMark(r) ==
  /\ closePc[r] = "mark"
  /\ closed' = closed \cup {r}
  /\ closing' = [closing EXCEPT ![r] = generation[r]]
  /\ generation' = [generation EXCEPT ![r] = NoSession]
  /\ CloseGoto(r, "terminate")
  /\ UNCHANGED <<done, managerPc, session, live, wireVars, queue, ring, worker, inHand,
                 pendingVars, callerVars, waits, results>>

CloseTerminate(r) ==
  /\ closePc[r] = "terminate"
  /\ Terminate(r, closing[r])
  /\ CloseGoto(r, "manager")
  /\ UNCHANGED <<done, closed, closing, managerVars, wireVars, queue, ring, worker, inHand,
                 pendingVars, callerVars, waits, results>>

\* generation.Close and manager.Wait have returned.
StoppedSending(r) ==
  /\ closing[r] # NoSession => WorkersDone(r, closing[r])
  /\ managerPc[r] = "done"

\* failPending empties the pending map under the mutex, for good.
CloseFailPending(r) ==
  /\ closePc[r] = "manager" /\ StoppedSending(r)
  /\ failing' = [failing EXCEPT ![r] = pending[r]]
  /\ pending' = [pending EXCEPT ![r] = {}]
  /\ nilMap' = nilMap \cup {r}
  /\ CloseGoto(r, "fail")
  /\ UNCHANGED <<done, closed, closing, managerVars, live, wireVars, queue, ring, worker, inHand,
                 callerVars, waits, results>>

\* It then sends a result for each entry that was left.
CloseSend(r) ==
  /\ closePc[r] = "fail"
  /\ \E e \in failing[r] :
       /\ failing' = [failing EXCEPT ![r] = @ \ {e}]
       /\ Send(e)
  /\ UNCHANGED <<lifeVars, managerVars, live, wireVars, queue, ring, worker, inHand,
                 pending, nilMap, callerVars, waits>>

CloseSent(r) ==
  /\ closePc[r] = "fail" /\ failing[r] = {}
  /\ CloseGoto(r, "worker")
  /\ UNCHANGED <<done, closed, closing, managerVars, live, wireVars, queue, ring, worker, inHand,
                 pendingVars, callerVars, waits, results>>

\* completionWorkers.Wait returns.
CloseWorkersDone(r) ==
  /\ closePc[r] = "worker" /\ r \notin worker
  /\ CloseGoto(r, "discard")
  /\ UNCHANGED <<done, closed, closing, managerVars, live, wireVars, queue, ring, worker, inHand,
                 pendingVars, callerVars, waits, results>>

\* discardQueuedRequests, and Close returns.
CloseDiscard(r) ==
  /\ closePc[r] = "discard"
  /\ queue' = [queue EXCEPT ![r] = <<>>]
  /\ CloseGoto(r, "done")
  /\ UNCHANGED <<done, closed, closing, managerVars, live, wireVars, ring, worker, inHand,
                 pendingVars, callerVars, waits, results>>

CloseSteps(r) ==
  \/ CloseMark(r) \/ CloseTerminate(r) \/ CloseFailPending(r) \/ CloseSend(r)
  \/ CloseSent(r) \/ CloseWorkersDone(r) \/ CloseDiscard(r)

Next ==
  \/ \E c \in Callers : Caller(c)
  \/ \E r \in Replicas, s \in Sessions :
       \/ SenderTakes(r, s) \/ SenderWrites(r, s) \/ SenderEnds(r, s) \/ SenderFails(r, s)
       \/ ReceiverTakes(r, s) \/ ReceiverEnds(r, s)
  \/ \E r \in Replicas :
       \/ WorkerTakes(r) \/ WorkerSends(r) \/ WorkerEnds(r)
       \/ Open(r) \/ Publish(r) \/ SessionOver(r) \/ Redial(r) \/ ManagerEnds(r)
       \/ CloseCancel(r) \/ CloseSteps(r)

Spec == Init /\ [][Next]_vars

\* Goroutines run: a caller whose timers fire, the completion worker, Close once it
\* has begun, and what a terminated generation and a done context set in motion.
\* Nothing is assumed of the network: a dial may never succeed, a request may never
\* be written and a response may never come.
FairSpec ==
  /\ Spec
  /\ \A c \in Callers :
       WF_vars(Submit(c) \/ Submitted(c) \/ Receive(c) \/ Expire(c) \/ Aborted(c)
               \/ SubmitRelease(c) \/ Finish(c))
  /\ \A r \in Replicas :
       /\ WF_vars(WorkerTakes(r) \/ WorkerSends(r) \/ WorkerEnds(r))
       /\ WF_vars(CloseSteps(r))
       /\ WF_vars(Publish(r) \/ SessionOver(r) \/ Redial(r) \/ ManagerEnds(r))
       /\ \A s \in Sessions :
            /\ WF_vars(SenderEnds(r, s))
            /\ WF_vars(s \notin live[r] /\ ReceiverEnds(r, s))

-----------------------------------------------------------------------------
(* Properties. *)

\* The places an entry of collector k can be on its way to a result.
Undecided(k) == {i \in Requests : \E r \in Replicas : <<i, k>> \in pending[r]}
Taken(k) == {i \in Requests : \E r \in Replicas : inHand[r] = <<i, k>>}
Failed(k) == {i \in Requests : \E r \in Replicas : <<i, k>> \in failing[r]}

\* Every wait of a collector gets exactly one result, whoever ends it: its request
\* is pending, removed by the worker or by Close and about to be sent, or in the
\* results channel, and in one of these places only; nothing else is on its way to
\* the collector.  Hence abort never blocks for a result that does not come, and the
\* panics "unexpected replica response" and "releasing active replica responses"
\* (also of a collector that is already used by another operation) are unreachable.
OneResultPerWait ==
  \A k \in Collectors :
    LET places == <<Undecided(k), Taken(k), Failed(k), results[k]>> IN
    /\ waits[k] = UNION {places[n] : n \in 1..4}
    /\ \A m, n \in 1..4 : m # n => places[m] \cap places[n] = {}
    /\ k \in pool => waits[k] = {}

\* Only one goroutine at a time takes requests from a replica's queue: the sender of
\* one generation, or Close when it discards them (the queue is a single-consumer ring).
OneConsumer ==
  /\ TypeOK
  /\ \A r \in Replicas :
       LET senders == {s \in Sessions : sender[r][s] # <<"off">>} IN
       /\ Cardinality(senders) <= 1
       /\ closePc[r] = "discard" => senders = {}

\* Once Close has returned the connection is dead for good: nothing is queued or
\* pending, no goroutine of it runs, nobody will see it as ready, and no submit has
\* written to the pending map that Close set to nil.
ClosedForGood ==
  \A r \in Replicas :
    /\ r \in nilMap => pending[r] = {}
    /\ closePc[r] = "done" =>
         /\ queue[r] = <<>> /\ failing[r] = {} /\ inHand[r] = NoEntry
         /\ \A s \in Sessions : WorkersDone(r, s) /\ s \notin live[r]
         /\ generation[r] = NoSession /\ r \notin worker

\* An operation ends: it has a result for every request although the network may
\* lose any of them, because each wait has its timeout.
EveryCallEnds == \A c \in Callers : callerPc[c] # "idle" ~> callerPc[c] = "idle"

\* Close returns, whatever the connection, its manager and the callers are doing.
CloseEnds == \A r \in Replicas : closePc[r] = "mark" ~> closePc[r] = "done"
=============================================================================
