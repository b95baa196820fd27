------------------------------ MODULE MPSCRing ------------------------------
(***************************************************************************)
(* internal/mpscring: the lock-free ring with which connection readers     *)
(* feed the shard workers, shard workers the response writers, and clients *)
(* their connections.  Every atomic access to memory is a step of its own. *)
(* The producers call TryEnqueue until it succeeds, as dispatch and        *)
(* enqueueResponse do; TryStartEnqueue and FinishEnqueue take the same     *)
(* steps.  The consumer drains the ring and then waits on Ready, as        *)
(* runShard does; TryStartDequeue and FinishDequeue take the same steps.   *)
(* Positions are 64-bit counters that do not wrap in practice.             *)
(***************************************************************************)
EXTENDS Naturals, Sequences

CONSTANTS
  Producers,
  Capacity,   \* a power of two, at least 2
  MaxValues   \* bound: values put in by one producer

ASSUME RingAssumption == Capacity \in Nat \ {0, 1} /\ MaxValues \in Nat

VARIABLES
  head, tail,  \* ring.head and ring.tail
  sequence,    \* slot.sequence
  value,       \* slot.value
  ready,       \* a wakeup is in the channel NotifyingRing.ready
  ppc,         \* where a producer is in TryEnqueue
  position,    \* its local position
  puts,        \* values a producer has claimed a slot for
  cpc,         \* where the consumer is
  current,     \* the value it has read
  taken        \* the values it has been given

ringVars == <<head, tail, sequence, value, ready>>
producerVars == <<ppc, position, puts>>
consumerVars == <<cpc, current, taken>>
vars == <<ringVars, producerVars, consumerVars>>

Zero == <<>>  \* the zero value of a slot
Values == Producers \X (1..MaxValues)
Slot(i) == i % Capacity

Init ==
  /\ head = 0 /\ tail = 0
  /\ sequence = [i \in 0..Capacity - 1 |-> i]
  /\ value = [i \in 0..Capacity - 1 |-> Zero]
  /\ ready = FALSE
  /\ ppc = [p \in Producers |-> "tail"]
  /\ position = [p \in Producers |-> 0]
  /\ puts = [p \in Producers |-> 0]
  /\ cpc = "sequence" /\ current = Zero /\ taken = <<>>

Goto(p, label) == ppc' = [ppc EXCEPT ![p] = label]

-----------------------------------------------------------------------------
(* A producer: tryEnqueue, then the wakeup of NotifyingRing.TryEnqueue. *)

LoadTail(p) ==
  /\ ppc[p] = "tail" /\ puts[p] < MaxValues
  /\ position' = [position EXCEPT ![p] = tail]
  /\ Goto(p, "sequence")
  /\ UNCHANGED <<ringVars, puts, consumerVars>>

\* Mutation of LoadSequence: takes a slot in use one lap behind for a free one.
LoadSequenceLoose(p) ==
  /\ ppc[p] = "sequence"
  /\ Goto(p, IF sequence[Slot(position[p])] <= position[p] THEN "cas" ELSE "tail")
  /\ UNCHANGED <<ringVars, position, puts, consumerVars>>

\* Mutation of LoadSequence: gives up on any slot that is not free.
LoadSequenceEager(p) ==
  /\ ppc[p] = "sequence"
  /\ Goto(p, IF sequence[Slot(position[p])] = position[p] THEN "cas" ELSE "full")
  /\ UNCHANGED <<ringVars, position, puts, consumerVars>>

\* The slot is free, or still in use one lap behind (the ring is full), or taken
\* by a producer that was faster.
LoadSequence(p) ==
  LET s == sequence[Slot(position[p])]
  IN  /\ ppc[p] = "sequence"
      /\ \/ s = position[p] /\ Goto(p, "cas")
         \/ s < position[p] /\ Goto(p, "full")
         \/ s > position[p] /\ Goto(p, "tail")
      /\ UNCHANGED <<ringVars, position, puts, consumerVars>>

\* TryEnqueue returned false: dispatch and enqueueResponse yield and try again.
Retry(p) ==
  /\ ppc[p] = "full"
  /\ Goto(p, "tail")
  /\ UNCHANGED <<ringVars, position, puts, consumerVars>>

\* The slot belongs to the producer whose exchange succeeds.
CompareAndSwapTail(p) ==
  /\ ppc[p] = "cas"
  /\ \/ /\ tail = position[p]
        /\ tail' = tail + 1
        /\ puts' = [puts EXCEPT ![p] = @ + 1]
        /\ Goto(p, "write")
     \/ /\ tail # position[p]
        /\ Goto(p, "tail")
        /\ UNCHANGED <<tail, puts>>
  /\ UNCHANGED <<head, sequence, value, ready, position, consumerVars>>

WriteValue(p) ==
  /\ ppc[p] = "write"
  /\ value' = [value EXCEPT ![Slot(position[p])] = <<p, puts[p]>>]
  /\ Goto(p, "publish")
  /\ UNCHANGED <<head, tail, sequence, ready, position, puts, consumerVars>>

\* Mutation of PublishSequence: forgets the wakeup.
PublishWithoutSignal(p) ==
  /\ ppc[p] = "publish"
  /\ sequence' = [sequence EXCEPT ![Slot(position[p])] = position[p] + 1]
  /\ Goto(p, "tail")
  /\ UNCHANGED <<head, tail, value, ready, position, puts, consumerVars>>

PublishSequence(p) ==
  /\ ppc[p] = "publish"
  /\ sequence' = [sequence EXCEPT ![Slot(position[p])] = position[p] + 1]
  /\ Goto(p, "signal")
  /\ UNCHANGED <<head, tail, value, ready, position, puts, consumerVars>>

\* The non-blocking send to the channel of capacity one.
Signal(p) ==
  /\ ppc[p] = "signal"
  /\ ready' = TRUE
  /\ Goto(p, "tail")
  /\ UNCHANGED <<head, tail, sequence, value, position, puts, consumerVars>>

-----------------------------------------------------------------------------
(* The consumer: tryDequeue, and the wait for Ready when the ring is empty. *)

\* Only the consumer writes head, so loading it is not a step of its own.
CheckHead ==
  /\ cpc = "sequence"
  /\ cpc' = IF sequence[Slot(head)] = head + 1 THEN "read" ELSE "wait"
  /\ UNCHANGED <<ringVars, producerVars, current, taken>>

ReadValue ==
  /\ cpc = "read"
  /\ current' = value[Slot(head)]
  /\ value' = [value EXCEPT ![Slot(head)] = Zero]
  /\ cpc' = "head"
  /\ UNCHANGED <<head, tail, sequence, ready, producerVars, taken>>

StoreHead ==
  /\ cpc = "head"
  /\ head' = head + 1
  /\ taken' = Append(taken, current)
  /\ cpc' = "release"
  /\ UNCHANGED <<tail, sequence, value, ready, producerVars, current>>

\* The slot is free for the producer one lap ahead.
ReleaseSlot ==
  /\ cpc = "release"
  /\ sequence' = [sequence EXCEPT ![Slot(head - 1)] = head - 1 + Capacity]
  /\ cpc' = "sequence"
  /\ UNCHANGED <<head, tail, value, ready, producerVars, current, taken>>

WaitReady ==
  /\ cpc = "wait" /\ ready
  /\ ready' = FALSE
  /\ cpc' = "sequence"
  /\ UNCHANGED <<head, tail, sequence, value, producerVars, current, taken>>

-----------------------------------------------------------------------------
Produce(p) ==
  \/ LoadTail(p) \/ LoadSequence(p) \/ Retry(p) \/ CompareAndSwapTail(p)
  \/ WriteValue(p) \/ PublishSequence(p) \/ Signal(p)

Consume == CheckHead \/ ReadValue \/ StoreHead \/ ReleaseSlot \/ WaitReady

Next == Consume \/ \E p \in Producers : Produce(p)

Spec == Init /\ [][Next]_vars

\* Every goroutine that can run is run eventually by the Go scheduler.
FairSpec == Spec /\ WF_vars(Consume) /\ \A p \in Producers : WF_vars(Produce(p))

-----------------------------------------------------------------------------
\* The value claimed for position i: written already, or about to be.
ClaimedValue(i) ==
  IF \E p \in Producers : ppc[p] = "write" /\ position[p] = i
    THEN LET p == CHOOSE p \in Producers : ppc[p] = "write" /\ position[p] = i
         IN  <<p, puts[p]>>
    ELSE IF cpc = "head" /\ i = head THEN current ELSE value[Slot(i)]

Queue == INSTANCE BoundedQueue WITH
  queue <- [i \in 1..tail - head |-> ClaimedValue(head + i - 1)]

\* The ring is a bounded FIFO: a value enters when its producer wins the tail
\* (CompareAndSwap in tryEnqueue) and leaves when the consumer stores head, once
\* and in order, however the producers interleave.
ImplementsQueue == Queue!Spec

\* TryEnqueue reports a full ring only if all slots were claimed when it looked
\* at the slot, the one the consumer is just releasing included.
RejectedOnlyWhenFull ==
  [][\A p \in Producers : ppc[p] = "sequence" /\ ppc'[p] = "full" =>
       tail - head = Capacity \/ (tail - head = Capacity - 1 /\ cpc = "release")]_vars

\* Nothing is left in the ring with the consumer asleep: the wakeups of
\* NotifyingRing, which coalesce, lose no value.
EverythingTaken == <>(\A p \in Producers : \E i \in 1..Len(taken) : taken[i] = <<p, MaxValues>>)
=============================================================================
