--------------------------- MODULE MPSCRing_proofs ---------------------------
(***************************************************************************)
(* The ring implements the bounded FIFO, and reports itself full only when *)
(* it is, for any number of producers and values and any capacity.         *)
(*                                                                         *)
(* The positions in use form a window of Capacity positions that begins at *)
(* the first one not released.  Two of them never share a slot, and the    *)
(* slot of position i carries the sequence i (free, or claimed and not yet *)
(* published) or i + 1 (published).  The claims of the producers and the   *)
(* place of the consumer say which of the two.                             *)
(***************************************************************************)
EXTENDS MPSCRing, SequenceTheorems, TLAPS

\* Most leaves are first-order reasoning; the ones that need arithmetic, functions or
\* sequences cite SMT.
USE Zenon

-----------------------------------------------------------------------------
(* The inductive invariant. *)

Contents == Values \cup {Zero}

RingTyped ==
  /\ head \in Nat /\ tail \in Nat
  /\ sequence \in [0..Capacity - 1 -> Nat] /\ value \in [0..Capacity - 1 -> Contents]
  /\ ready \in BOOLEAN
  /\ ppc \in [Producers -> {"tail", "sequence", "cas", "full", "write", "publish", "signal"}]
  /\ position \in [Producers -> Nat] /\ puts \in [Producers -> 0..MaxValues]
  /\ cpc \in {"sequence", "read", "head", "release", "wait"}
  /\ current \in Contents /\ taken \in Seq(Contents)

\* A producer that looks for a slot has a value left; one that writes has counted it.
PutsBounded ==
  /\ \A p \in Producers : ppc[p] \in {"sequence", "cas"} => puts[p] < MaxValues
  /\ \A p \in Producers : ppc[p] = "write" => puts[p] > 0

\* The first position whose slot is not released yet, and the window from there.
Base == IF cpc = "release" THEN head - 1 ELSE head
Window == Base..Base + Capacity - 1

\* Between winning the tail and publishing, a producer owns its position.
Owns(p) == ppc[p] \in {"write", "publish"}

Bounds ==
  /\ Base \in Nat /\ head <= tail /\ tail <= Base + Capacity
  /\ \A n \in 0..Capacity - 1 : \E i \in Window : Slot(i) = n

Laps ==
  /\ \A i \in Window : sequence[Slot(i)] \in {i, i + 1}
  /\ \A i \in Window : i >= tail => sequence[Slot(i)] = i

Claims ==
  /\ \A p \in Producers : Owns(p) =>
       Base <= position[p] /\ position[p] < tail /\ sequence[Slot(position[p])] = position[p]
  /\ \A p, q \in Producers : Owns(p) /\ Owns(q) /\ position[p] = position[q] => p = q

Candidates ==
  /\ \A p \in Producers : ppc[p] \in {"sequence", "cas"} => position[p] <= tail
  /\ \A p \in Producers : ppc[p] = "cas" /\ position[p] = tail => tail < Base + Capacity

Consuming ==
  /\ cpc \in {"read", "head"} => head < tail
  /\ cpc \in {"read", "head", "release"} => sequence[Slot(Base)] = Base + 1

RingInv == RingTyped /\ PutsBounded /\ Bounds /\ Laps /\ Claims /\ Candidates /\ Consuming

-----------------------------------------------------------------------------
(* Positions and slots. *)

\* Division with remainder.
LEMMA Divided ==
  ASSUME NEW n \in Nat, n > 0, NEW i \in Nat
  PROVE  \E q \in Nat, r \in 0..n - 1 : r = i % n /\ i = n * q + r
<1>1. i \div n \in Nat
  BY SMT
<1>2. i % n \in 0..n - 1
  BY SMT
<1>3. i = n * (i \div n) + (i % n)
  BY SMT
<1> QED BY <1>1, <1>2, <1>3

\* The remainder is determined by such a decomposition.
LEMMA Remainder ==
  ASSUME NEW n \in Nat, NEW i \in Nat, NEW q \in Nat, NEW r \in Nat, r < n, i = n * q + r
  PROVE  i % n = r
BY SMT

\* Different multiples are at least one divisor apart.
LEMMA Multiples ==
  ASSUME NEW n \in Nat, NEW q \in Nat, NEW r \in Nat, q < r
  PROVE  n * r >= n * q + n
BY SMT

\* Every position has a slot.
LEMMA SlotRange == \A i \in Nat : Slot(i) \in 0..Capacity - 1
BY RingAssumption, SMT DEF Slot

\* The first lap goes through the slots in order.
LEMMA FirstLap == \A i \in 0..Capacity - 1 : Slot(i) = i
BY RingAssumption, SMT DEF Slot

\* A slot comes back one lap later.
LEMMA NextLap ==
  ASSUME NEW i \in Nat
  PROVE  Slot(i + Capacity) = Slot(i)
<1>1. Capacity \in Nat /\ Capacity > 0
  BY RingAssumption, SMT
<1>2. PICK q \in Nat, r \in 0..Capacity - 1 : r = i % Capacity /\ i = Capacity * q + r
  BY <1>1, Divided
<1>3. i + Capacity = Capacity * (q + 1) + r
  BY <1>1, <1>2, SMT
<1> QED BY <1>1, <1>2, <1>3, Remainder, SMT DEF Slot

\* Positions less than a lap apart have different slots.
LEMMA SlotsApart ==
  ASSUME NEW i \in Nat, NEW j \in Nat, i < j, j < i + Capacity
  PROVE  Slot(i) # Slot(j)
<1> SUFFICES ASSUME Slot(i) = Slot(j)
             PROVE  FALSE
  OBVIOUS
<1>1. Capacity \in Nat /\ Capacity > 0
  BY RingAssumption, SMT
<1>2. PICK q \in Nat, r \in 0..Capacity - 1 : r = i % Capacity /\ i = Capacity * q + r
  BY <1>1, Divided
<1>3. PICK k \in Nat, t \in 0..Capacity - 1 : t = j % Capacity /\ j = Capacity * k + t
  BY <1>1, Divided
<1> DEFINE a == Capacity * q
           b == Capacity * k
<1>4. a \in Nat /\ b \in Nat
  BY <1>1, SMT
<1>5. i = a + r /\ j = b + r
  BY <1>2, <1>3 DEF Slot
<1>6. q < k => b >= a + Capacity
  BY <1>1, Multiples
<1>7. k < q => a >= b + Capacity
  BY <1>1, Multiples
<1>8. q = k => a = b
  OBVIOUS
<1> HIDE DEF a, b
<1> QED BY <1>1, <1>4, <1>5, <1>6, <1>7, <1>8, SMT

\* The same for two positions of the window, in any order.
LEMMA WindowApart ==
  ASSUME RingTyped, Base \in Nat, NEW i \in Window, NEW j \in Window, i # j
  PROVE  Slot(i) # Slot(j)
<1>1. Capacity \in Nat
  BY RingAssumption, SMT
<1>2. i \in Nat /\ j \in Nat /\ i < j + Capacity /\ j < i + Capacity
  BY <1>1, SMT DEF Window
<1>3. i < j \/ j < i
  BY <1>2, SMT
<1> QED BY <1>2, <1>3, SlotsApart

-----------------------------------------------------------------------------
(* Every step keeps the invariant. *)

\* What a step needs to know of the numbers.
LEMMA Numbers ==
  ASSUME RingInv
  PROVE  /\ Capacity \in Nat /\ Capacity > 1 /\ MaxValues \in Nat
         /\ head \in Nat /\ tail \in Nat /\ head <= tail /\ tail <= Base + Capacity
         /\ Base \in Nat /\ Base <= head /\ head <= Base + 1
         /\ (cpc = "release" => head = Base + 1) /\ (cpc # "release" => head = Base)
         /\ \A p \in Producers : position[p] \in Nat
<1>1. RingTyped /\ Bounds
  BY DEF RingInv
<1>2. Capacity \in Nat /\ Capacity > 1 /\ MaxValues \in Nat
  BY RingAssumption, SMT
<1>3. head \in Nat /\ tail \in Nat /\ head <= tail /\ tail <= Base + Capacity /\ Base \in Nat
  BY <1>1 DEF RingTyped, Bounds
<1>4. \A p \in Producers : position[p] \in Nat
  BY <1>1 DEF RingTyped
<1> QED BY <1>2, <1>3, <1>4, SMT DEF Base

\* A producer's step keeps the types.
LEMMA ProducerTypes ==
  ASSUME RingInv, NEW p \in Producers, Produce(p)
  PROVE  RingTyped' /\ PutsBounded'
<1> DEFINE Labels == {"tail", "sequence", "cas", "full", "write", "publish", "signal"}
<1> USE DEF RingInv, ringVars, consumerVars, Goto
<1>0. RingTyped /\ puts[p] \in 0..MaxValues /\ MaxValues \in Nat
  BY Numbers DEF RingTyped
<1>1. CASE LoadTail(p)
  <2>1. position' \in [Producers -> Nat] /\ ppc' \in [Producers -> Labels]
    BY <1>0, <1>1, SMT DEF LoadTail, RingTyped
  <2>2. PutsBounded'
    BY <1>0, <1>1, SMT DEF LoadTail, RingTyped, PutsBounded
  <2> QED BY <1>1, <2>1, <2>2 DEF LoadTail, RingTyped
<1>2. CASE LoadSequence(p) \/ Retry(p) \/ Signal(p)
  <2>1. ppc' \in [Producers -> Labels] /\ ready' \in BOOLEAN
    BY <1>0, <1>2 DEF LoadSequence, Retry, Signal, RingTyped
  <2>2. /\ UNCHANGED puts /\ \A q \in Producers : q # p => ppc'[q] = ppc[q]
        /\ ppc'[p] = "cas" => ppc[p] = "sequence"
        /\ ppc'[p] \in {"cas", "full", "tail"}
    BY <1>0, <1>2 DEF LoadSequence, Retry, Signal, RingTyped
  <2>3. PutsBounded'
    BY <2>2 DEF PutsBounded
  <2> QED BY <1>2, <2>1, <2>3 DEF LoadSequence, Retry, Signal, RingTyped
<1>3. CASE CompareAndSwapTail(p)
  <2>1. puts[p] < MaxValues
    BY <1>3 DEF CompareAndSwapTail, PutsBounded
  <2>2. puts[p] + 1 \in 0..MaxValues /\ puts[p] + 1 > 0 /\ tail + 1 \in Nat
    BY <1>0, <2>1, Numbers, SMT
  <2>3. /\ ppc' \in [Producers -> Labels] /\ tail' \in Nat
        /\ puts' \in [Producers -> 0..MaxValues]
    BY <1>0, <1>3, <2>2 DEF CompareAndSwapTail, RingTyped
  <2>4. ppc'[p] \notin {"sequence", "cas"} /\ (ppc'[p] = "write" => puts'[p] > 0)
    BY <1>0, <1>3, <2>2 DEF CompareAndSwapTail, RingTyped
  <2>5. \A q \in Producers : q # p => ppc'[q] = ppc[q] /\ puts'[q] = puts[q]
    BY <1>0, <1>3 DEF CompareAndSwapTail, RingTyped
  <2>6. PutsBounded'
    BY <2>4, <2>5 DEF PutsBounded
  <2> QED BY <1>3, <2>3, <2>6 DEF CompareAndSwapTail, RingTyped
<1>4. CASE WriteValue(p)
  <2>1. puts[p] \in 1..MaxValues
    BY <1>0, <1>4, SMT DEF WriteValue, PutsBounded
  <2>2. <<p, puts[p]>> \in Contents
    BY <2>1, SMT DEF Contents, Values
  <2>3. value' \in [0..Capacity - 1 -> Contents] /\ ppc' \in [Producers -> Labels]
    BY <1>0, <1>4, <2>2 DEF WriteValue, RingTyped
  <2>4. PutsBounded'
    BY <1>0, <1>4, SMT DEF WriteValue, RingTyped, PutsBounded
  <2> QED BY <1>4, <2>3, <2>4 DEF WriteValue, RingTyped
<1>5. CASE PublishSequence(p)
  <2>1. position[p] + 1 \in Nat
    BY Numbers, SMT
  <2>2. sequence' \in [0..Capacity - 1 -> Nat] /\ ppc' \in [Producers -> Labels]
    BY <1>0, <1>5, <2>1 DEF PublishSequence, RingTyped
  <2>3. PutsBounded'
    BY <1>0, <1>5, SMT DEF PublishSequence, RingTyped, PutsBounded
  <2> QED BY <1>5, <2>2, <2>3 DEF PublishSequence, RingTyped
<1> QED BY <1>1, <1>2, <1>3, <1>4, <1>5 DEF Produce

\* So does a step of the consumer.
LEMMA ConsumerTypes ==
  ASSUME RingInv, Consume
  PROVE  RingTyped' /\ PutsBounded'
<1> USE DEF RingInv, ringVars, producerVars
<1>1. UNCHANGED producerVars /\ PutsBounded' /\ RingTyped
  BY DEF PutsBounded, Consume, CheckHead, ReadValue, StoreHead, ReleaseSlot, WaitReady
<1>2. CASE CheckHead \/ WaitReady
  BY <1>1, <1>2 DEF CheckHead, WaitReady, RingTyped
<1>3. CASE ReadValue
  <2>1. value[Slot(head)] \in Contents /\ Zero \in Contents
    BY <1>1, SlotRange DEF Contents, RingTyped
  <2> QED BY <1>1, <1>3, <2>1 DEF ReadValue, RingTyped
<1>4. CASE StoreHead
  <2>1. head' \in Nat /\ taken' \in Seq(Contents)
    BY <1>1, <1>4, SMT DEF StoreHead, RingTyped
  <2> QED BY <1>1, <1>4, <2>1 DEF StoreHead, RingTyped
<1>5. CASE ReleaseSlot
  <2>1. head - 1 + Capacity \in Nat
    BY <1>5, Numbers, SMT DEF ReleaseSlot
  <2> QED BY <1>1, <1>5, <2>1 DEF ReleaseSlot, RingTyped
<1> QED BY <1>1, <1>2, <1>3, <1>4, <1>5 DEF Consume

\* A step that moves neither the window nor a sequence keeps the window in order.
LEMMA WindowKept ==
  ASSUME RingInv, UNCHANGED <<head, tail, sequence>>, Base' = Base
  PROVE  Bounds' /\ Laps'
BY DEF RingInv, Bounds, Laps, Window

\* The steps of a producer that leave head, tail and the sequences alone.
LEMMA ProducerLooks ==
  ASSUME RingInv, NEW p \in Producers,
         LoadTail(p) \/ LoadSequence(p) \/ Retry(p) \/ WriteValue(p) \/ Signal(p)
  PROVE  Bounds' /\ Laps' /\ Claims' /\ Candidates' /\ Consuming'
<1> USE DEF RingInv, ringVars, consumerVars, Goto
<1>1. UNCHANGED <<head, tail, sequence, cpc>> /\ Base' = Base
  BY DEF LoadTail, LoadSequence, Retry, WriteValue, Signal, Base
<1>2. Bounds' /\ Laps'
  BY <1>1, WindowKept
<1>3. Consuming'
  BY <1>1 DEF Consuming
<1>4. \A q \in Producers : q # p => ppc'[q] = ppc[q] /\ position'[q] = position[q]
  BY SMT DEF LoadTail, LoadSequence, Retry, WriteValue, Signal, RingTyped
<1>5. Owns(p)' => Owns(p) /\ position'[p] = position[p]
  BY SMT DEF LoadTail, LoadSequence, Retry, WriteValue, Signal, RingTyped, Owns
<1>6. \A q \in Producers : Owns(q)' => Owns(q) /\ position'[q] = position[q]
  BY <1>4, <1>5 DEF Owns
<1>7. Claims'
  BY <1>1, <1>6 DEF Claims
<1>8. ppc'[p] \in {"sequence", "cas"} => position'[p] <= tail
  BY SMT DEF LoadTail, LoadSequence, Retry, WriteValue, Signal, RingTyped, Candidates
<1>9. ppc'[p] = "cas" /\ position'[p] = tail => tail < Base + Capacity
  <2> SUFFICES ASSUME ppc'[p] = "cas", position'[p] = tail
               PROVE  tail < Base + Capacity
    OBVIOUS
  <2>1. sequence[Slot(tail)] = tail
    BY SMT DEF LoadTail, LoadSequence, Retry, WriteValue, Signal, RingTyped
  <2>2. CASE tail = Base + Capacity
    <3>1. Slot(tail) = Slot(Base)
      BY <2>2, Numbers, NextLap
    <3>2. sequence[Slot(Base)] \in {Base, Base + 1}
      BY Numbers, SMT DEF Laps, Window
    <3> QED BY <2>1, <2>2, <3>1, <3>2, Numbers, SMT
  <2> QED BY <2>2, Numbers, SMT
<1>10. Candidates'
  BY <1>1, <1>4, <1>8, <1>9 DEF Candidates
<1> QED BY <1>2, <1>3, <1>7, <1>10

\* Winning the tail: the slot at the tail is free, and nobody else owns that position.
LEMMA ProducerClaims ==
  ASSUME RingInv, NEW p \in Producers, CompareAndSwapTail(p)
  PROVE  Bounds' /\ Laps' /\ Claims' /\ Candidates' /\ Consuming'
<1> USE DEF RingInv, consumerVars, Goto
<1>1. /\ UNCHANGED <<head, sequence, cpc, position>> /\ Base' = Base
      /\ \A q \in Producers : q # p => ppc'[q] = ppc[q]
  BY DEF CompareAndSwapTail, Base, RingTyped
<1>2. CASE tail # position[p]
  <2>1. tail' = tail /\ ppc'[p] = "tail"
    BY <1>2 DEF CompareAndSwapTail, RingTyped
  <2>2. Bounds' /\ Laps'
    BY <1>1, <2>1, WindowKept
  <2>3. Claims'
    BY <1>1, <2>1 DEF Claims, Owns
  <2> QED BY <1>1, <2>1, <2>2, <2>3 DEF Candidates, Consuming
<1>3. CASE tail = position[p]
  <2>1. tail' = tail + 1 /\ ppc'[p] = "write"
    BY <1>3 DEF CompareAndSwapTail, RingTyped
  <2>2. tail < Base + Capacity
    BY <1>3 DEF CompareAndSwapTail, Candidates
  <2>3. tail \in Window /\ tail' \in Nat /\ tail' <= Base + Capacity /\ tail < tail'
    BY <2>1, <2>2, Numbers, SMT DEF Window
  <2>4. \A n \in Nat : (n < tail => n < tail') /\ (n <= tail => n # tail') /\ (n <= tail => n <= tail')
    BY <2>1, Numbers, SMT
  <2>5. \A n \in Nat : n >= tail' => n >= tail
    BY <2>1, Numbers, SMT
  <2>6. Window \subseteq Nat
    BY Numbers, SMT DEF Window
  <2>7. head <= tail' /\ Window' = Window
    BY <1>1, <2>4, Numbers DEF Window
  <2>8. Bounds'
    BY <1>1, <2>3, <2>7 DEF Bounds
  <2>9. Laps'
    BY <1>1, <2>5, <2>6, <2>7 DEF Laps
  <2>10. Claims'
    <3>1. Base <= tail /\ sequence[Slot(tail)] = tail
      BY <2>3, Numbers, SMT DEF Laps
    <3>2. \A q \in Producers : Owns(q)' => q = p \/ Owns(q)
      BY <1>1 DEF Owns
    <3>3. \A q \in Producers : Owns(q) => position[q] # tail /\ position[q] < tail'
      BY <2>1, Numbers, SMT DEF Claims
    <3> QED BY <1>1, <1>3, <2>3, <3>1, <3>2, <3>3 DEF Claims
  <2>11. Candidates'
    BY <1>1, <2>1, <2>4, Numbers DEF Candidates
  <2>12. Consuming'
    BY <1>1, <2>4, Numbers DEF Consuming
  <2> QED BY <2>8, <2>9, <2>10, <2>11, <2>12
<1> QED BY <1>2, <1>3

\* Publishing touches the slot of the producer's own position only.
LEMMA ProducerPublishes ==
  ASSUME RingInv, NEW p \in Producers, PublishSequence(p)
  PROVE  Bounds' /\ Laps' /\ Claims' /\ Candidates' /\ Consuming'
<1> USE DEF RingInv, consumerVars, Goto
<1> DEFINE k == position[p]
<1>1. /\ UNCHANGED <<head, tail, cpc, position>> /\ Base' = Base /\ Window' = Window
      /\ ppc'[p] = "signal" /\ \A q \in Producers : q # p => ppc'[q] = ppc[q]
  BY DEF PublishSequence, Base, Window, RingTyped
<1>2. k \in Nat /\ Base <= k /\ k < tail /\ sequence[Slot(k)] = k
  BY Numbers DEF PublishSequence, Claims, Owns
<1>3. k \in Window /\ Window \subseteq Nat
  BY <1>2, Numbers, SMT DEF Window
<1>4. Slot(k) \in DOMAIN sequence
  BY <1>2, SlotRange DEF RingTyped
<1>5. sequence'[Slot(k)] = k + 1
  BY <1>4 DEF PublishSequence, RingTyped
<1>6. \A i \in Window : i # k => sequence'[Slot(i)] = sequence[Slot(i)]
  <2> SUFFICES ASSUME NEW i \in Window, i # k
               PROVE  sequence'[Slot(i)] = sequence[Slot(i)]
    OBVIOUS
  <2>1. Slot(i) # Slot(k)
    BY <1>3, WindowApart, Numbers
  <2>2. Slot(i) \in 0..Capacity - 1
    BY <1>3, SlotRange
  <2> QED BY <2>1, <2>2 DEF PublishSequence, RingTyped
<1>7. Bounds'
  BY <1>1 DEF Bounds
<1>8. Laps'
  <2>1. ~(k >= tail)
    BY <1>2, Numbers, SMT
  <2> QED BY <1>1, <1>5, <1>6, <2>1 DEF Laps
<1>9. Claims'
  <2>1. \A q \in Producers : Owns(q)' => q # p /\ Owns(q)
    BY <1>1 DEF Owns
  <2>2. \A q \in Producers : Owns(q) => position[q] \in Window
    BY Numbers, SMT DEF Claims, Window
  <2>3. \A q \in Producers : Owns(q)' => position[q] # k
    BY <2>1 DEF Claims, PublishSequence, Owns
  <2> QED BY <1>1, <1>6, <2>1, <2>2, <2>3 DEF Claims
<1>10. Candidates'
  BY <1>1 DEF Candidates
<1>11. Consuming'
  <2>1. Base \in Window /\ k # k + 1
    BY <1>2, Numbers, SMT DEF Window
  <2>2. cpc \in {"read", "head", "release"} => Base # k
    BY <1>2, <2>1 DEF Consuming
  <2> QED BY <1>1, <1>6, <2>1, <2>2 DEF Consuming
<1> QED BY <1>7, <1>8, <1>9, <1>10, <1>11

\* The consumer's steps up to the release of the slot.
LEMMA ConsumerTakes ==
  ASSUME RingInv, CheckHead \/ ReadValue \/ StoreHead \/ WaitReady
  PROVE  Bounds' /\ Laps' /\ Claims' /\ Candidates' /\ Consuming'
<1> USE DEF RingInv, ringVars, producerVars
<1>1. UNCHANGED <<tail, sequence, ppc, position>>
  BY DEF CheckHead, ReadValue, StoreHead, WaitReady
<1>2. Base' = Base /\ head <= head' /\ head' <= tail
  <2>1. CASE StoreHead
    BY <2>1, Numbers, SMT DEF StoreHead, Base, Consuming
  <2>2. CASE CheckHead \/ ReadValue \/ WaitReady
    BY <2>2, Numbers, SMT DEF CheckHead, ReadValue, WaitReady, Base
  <2> QED BY <2>1, <2>2
<1>3. Window' = Window
  BY <1>2 DEF Window
<1>4. Bounds'
  BY <1>1, <1>2, <1>3 DEF Bounds
<1>5. Laps'
  BY <1>1, <1>3 DEF Laps
<1>6. Claims' /\ Candidates'
  BY <1>1, <1>2 DEF Claims, Candidates, Owns
<1>7. Consuming'
  <2>1. CASE CheckHead
    <3>1. UNCHANGED head /\ Base = head
      BY <2>1, Numbers DEF CheckHead
    <3>2. sequence[Slot(head)] = head + 1 => head < tail
      <4>1. head \in Window /\ (head >= tail \/ head < tail) /\ head # head + 1
        BY <3>1, Numbers, SMT DEF Window
      <4> QED BY <4>1 DEF Laps
    <3> QED BY <1>1, <1>2, <2>1, <3>1, <3>2 DEF CheckHead, Consuming
  <2>2. CASE ReadValue \/ StoreHead \/ WaitReady
    BY <1>1, <1>2, <2>2 DEF ReadValue, StoreHead, WaitReady, Consuming
  <2> QED BY <2>1, <2>2
<1> QED BY <1>4, <1>5, <1>6, <1>7

\* The release moves the window by one: its slot is that of the position one lap ahead.
LEMMA ConsumerReleases ==
  ASSUME RingInv, ReleaseSlot
  PROVE  Bounds' /\ Laps' /\ Claims' /\ Candidates' /\ Consuming'
<1> USE DEF RingInv, producerVars
<1> DEFINE last == Base + Capacity
<1>1. UNCHANGED <<head, tail, ppc, position>> /\ cpc = "release" /\ cpc' = "sequence"
  BY DEF ReleaseSlot
<1>2. head = Base + 1 /\ Base' = head /\ Base' \in Nat /\ Base' = Base + 1 /\ head - 1 = Base
  BY <1>1, Numbers, SMT DEF Base
<1>3. sequence' = [sequence EXCEPT ![Slot(Base)] = last]
  BY <1>2 DEF ReleaseSlot
<1>4. Slot(last) = Slot(Base) /\ Slot(Base) \in 0..Capacity - 1
  BY Numbers, NextLap, SlotRange
<1>5. sequence'[Slot(last)] = last
  BY <1>3, <1>4 DEF RingTyped
<1>6. tail <= last /\ tail <= Base' + Capacity /\ last \in Nat /\ last < Base' + Capacity
  BY <1>2, Numbers, SMT
<1>7. /\ \A i \in Window' : i \in Nat /\ (i = last \/ (i \in Window /\ i # Base))
      /\ \A i \in Window : i \in Nat /\ (i = Base \/ i \in Window')
      /\ last \in Window' /\ Base \in Window
  BY <1>2, Numbers, SMT DEF Window
<1>8. \A i \in Window : i # Base => sequence'[Slot(i)] = sequence[Slot(i)]
  <2> SUFFICES ASSUME NEW i \in Window, i # Base
               PROVE  sequence'[Slot(i)] = sequence[Slot(i)]
    OBVIOUS
  <2>1. Slot(i) # Slot(Base)
    BY <1>7, WindowApart, Numbers
  <2>2. Slot(i) \in 0..Capacity - 1
    BY <1>7, SlotRange
  <2> QED BY <1>3, <2>1, <2>2 DEF RingTyped
<1>9. Bounds'
  <2>1. \A n \in 0..Capacity - 1 : \E i \in Window' : Slot(i) = n
    BY <1>4, <1>7 DEF Bounds
  <2> QED BY <1>1, <1>2, <1>6, <2>1 DEF Bounds
<1>10. Laps'
  BY <1>1, <1>5, <1>7, <1>8 DEF Laps
<1>11. Claims'
  <2>1. \A q \in Producers : Owns(q) => position[q] \in Window
    BY Numbers, SMT DEF Claims, Window
  <2>2. \A q \in Producers : Owns(q) => position[q] # Base
    <3>1. sequence[Slot(Base)] = Base + 1 /\ Base # Base + 1
      BY <1>1, Numbers, SMT DEF Consuming
    <3> QED BY <3>1 DEF Claims
  <2>3. \A q \in Producers : Owns(q) => Base' <= position[q]
    BY <1>2, <2>1, <2>2, Numbers, SMT DEF Window
  <2>4. \A q \in Producers : Owns(q)' <=> Owns(q)
    BY <1>1 DEF Owns
  <2> QED BY <1>1, <1>8, <2>1, <2>2, <2>3, <2>4 DEF Claims
<1>12. Candidates'
  <2>1. tail < Base' + Capacity
    BY <1>2, Numbers, SMT
  <2> QED BY <1>1, <2>1 DEF Candidates
<1>13. Consuming'
  BY <1>1 DEF Consuming
<1> QED BY <1>9, <1>10, <1>11, <1>12, <1>13

\* The invariant holds initially.
LEMMA RingInit == Init => RingInv
<1> SUFFICES ASSUME Init
             PROVE  RingInv
  OBVIOUS
<1>1. Capacity \in Nat /\ Capacity > 1 /\ MaxValues \in Nat
  BY RingAssumption, SMT
<1>2. RingTyped
  <2>1. 0 \in Nat /\ 0 \in 0..MaxValues /\ \A i \in 0..Capacity - 1 : i \in Nat
    BY <1>1, SMT
  <2>2. Zero \in Contents /\ <<>> \in Seq(Contents)
    BY SMT DEF Contents
  <2> QED BY <2>1, <2>2 DEF Init, RingTyped
<1>3. Base = 0 /\ Window = 0..Capacity - 1
  BY <1>1, SMT DEF Init, Base, Window
<1>4. Bounds
  <2>1. 0 \in Nat /\ 0 <= 0 /\ 0 <= 0 + Capacity
    BY <1>1, SMT
  <2> QED BY <1>3, <2>1, FirstLap DEF Init, Bounds
<1>5. Laps
  BY <1>3, FirstLap DEF Init, Laps
<1>6. Claims /\ Candidates /\ Consuming /\ PutsBounded
  BY DEF Init, Claims, Candidates, Consuming, PutsBounded, Owns
<1> QED BY <1>2, <1>4, <1>5, <1>6 DEF RingInv

\* The invariant is inductive.
LEMMA RingStep == RingInv /\ [Next]_vars => RingInv'
<1> SUFFICES ASSUME RingInv, [Next]_vars
             PROVE  RingInv'
  OBVIOUS
<1>1. ASSUME NEW p \in Producers, Produce(p)
      PROVE  RingInv'
  <2>1. Bounds' /\ Laps' /\ Claims' /\ Candidates' /\ Consuming'
    BY <1>1, ProducerLooks, ProducerClaims, ProducerPublishes DEF Produce
  <2> QED BY <1>1, <2>1, ProducerTypes DEF RingInv
<1>2. CASE Consume
  <2>1. Bounds' /\ Laps' /\ Claims' /\ Candidates' /\ Consuming'
    BY <1>2, ConsumerTakes, ConsumerReleases DEF Consume
  <2> QED BY <1>2, <2>1, ConsumerTypes DEF RingInv
<1>3. CASE UNCHANGED vars
  <2> USE <1>3 DEF RingInv, vars, ringVars, producerVars, consumerVars
  <2>1. RingTyped' /\ PutsBounded'
    BY DEF RingTyped, PutsBounded
  <2>2. Bounds' /\ Laps'
    BY WindowKept DEF Base
  <2>3. Claims' /\ Candidates' /\ Consuming'
    BY DEF Claims, Candidates, Consuming, Owns, Base
  <2> QED BY <2>1, <2>2, <2>3
<1> QED BY <1>1, <1>2, <1>3 DEF Next

\* The window and the sequences are as described in every state of the ring.
THEOREM RingInvariant == Spec => []RingInv
BY RingInit, RingStep, PTL DEF Spec

-----------------------------------------------------------------------------
(* What the ring promises. *)

\* TryEnqueue gives up only on the position a full window ahead: the sequence of
\* any other slot it may look at is not behind its position.
THEOREM RejectedOnlyWhenFullHolds == Spec => RejectedOnlyWhenFull
<1>1. ASSUME RingInv, [Next]_vars, NEW p \in Producers, ppc[p] = "sequence", ppc'[p] = "full"
      PROVE  tail - head = Capacity \/ (tail - head = Capacity - 1 /\ cpc = "release")
  <2> USE <1>1 DEF RingInv
  <2> DEFINE k == position[p]
  <2>1. LoadSequence(p)
    <3>1. ppc' # ppc /\ ~Consume
      BY DEF Consume, CheckHead, ReadValue, StoreHead, ReleaseSlot, WaitReady, producerVars
    <3>2. PICK q \in Producers : Produce(q)
      BY <3>1 DEF Next, vars, producerVars
    <3>3. q = p
      BY <3>2 DEF Produce, LoadTail, LoadSequence, Retry, CompareAndSwapTail, WriteValue,
                  PublishSequence, Signal, Goto, RingTyped
    <3> QED BY <3>2, <3>3 DEF Produce, LoadTail, LoadSequence, Retry, CompareAndSwapTail,
                              WriteValue, PublishSequence, Signal, Goto, RingTyped
  <2>2. sequence[Slot(k)] < k
    BY <2>1 DEF LoadSequence, Goto, RingTyped
  <2>3. k \in Nat /\ k <= tail
    BY Numbers DEF Candidates
  <2>4. PICK i \in Window : Slot(i) = Slot(k)
    BY <2>3, SlotRange DEF Bounds
  <2>5. sequence[Slot(k)] \in {i, i + 1}
    BY <2>4 DEF Laps
  <2>6. i \in Nat /\ Base <= i /\ i < k
    BY <2>2, <2>3, <2>5, Numbers, SMT DEF Window
  <2>7. ~(k < i + Capacity)
    BY <2>3, <2>4, <2>6, SlotsApart
  <2>8. tail = Base + Capacity
    BY <2>3, <2>6, <2>7, Numbers, SMT
  <2> QED BY <2>8, Numbers, SMT
<1>2. RingInv /\ [Next]_vars =>
        [\A p \in Producers : ppc[p] = "sequence" /\ ppc'[p] = "full" =>
           tail - head = Capacity \/ (tail - head = Capacity - 1 /\ cpc = "release")]_vars
  BY <1>1
<1> QED BY <1>2, RingInvariant, PTL DEF Spec, RejectedOnlyWhenFull

-----------------------------------------------------------------------------
(* The refinement of the bounded FIFO. *)

\* The abstract queue: the claimed positions in order.
Queued == [i \in 1..tail - head |-> ClaimedValue(head + i - 1)]

WritesAt(p, i) == ppc[p] = "write" /\ position[p] = i

\* The value of a position whose owner has not written it, and of any other one.
LEMMA Claimed ==
  ASSUME RingInv, NEW i \in Nat
  PROVE  /\ \A p \in Producers : WritesAt(p, i) => ClaimedValue(i) = <<p, puts[p]>>
         /\ (\A p \in Producers : ~WritesAt(p, i)) =>
              ClaimedValue(i) = IF cpc = "head" /\ i = head THEN current ELSE value[Slot(i)]
<1>1. ASSUME NEW p \in Producers, WritesAt(p, i)
      PROVE  ClaimedValue(i) = <<p, puts[p]>>
  <2> DEFINE w == CHOOSE q \in Producers : ppc[q] = "write" /\ position[q] = i
  <2>1. w \in Producers /\ ppc[w] = "write" /\ position[w] = i
    BY <1>1 DEF WritesAt
  <2>2. w = p
    BY <1>1, <2>1 DEF WritesAt, RingInv, Claims, Owns
  <2> QED BY <1>1, <2>2 DEF ClaimedValue, WritesAt
<1>2. ASSUME \A p \in Producers : ~WritesAt(p, i)
      PROVE  ClaimedValue(i) = IF cpc = "head" /\ i = head THEN current ELSE value[Slot(i)]
  BY <1>2 DEF ClaimedValue, WritesAt
<1> QED BY <1>1, <1>2

\* It is a value or the zero value.
LEMMA ClaimedTyped ==
  ASSUME RingInv, NEW i \in Nat
  PROVE  ClaimedValue(i) \in Contents
<1>1. CASE \E p \in Producers : WritesAt(p, i)
  <2>1. PICK p \in Producers : WritesAt(p, i)
    BY <1>1
  <2>2. puts[p] \in 1..MaxValues
    BY <2>1, Numbers, SMT DEF RingInv, RingTyped, PutsBounded, WritesAt
  <2>3. <<p, puts[p]>> \in Contents
    BY <2>2, SMT DEF Contents, Values
  <2> QED BY <2>1, <2>3, Claimed
<1>2. CASE \A p \in Producers : ~WritesAt(p, i)
  <2>1. current \in Contents /\ value[Slot(i)] \in Contents
    BY SlotRange DEF RingInv, RingTyped
  <2> QED BY <1>2, <2>1, Claimed
<1> QED BY <1>1, <1>2

\* Nobody writes at a position the consumer has found published.
LEMMA NobodyWritesHead ==
  ASSUME RingInv, cpc \in {"read", "head"}, NEW p \in Producers
  PROVE  ~WritesAt(p, head)
<1>1. Base = head /\ head # head + 1
  BY Numbers, SMT
<1> QED BY <1>1 DEF RingInv, Consuming, Claims, Owns, WritesAt

\* A producer's step changes the value of no position that was claimed before.
LEMMA ProducerKeepsClaims ==
  ASSUME RingInv, RingInv', NEW p \in Producers, Produce(p), NEW i \in Nat, head <= i, i < tail
  PROVE  ClaimedValue(i)' = ClaimedValue(i)
<1> USE DEF RingInv, ringVars, consumerVars, Goto
<1>1. UNCHANGED <<head, cpc, current>>
  BY DEF Produce, LoadTail, LoadSequence, Retry, CompareAndSwapTail, WriteValue,
         PublishSequence, Signal
<1>2. CASE WriteValue(p)
  <2> DEFINE k == position[p]
  <2>1. /\ UNCHANGED <<position, puts>> /\ ppc[p] = "write" /\ ppc'[p] = "publish"
        /\ \A q \in Producers : q # p => ppc'[q] = ppc[q]
    BY <1>2 DEF WriteValue, RingTyped
  <2>2. k \in Nat /\ Base <= k /\ k < tail /\ sequence[Slot(k)] = k
    BY <2>1, Numbers DEF Claims, Owns
  <2>3. CASE i = k
    <3>1. ClaimedValue(i) = <<p, puts[p]>>
      BY <2>1, <2>3, Claimed DEF WritesAt
    <3>2. \A q \in Producers : ~WritesAt(q, i)'
      BY <2>1, <2>3 DEF WritesAt, Claims, Owns
    <3>3. ~(cpc = "head" /\ i = head)
      BY <2>1, <2>3, NobodyWritesHead DEF WritesAt
    <3>4. value'[Slot(i)] = <<p, puts[p]>>
      BY <1>2, <2>3, SlotRange DEF WriteValue, RingTyped
    <3>5. ClaimedValue(i)' = value'[Slot(i)]
      BY <1>1, <3>2, <3>3 DEF ClaimedValue, WritesAt
    <3> QED BY <3>1, <3>4, <3>5
  <2>4. CASE i # k
    <3>1. \A q \in Producers : WritesAt(q, i)' <=> WritesAt(q, i)
      BY <2>1, <2>4 DEF WritesAt
    <3>2. Slot(i) # Slot(k)
      <4>1. i \in Window /\ k \in Window
        BY <2>2, Numbers, SMT DEF Window
      <4> QED BY <2>4, <4>1, WindowApart, Numbers
    <3>3. value'[Slot(i)] = value[Slot(i)]
      BY <1>2, <3>2, SlotRange DEF WriteValue, RingTyped
    <3> QED BY <1>1, <2>1, <3>1, <3>3 DEF ClaimedValue, WritesAt
  <2> QED BY <2>3, <2>4
<1>3. CASE ~WriteValue(p)
  <2>1. UNCHANGED value
    BY <1>3 DEF Produce, LoadTail, LoadSequence, Retry, CompareAndSwapTail, PublishSequence, Signal
  <2>2. \A q \in Producers : q # p => ppc'[q] = ppc[q] /\ position'[q] = position[q] /\ puts'[q] = puts[q]
    BY <1>3 DEF Produce, LoadTail, LoadSequence, Retry, CompareAndSwapTail, PublishSequence,
                Signal, RingTyped
  <2>3. ppc[p] # "write"
    BY <1>3 DEF Produce, LoadTail, LoadSequence, Retry, CompareAndSwapTail, PublishSequence, Signal
  <2>4. ppc'[p] = "write" => position'[p] = tail
    BY <1>3 DEF Produce, LoadTail, LoadSequence, Retry, CompareAndSwapTail, PublishSequence,
                Signal, RingTyped
  <2>5. i # tail
    BY Numbers, SMT
  <2>6. \A q \in Producers : WritesAt(q, i)' <=> WritesAt(q, i)
    BY <2>2, <2>3, <2>4, <2>5 DEF WritesAt
  <2>7. \A q \in Producers : WritesAt(q, i) => puts'[q] = puts[q]
    BY <2>2, <2>3 DEF WritesAt
  <2> QED BY <1>1, <2>1, <2>6, <2>7 DEF ClaimedValue, WritesAt
<1> QED BY <1>2, <1>3

\* Nor does a step of the consumer, for the positions it leaves in the queue.
LEMMA ConsumerKeepsClaims ==
  ASSUME RingInv, Consume, NEW i \in Nat, head' <= i, i < tail
  PROVE  ClaimedValue(i)' = ClaimedValue(i)
<1> USE DEF RingInv, ringVars, producerVars
<1>1. UNCHANGED <<ppc, position, puts>> /\ \A q \in Producers : WritesAt(q, i)' <=> WritesAt(q, i)
  BY DEF Consume, CheckHead, ReadValue, StoreHead, ReleaseSlot, WaitReady, WritesAt
<1>2. CASE CheckHead \/ ReleaseSlot \/ WaitReady
  <2>1. UNCHANGED value /\ cpc # "head" /\ cpc' # "head"
    BY <1>2 DEF CheckHead, ReleaseSlot, WaitReady
  <2> QED BY <1>1, <2>1 DEF ClaimedValue
<1>3. CASE StoreHead
  <2>1. UNCHANGED value /\ cpc' # "head"
    BY <1>3 DEF StoreHead
  <2>2. i # head
    BY <1>3, Numbers, SMT DEF StoreHead
  <2> QED BY <1>1, <2>1, <2>2 DEF ClaimedValue
<1>4. CASE ReadValue
  <2>1. UNCHANGED head /\ cpc = "read" /\ cpc' = "head" /\ current' = value[Slot(head)]
    BY <1>4 DEF ReadValue
  <2>2. CASE i = head
    <3>1. \A q \in Producers : ~WritesAt(q, i)
      BY <2>1, <2>2, NobodyWritesHead
    <3> QED BY <1>1, <2>1, <2>2, <3>1 DEF ClaimedValue, WritesAt
  <2>3. CASE i # head
    <3>1. i \in Window /\ head \in Window
      BY <2>1, Numbers, SMT DEF Window
    <3>2. Slot(i) # Slot(head)
      BY <2>3, <3>1, WindowApart, Numbers
    <3>3. value'[Slot(i)] = value[Slot(i)]
      BY <1>4, <3>2, SlotRange DEF ReadValue, RingTyped
    <3> QED BY <1>1, <2>1, <2>3, <3>3 DEF ClaimedValue
  <2> QED BY <2>2, <2>3
<1> QED BY <1>2, <1>3, <1>4 DEF Consume

\* The abstract queue is a sequence of the claimed values.
LEMMA QueuedFacts ==
  ASSUME RingInv
  PROVE  /\ Queued \in Seq(Contents) /\ Len(Queued) = tail - head
         /\ \A i \in 1..tail - head : Queued[i] = ClaimedValue(head + i - 1)
<1>1. tail - head \in Nat
  BY Numbers, SMT
<1>2. \A i \in 1..tail - head : ClaimedValue(head + i - 1) \in Contents
  <2>1. \A i \in 1..tail - head : head + i - 1 \in Nat
    BY Numbers, SMT
  <2> QED BY <2>1, ClaimedTyped
<1>3. Queued \in [1..tail - head -> Contents]
  BY <1>2 DEF Queued
<1> QED BY <1>1, <1>3, SMT DEF Queued

\* A step that moves neither head nor tail leaves the abstract queue alone.
LEMMA QueuedKept ==
  ASSUME RingInv, UNCHANGED <<head, tail>>,
         \A i \in Nat : head <= i /\ i < tail => ClaimedValue(i)' = ClaimedValue(i)
  PROVE  Queued' = Queued
<1>1. \A i \in 1..tail - head : head + i - 1 \in Nat /\ head <= head + i - 1 /\ head + i - 1 < tail
  BY Numbers, SMT
<1> QED BY <1>1 DEF Queued

\* Append and Tail, position by position.
LEMMA AppendPointwise ==
  ASSUME NEW S, NEW s \in Seq(S), NEW v \in S
  PROVE  Append(s, v) = [k \in 1..Len(s) + 1 |-> IF k = Len(s) + 1 THEN v ELSE s[k]]
<1> DEFINE a == Append(s, v)
<1>1. /\ a \in Seq(S) /\ Len(a) = Len(s) + 1 /\ a[Len(s) + 1] = v
      /\ \A k \in 1..Len(s) : a[k] = s[k]
  BY AppendProperties, SMT
<1>2. a \in [1..Len(s) + 1 -> S]
  BY <1>1, LenProperties
<1>3. \A k \in 1..Len(s) + 1 : k = Len(s) + 1 \/ k \in 1..Len(s)
  BY LenProperties, SMT
<1> HIDE DEF a
<1>4. a = [k \in 1..Len(s) + 1 |-> IF k = Len(s) + 1 THEN v ELSE s[k]]
  BY <1>1, <1>2, <1>3
<1> QED BY <1>4 DEF a

LEMMA TailPointwise ==
  ASSUME NEW S, NEW s \in Seq(S), s # <<>>
  PROVE  Tail(s) = [k \in 1..Len(s) - 1 |-> s[k + 1]]
<1> DEFINE t == Tail(s)
<1>1. t \in Seq(S) /\ Len(t) = Len(s) - 1 /\ \A k \in 1..Len(t) : t[k] = s[k + 1]
  BY HeadTailProperties
<1>2. t \in [1..Len(s) - 1 -> S]
  BY <1>1, LenProperties
<1> HIDE DEF t
<1>3. t = [k \in 1..Len(s) - 1 |-> s[k + 1]]
  BY <1>1, <1>2
<1> QED BY <1>3 DEF t

\* Winning the tail puts the producer's next value at the end.
LEMMA ClaimPuts ==
  ASSUME RingInv, RingInv', NEW p \in Producers, CompareAndSwapTail(p), tail' # tail
  PROVE  Queue!Put(p)
<1> DEFINE v == <<p, puts[p] + 1>>
           n == tail - head
<1>1. /\ tail' = tail + 1 /\ position[p] = tail /\ UNCHANGED <<head, position, taken>>
      /\ puts' = [puts EXCEPT ![p] = @ + 1] /\ ppc[p] = "cas" /\ ppc'[p] = "write"
  BY DEF RingInv, RingTyped, CompareAndSwapTail, Goto, consumerVars
<1>2. n \in Nat /\ tail' - head' = n + 1 /\ n < Capacity
  <2>1. tail < Base + Capacity
    BY <1>1 DEF RingInv, Candidates
  <2> QED BY <1>1, <2>1, Numbers, SMT
<1>3. ASSUME NEW i \in Nat, i = tail
      PROVE  ClaimedValue(i)' = v
  <2>1. puts'[p] = puts[p] + 1 /\ ppc'[p] = "write" /\ position'[p] = i
    BY <1>1, <1>3 DEF RingInv, RingTyped
  <2>2. \A q \in Producers : ppc'[q] = "write" /\ position'[q] = i => q = p
    BY <2>1 DEF RingInv, Claims, Owns
  <2> DEFINE w == CHOOSE q \in Producers : ppc'[q] = "write" /\ position'[q] = i
  <2>3. w = p
    BY <2>1, <2>2
  <2> QED BY <2>1, <2>3 DEF ClaimedValue
<1>4. \A i \in Nat : head <= i /\ i < tail => ClaimedValue(i)' = ClaimedValue(i)
  BY ProducerKeepsClaims DEF Produce
<1>5. ASSUME NEW k \in 1..n + 1
      PROVE  Queued'[k] = IF k = n + 1 THEN v ELSE Queued[k]
  <2>1. head' + k - 1 \in Nat /\ k \in 1..tail' - head'
    BY <1>1, <1>2, Numbers, SMT
  <2>2. CASE k = n + 1
    <3>1. head' + k - 1 = tail
      BY <1>1, <2>2, Numbers, SMT
    <3> QED BY <1>3, <2>1, <2>2, <3>1 DEF Queued
  <2>3. CASE k # n + 1
    <3>1. head' + k - 1 = head + k - 1 /\ head <= head' + k - 1 /\ head' + k - 1 < tail /\ k \in 1..n
      BY <1>1, <2>3, Numbers, SMT
    <3> QED BY <1>4, <2>1, <2>3, <3>1, QueuedFacts DEF Queued
  <2> QED BY <2>2, <2>3
<1>6. DOMAIN Queued' = 1..n + 1 /\ Queued' = [k \in DOMAIN Queued' |-> Queued'[k]]
  BY <1>2 DEF Queued
<1>7. Queued' = Append(Queued, v)
  <2>1. Queued' = [k \in 1..n + 1 |-> IF k = n + 1 THEN v ELSE Queued[k]]
    BY <1>5, <1>6
  <2>2. puts[p] \in 0..MaxValues /\ puts[p] < MaxValues /\ MaxValues \in Nat
    BY <1>1, Numbers DEF RingInv, RingTyped, PutsBounded
  <2>3. puts[p] + 1 \in 1..MaxValues
    BY <2>2, SMT
  <2>4. v \in Contents
    BY <2>3, SMT DEF Contents, Values
  <2>5. Queued \in Seq(Contents) /\ Len(Queued) = n
    BY QueuedFacts
  <2> HIDE DEF v, n, Queued
  <2>6. Append(Queued, v) = [k \in 1..Len(Queued) + 1 |-> IF k = Len(Queued) + 1 THEN v ELSE Queued[k]]
    BY <2>4, <2>5, AppendPointwise, SMT
  <2> QED BY <2>1, <2>5, <2>6
<1>8. Len(Queued) < Capacity
  BY <1>2, QueuedFacts
<1> QED BY <1>1, <1>7, <1>8 DEF Queue!Put, Queued

\* Storing head takes the oldest value out.
LEMMA StoreTakes ==
  ASSUME RingInv, StoreHead
  PROVE  Queue!Take
<1> DEFINE n == tail - head
<1>1. /\ head' = head + 1 /\ UNCHANGED <<tail, puts>> /\ cpc = "head"
      /\ taken' = Append(taken, current)
  BY DEF StoreHead, producerVars
<1>2. n \in Nat /\ n > 0 /\ tail' - head' = n - 1 /\ 1 \in 1..n /\ head + 1 - 1 = head
  <2>1. head < tail
    BY <1>1 DEF RingInv, Consuming
  <2> QED BY <1>1, <2>1, Numbers, SMT
<1>3. Queued[1] = current
  <2>1. ClaimedValue(head) = current
    BY <1>1, NobodyWritesHead, Claimed, Numbers
  <2> QED BY <1>2, <2>1, QueuedFacts
<1>4. ASSUME NEW k \in 1..n - 1
      PROVE  Queued'[k] = Queued[k + 1]
  <2>1. /\ head' + k - 1 \in Nat /\ head' <= head' + k - 1 /\ head' + k - 1 < tail
        /\ k + 1 \in 1..n /\ head + (k + 1) - 1 = head' + k - 1 /\ k \in 1..tail' - head'
    <3>1. head \in Nat /\ tail \in Nat /\ head' = head + 1 /\ tail' = tail
      BY <1>1, Numbers
    <3> QED BY <3>1, SMT
  <2>2. \A i \in Nat : head' <= i /\ i < tail => ClaimedValue(i)' = ClaimedValue(i)
    BY ConsumerKeepsClaims DEF Consume
  <2> QED BY <2>1, <2>2, QueuedFacts DEF Queued
<1>5. Queued # <<>> /\ Head(Queued) = current
  BY <1>2, <1>3, QueuedFacts, SMT
<1>6. Queued' = Tail(Queued)
  <2>1. DOMAIN Queued' = 1..n - 1 /\ Queued' = [k \in DOMAIN Queued' |-> Queued'[k]]
    BY <1>2 DEF Queued
  <2>2. Queued' = [k \in 1..n - 1 |-> Queued[k + 1]]
    BY <1>4, <2>1
  <2> QED BY <1>5, <2>2, QueuedFacts, TailPointwise
<1> QED BY <1>1, <1>5, <1>6 DEF Queue!Take, Queued

\* Every step of the ring is a step of the queue or leaves it alone.
LEMMA QueueStep ==
  RingInv /\ RingInv' /\ [Next]_vars => [Queue!Next]_<<Queued, puts, taken>>
<1> SUFFICES ASSUME RingInv, RingInv', [Next]_vars
             PROVE  Queue!Next \/ UNCHANGED <<Queued, puts, taken>>
  OBVIOUS
<1>1. ASSUME NEW p \in Producers, Produce(p)
      PROVE  Queue!Next \/ UNCHANGED <<Queued, puts, taken>>
  <2>1. CASE tail' # tail
    <3>1. CompareAndSwapTail(p)
      BY <1>1, <2>1 DEF Produce, LoadTail, LoadSequence, Retry, WriteValue, PublishSequence,
                        Signal, ringVars
    <3> QED BY <2>1, <3>1, ClaimPuts DEF Queue!Next
  <2>2. CASE tail' = tail
    <3>1. tail # tail + 1
      BY Numbers, SMT
    <3>2. UNCHANGED <<head, puts, taken>>
      BY <1>1, <2>2, <3>1 DEF Produce, LoadTail, LoadSequence, Retry, CompareAndSwapTail,
           WriteValue, PublishSequence, Signal, ringVars, consumerVars
    <3>3. Queued' = Queued
      BY <1>1, <2>2, <3>2, ProducerKeepsClaims, QueuedKept
    <3> QED BY <3>2, <3>3
  <2> QED BY <2>1, <2>2
<1>2. CASE Consume
  <2>1. CASE StoreHead
    BY <2>1, StoreTakes DEF Queue!Next
  <2>2. CASE CheckHead \/ ReadValue \/ ReleaseSlot \/ WaitReady
    <3>1. UNCHANGED <<head, tail, puts, taken>>
      BY <2>2 DEF CheckHead, ReadValue, ReleaseSlot, WaitReady, ringVars, producerVars
    <3>2. Queued' = Queued
      BY <1>2, <3>1, ConsumerKeepsClaims, QueuedKept
    <3> QED BY <3>1, <3>2
  <2> QED BY <1>2, <2>1, <2>2 DEF Consume
<1>3. CASE UNCHANGED vars
  BY <1>3 DEF vars, ringVars, producerVars, consumerVars, Queued, ClaimedValue
<1> QED BY <1>1, <1>2, <1>3 DEF Next

\* The ring implements the bounded FIFO: what the producers put in comes out once and
\* in order, and never more than Capacity values are inside, for every capacity and
\* however the steps of the producers and the consumer interleave.
THEOREM QueueImplemented == Spec => ImplementsQueue
<1>1. Init => Queue!Init
  <2> SUFFICES ASSUME Init
               PROVE  Queue!Init
    OBVIOUS
  <2>1. tail - head = 0 /\ 1..0 = {}
    BY SMT DEF Init
  <2>2. Queued = <<>>
    BY <2>1, SMT DEF Queued
  <2> QED BY <2>2 DEF Init, Queue!Init, Queued
<1>2. RingInv /\ RingInv' /\ [Next]_vars =>
        [Queue!Next]_<<[i \in 1..tail - head |-> ClaimedValue(head + i - 1)], puts, taken>>
  BY QueueStep DEF Queued
<1> QED BY <1>1, <1>2, RingInvariant, PTL DEF Spec, ImplementsQueue, Queue!Spec
=============================================================================
