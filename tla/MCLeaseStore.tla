---------------------------- MODULE MCLeaseStore ----------------------------
EXTENDS LeaseStore, TLC

\* Two keys in the first shard, one in the second.
Shards == [k1 |-> 1, k2 |-> 1, k3 |-> 2]

Op(kind, key, id, ttl) == [kind |-> kind, key |-> key, id |-> id, ttl |-> ttl]

\* A client that takes, extends, vainly shortens and releases a lease, another one
\* that only tries to; a second key beside it, and one in the other shard.
SomeRequests ==
  {Op("acquire", "k1", "a", 1), Op("renew", "k1", "a", 2), Op("renew", "k1", "a", 0),
   Op("release", "k1", "a", 0), Op("acquire", "k1", "b", 0), Op("release", "k1", "b", 0),
   Op("acquire", "k2", "a", 1), Op("acquire", "k3", "a", 1)}

Ops == <<3, 1>>

-----------------------------------------------------------------------------
(* The heap by itself.  Its operations do not look at the keys, so that the   *)
(* heaps whose slots hold 1, 2, 3... stand for all.                           *)

MaxHeapSize == 7
MaxDeadline == 3

Keyed(n) == [slots |-> [i \in 1..n |-> i], index |-> [k \in 1..n |-> k - 1]]

Ordered(h, deadline) ==
  \A i \in 2..Size(h) : deadline[h.slots[i \div 2]] <= deadline[h.slots[i]]

\* h is a heap of all these keys, and heapIndex tells where each of them is.
IsHeapOf(h, deadline, all) ==
  /\ Ordered(h, deadline)
  /\ Size(h) = Cardinality(all) /\ Range(h.slots) = all
  /\ \A i \in 1..Size(h) : h.index[h.slots[i]] = i - 1

\* Whatever lease is added, removed or given another deadline, the earliest one is
\* at the top again and every heapIndex is right; seven leases make three levels,
\* where the last lease, put in the place of another, may have to move either way.
\* (A statement without variables: the initial state is as good as any other.)
HeapOperationsKeepOrder ==
  Init => \A n \in 1..MaxHeapSize : \A deadline \in [1..n -> 1..MaxDeadline] :
    Ordered(Keyed(n), deadline) =>
      LET h == Keyed(n) IN
      /\ IsHeapOf(Pop(h, deadline), deadline, 2..n)
      /\ IsHeapOf(PopExpired(h, deadline, 1), deadline, {k \in 1..n : deadline[k] > 1})
      /\ \A k \in 1..n :
           LET without == Remove(h, deadline, k - 1) IN
           /\ IsHeapOf(without, deadline, 1..n \ {k})
           /\ IsHeapOf(Push(without, deadline, k), deadline, 1..n)
           /\ \A t \in 1..MaxDeadline :
                LET moved == [deadline EXCEPT ![k] = t]
                IN  IsHeapOf(Fix(h, moved, k - 1), moved, 1..n)
=============================================================================
