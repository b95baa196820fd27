---------------------------- MODULE DeadlineHeap ----------------------------
(***************************************************************************)
(* leaseDeadlineHeap of server/state.go and the functions of the standard  *)
(* library's container/heap that the server calls on it.  A heap has the   *)
(* slots of the slice, each with the key of its lease, and the heapIndex   *)
(* of every lease.  Positions are counted from zero, as in the code; the   *)
(* deadlines of the leases are an argument of what compares them.          *)
(***************************************************************************)
EXTENDS Integers, Sequences

Empty(keys) == [slots |-> <<>>, index |-> [k \in keys |-> -1]]

Size(h) == Len(h.slots)
At(h, i) == h.slots[i + 1]

Less(h, deadline, i, j) == deadline[At(h, i)] < deadline[At(h, j)]

\* Mutation of Swap: the leases keep their old heapIndex.
SwapSlots(h, i, j) ==
  [h EXCEPT !.slots = [h.slots EXCEPT ![i + 1] = At(h, j), ![j + 1] = At(h, i)]]

Swap(h, i, j) ==
  [slots |-> [h.slots EXCEPT ![i + 1] = At(h, j), ![j + 1] = At(h, i)],
   index |-> [h.index EXCEPT ![At(h, j)] = i, ![At(h, i)] = j]]

\* leaseDeadlineHeap.Push and Pop, at the end of the slice.
Append1(h, key) == [slots |-> Append(h.slots, key), index |-> [h.index EXCEPT ![key] = Size(h)]]
DropLast(h) ==
  [slots |-> SubSeq(h.slots, 1, Size(h) - 1), index |-> [h.index EXCEPT ![At(h, Size(h) - 1)] = -1]]

-----------------------------------------------------------------------------
(* container/heap *)

RECURSIVE Up(_, _, _)
Up(h, deadline, j) ==
  LET i == (j - 1) \div 2
  IN  IF j = 0 \/ ~Less(h, deadline, j, i) THEN h ELSE Up(Swap(h, i, j), deadline, i)

\* down returns a heap that differs exactly if it has moved the lease of slot i.
RECURSIVE Down(_, _, _, _)
Down(h, deadline, i, n) ==
  LET left == 2 * i + 1
      j == IF left + 1 < n /\ Less(h, deadline, left + 1, left) THEN left + 1 ELSE left
  IN  IF left >= n \/ ~Less(h, deadline, j, i) THEN h ELSE Down(Swap(h, i, j), deadline, j, n)

DownOrUp(h, deadline, i, n) ==
  LET below == Down(h, deadline, i, n) IN IF below # h THEN below ELSE Up(h, deadline, i)

Push(h, deadline, key) == Up(Append1(h, key), deadline, Size(h))

Pop(h, deadline) ==
  LET n == Size(h) - 1 IN DropLast(Down(Swap(h, 0, n), deadline, 0, n))

Remove(h, deadline, i) ==
  LET n == Size(h) - 1
  IN  DropLast(IF i = n THEN h ELSE DownOrUp(Swap(h, i, n), deadline, i, n))

Fix(h, deadline, i) == DownOrUp(h, deadline, i, Size(h))

\* The loop of removeExpiredLeases: the heap without the leases that it takes out.
RECURSIVE PopExpired(_, _, _)
PopExpired(h, deadline, now) ==
  IF Size(h) = 0 \/ deadline[At(h, 0)] > now THEN h ELSE PopExpired(Pop(h, deadline), deadline, now)
=============================================================================
