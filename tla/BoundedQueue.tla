---------------------------- MODULE BoundedQueue ----------------------------
(***************************************************************************)
(* What internal/mpscring promises: a FIFO of bounded size in which every  *)
(* value put in is taken out once.  The n-th value of producer p is <<p, n>>. *)
(***************************************************************************)
EXTENDS Naturals, Sequences

CONSTANTS Producers, Capacity

VARIABLES
  queue,  \* the values inside
  puts,   \* how many values each producer has put in
  taken   \* the values taken out

Init ==
  /\ queue = <<>>
  /\ puts = [p \in Producers |-> 0]
  /\ taken = <<>>

Put(p) ==
  /\ Len(queue) < Capacity
  /\ puts' = [puts EXCEPT ![p] = @ + 1]
  /\ queue' = Append(queue, <<p, puts[p] + 1>>)
  /\ UNCHANGED taken

Take ==
  /\ queue # <<>>
  /\ taken' = Append(taken, Head(queue))
  /\ queue' = Tail(queue)
  /\ UNCHANGED puts

Next == Take \/ \E p \in Producers : Put(p)

Spec == Init /\ [][Next]_<<queue, puts, taken>>
=============================================================================
