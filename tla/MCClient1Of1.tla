---------------------------- MODULE MCClient1Of1 ----------------------------
(* One goroutine that makes two attempts, the first of which it may renew; *)
(* all its requests fall into one shard, whose response ring has one slot. *)
EXTENDS Client1Of1

TwoAttempts == 1 .. 2
OneGoroutine == [l \in TwoAttempts |-> "main"]
OneShard == {1}
AllInOne == [r \in Requests |-> 1]

=============================================================================
