---------------------------- MODULE LeaseService ----------------------------
(***************************************************************************)
(* What RedLease promises to the applications contending for one key, with *)
(* no servers, messages or clocks: each lease goes through a life of its   *)
(* own, and at most one lease is held at any time.                         *)
(***************************************************************************)
CONSTANT Leases

VARIABLE stage

Init == stage = [l \in Leases |-> "new"]

\* An Acquire returns a lease, or a Renew revives one that had run out unnoticed
\* by any competitor.
Grant(l) ==
  /\ stage[l] \in {"new", "lapsed"}
  /\ \A k \in Leases : stage[k] # "held"
  /\ stage' = [stage EXCEPT ![l] = "held"]

\* The lease runs out.
Lapse(l) ==
  /\ stage[l] = "held"
  /\ stage' = [stage EXCEPT ![l] = "lapsed"]

\* Release, or an Acquire that fails; a lease never comes back from here.
End(l) ==
  /\ stage[l] # "over"
  /\ stage' = [stage EXCEPT ![l] = "over"]

Next == \E l \in Leases : Grant(l) \/ Lapse(l) \/ End(l)

Spec == Init /\ [][Next]_stage
=============================================================================
