--------------------------- MODULE MCLeaseHealing ---------------------------
(* LeaseHealing for TLC, and the delays between its attempts. *)
EXTENDS LeaseHealing, Backoff

MaxDelay == 9
MaxAttempt == 6

\* The delay doubles from attempt to attempt until it is the maximum, which no
\* intermediate product passes, and the jitter keeps it in its band and in bounds.
\* (A statement without variables: the initial state is as good as any other.)
DelayDoublesToMaximum ==
  Init => \A b \in Policies(0..MaxDelay, {0, 20}), attempt \in 0..MaxAttempt :
    LET base == Base(b, attempt) IN
    /\ base = Min({b.initial * 2^attempt, b.maximum})
    /\ \A factor \in Factors(b) :
         LET delay == Duration(b, attempt, factor) IN
         /\ delay \in 0..b.maximum
         /\ 100 * delay > base * (100 - b.jitter) - 100
         /\ 100 * delay <= base * (100 + b.jitter)
=============================================================================
