------------------------------ MODULE Backoff ------------------------------
(***************************************************************************)
(* internal/backoff: the delay before the next attempt of a reconnect or   *)
(* of healing.  A policy b has the delays initial and maximum, and the     *)
(* jitter in percent; factor is what the random number makes of it.        *)
(***************************************************************************)
EXTENDS Integers, FiniteSetsExt

Policies(delays, jitters) == [initial : delays, maximum : delays, jitter : jitters]

\* Mutation of Saturated: only the next doubling would notice.
SaturatedLate(base, maximum) == base >= maximum

\* The next doubling would pass the maximum.
Saturated(base, maximum) == base >= maximum \/ base > maximum \div 2

\* The loop over the attempts.
RECURSIVE Doubled(_, _, _)
Doubled(base, maximum, attempts) ==
  IF attempts = 0 THEN base
  ELSE IF Saturated(base, maximum) THEN maximum
  ELSE Doubled(2 * base, maximum, attempts - 1)

Base(b, attempt) == Doubled(Min({b.initial, b.maximum}), b.maximum, attempt)

Factors(b) == 100 - b.jitter..100 + b.jitter

Duration(b, attempt, factor) ==
  LET base == Base(b, attempt)
      delay == (base * factor) \div 100
  IN  IF b.jitter <= 0 \/ base <= 0 THEN base ELSE Max({0, Min({delay, b.maximum})})
=============================================================================
