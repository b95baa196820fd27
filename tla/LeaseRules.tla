----------------------------- MODULE LeaseRules -----------------------------
(***************************************************************************)
(* The arithmetic of a RedLease lease, shared by the client, server and    *)
(* quorum modules.  A duration that crosses the wire is a number of        *)
(* milliseconds; a point in time read from a node's monotonic clock is a   *)
(* number of ticks, TicksPerMS of them to the millisecond, so that the     *)
(* rounding in time.Duration.Milliseconds is visible.                      *)
(***************************************************************************)
EXTENDS Integers

CONSTANTS
  TicksPerMS,      \* clock ticks in a millisecond
  MaxTTLMS,        \* protocol.MaxTTLMS, 5000 in the code
  SafetyMarginMS   \* safetyMarginMS, 100 in the code

ASSUME LeaseRulesAssumption ==
  /\ TicksPerMS \in Nat \ {0}
  /\ MaxTTLMS \in Nat \ {0}
  /\ SafetyMarginMS \in Nat

\* time.Duration(ms) * time.Millisecond
Ticks(ms) == ms * TicksPerMS

Lesser(a, b) == IF a <= b THEN a ELSE b

\* The lease statuses of the protocol.
Statuses == {"OK", "ALREADY_OWNED", "BUSY", "STALE", "NOT_READY", "KEY_LIMIT_REACHED"}

-----------------------------------------------------------------------------
(* Server side. *)

\* effectiveTTLMS: the server never grants more than its configured maximum.
EffectiveTTLMS(requested, configured) == Lesser(requested, configured)

\* remainingTTLMS: whole milliseconds left, rounded down.
RemainingTTLMS(deadline, now, maximum) ==
  IF deadline <= now THEN 0
  ELSE Lesser((deadline - now) \div TicksPerMS, maximum)

\* Mutation of RestartQuarantine: does not wait for the leases granted before.
RestartQuarantineWithoutTTL == Ticks(SafetyMarginMS)

\* RestartQuarantineDuration: longer than any lease a forgotten process granted.
RestartQuarantine == Ticks(MaxTTLMS + SafetyMarginMS + 1)

-----------------------------------------------------------------------------
(* Client side. *)

\* candidateValidUntil: how long one replica's answer is trusted, counted from
\* the moment before the request was sent.
CandidateValidUntil(operationStart, ttlMS) ==
  IF ttlMS <= SafetyMarginMS \/ ttlMS > MaxTTLMS
    THEN operationStart
    ELSE operationStart + Ticks(ttlMS - SafetyMarginMS)

IsSuccessfulAcquire(status) == status \in {"OK", "ALREADY_OWNED"}
=============================================================================
