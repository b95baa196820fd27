------------------------- MODULE LeaseHealing_proofs -------------------------
(***************************************************************************)
(* The safety properties of LeaseHealing, for any set of replicas, any TTL *)
(* and all bounds.  OneHealer and HealingNotForgotten are inductive once   *)
(* the types are known.  AcquireNeverFollowsRelease rests on BatchOrder:   *)
(* a healing batch that is submitting holds the wait group, and a Release  *)
(* sends only after the group was empty and the lease no longer active.    *)
(***************************************************************************)
EXTENDS LeaseHealing, FiniteSetTheorems, TLAPS

\* Most leaves are first-order reasoning; the ones that need arithmetic, functions or
\* sequences cite SMT.
USE Zenon

\* Every collector stems from Acquire or from a Renew that is over.
CollectorsCounted == collectors + (IF renewing THEN 1 ELSE 0) <= renews + 1

Typed == TypeOK /\ CollectorsCounted

On(h) == healer[h] # "off"

\* OneHealer without counting.
HealingFlag ==
  /\ ~On(1) \/ ~On(2)
  /\ healing <=> On(1) \/ On(2)

\* How Release and the healing batches exclude each other.
BatchOrder ==
  /\ \A h \in Healers : healer[h] = "submit" => h \in batches
  /\ releasePc # "none" => lifecycle = "released"
  /\ releasePc \in {"send", "done"} => batches = {}
  /\ \A r \in Replicas : lastSent[r] = "release" => releasePc \in {"send", "done"}

HealingInv == Typed /\ HealingFlag /\ HealingNotForgotten /\ BatchOrder

-----------------------------------------------------------------------------
(* Types. *)

\* MarkConfirmed and ClearConfirmed keep the type of confirmedUntil.
LEMMA ConfirmedTyped ==
  ASSUME TypeOK, NEW r \in Replicas, NEW u \in Nat, MarkConfirmed(r, u) \/ ClearConfirmed(r)
  PROVE  confirmedUntil' \in [Replicas -> Nat]
BY SMT DEF TypeOK, MarkConfirmed, ClearConfirmed

\* A response grants a natural number of ticks.
LEMMA GrantedNat ==
  ASSUME TypeOK, NEW t \in 0..MaxTime
  PROVE  Granted(t) \subseteq Nat
BY BoundsAssumption, SMT DEF Granted

\* Starting a healing goroutine keeps the types of its state.
LEMMA StartTyped ==
  ASSUME TypeOK, Start
  PROVE  /\ healing' \in BOOLEAN
         /\ healer' \in [Healers -> {"off", "check", "wait", "recheck", "begin", "submit",
                                     "collect", "finish"}]
<1>1. CASE ~healing /\ Needed
  BY <1>1 DEF TypeOK, Start, Goto
<1>2. CASE ~(~healing /\ Needed)
  BY <1>2 DEF TypeOK, Start
<1> QED BY <1>1, <1>2

\* A step of the healing goroutine keeps the types.
LEMMA HealTyped ==
  ASSUME Typed, NEW h \in Healers, Heal(h)
  PROVE  Typed'
<1> USE DEF Typed
<1>1. CASE Check(h)
  BY <1>1 DEF TypeOK, CollectorsCounted, Check, Goto, leaseVars, callerVars
<1>2. CASE Waited(h)
  BY <1>2 DEF TypeOK, CollectorsCounted, Waited, Goto, leaseVars, callerVars
<1>3. CASE Recheck(h)
  BY <1>3, SMT DEF TypeOK, CollectorsCounted, Recheck, Goto, leaseVars, callerVars
<1>4. CASE Begin(h)
  BY <1>4, SMT DEF TypeOK, CollectorsCounted, Begin, Goto, leaseVars, callerVars
<1>5. CASE Submit(h)
  BY <1>5, SMT DEF TypeOK, CollectorsCounted, Submit, leaseVars, callerVars
<1>6. CASE Submitted(h)
  BY <1>6 DEF TypeOK, CollectorsCounted, Submitted, Goto, leaseVars, callerVars
<1>7. CASE Result(h)
  <2>1. confirmedUntil' \in [Replicas -> Nat]
    BY <1>7, ConfirmedTyped, GrantedNat DEF TypeOK, Result
  <2> QED
    BY <2>1, <1>7 DEF TypeOK, CollectorsCounted, Result, callerVars
<1>8. CASE Collected(h)
  BY <1>8, BoundsAssumption, SMT DEF TypeOK, CollectorsCounted, Collected, Goto, leaseVars, callerVars
<1>9. CASE FinishHealing(h)
  BY <1>9 DEF TypeOK, CollectorsCounted, FinishHealing, Needed, Goto, leaseVars, callerVars
<1> QED BY <1>1, <1>2, <1>3, <1>4, <1>5, <1>6, <1>7, <1>8, <1>9 DEF Heal

\* A step of Renew, of a collector, of Release, of Close or of time keeps the types.
LEMMA CallerTyped ==
  ASSUME Typed,
         \/ RenewBegin \/ RenewQuorum \/ RenewReturns \/ CollectorEnds
         \/ \E r \in Replicas : Confirm(r) \/ Clear(r)
  PROVE  Typed'
<1> USE DEF Typed
<1>1. CASE RenewBegin
  BY <1>1, BoundsAssumption, SMT DEF TypeOK, CollectorsCounted, RenewBegin, healerVars
<1>2. CASE RenewQuorum
  <2>1. validUntil' \in Nat
    BY <1>2, GrantedNat DEF TypeOK, RenewQuorum
  <2> QED
    BY <2>1, <1>2 DEF TypeOK, CollectorsCounted, RenewQuorum, healerVars, callerVars
<1>3. CASE RenewReturns
  <2>1. /\ healing' \in BOOLEAN
        /\ healer' \in [Healers -> {"off", "check", "wait", "recheck", "begin", "submit",
                                    "collect", "finish"}]
    BY <1>3, StartTyped DEF TypeOK, RenewReturns
  <2>2. collectors' \in {collectors, collectors + 1} /\ renewing /\ ~renewing' /\ renews' = renews
    BY <1>3 DEF RenewReturns
  <2>3. collectors + 1 <= renews + 1
    BY <2>2 DEF CollectorsCounted
  <2>4. collectors' \in 0..MaxRenews + 1 /\ collectors' <= renews' + 1
    BY <2>2, <2>3, BoundsAssumption, SMT DEF TypeOK
  <2>5. collectors' + 0 <= renews' + 1
    BY <2>4, SMT
  <2>6. CollectorsCounted'
    BY <2>2, <2>5 DEF CollectorsCounted
  <2> QED
    BY <2>1, <2>2, <2>4, <2>6, <1>3 DEF TypeOK, RenewReturns, leaseVars
<1>4. CASE CollectorEnds
  <2>1. /\ healing' \in BOOLEAN
        /\ healer' \in [Healers -> {"off", "check", "wait", "recheck", "begin", "submit",
                                    "collect", "finish"}]
    BY <1>4, StartTyped DEF CollectorEnds
  <2> QED
    BY <2>1, <1>4, BoundsAssumption, SMT DEF TypeOK, CollectorsCounted, CollectorEnds, leaseVars
<1>5. ASSUME NEW r \in Replicas, Confirm(r) PROVE Typed'
  <2>1. confirmedUntil' \in [Replicas -> Nat]
    BY <1>5, ConfirmedTyped, GrantedNat DEF TypeOK, Confirm
  <2> QED
    BY <2>1, <1>5 DEF TypeOK, CollectorsCounted, Confirm, healerVars, callerVars
<1>6. ASSUME NEW r \in Replicas, Clear(r) PROVE Typed'
  <2>1. confirmedUntil' \in [Replicas -> Nat]
    BY <1>6, ConfirmedTyped DEF TypeOK, Clear
  <2> QED
    BY <2>1, <1>6 DEF TypeOK, CollectorsCounted, Clear, healerVars, callerVars
<1> QED BY <1>1, <1>2, <1>3, <1>4, <1>5, <1>6

\* So does a step of Release, of Close or of time.
LEMMA ReleaseTyped ==
  ASSUME Typed, Release \/ Releaser \/ Cancel \/ Tick
  PROVE  Typed'
<1> USE DEF Typed
<1>1. CASE Release
  BY <1>1 DEF TypeOK, CollectorsCounted, Release, healerVars
<1>2. CASE ReleaseWaited
  BY <1>2 DEF TypeOK, CollectorsCounted, ReleaseWaited, leaseVars, healerVars
<1>3. CASE ReleaseSubmit
  BY <1>3 DEF TypeOK, CollectorsCounted, ReleaseSubmit, leaseVars, healerVars
<1>4. CASE ReleaseReturns
  BY <1>4 DEF TypeOK, CollectorsCounted, ReleaseReturns, leaseVars, healerVars
<1>5. CASE Cancel
  BY <1>5 DEF TypeOK, CollectorsCounted, Cancel, leaseVars, healerVars, callerVars
<1>6. CASE Tick
  BY <1>6, BoundsAssumption, SMT DEF TypeOK, CollectorsCounted, Tick, leaseVars, healerVars, callerVars
<1> QED BY <1>1, <1>2, <1>3, <1>4, <1>5, <1>6 DEF Releaser

-----------------------------------------------------------------------------
(* The healing flag. *)

\* Whoever starts a healing goroutine leaves the flag right.
LEMMA StartFlag ==
  ASSUME Typed, HealingFlag, Start
  PROVE  HealingFlag' /\ (Needed => healing') /\ (\A h \in Healers : healer'[h] = "submit" => healer[h] = "submit")
<1>1. CASE ~healing /\ Needed
  BY <1>1, SMT DEF Typed, TypeOK, HealingFlag, On, Start, Goto, Healers
<1>2. CASE ~(~healing /\ Needed)
  BY <1>2 DEF Typed, TypeOK, HealingFlag, On, Start
<1> QED BY <1>1, <1>2

\* A healing goroutine clears the flag in the step that ends it, and only then.
LEMMA HealFlag ==
  ASSUME Typed, HealingFlag, NEW h \in Healers, Heal(h)
  PROVE  HealingFlag'
<1> USE DEF Typed, TypeOK, HealingFlag, On, Goto, Healers
<1>1. CASE Check(h)
  BY <1>1 DEF Check
<1>2. CASE Waited(h)
  BY <1>2 DEF Waited
<1>3. CASE Recheck(h)
  BY <1>3 DEF Recheck
<1>4. CASE Begin(h)
  BY <1>4 DEF Begin
<1>5. CASE Submit(h)
  BY <1>5 DEF Submit
<1>6. CASE Submitted(h)
  BY <1>6 DEF Submitted
<1>7. CASE Result(h)
  BY <1>7 DEF Result
<1>8. CASE Collected(h)
  BY <1>8 DEF Collected
<1>9. CASE FinishHealing(h)
  BY <1>9 DEF FinishHealing
<1> QED BY <1>1, <1>2, <1>3, <1>4, <1>5, <1>6, <1>7, <1>8, <1>9 DEF Heal

-----------------------------------------------------------------------------
(* No lost start. *)

\* More confirmations, a later clock or a given-up lease need no more healing.
LEMMA NeededOnlyLess ==
  ASSUME TypeOK, lifecycle' = lifecycle, validUntil' = validUntil,
         clock' \in Nat, clock <= clock',
         confirmedUntil' \in [Replicas -> Nat],
         \A r \in Replicas : confirmedUntil[r] <= confirmedUntil'[r],
         Needed'
  PROVE  Needed
BY SMT DEF TypeOK, Needed

\* markConfirmed never takes a confirmation back.
LEMMA MarkedMore ==
  ASSUME TypeOK, NEW r \in Replicas, NEW u \in Nat, MarkConfirmed(r, u)
  PROVE  /\ confirmedUntil' \in [Replicas -> Nat]
         /\ \A x \in Replicas : confirmedUntil[x] <= confirmedUntil'[x]
<1>1. CASE lifecycle = "active" /\ u > confirmedUntil[r]
  BY <1>1, SMT DEF TypeOK, MarkConfirmed
<1>2. CASE ~(lifecycle = "active" /\ u > confirmedUntil[r])
  BY <1>2, SMT DEF TypeOK, MarkConfirmed
<1> QED BY <1>1, <1>2

\* A step that leaves the lease alone leaves the need for healing alone.
LEMMA NeededSame ==
  ASSUME clock' = clock, lifecycle' = lifecycle, validUntil' = validUntil,
         confirmedUntil' = confirmedUntil
  PROVE  Needed' <=> Needed
BY DEF Needed

\* The healing goroutine does not leave a lease to nobody.
LEMMA HealNotForgotten ==
  ASSUME Typed, HealingNotForgotten, NEW h \in Healers, Heal(h)
  PROVE  HealingNotForgotten'
<1>1. CASE Check(h) \/ Waited(h) \/ Recheck(h) \/ Begin(h) \/ Submit(h) \/ Submitted(h) \/ Collected(h)
  <2>1. /\ clock' = clock /\ lifecycle' = lifecycle /\ validUntil' = validUntil
        /\ confirmedUntil' = confirmedUntil
        /\ healing' = healing /\ renewing' = renewing /\ collectors' = collectors
    BY <1>1 DEF Check, Waited, Recheck, Begin, Submit, Submitted, Collected, leaseVars, callerVars
  <2> QED
    BY <2>1, NeededSame DEF HealingNotForgotten
<1>2. CASE Result(h)
  <2>1. /\ clock' = clock /\ lifecycle' = lifecycle /\ validUntil' = validUntil
        /\ healing' = healing /\ renewing' = renewing /\ collectors' = collectors
    BY <1>2 DEF Result, callerVars
  <2>2. /\ confirmedUntil' \in [Replicas -> Nat]
        /\ \A x \in Replicas : confirmedUntil[x] <= confirmedUntil'[x]
    BY <1>2, MarkedMore, GrantedNat, SMT DEF Typed, TypeOK, Result
  <2>3. Needed' => Needed
    BY <2>1, <2>2, NeededOnlyLess, SMT DEF Typed, TypeOK
  <2> QED
    BY <2>1, <2>3 DEF HealingNotForgotten
<1>3. CASE FinishHealing(h)
  <2>1. Needed' <=> Needed
    BY <1>3, NeededSame DEF FinishHealing, leaseVars
  <2> QED
    BY <1>3, <2>1 DEF FinishHealing, HealingNotForgotten
<1> QED BY <1>1, <1>2, <1>3 DEF Heal

-----------------------------------------------------------------------------
(* Release and the healing batches. *)

\* No step of the healing goroutine begins a batch of a released lease, and a batch
\* that submits holds the wait group.
LEMMA HealOrder ==
  ASSUME Typed, BatchOrder, NEW h \in Healers, Heal(h)
  PROVE  BatchOrder'
<1> USE DEF Typed, TypeOK, BatchOrder, Goto, leaseVars, callerVars
<1>1. CASE Check(h)
  BY <1>1 DEF Check
<1>2. CASE Waited(h)
  BY <1>2 DEF Waited
<1>3. CASE Recheck(h)
  BY <1>3 DEF Recheck
<1>4. CASE Begin(h)
  BY <1>4 DEF Begin
<1>5. CASE Submit(h)
  BY <1>5 DEF Submit
<1>6. CASE Submitted(h)
  BY <1>6 DEF Submitted
<1>7. CASE Result(h)
  BY <1>7 DEF Result
<1>8. CASE Collected(h)
  BY <1>8 DEF Collected
<1>9. CASE FinishHealing(h)
  BY <1>9 DEF FinishHealing
<1> QED BY <1>1, <1>2, <1>3, <1>4, <1>5, <1>6, <1>7, <1>8, <1>9 DEF Heal

-----------------------------------------------------------------------------
(* The invariant. *)

\* A lease Acquire has just returned satisfies it.
LEMMA HealingInit == Init => HealingInv
<1> SUFFICES ASSUME Init PROVE HealingInv
  OBVIOUS
<1>1. TypeOK
  <2>1. PICK R \in SUBSET Replicas :
          confirmedUntil = [r \in Replicas |-> IF r \in R THEN TTL ELSE 0]
    BY DEF Init
  <2>2. confirmedUntil \in [Replicas -> Nat]
    BY <2>1, BoundsAssumption
  <2>3. 0 \in 0..MaxTime /\ 0 \in 0..MaxRenews /\ 1 \in 0..MaxRenews + 1
    BY BoundsAssumption, SMT
  <2> QED BY <2>2, <2>3, BoundsAssumption DEF Init, TypeOK
<1>2. CollectorsCounted
  BY SMT DEF Init, CollectorsCounted
<1>3. HealingFlag
  BY DEF Init, HealingFlag, On, Healers
<1>4. HealingNotForgotten
  BY SMT DEF Init, HealingNotForgotten
<1>5. BatchOrder
  BY DEF Init, BatchOrder
<1> QED BY <1>1, <1>2, <1>3, <1>4, <1>5 DEF HealingInv, Typed

\* Steps of Renew and of the collectors.
LEMMA CallerKeeps ==
  ASSUME HealingInv,
         \/ RenewBegin \/ RenewQuorum \/ RenewReturns \/ CollectorEnds
         \/ \E r \in Replicas : Confirm(r) \/ Clear(r)
  PROVE  HealingFlag' /\ HealingNotForgotten' /\ BatchOrder'
<1> USE DEF HealingInv
<1>1. CASE RenewBegin \/ RenewQuorum
  <2>1. renewing' /\ UNCHANGED <<healerVars, lifecycle, releasePc, lastSent>>
    BY <1>1, SMT DEF RenewBegin, RenewQuorum, callerVars
  <2> QED
    BY <2>1 DEF HealingFlag, On, HealingNotForgotten, BatchOrder, healerVars
<1>2. CASE RenewReturns
  <2>1. UNCHANGED <<clock, leaseVars, batches, releasePc, lastSent>>
    BY <1>2 DEF RenewReturns
  <2>2. CASE collectors' = collectors + 1 /\ UNCHANGED <<healing, healer>>
    <3>1. collectors' > 0
      BY <2>2, SMT DEF Typed, TypeOK
    <3> QED
      BY <2>1, <2>2, <3>1 DEF HealingFlag, On, HealingNotForgotten, BatchOrder, leaseVars
  <2>3. CASE Start
    <3>1. Needed' <=> Needed
      BY <2>1, NeededSame DEF leaseVars
    <3> QED
      BY <2>1, <2>3, <3>1, StartFlag DEF HealingNotForgotten, BatchOrder, leaseVars
  <2> QED BY <1>2, <2>2, <2>3 DEF RenewReturns
<1>3. CASE CollectorEnds
  <2>1. UNCHANGED <<clock, leaseVars, batches, releasePc, lastSent>> /\ Start
    BY <1>3 DEF CollectorEnds
  <2>2. Needed' <=> Needed
    BY <2>1, NeededSame DEF leaseVars
  <2> QED
    BY <2>1, <2>2, StartFlag DEF HealingNotForgotten, BatchOrder, leaseVars
<1>4. CASE \E r \in Replicas : Confirm(r) \/ Clear(r)
  <2>1. /\ UNCHANGED <<healerVars, lifecycle, releasePc, lastSent, renewing, collectors>>
        /\ renewing \/ collectors > 0
    BY <1>4 DEF Confirm, Clear, callerVars
  <2> QED
    BY <2>1 DEF HealingFlag, On, HealingNotForgotten, BatchOrder, healerVars
<1> QED BY <1>1, <1>2, <1>3, <1>4

\* Steps of Release, of Close and of time.
LEMMA ReleaseKeeps ==
  ASSUME HealingInv, Release \/ Releaser \/ Cancel \/ Tick
  PROVE  HealingFlag' /\ HealingNotForgotten' /\ BatchOrder'
<1> USE DEF HealingInv
<1>1. HealingFlag' /\ UNCHANGED <<healerVars, renewing, collectors>>
  BY SMT DEF Release, Releaser, ReleaseWaited, ReleaseSubmit, ReleaseReturns, Cancel, Tick,
         healerVars, callerVars, HealingFlag, On
<1>2. HealingNotForgotten'
  <2>1. CASE Release
    BY <2>1 DEF Release, HealingNotForgotten, Needed
  <2>2. CASE Releaser \/ Cancel
    <3>1. UNCHANGED <<clock, leaseVars>>
      BY <2>2 DEF Releaser, ReleaseWaited, ReleaseSubmit, ReleaseReturns, Cancel
    <3>2. Needed' <=> Needed
      BY <3>1, NeededSame DEF leaseVars
    <3> QED
      BY <3>2, <1>1 DEF HealingNotForgotten, healerVars
  <2>3. CASE Tick
    <3>1. Needed' => Needed
      BY <2>3, NeededOnlyLess, SMT DEF Tick, leaseVars, Typed, TypeOK
    <3> QED
      BY <3>1, <1>1 DEF HealingNotForgotten, healerVars
  <2> QED BY <2>1, <2>2, <2>3
<1>3. BatchOrder'
  <2> USE DEF BatchOrder, healerVars, Typed, TypeOK
  <2>1. CASE Release
    BY <2>1 DEF Release
  <2>2. CASE ReleaseWaited
    BY <2>2 DEF ReleaseWaited, BatchesDone, leaseVars
  <2>3. CASE ReleaseSubmit
    BY <2>3 DEF ReleaseSubmit, leaseVars
  <2>4. CASE ReleaseReturns
    BY <2>4 DEF ReleaseReturns, leaseVars
  <2>5. CASE Cancel \/ Tick
    BY <2>5 DEF Cancel, Tick, leaseVars, callerVars
  <2> QED BY <2>1, <2>2, <2>3, <2>4, <2>5 DEF Releaser
<1> QED BY <1>1, <1>2, <1>3

\* Every step keeps the invariant.
LEMMA HealingStep == HealingInv /\ [Next]_vars => HealingInv'
<1> SUFFICES ASSUME HealingInv, [Next]_vars PROVE HealingInv'
  OBVIOUS
<1>1. CASE \E h \in Healers : Heal(h)
  BY <1>1, HealTyped, HealFlag, HealNotForgotten, HealOrder DEF HealingInv
<1>2. CASE RenewBegin \/ RenewQuorum \/ RenewReturns \/ CollectorEnds
  BY <1>2, CallerTyped, CallerKeeps DEF HealingInv
<1>3. CASE \E r \in Replicas : Confirm(r) \/ Clear(r)
  BY <1>3, CallerTyped, CallerKeeps DEF HealingInv
<1>4. CASE Release \/ Releaser \/ Cancel \/ Tick
  BY <1>4, ReleaseTyped, ReleaseKeeps DEF HealingInv
<1>5. CASE UNCHANGED vars
  BY <1>5, SMT DEF vars, leaseVars, healerVars, callerVars, HealingInv, Typed, TypeOK,
              CollectorsCounted, HealingFlag, On, HealingNotForgotten, Needed, BatchOrder
<1> QED BY <1>1, <1>2, <1>3, <1>4, <1>5 DEF Next

\* The invariant holds in every reachable state.
LEMMA HealingInvariant == Spec => []HealingInv
BY HealingInit, HealingStep, PTL DEF Spec

-----------------------------------------------------------------------------
(* The theorems. *)

\* At most one goroutine heals a lease, and the flag says whether one does: the
\* check-and-set of startBackgroundHealing and the re-check of
\* finishBackgroundHealing under stateMu.
THEOREM OneHealerHolds == Spec => []OneHealer
<1>1. HealingInv => OneHealer
  <2> SUFFICES ASSUME HealingInv PROVE OneHealer
    OBVIOUS
  <2> DEFINE S == {h \in Healers : healer[h] # "off"}
  <2>1. S = {} \/ S = {1} \/ S = {2}
    BY DEF HealingInv, HealingFlag, On, Healers
  <2>2. Cardinality(S) <= 1
    <3>1. Cardinality({}) = 0
      BY FS_EmptySet
    <3>2. Cardinality({1}) = 1 /\ Cardinality({2}) = 1
      BY FS_Singleton
    <3> QED BY <2>1, <3>1, <3>2, SMT
  <2> QED
    BY <2>2 DEF OneHealer, HealingInv, HealingFlag, On, Healers
<1> QED BY <1>1, HealingInvariant, PTL

\* A valid lease that is not confirmed everywhere is never left to nobody, whatever
\* the order in which Renew, late responses and the healing goroutine look at it.
THEOREM HealingNotForgottenHolds == Spec => []HealingNotForgotten
<1>1. HealingInv => HealingNotForgotten
  BY DEF HealingInv
<1> QED BY <1>1, HealingInvariant, PTL

\* Once a replica's queue has the Release, no healing batch puts an Acquire behind it:
\* Release marks the lease and waits for healingBatches before it sends.
THEOREM AcquireNeverFollowsReleaseHolds == Spec => AcquireNeverFollowsRelease
<1> DEFINE Kept == \A r \in Replicas : lastSent[r] = "release" => lastSent'[r] = "release"
<1>1. HealingInv /\ [Next]_vars => [Kept]_vars
  <2> SUFFICES ASSUME HealingInv, Next PROVE Kept
    BY DEF vars
  <2>1. CASE \E h \in Healers : Submit(h)
    <3>1. \A r \in Replicas : lastSent[r] # "release"
      BY <2>1 DEF HealingInv, BatchOrder, Submit
    <3> QED BY <3>1
  <2>2. CASE ReleaseSubmit
    BY <2>2 DEF ReleaseSubmit, HealingInv, Typed, TypeOK
  <2>3. CASE UNCHANGED lastSent
    BY <2>3
  <2> QED
    BY <2>1, <2>2, <2>3
    DEF Next, Heal, Check, Waited, Recheck, Begin, Submitted, Result, Collected, FinishHealing,
        RenewBegin, RenewQuorum, RenewReturns, CollectorEnds, Confirm, Clear, Release, Releaser,
        ReleaseWaited, ReleaseReturns, Cancel, Tick
<1> QED BY <1>1, HealingInvariant, PTL DEF Spec, AcquireNeverFollowsRelease
=============================================================================
