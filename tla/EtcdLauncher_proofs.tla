------------------------- MODULE EtcdLauncher_proofs -------------------------
(***************************************************************************)
(* The safety of the launcher in etcd mode, for any number of launchers,   *)
(* slots and restarts, and for any durations that satisfy                  *)
(* EtcdLauncherAssumption.                                                 *)
(*                                                                         *)
(* ActiveHoldsSlot rests on Timing: from the first successful keepalive on *)
(* the etcd lease outlives the deadline of the launcher's present timer,   *)
(* and before it the quarantine does.  That a lease which exists is still  *)
(* the one bound to the slot (Bound) follows from the requests that can be *)
(* underway for it (Underway): those of abandoned attempts carry other     *)
(* leases.                                                                 *)
(***************************************************************************)
EXTENDS EtcdLauncher, TLAPS

\* Most leaves are first-order reasoning; the ones that need arithmetic, functions or
\* records cite SMT.
USE Zenon

-----------------------------------------------------------------------------
(* The inductive invariant. *)

\* Leases and requests carry numbers that the launchers have used.
Used(id) == \A l \in Launchers, n \in Nat : id = <<l, n>> => n <= grants[l]

Numbered ==
  /\ \A id \in DOMAIN expiry : Used(id)
  /\ \A m \in net : Used(m.id) /\ (m.op = "grant" => m.id \in LeaseIds)

\* The only request underway for a lease its launcher has not given up is the one
\* the launcher waits for.
Underway ==
  \A l \in Launchers : pc[l] \in {"grant", "put", "registered", "keepalive"} =>
    \A m \in net : m.id = Lease(l) => m = Message(l, pc[l]) /\ reply[l] = NoReply

Registering(l) == pc[l] = "put" /\ reply[l] = "ok"
Running(l) == pc[l] \in {"registered", "keepalive"}

\* The lease of a registration is bound to the slot for as long as it exists.
Bound ==
  \A l \in Launchers :
    (Registering(l) \/ Running(l)) /\ Exists(Lease(l)) => key[slot[l]] = Lease(l)

ServerRuns == \A l \in Launchers : server[l] # "none" => Running(l)

\* The lease cannot expire before the launcher's timer has been served delay later.
Lasts(l, delay) == Exists(Lease(l)) /\ deadline[l] + delay <= expiry[Lease(l)]

\* The server cannot become active before that.
Quarantined(l, delay) == server[l] # "active" /\ deadline[l] + delay < activeAt[l]

\* A timer is armed for at most one period, and is served when it fires.
Timing ==
  \A l \in Launchers :
    /\ Running(l) => now <= deadline[l] /\ deadline[l] <= now + KeepAlivePeriod
    /\ pc[l] = "registered" =>
         Lasts(l, LeaseTTL - KeepAlivePeriod) \/ Quarantined(l, KeepAlivePeriod)
    /\ pc[l] = "keepalive" =>
         IF reply[l] = "ok" THEN Lasts(l, LeaseTTL - KeepAlivePeriod)
                            ELSE Lasts(l, LeaseTTL - 2 * KeepAlivePeriod) \/ Quarantined(l, 0)

\* What was deleted since a snapshot that showed no free slot is an event of the watch.
Watching ==
  \A l \in Launchers, s \in Slots :
    /\ pc[l] = "watch" \/ (pc[l] = "get" /\ reply[l] = "occupied")
    /\ key[s] = NoLease
    => l \in missed

\* A process that ends was not the last one.
RestartsLeft ==
  \A l \in Launchers : pc[l] \in {"exited", "revokeExit"} => restarts[l] < MaxRestarts

LauncherInv ==
  /\ TypeOK /\ RestartsLeft
  /\ Numbered /\ Underway /\ Bound /\ ServerRuns /\ Timing
  /\ Watching
-----------------------------------------------------------------------------
(* Leases, requests and durations. *)

\* The durations, and the numbers of a launcher's leases.
LEMMA Durations ==
  ASSUME TypeOK
  PROVE  /\ LeaseTTL \in Nat /\ KeepAlivePeriod \in Nat /\ KeepAlivePeriod > 0
         /\ OperationTimeout \in Nat /\ RetryDelay \in Nat /\ Quarantine \in Nat
         /\ 2 * KeepAlivePeriod < LeaseTTL /\ 2 * KeepAlivePeriod < Quarantine
         /\ SlotCount \in Nat /\ MaxTime \in Nat /\ MaxGrants \in Nat /\ MaxRestarts \in Nat
         /\ 1 \in Slots
         /\ now \in Nat
         /\ \A l \in Launchers : grants[l] \in Nat /\ deadline[l] \in Nat /\ activeAt[l] \in Nat
<1>1. now \in 0..MaxTime /\ \A l \in Launchers : grants[l] \in 0..MaxGrants
  BY DEF TypeOK
<1>2. \A l \in Launchers : deadline[l] \in Nat /\ activeAt[l] \in Nat
  BY DEF TypeOK
<1> QED BY <1>1, <1>2, EtcdLauncherAssumption, SMT DEF Slots

\* Pairs, NoLease and the leases of others are told apart.
LEMMA PairsDiffer ==
  /\ \A l, k, n, i : <<l, n>> = <<k, i>> => l = k /\ n = i
  /\ \A l, n : <<l, n>> # NoLease
BY SMT DEF NoLease

LEMMA NotALease == NoLease \notin LeaseIds \cup (Launchers \X {0})
BY PairsDiffer, SMT DEF LeaseIds, Foreign, NoLease

LEMMA LeasesDiffer ==
  ASSUME NEW l \in Launchers, NEW k \in Launchers, Lease(l) = Lease(k)
  PROVE  l = k
BY PairsDiffer DEF Lease

\* A request of launcher l for its latest lease.
LEMMA MessageTyped ==
  ASSUME TypeOK, NEW l \in Launchers,
         NEW op \in {"grant", "put", "get", "keepalive", "revoke"}
  PROVE  Message(l, op) \in Messages
<1>1. grants[l] \in 0..MaxGrants /\ slot[l] \in Slots
  BY DEF TypeOK
<1>2. Lease(l) \in LeaseIds \cup (Launchers \X {0})
  BY <1>1, Durations, SMT DEF Lease, LeaseIds
<1> QED BY <1>1, <1>2 DEF Message, Messages

Labels == Calling \cup Sleeping \cup {"try", "snapshot", "watch", "exited"}

\* Sending a request keeps the types.
LEMMA CallTyped ==
  ASSUME TypeOK, NEW l \in Launchers, NEW label \in Calling, NEW m \in Messages,
         NEW timeout \in Nat, Call(l, label, m, timeout)
  PROVE  /\ net' \subseteq Messages /\ reply' \in [Launchers -> {NoReply, "ok", "occupied", "error"}]
         /\ pc' \in [Launchers -> Labels] /\ deadline' \in [Launchers -> Nat]
         /\ UNCHANGED <<expiry, key, missed>>
<1>1. now + timeout \in Nat
  BY Durations, SMT
<1> QED BY <1>1 DEF TypeOK, Call, Goto, Arm, Labels

\* So does waitEtcdRetry.
LEMMA RetryTyped ==
  ASSUME TypeOK, NEW l \in Launchers, Retry(l)
  PROVE  /\ pc' \in [Launchers -> Labels] /\ deadline' \in [Launchers -> Nat]
         /\ UNCHANGED etcdVars
<1>1. now + RetryDelay \in Nat
  BY Durations, SMT
<1> QED BY <1>1 DEF TypeOK, Retry, Goto, Arm, Labels, Sleeping

-----------------------------------------------------------------------------
(* The launchers keep the types. *)

\* Sending a request for the lease of the present attempt.
LEMMA SendTyped ==
  ASSUME TypeOK, NEW l \in Launchers, NEW label \in Calling,
         NEW op \in {"put", "get", "keepalive", "revoke"}, NEW timeout \in Nat,
         Call(l, label, Message(l, op), timeout),
         UNCHANGED <<now, slot, grants, restarts, activeAt>>,
         server' \in [Launchers -> {"none", "quarantine", "active"}]
  PROVE  TypeOK'
<1>1. Message(l, op) \in Messages
  BY MessageTyped
<1>2. /\ net' \subseteq Messages /\ reply' \in [Launchers -> {NoReply, "ok", "occupied", "error"}]
      /\ pc' \in [Launchers -> Labels] /\ deadline' \in [Launchers -> Nat]
      /\ UNCHANGED <<expiry, key, missed>>
  BY <1>1, CallTyped
<1> QED BY <1>2 DEF TypeOK, Exists, Labels

\* Moving to another place, with or without a timer or another slot.
LEMMA MoveTyped ==
  ASSUME TypeOK, NEW l \in Launchers, UNCHANGED <<now, etcdVars, grants, activeAt>>,
         pc' \in [Launchers -> Labels], deadline' \in [Launchers -> Nat],
         slot' \in [Launchers -> Slots], restarts' \in [Launchers -> 0..MaxRestarts],
         server' \in [Launchers -> {"none", "quarantine", "active"}]
  PROVE  TypeOK'
BY DEF TypeOK, etcdVars, Exists, Labels

\* Acquiring a slot keeps the types.
LEMMA AcquireTyped ==
  ASSUME TypeOK, NEW l \in Launchers,
         \/ Grant(l) \/ Put(l) \/ GrantFails(l) \/ Registered(l) \/ Occupied(l) \/ PutFails(l)
         \/ NextSlot(l) \/ RetryAfterRevoke(l) \/ RetryOver(l)
  PROVE  TypeOK'
<1> USE DEF lifeVars
<1>0. /\ slot \in [Launchers -> Slots] /\ 1 \in Slots /\ [slot EXCEPT ![l] = 1] \in [Launchers -> Slots]
      /\ OperationTimeout \in Nat /\ RetryDelay \in Nat /\ deadline \in [Launchers -> Nat]
      /\ restarts \in [Launchers -> 0..MaxRestarts]
      /\ server \in [Launchers -> {"none", "quarantine", "active"}]
      /\ pc \in [Launchers -> Labels]
  BY Durations DEF TypeOK, Labels
<1>1. CASE Grant(l)
  <2> DEFINE m == [op |-> "grant", id |-> <<l, grants[l] + 1>>, slot |-> slot[l]]
  <2>1. grants[l] + 1 \in 1..MaxGrants /\ grants[l] + 1 \in 0..MaxGrants
    BY <1>1, Durations, SMT DEF Grant
  <2>2. m \in Messages
    BY <1>0, <2>1 DEF Messages, LeaseIds
  <2>3. Call(l, "grant", m, OperationTimeout) /\ "grant" \in Calling
    BY <1>1 DEF Grant, Calling
  <2> HIDE DEF m
  <2>4. /\ net' \subseteq Messages /\ reply' \in [Launchers -> {NoReply, "ok", "occupied", "error"}]
        /\ pc' \in [Launchers -> Labels] /\ deadline' \in [Launchers -> Nat]
        /\ UNCHANGED <<expiry, key, missed>>
    BY <1>0, <2>2, <2>3, CallTyped
  <2>5. grants' \in [Launchers -> 0..MaxGrants]
    BY <1>1, <2>1 DEF Grant, TypeOK
  <2> QED BY <1>1, <2>4, <2>5 DEF Grant, TypeOK, Exists, Labels
<1>2. CASE Put(l)
  BY <1>0, <1>2, SendTyped DEF Put, Calling
<1>3. CASE Occupied(l) \/ PutFails(l)
  BY <1>0, <1>3, SendTyped DEF Occupied, PutFails, Revoke, Calling
<1>4. CASE GrantFails(l) \/ RetryAfterRevoke(l)
  BY <1>0, <1>4, RetryTyped, MoveTyped DEF GrantFails, RetryAfterRevoke
<1>5. CASE Registered(l)
  <2>1. now + KeepAlivePeriod \in Nat /\ now + Quarantine \in Nat
    BY Durations, SMT
  <2>2. /\ deadline' \in [Launchers -> Nat] /\ activeAt' \in [Launchers -> Nat]
        /\ pc' \in [Launchers -> Labels] /\ server' \in [Launchers -> {"none", "quarantine", "active"}]
    BY <1>5, <2>1 DEF Registered, TypeOK, Goto, Arm, Labels, Sleeping
  <2> QED BY <1>5, <2>2 DEF Registered, TypeOK, etcdVars, Exists, Labels
<1>6. CASE NextSlot(l)
  <2>1. MoreSlots(l) => slot[l] + 1 \in Slots
    BY <1>0, Durations, SMT DEF MoreSlots, Slots
  <2>2. slot' \in [Launchers -> Slots]
    <3>1. slot \in [Launchers -> Slots] /\ 1 \in Slots
      BY <1>0
    <3> QED BY <1>6, <2>1, <3>1 DEF NextSlot
  <2>3. pc' \in [Launchers -> Labels]
    BY <1>0, <1>6 DEF NextSlot, Goto, Labels
  <2> QED BY <1>0, <1>6, <2>2, <2>3, MoveTyped DEF NextSlot
<1>7. CASE RetryOver(l)
  <2>1. pc' \in [Launchers -> Labels]
    BY <1>0, <1>7 DEF RetryOver, Goto, Labels
  <2> QED BY <1>0, <1>7, <2>1, MoveTyped DEF RetryOver
<1> QED BY <1>1, <1>2, <1>3, <1>4, <1>5, <1>6, <1>7

\* So do the wait for a slot, the registration and the lifecycle of the process.
LEMMA LiveTyped ==
  ASSUME TypeOK, RestartsLeft, NEW l \in Launchers,
         \/ Get(l) \/ SlotFree(l) \/ Watch(l) \/ WatchEvent(l) \/ WatchFails(l)
         \/ KeepAlive(l) \/ KeptAlive(l) \/ RegistrationLost(l) \/ Reacquire(l)
         \/ ServerActive(l) \/ Shutdown(l) \/ Exit(l) \/ Crash(l) \/ Restart(l)
  PROVE  TypeOK'
<1> USE DEF lifeVars
<1>0. /\ slot \in [Launchers -> Slots] /\ 1 \in Slots /\ [slot EXCEPT ![l] = 1] \in [Launchers -> Slots]
      /\ OperationTimeout \in Nat /\ KeepAlivePeriod \in Nat /\ deadline \in [Launchers -> Nat]
      /\ restarts \in [Launchers -> 0..MaxRestarts]
      /\ server \in [Launchers -> {"none", "quarantine", "active"}]
      /\ [server EXCEPT ![l] = "none"] \in [Launchers -> {"none", "quarantine", "active"}]
      /\ [server EXCEPT ![l] = "active"] \in [Launchers -> {"none", "quarantine", "active"}]
      /\ pc \in [Launchers -> Labels]
  BY Durations DEF TypeOK, Labels
<1>1. \A label \in Labels : [pc EXCEPT ![l] = label] \in [Launchers -> Labels]
  BY <1>0
<1>2. CASE Get(l)
  BY <1>0, <1>2, SendTyped DEF Get, Calling
<1>3. CASE SlotFree(l) \/ Watch(l) \/ WatchEvent(l) \/ KeptAlive(l) \/ Exit(l)
  <2>1. pc' \in [Launchers -> Labels]
    BY <1>1, <1>3 DEF SlotFree, Watch, WatchEvent, KeptAlive, Exit, Goto, Labels, Sleeping
  <2> QED BY <1>0, <1>3, <2>1, MoveTyped DEF SlotFree, Watch, WatchEvent, KeptAlive, Exit
<1>4. CASE WatchFails(l)
  BY <1>0, <1>4, RetryTyped, MoveTyped DEF WatchFails
<1>5. CASE KeepAlive(l)
  BY <1>0, <1>5, SendTyped DEF KeepAlive, KeepAliveTimeout, Calling
<1>6. CASE RegistrationLost(l)
  BY <1>0, <1>6, SendTyped DEF RegistrationLost, ServerAfterLoss, Revoke, Calling
<1>7. CASE Reacquire(l)
  <2>1. pc' \in [Launchers -> Labels]
    BY <1>1, <1>7 DEF Reacquire, Goto, Labels
  <2> QED BY <1>0, <1>7, <2>1, MoveTyped DEF Reacquire
<1>8. CASE ServerActive(l)
  BY <1>0, <1>8, MoveTyped DEF ServerActive
<1>9. CASE Shutdown(l)
  <2>1. CASE Revoke(l, "revokeExit")
    BY <1>0, <1>9, <2>1, SendTyped DEF Shutdown, Revoke, Calling
  <2>2. CASE Goto(l, "exited") /\ UNCHANGED <<etcdVars, deadline>>
    <3>1. pc' \in [Launchers -> Labels]
      BY <1>1, <2>2 DEF Goto, Labels
    <3> QED BY <1>0, <1>9, <2>2, <3>1, MoveTyped DEF Shutdown
  <2> QED BY <1>9, <2>1, <2>2 DEF Shutdown
<1>10. CASE Crash(l)
  <2>1. pc' \in [Launchers -> Labels]
    BY <1>1, <1>10 DEF Crash, Goto, Labels
  <2> QED BY <1>0, <1>10, <2>1, MoveTyped DEF Crash
<1>11. CASE Restart(l)
  <2>1. restarts[l] \in 0..MaxRestarts /\ restarts[l] < MaxRestarts
    BY <1>0, <1>11 DEF Restart, RestartsLeft
  <2>2. restarts[l] + 1 \in 0..MaxRestarts
    BY <2>1, Durations, SMT
  <2>3. pc' \in [Launchers -> Labels] /\ restarts' \in [Launchers -> 0..MaxRestarts]
    BY <1>0, <1>1, <1>11, <2>2 DEF Restart, Goto, Labels
  <2> QED BY <1>0, <1>11, <2>3, MoveTyped DEF Restart
<1> QED BY <1>2, <1>3, <1>4, <1>5, <1>6, <1>7, <1>8, <1>9, <1>10, <1>11

-----------------------------------------------------------------------------
(* What a step of a launcher leaves alone. *)

\* It changes nothing in etcd and nothing of the other launchers.
LEMMA OwnState ==
  ASSUME TypeOK, NEW l \in Launchers, Launcher(l)
  PROVE  /\ UNCHANGED <<now, expiry, key, missed>>
         /\ \A k \in Launchers : k # l =>
              /\ pc'[k] = pc[k] /\ reply'[k] = reply[k] /\ deadline'[k] = deadline[k]
              /\ slot'[k] = slot[k] /\ grants'[k] = grants[k] /\ restarts'[k] = restarts[k]
              /\ server'[k] = server[k] /\ activeAt'[k] = activeAt[k]
<1> USE DEF TypeOK, Call, Revoke, Retry, Goto, Arm, etcdVars, lifeVars
<1>1. CASE Grant(l) \/ Put(l) \/ Occupied(l) \/ PutFails(l)
  BY <1>1 DEF Grant, Put, Occupied, PutFails
<1>6. CASE GrantFails(l) \/ Registered(l)
  BY <1>6 DEF GrantFails, Registered
<1>2. CASE NextSlot(l) \/ RetryAfterRevoke(l) \/ RetryOver(l) \/ Get(l) \/ SlotFree(l)
  BY <1>2 DEF NextSlot, RetryAfterRevoke, RetryOver, Get, SlotFree
<1>3. CASE Watch(l) \/ WatchEvent(l) \/ WatchFails(l) \/ KeepAlive(l) \/ KeptAlive(l)
  BY <1>3 DEF Watch, WatchEvent, WatchFails, KeepAlive, KeptAlive
<1>4. CASE RegistrationLost(l) \/ Reacquire(l) \/ ServerActive(l)
  BY <1>4 DEF RegistrationLost, Reacquire, ServerActive
<1>5. CASE Shutdown(l)
  BY <1>5 DEF Shutdown
<1>7. CASE Exit(l) \/ Crash(l) \/ Restart(l)
  BY <1>7 DEF Exit, Crash, Restart
<1> QED BY <1>1, <1>2, <1>3, <1>4, <1>5, <1>6, <1>7 DEF Launcher

\* What it may send is a request for the lease of its latest attempt, and only a new
\* attempt has a new number.
LEMMA OwnRequests ==
  ASSUME TypeOK, NEW l \in Launchers, Launcher(l)
  PROVE  /\ net \subseteq net'
         /\ \A m \in net' \ net : m.id = Lease(l)' /\ (m.op = "grant" => Grant(l))
         /\ ~Grant(l) => grants' = grants
<1> USE DEF Call, Revoke, Retry, Message, Lease, etcdVars, lifeVars
<1>1. CASE Grant(l)
  <2>1. /\ net' = net \cup {[op |-> "grant", id |-> <<l, grants[l] + 1>>, slot |-> slot[l]]}
        /\ grants'[l] = grants[l] + 1
    BY <1>1 DEF Grant, TypeOK
  <2> QED BY <1>1, <2>1, SMT
<1>2. ASSUME NEW op \in {"put", "get", "keepalive", "revoke"}, grants' = grants,
             net' = net \cup {Message(l, op)}
      PROVE  \A m \in net' \ net : m.id = Lease(l)' /\ m.op # "grant"
  BY <1>2, SMT
<1>3. CASE Put(l) \/ Occupied(l) \/ PutFails(l) \/ Get(l) \/ KeepAlive(l) \/ RegistrationLost(l)
  <2>1. grants' = grants /\ \E op \in {"put", "get", "keepalive", "revoke"} : net' = net \cup {Message(l, op)}
    BY <1>3 DEF Put, Occupied, PutFails, Get, KeepAlive, RegistrationLost
  <2> QED BY <1>2, <2>1
<1>4. CASE Shutdown(l)
  <2>1. /\ grants' = grants
        /\ net' = net \/ \E op \in {"put", "get", "keepalive", "revoke"} : net' = net \cup {Message(l, op)}
    BY <1>4 DEF Shutdown
  <2> QED BY <1>2, <2>1
<1>5. CASE \/ GrantFails(l) \/ Registered(l) \/ NextSlot(l) \/ RetryAfterRevoke(l) \/ RetryOver(l)
           \/ SlotFree(l) \/ Watch(l) \/ WatchEvent(l) \/ WatchFails(l) \/ KeptAlive(l)
           \/ Reacquire(l) \/ ServerActive(l) \/ Exit(l) \/ Crash(l) \/ Restart(l)
  <2>1. UNCHANGED <<net, grants>>
    BY <1>5 DEF GrantFails, Registered, NextSlot, RetryAfterRevoke, RetryOver, SlotFree, Watch,
         WatchEvent, WatchFails, KeptAlive, Reacquire, ServerActive, Exit, Crash, Restart
  <2> QED BY <2>1
<1> QED BY <1>1, <1>3, <1>4, <1>5 DEF Launcher

-----------------------------------------------------------------------------
(* The launchers keep the invariant. *)

\* The invariant, for one launcher.
UnderwayFor(l) ==
  pc[l] \in {"grant", "put", "registered", "keepalive"} =>
    \A m \in net : m.id = Lease(l) => m = Message(l, pc[l]) /\ reply[l] = NoReply

BoundFor(l) == (Registering(l) \/ Running(l)) /\ Exists(Lease(l)) => key[slot[l]] = Lease(l)

TimingFor(l) ==
  /\ Running(l) => now <= deadline[l] /\ deadline[l] <= now + KeepAlivePeriod
  /\ pc[l] = "registered" =>
       Lasts(l, LeaseTTL - KeepAlivePeriod) \/ Quarantined(l, KeepAlivePeriod)
  /\ pc[l] = "keepalive" =>
       IF reply[l] = "ok" THEN Lasts(l, LeaseTTL - KeepAlivePeriod)
                          ELSE Lasts(l, LeaseTTL - 2 * KeepAlivePeriod) \/ Quarantined(l, 0)

WatchingFor(l) ==
  pc[l] = "watch" \/ (pc[l] = "get" /\ reply[l] = "occupied") =>
    \A s \in Slots : key[s] = NoLease => l \in missed

Sound(l) ==
  /\ UnderwayFor(l) /\ BoundFor(l) /\ TimingFor(l) /\ WatchingFor(l)
  /\ server[l] # "none" => Running(l)
  /\ pc[l] \in {"exited", "revokeExit"} => restarts[l] < MaxRestarts

LEMMA ByLauncher == LauncherInv <=> TypeOK /\ Numbered /\ \A l \in Launchers : Sound(l)
BY DEF LauncherInv, RestartsLeft, Underway, Bound, ServerRuns, Timing, Watching, Sound,
       UnderwayFor, BoundFor, TimingFor, WatchingFor

\* A step of launcher l disturbs no other launcher.
LEMMA OthersSound ==
  ASSUME TypeOK, NEW l \in Launchers, Launcher(l), NEW k \in Launchers, k # l, Sound(k)
  PROVE  Sound(k)'
<1>1. /\ UNCHANGED <<now, expiry, key, missed>>
      /\ pc'[k] = pc[k] /\ reply'[k] = reply[k] /\ deadline'[k] = deadline[k]
      /\ slot'[k] = slot[k] /\ grants'[k] = grants[k] /\ restarts'[k] = restarts[k]
      /\ server'[k] = server[k] /\ activeAt'[k] = activeAt[k]
  BY OwnState
<1>2. Lease(k)' = Lease(k) /\ Lease(l)' # Lease(k)
  BY <1>1, PairsDiffer DEF Lease
<1>3. UnderwayFor(k)'
  <2>1. \A m \in net' : m.id = Lease(k) => m \in net
    BY <1>2, OwnRequests
  <2> QED BY <1>1, <1>2, <2>1 DEF UnderwayFor, Message, Sound
<1>4. BoundFor(k)' /\ WatchingFor(k)'
  BY <1>1, <1>2 DEF BoundFor, WatchingFor, Sound, Registering, Running, Exists
<1>5. TimingFor(k)'
  BY <1>1, <1>2 DEF TimingFor, Sound, Running, Lasts, Quarantined, Exists
<1> QED BY <1>1, <1>3, <1>4, <1>5 DEF Sound, Running

\* The numbers of leases and requests stay in use.
LEMMA OwnNumbers ==
  ASSUME TypeOK, Numbered, NEW l \in Launchers, Launcher(l)
  PROVE  Numbered'
<1>1. \A k \in Launchers, n \in Nat : n <= grants[k] => n <= grants'[k]
  <2>1. CASE Grant(l)
    <3>1. \A k \in Launchers : grants'[k] = IF k = l THEN grants[l] + 1 ELSE grants[k]
      BY <2>1 DEF Grant, TypeOK
    <3> QED BY <3>1, Durations, SMT
  <2>2. CASE ~Grant(l)
    BY <2>2, OwnRequests
  <2> QED BY <2>1, <2>2
<1>2. \A id : Used(id) => Used(id)'
  BY <1>1 DEF Used
<1>3. \A id \in DOMAIN expiry' : Used(id)'
  BY <1>2, OwnState DEF Numbered
<1>4. ASSUME NEW m \in net'
      PROVE  Used(m.id)' /\ (m.op = "grant" => m.id \in LeaseIds)
  <2>1. CASE m \in net
    BY <1>2, <2>1 DEF Numbered
  <2>2. CASE m \notin net
    <3>1. m.id = <<l, grants'[l]>> /\ (m.op = "grant" => Grant(l))
      BY <2>2, OwnRequests DEF Lease
    <3>2. grants'[l] \in Nat
      <4>1. CASE Grant(l)
        <5>1. grants'[l] = grants[l] + 1
          BY <4>1 DEF Grant, TypeOK
        <5> QED BY <5>1, Durations, SMT
      <4>2. CASE ~Grant(l)
        BY <4>2, OwnRequests, Durations
      <4> QED BY <4>1, <4>2
    <3>3. Used(m.id)'
      <4>1. \A n \in Nat : n = grants'[l] => n <= grants'[l]
        BY <3>2, SMT
      <4> QED BY <3>1, <4>1, PairsDiffer DEF Used
    <3>4. ASSUME m.op = "grant"
          PROVE  m.id \in LeaseIds
      <4>1. grants'[l] = grants[l] + 1 /\ grants[l] < MaxGrants
        BY <3>1, <3>4 DEF Grant, TypeOK
      <4>2. grants'[l] \in 1..MaxGrants
        BY <4>1, Durations, SMT
      <4> QED BY <3>1, <4>2, SMT DEF LeaseIds
    <3> QED BY <3>3, <3>4
  <2> QED BY <2>1, <2>2
<1> QED BY <1>3, <1>4 DEF Numbered

\* A launcher that leaves its attempt has nothing to protect.
LEMMA LeaveSound ==
  ASSUME TypeOK, NEW l \in Launchers, Sound(l),
         \/ GrantFails(l) \/ Occupied(l) \/ PutFails(l) \/ NextSlot(l) \/ RetryAfterRevoke(l)
         \/ RetryOver(l) \/ SlotFree(l) \/ WatchEvent(l) \/ WatchFails(l) \/ RegistrationLost(l)
         \/ Reacquire(l) \/ Shutdown(l) \/ Exit(l) \/ Crash(l) \/ Restart(l)
  PROVE  Sound(l)'
<1> USE DEF Call, Revoke, Retry, Goto, Arm, lifeVars
<1>1. pc'[l] \in {"retry", "revokeNext", "revokeRetry", "revokeLost", "try", "snapshot",
                  "revokeExit", "exited"}
  BY DEF TypeOK, GrantFails, Occupied, PutFails, NextSlot, RetryAfterRevoke, RetryOver, SlotFree,
         WatchEvent, WatchFails, RegistrationLost, Reacquire, Shutdown, Exit, Crash, Restart
<1>2. server'[l] = "none"
  <2>1. CASE RegistrationLost(l) \/ Shutdown(l) \/ Crash(l)
    BY <2>1 DEF TypeOK, RegistrationLost, ServerAfterLoss, Shutdown, Crash
  <2>2. CASE ~(RegistrationLost(l) \/ Shutdown(l) \/ Crash(l))
    <3>1. UNCHANGED server /\ ~Running(l)
      BY <2>2 DEF GrantFails, Occupied, PutFails, NextSlot, RetryAfterRevoke, RetryOver, SlotFree,
           WatchEvent, WatchFails, Reacquire, Exit, Restart, Running
    <3> QED BY <3>1 DEF Sound
  <2> QED BY <2>1, <2>2
<1>3. pc'[l] \in {"exited", "revokeExit"} => restarts'[l] < MaxRestarts
  <2>1. CASE Shutdown(l) \/ Crash(l) \/ Exit(l)
    BY <2>1 DEF Shutdown, Crash, Exit, Sound
  <2>2. CASE ~(Shutdown(l) \/ Crash(l) \/ Exit(l))
    <3>1. pc'[l] \notin {"exited", "revokeExit"}
      BY <2>2 DEF TypeOK, GrantFails, Occupied, PutFails, NextSlot, RetryAfterRevoke, RetryOver,
           SlotFree, WatchEvent, WatchFails, RegistrationLost, Reacquire, Restart
    <3> QED BY <3>1
  <2> QED BY <2>1, <2>2
<1> QED BY <1>1, <1>2, <1>3 DEF Sound, UnderwayFor, BoundFor, TimingFor, WatchingFor,
                                Registering, Running

\* Sending a request: nothing else was underway for that lease.
LEMMA SendSound ==
  ASSUME TypeOK, Numbered, NEW l \in Launchers, Sound(l), Grant(l) \/ Put(l) \/ Get(l)
  PROVE  Sound(l)'
<1> USE DEF Call, Goto, lifeVars
<1>1. /\ pc'[l] \in {"grant", "put", "get"} /\ reply'[l] = NoReply
      /\ UNCHANGED <<server, slot>> /\ ~Running(l)
  BY DEF TypeOK, Grant, Put, Get, Running
<1>2. server'[l] = "none" /\ ~Running(l)' /\ ~Registering(l)'
  BY <1>1 DEF Sound, Running, Registering, NoReply
<1>3. UnderwayFor(l)'
  <2>1. CASE Grant(l)
    <3>1. /\ net' = net \cup {[op |-> "grant", id |-> <<l, grants[l] + 1>>, slot |-> slot[l]]}
          /\ grants'[l] = grants[l] + 1 /\ pc'[l] = "grant"
      BY <2>1 DEF Grant, TypeOK
    <3>2. \A m \in net : m.id # <<l, grants[l] + 1>>
      <4>1. grants[l] + 1 \in Nat /\ ~(grants[l] + 1 <= grants[l])
        BY Durations, SMT
      <4> QED BY <4>1 DEF Numbered, Used
    <3> QED BY <1>1, <3>1, <3>2 DEF UnderwayFor, Message, Lease
  <2>2. CASE Put(l)
    <3>1. net' = net \cup {Message(l, "put")} /\ pc'[l] = "put" /\ UNCHANGED <<grants, slot>>
      BY <2>2 DEF Put, TypeOK
    <3>2. \A m \in net : m.id # Lease(l)
      BY <2>2 DEF Put, Sound, UnderwayFor, NoReply
    <3> QED BY <1>1, <3>1, <3>2 DEF UnderwayFor, Message, Lease
  <2>3. CASE Get(l)
    <3>1. pc'[l] = "get"
      BY <2>3 DEF Get, TypeOK
    <3> QED BY <3>1 DEF UnderwayFor
  <2> QED BY <2>1, <2>2, <2>3
<1> QED BY <1>1, <1>2, <1>3 DEF Sound, BoundFor, TimingFor, WatchingFor, Running, NoReply

\* The slot is taken: the first keepalive is over before the quarantine.
LEMMA RegisteredSound ==
  ASSUME TypeOK, NEW l \in Launchers, Sound(l), Registered(l)
  PROVE  Sound(l)'
<1> USE DEF Goto, Arm, etcdVars
<1>1. /\ pc[l] = "put" /\ reply[l] = "ok" /\ pc'[l] = "registered" /\ server'[l] = "quarantine"
      /\ deadline'[l] = now + KeepAlivePeriod /\ activeAt'[l] = now + Quarantine
      /\ UNCHANGED <<now, expiry, key, net, reply, slot, grants>>
  BY DEF Registered, TypeOK
<1>2. \A m \in net : m.id # Lease(l)
  BY <1>1 DEF Sound, UnderwayFor, NoReply
<1>3. UnderwayFor(l)'
  BY <1>1, <1>2 DEF UnderwayFor, Lease
<1>4. BoundFor(l)'
  BY <1>1 DEF Sound, BoundFor, Registering, Lease, Exists
<1>5. /\ now <= deadline'[l] /\ deadline'[l] <= now + KeepAlivePeriod
      /\ deadline'[l] + KeepAlivePeriod < activeAt'[l]
  BY <1>1, Durations, SMT
<1>6. TimingFor(l)'
  BY <1>1, <1>5 DEF TimingFor, Quarantined
<1> QED BY <1>1, <1>3, <1>4, <1>6 DEF Sound, WatchingFor, Running

\* The ticker fires: the margin shrinks by the period the keepalive may take.
LEMMA KeepAliveSound ==
  ASSUME TypeOK, NEW l \in Launchers, Sound(l), KeepAlive(l)
  PROVE  Sound(l)'
<1> USE DEF Call, Goto, Arm, lifeVars
<1>1. /\ pc[l] = "registered" /\ pc'[l] = "keepalive" /\ reply'[l] = NoReply /\ now = deadline[l]
      /\ deadline'[l] = now + KeepAlivePeriod /\ net' = net \cup {Message(l, "keepalive")}
      /\ UNCHANGED <<now, expiry, key, slot, grants, server, activeAt>>
  BY DEF KeepAlive, KeepAliveTimeout, TypeOK
<1>2. Lease(l)' = Lease(l)
  BY <1>1 DEF Lease
<1>3. \A m \in net : m.id # Lease(l)
  <2>1. Message(l, "registered").op = "registered" /\ \A m \in Messages : m.op # "registered"
    BY SMT DEF Message, Messages
  <2> QED BY <1>1, <2>1 DEF Sound, UnderwayFor, TypeOK
<1>4. UnderwayFor(l)'
  BY <1>1, <1>3 DEF UnderwayFor, Message, Lease
<1>5. BoundFor(l)'
  BY <1>1, <1>2 DEF Sound, BoundFor, Running, Exists
<1>6. now <= deadline'[l] /\ deadline'[l] <= now + KeepAlivePeriod
  BY <1>1, Durations, SMT
<1>7. CASE Lasts(l, LeaseTTL - KeepAlivePeriod)
  <2>1. expiry[Lease(l)] \in Nat
    BY <1>7 DEF Lasts, TypeOK, Exists
  <2>2. deadline'[l] + (LeaseTTL - 2 * KeepAlivePeriod) = deadline[l] + (LeaseTTL - KeepAlivePeriod)
    BY <1>1, Durations, SMT
  <2>3. Lasts(l, LeaseTTL - 2 * KeepAlivePeriod)'
    BY <1>1, <1>2, <1>7, <2>2 DEF Lasts, Exists
  <2>4. TimingFor(l)'
    BY <1>1, <1>6, <2>3 DEF TimingFor, NoReply
  <2> QED BY <1>1, <1>4, <1>5, <2>4 DEF Sound, WatchingFor, Running
<1>8. CASE Quarantined(l, KeepAlivePeriod)
  <2>1. deadline'[l] + 0 = deadline[l] + KeepAlivePeriod
    BY <1>1, Durations, SMT
  <2>2. Quarantined(l, 0)'
    BY <1>1, <1>8, <2>1 DEF Quarantined
  <2>3. TimingFor(l)'
    BY <1>1, <1>6, <2>2 DEF TimingFor, NoReply
  <2> QED BY <1>1, <1>4, <1>5, <2>3 DEF Sound, WatchingFor, Running
<1> QED BY <1>1, <1>7, <1>8 DEF Sound, TimingFor

\* The answer has come, and the server's timer: an active server has had a keepalive.
LEMMA ServingSound ==
  ASSUME TypeOK, NEW l \in Launchers, Sound(l), KeptAlive(l) \/ ServerActive(l) \/ Watch(l)
  PROVE  Sound(l)'
<1> USE DEF Goto, etcdVars, lifeVars
<1>1. CASE KeptAlive(l)
  <2>1. /\ pc[l] = "keepalive" /\ reply[l] = "ok" /\ pc'[l] = "registered"
        /\ UNCHANGED <<now, expiry, key, net, reply, deadline, slot, grants, server, activeAt>>
    BY <1>1 DEF KeptAlive, TypeOK
  <2>2. Lease(l)' = Lease(l) /\ \A m \in net : m.id # Lease(l)
    BY <2>1 DEF Sound, UnderwayFor, NoReply, Lease
  <2>3. UnderwayFor(l)' /\ BoundFor(l)'
    BY <2>1, <2>2 DEF Sound, UnderwayFor, BoundFor, Running, Exists
  <2>4. TimingFor(l)'
    BY <2>1, <2>2 DEF Sound, TimingFor, Running, Lasts, Exists
  <2> QED BY <2>1, <2>3, <2>4 DEF Sound, WatchingFor, Running
<1>2. CASE ServerActive(l)
  <2>1. /\ server[l] = "quarantine" /\ now >= activeAt[l]
        /\ UNCHANGED <<now, expiry, key, net, reply, missed, pc, deadline, slot, grants, restarts, activeAt>>
    BY <1>2 DEF ServerActive
  <2>2. Running(l) /\ Lease(l)' = Lease(l) /\ now <= deadline[l]
    BY <2>1 DEF Sound, TimingFor, Lease
  <2>3. ~Quarantined(l, KeepAlivePeriod) /\ ~Quarantined(l, 0)
    BY <2>1, <2>2, Durations, SMT DEF Quarantined
  <2>4. UnderwayFor(l)' /\ BoundFor(l)' /\ WatchingFor(l)'
    BY <2>1, <2>2 DEF Sound, UnderwayFor, BoundFor, WatchingFor, Running, Registering, Exists, Message
  <2>5. TimingFor(l)'
    BY <2>1, <2>2, <2>3 DEF Sound, TimingFor, Running, Lasts, Exists
  <2> QED BY <2>1, <2>2, <2>4, <2>5 DEF Sound, Running
<1>3. CASE Watch(l)
  <2>1. /\ pc[l] = "get" /\ reply[l] = "occupied" /\ pc'[l] = "watch"
        /\ UNCHANGED <<key, missed, server>>
    BY <1>3 DEF Watch, TypeOK
  <2>2. server'[l] = "none" /\ ~Running(l)' /\ ~Registering(l)'
    BY <2>1 DEF Sound, Running, Registering
  <2> QED BY <2>1, <2>2 DEF Sound, UnderwayFor, BoundFor, TimingFor, WatchingFor, Running
<1> QED BY <1>1, <1>2, <1>3

\* A step of a launcher keeps the invariant.
LEMMA LauncherKeeps ==
  ASSUME LauncherInv, NEW l \in Launchers, Launcher(l)
  PROVE  LauncherInv'
<1>1. TypeOK /\ Numbered /\ RestartsLeft /\ \A k \in Launchers : Sound(k)
  BY ByLauncher DEF LauncherInv
<1>2. TypeOK'
  BY <1>1, AcquireTyped, LiveTyped DEF Launcher
<1>3. Numbered'
  BY <1>1, OwnNumbers
<1>4. Sound(l)'
  BY <1>1, LeaveSound, SendSound, RegisteredSound, KeepAliveSound, ServingSound DEF Launcher
<1>5. \A k \in Launchers : Sound(k)'
  BY <1>1, <1>4, OthersSound
<1> QED BY <1>2, <1>3, <1>5, ByLauncher DEF LauncherInv, RestartsLeft, Underway, Bound,
      ServerRuns, Timing, Watching, Sound, UnderwayFor, BoundFor, TimingFor, WatchingFor

-----------------------------------------------------------------------------
(* etcd keeps the invariant. *)

\* The leases and the keys of etcd.
EtcdTyped ==
  /\ DOMAIN expiry \subseteq LeaseIds /\ \A id \in DOMAIN expiry : expiry[id] \in Nat
  /\ key \in [Slots -> LeaseIds \cup {NoLease}]
  /\ \A s \in Slots : key[s] # NoLease => Exists(key[s])
  /\ missed \subseteq Launchers

\* What granting or keeping alive a lease does to the leases.
LEMMA SetExpiryEffect ==
  ASSUME TypeOK, NEW id, SetExpiry(id)
  PROVE  /\ DOMAIN expiry' = DOMAIN expiry \cup {id} /\ expiry'[id] = now + LeaseTTL
         /\ \A i \in DOMAIN expiry : i # id => expiry'[i] = expiry[i]
         /\ \A i \in DOMAIN expiry' : expiry'[i] \in Nat
<1>1. now + LeaseTTL \in Nat
  BY Durations, SMT
<1> QED BY <1>1 DEF SetExpiry, TypeOK

\* What deleting a lease does to the leases and the keys.
LEMMA DeleteLeaseEffect ==
  ASSUME TypeOK, NEW id, id # NoLease, DeleteLease(id)
  PROVE  /\ DOMAIN expiry' = DOMAIN expiry \ {id} /\ id \notin DOMAIN expiry'
         /\ \A i \in DOMAIN expiry : i # id => i \in DOMAIN expiry' /\ expiry'[i] = expiry[i]
         /\ \A s \in Slots : key'[s] = IF key[s] = id THEN NoLease ELSE key[s]
         /\ \A s \in Slots : key[s] = id => missed' = Launchers
         /\ missed \subseteq missed'
         /\ EtcdTyped'
<1>1. /\ DOMAIN expiry' = DOMAIN expiry \ {id}
      /\ \A i \in DOMAIN expiry : i # id => i \in DOMAIN expiry' /\ expiry'[i] = expiry[i]
  BY DEF DeleteLease
<1>2. /\ \A s \in Slots : key'[s] = IF key[s] = id THEN NoLease ELSE key[s]
      /\ key' \in [Slots -> LeaseIds \cup {NoLease}]
  BY DEF DeleteLease, TypeOK
<1>3. (\A s \in Slots : key[s] = id => missed' = Launchers) /\ missed \subseteq missed' /\ missed' \subseteq Launchers
  BY DEF DeleteLease, TypeOK
<1>4. EtcdTyped'
  BY <1>1, <1>2, <1>3 DEF EtcdTyped, TypeOK, Exists
<1> QED BY <1>1, <1>2, <1>3, <1>4

\* Deleting a lease keeps the promises to a launcher whose lease must last.
LEMMA DeleteKeeps ==
  ASSUME TypeOK, NEW id, id # NoLease, DeleteLease(id), NEW l \in Launchers,
         Lease(l)' = Lease(l), slot'[l] = slot[l], deadline'[l] = deadline[l]
  PROVE  /\ (Exists(Lease(l)) => key[slot[l]] = Lease(l)) =>
              (Exists(Lease(l))' => key'[slot[l]] = Lease(l))
         /\ \A d : id # Lease(l) /\ Lasts(l, d) => Lasts(l, d)'
         /\ \A s \in Slots : key'[s] = NoLease => key[s] = NoLease \/ l \in missed'
<1>1. slot[l] \in Slots
  BY DEF TypeOK
<1>2. (Exists(Lease(l)) => key[slot[l]] = Lease(l)) => (Exists(Lease(l))' => key'[slot[l]] = Lease(l))
  <2>1. DOMAIN expiry' = DOMAIN expiry \ {id}
    BY DeleteLeaseEffect
  <2>2. key'[slot[l]] = IF key[slot[l]] = id THEN NoLease ELSE key[slot[l]]
    <3>1. \A s \in Slots : key'[s] = IF key[s] = id THEN NoLease ELSE key[s]
      BY DeleteLeaseEffect
    <3> QED BY <1>1, <3>1
  <2> QED BY <2>1, <2>2 DEF Exists
<1>3. \A d : id # Lease(l) /\ Lasts(l, d) => Lasts(l, d)'
  BY DeleteLeaseEffect DEF Lasts, Exists
<1>4. \A s \in Slots : key'[s] = NoLease => key[s] = NoLease \/ l \in missed'
  BY DeleteLeaseEffect
<1> QED BY <1>2, <1>3, <1>4

\* A lease that a launcher relies on does not expire.
LEMMA ExpiresKeeps ==
  ASSUME LauncherInv, NEW id \in LeaseIds, EtcdExpires(id)
  PROVE  LauncherInv'
<1>1. TypeOK /\ Numbered /\ \A k \in Launchers : Sound(k)
  BY ByLauncher
<1>2. /\ id # NoLease /\ DeleteLease(id) /\ Exists(id) /\ now >= expiry[id]
      /\ UNCHANGED <<now, net, reply, pc, deadline, slot, grants, restarts, server, activeAt>>
  BY NotALease DEF EtcdExpires
<1>3. TypeOK'
  BY <1>1, <1>2, DeleteLeaseEffect DEF TypeOK, EtcdTyped
<1>4. Numbered'
  <2>1. DOMAIN expiry' \subseteq DOMAIN expiry
    BY <1>1, <1>2, DeleteLeaseEffect
  <2> QED BY <1>1, <1>2, <2>1 DEF Numbered, Used
<1>5. ASSUME NEW l \in Launchers
      PROVE  Sound(l)'
  <2>1. Lease(l)' = Lease(l) /\ Sound(l)
    BY <1>1, <1>2 DEF Lease
  <2>2. UnderwayFor(l)'
    BY <1>2, <2>1 DEF Sound, UnderwayFor, Message
  <2>3. BoundFor(l)'
    BY <1>1, <1>2, <2>1, DeleteKeeps DEF Sound, BoundFor, Registering, Running
  <2>4. WatchingFor(l)'
    <3>1. missed \subseteq missed'
      BY <1>1, <1>2, DeleteLeaseEffect
    <3> QED BY <1>1, <1>2, <2>1, <3>1, DeleteKeeps DEF Sound, WatchingFor
  <2>5. Running(l) =>
          /\ Lasts(l, LeaseTTL - KeepAlivePeriod) => id # Lease(l)
          /\ Lasts(l, LeaseTTL - 2 * KeepAlivePeriod) => id # Lease(l)
    <3> SUFFICES ASSUME Running(l), id = Lease(l)
                 PROVE  /\ ~Lasts(l, LeaseTTL - KeepAlivePeriod)
                        /\ ~Lasts(l, LeaseTTL - 2 * KeepAlivePeriod)
      OBVIOUS
    <3>1. now <= deadline[l] /\ expiry[Lease(l)] \in Nat /\ now >= expiry[Lease(l)]
      BY <1>1, <1>2, <2>1 DEF Sound, TimingFor, TypeOK, Exists
    <3> QED BY <1>1, <3>1, Durations, SMT DEF Lasts
  <2>6. \A d : id # Lease(l) /\ Lasts(l, d) => Lasts(l, d)'
    <3>1. slot'[l] = slot[l] /\ deadline'[l] = deadline[l] /\ DeleteLease(id)
      BY <1>2
    <3>2. \A i \in DOMAIN expiry : i # id => i \in DOMAIN expiry' /\ expiry'[i] = expiry[i]
      BY <1>1, <1>2, <3>1, DeleteLeaseEffect
    <3> QED BY <2>1, <3>1, <3>2 DEF Lasts, Exists
  <2>7. \A d : Quarantined(l, d) => Quarantined(l, d)'
    BY <1>2 DEF Quarantined
  <2>8. TimingFor(l)'
    <3> USE DEF Sound, TimingFor, Running
    <3>1. CASE pc[l] = "registered"
      BY <1>2, <2>1, <2>5, <2>6, <2>7, <3>1
    <3>2. CASE pc[l] = "keepalive"
      BY <1>2, <2>1, <2>5, <2>6, <2>7, <3>2
    <3>3. CASE ~Running(l)
      BY <1>2, <3>3
    <3> QED BY <3>1, <3>2, <3>3
  <2> QED BY <1>2, <2>1, <2>2, <2>3, <2>4, <2>8 DEF Sound, Running
<1> QED BY <1>3, <1>4, <1>5 DEF LauncherInv, RestartsLeft, Underway, Bound,
      ServerRuns, Timing, Watching, Sound, UnderwayFor, BoundFor, TimingFor, WatchingFor

\* What applying a request does to the leases and the keys of etcd.
LEMMA ApplyEffect ==
  ASSUME TypeOK, Numbered, NEW m \in net, EtcdApplies(m)
  PROVE  /\ EtcdTyped' /\ DOMAIN expiry' \subseteq DOMAIN expiry \cup {m.id}
         /\ \A i \in DOMAIN expiry : i # m.id => i \in DOMAIN expiry' /\ expiry'[i] = expiry[i]
         /\ \A s \in Slots : key[s] \notin {NoLease, m.id} => key'[s] = key[s]
         /\ \A s \in Slots : key'[s] = NoLease => key[s] = NoLease \/ missed' = Launchers
         /\ \A l \in missed : (m.op = "get" /\ Waits(l, m)) \/ l \in missed'
<1>1. m \in Messages /\ m.id # NoLease
  <2>1. m \in Messages
    BY DEF TypeOK
  <2>2. m.id \in LeaseIds \cup (Launchers \X {0})
    BY <2>1, SMT DEF Messages
  <2> QED BY <2>1, <2>2, NotALease
<1>2. CASE ApplyGrant(m)
  <2>1. SetExpiry(m.id) /\ UNCHANGED <<key, missed>> /\ m.id \in LeaseIds
    BY <1>2 DEF ApplyGrant, Numbered
  <2>2. /\ DOMAIN expiry' = DOMAIN expiry \cup {m.id}
        /\ \A i \in DOMAIN expiry' : expiry'[i] \in Nat
        /\ \A i \in DOMAIN expiry : i # m.id => expiry'[i] = expiry[i]
    BY <2>1, SetExpiryEffect
  <2>3. EtcdTyped'
    BY <2>1, <2>2 DEF EtcdTyped, TypeOK, Exists
  <2> QED BY <2>1, <2>2, <2>3
<1>3. CASE ApplyPut(m)
  <2>1. UNCHANGED <<expiry, missed>> /\ m.slot \in Slots
    BY <1>1, <1>3 DEF ApplyPut, Messages
  <2>2. CASE Alive(m) /\ key[m.slot] = NoLease
    <3>1. key' = [key EXCEPT ![m.slot] = m.id]
      BY <1>3, <2>2 DEF ApplyPut
    <3>2. \A s \in Slots : key'[s] = IF s = m.slot THEN m.id ELSE key[s]
      BY <3>1 DEF TypeOK
    <3>3. m.id \in DOMAIN expiry /\ m.id \in LeaseIds
      BY <2>2 DEF Alive, Exists, TypeOK
    <3>4. key' \in [Slots -> LeaseIds \cup {NoLease}]
      BY <3>1, <3>3 DEF TypeOK
    <3>5. EtcdTyped'
      BY <2>1, <3>2, <3>3, <3>4 DEF EtcdTyped, TypeOK, Exists
    <3> QED BY <1>1, <2>1, <2>2, <3>2, <3>5
  <2>3. CASE ~(Alive(m) /\ key[m.slot] = NoLease)
    <3>1. UNCHANGED key
      BY <1>3, <2>3 DEF ApplyPut
    <3>2. EtcdTyped'
      BY <2>1, <3>1 DEF EtcdTyped, TypeOK, Exists
    <3> QED BY <2>1, <3>1, <3>2
  <2> QED BY <2>2, <2>3
<1>4. CASE ApplyKeepAlive(m)
  <2>1. UNCHANGED <<key, missed>>
    BY <1>4 DEF ApplyKeepAlive
  <2>2. CASE Alive(m)
    <3>1. SetExpiry(m.id) /\ m.id \in DOMAIN expiry
      BY <1>4, <2>2 DEF ApplyKeepAlive, Alive, Exists
    <3>2. DOMAIN expiry' = DOMAIN expiry /\ \A i \in DOMAIN expiry' : expiry'[i] \in Nat
      <4>1. /\ DOMAIN expiry' = DOMAIN expiry \cup {m.id}
            /\ \A i \in DOMAIN expiry' : expiry'[i] \in Nat
        BY <3>1, SetExpiryEffect
      <4> QED BY <3>1, <4>1
    <3>3. EtcdTyped'
      BY <2>1, <3>2 DEF EtcdTyped, TypeOK, Exists
    <3> QED BY <2>1, <3>1, <3>2, <3>3, SetExpiryEffect
  <2>3. CASE ~Alive(m)
    <3>1. UNCHANGED expiry
      BY <1>4, <2>3 DEF ApplyKeepAlive
    <3>2. EtcdTyped'
      BY <2>1, <3>1 DEF EtcdTyped, TypeOK, Exists
    <3> QED BY <2>1, <3>1, <3>2
  <2> QED BY <2>2, <2>3
<1>5. CASE ApplyRevoke(m)
  <2>1. DeleteLease(m.id)
    BY <1>5 DEF ApplyRevoke
  <2> QED BY <1>1, <2>1, DeleteLeaseEffect
<1>6. CASE ApplyGet(m)
  <2>1. UNCHANGED <<expiry, key>> /\ m.op = "get" /\ missed' = missed \ {l \in Launchers : Waits(l, m)}
    BY <1>6 DEF ApplyGet
  <2>2. EtcdTyped'
    BY <2>1 DEF EtcdTyped, TypeOK, Exists
  <2> QED BY <2>1, <2>2 DEF TypeOK
<1> QED BY <1>2, <1>3, <1>4, <1>5, <1>6 DEF EtcdApplies

\* The request of an attempt that is not given up is the one its launcher waits for.
LEMMA Awaited ==
  ASSUME TypeOK, NEW l \in Launchers, Sound(l), NEW m \in net, m.id = Lease(l),
         pc[l] \in {"grant", "put", "registered", "keepalive"}
  PROVE  m.op = pc[l] /\ m.slot = slot[l] /\ Waits(l, m) /\ pc[l] # "registered"
<1>1. m = Message(l, pc[l]) /\ m \in Messages
  BY DEF Sound, UnderwayFor, TypeOK
<1>2. m.op = pc[l] /\ m.slot = slot[l]
  BY <1>1 DEF Message
<1>3. m.op # "registered"
  BY <1>1, SMT DEF Messages
<1> QED BY <1>2, <1>3 DEF Waits, Calling

\* A request for another lease than that of l does not concern l.
LEMMA ForeignRequest ==
  ASSUME TypeOK, Numbered, NEW m \in net, EtcdApplies(m), NEW l \in Launchers, Sound(l),
         m.id # Lease(l)
  PROVE  Sound(l)'
<1>1. /\ UNCHANGED <<now, pc, deadline, slot, grants, restarts, server, activeAt>>
      /\ net' = net \ {m} /\ reply'[l] = reply[l] /\ Lease(l)' = Lease(l)
  BY DEF EtcdApplies, Waits, Lease
<1>2. /\ Exists(Lease(l))' => Exists(Lease(l))
      /\ Exists(Lease(l)) => Exists(Lease(l))' /\ expiry'[Lease(l)] = expiry[Lease(l)]
  BY <1>1, ApplyEffect DEF Exists
<1>3. \A s \in Slots : key[s] = Lease(l) => key'[s] = Lease(l)
  <2>1. Lease(l) # NoLease
    BY PairsDiffer DEF Lease
  <2>2. \A s \in Slots : key[s] \notin {NoLease, m.id} => key'[s] = key[s]
    BY ApplyEffect
  <2> QED BY <2>1, <2>2
<1>4. UnderwayFor(l)'
  BY <1>1 DEF Sound, UnderwayFor, Message
<1>5. BoundFor(l)'
  <2>1. slot[l] \in Slots
    BY DEF TypeOK
  <2> QED BY <1>1, <1>2, <1>3, <2>1 DEF Sound, BoundFor, Registering, Running
<1>6. (\A d : Lasts(l, d) => Lasts(l, d)') /\ (\A d : Quarantined(l, d) => Quarantined(l, d)')
  BY <1>1, <1>2 DEF Lasts, Quarantined
<1>7. TimingFor(l)'
  <2> USE DEF Sound, TimingFor, Running
  <2>1. CASE pc[l] = "registered"
    BY <1>1, <1>6, <2>1
  <2>2. CASE pc[l] = "keepalive"
    BY <1>1, <1>6, <2>2
  <2>3. CASE ~Running(l)
    BY <1>1, <2>3
  <2> QED BY <2>1, <2>2, <2>3
<1>8. WatchingFor(l)'
  BY <1>1, ApplyEffect DEF Sound, WatchingFor, Waits
<1> QED BY <1>1, <1>4, <1>5, <1>7, <1>8 DEF Sound, Running

\* The answer to the request an attempt waits for.
LEMMA OwnRequest ==
  ASSUME TypeOK, Numbered, NEW m \in net, EtcdApplies(m), NEW l \in Launchers, Sound(l),
         m.id = Lease(l), pc[l] \in {"grant", "put", "registered", "keepalive"}
  PROVE  Sound(l)'
<1>1. m.op = pc[l] /\ m.slot = slot[l] /\ Waits(l, m) /\ pc[l] # "registered"
  BY Awaited
<1>2. /\ UNCHANGED <<now, pc, deadline, slot, grants, restarts, server, activeAt>>
      /\ net' = net \ {m} /\ reply'[l] = Answer(m) /\ Lease(l)' = Lease(l)
  BY <1>1 DEF EtcdApplies, Lease
<1>3. UnderwayFor(l)'
  BY <1>2 DEF Sound, UnderwayFor, Message
<1>4. BoundFor(l)'
  <2>1. CASE pc[l] = "grant"
    BY <1>2, <2>1 DEF BoundFor, Registering, Running
  <2>2. CASE pc[l] = "put"
    <3>1. ApplyPut(m)
      BY <1>1, <2>2 DEF EtcdApplies, ApplyGrant, ApplyKeepAlive, ApplyRevoke, ApplyGet
    <3>2. reply'[l] = "ok" => key[m.slot] = NoLease /\ Alive(m)
      BY <1>1, <1>2, <2>2 DEF Answer
    <3>3. reply'[l] = "ok" => key'[slot[l]] = Lease(l)
      BY <1>1, <3>1, <3>2 DEF ApplyPut, TypeOK
    <3> QED BY <1>2, <2>2, <3>3 DEF BoundFor, Registering, Running
  <2>3. CASE pc[l] = "keepalive"
    <3>1. ApplyKeepAlive(m)
      BY <1>1, <2>3 DEF EtcdApplies, ApplyGrant, ApplyPut, ApplyRevoke, ApplyGet
    <3>2. UNCHANGED key /\ (Exists(Lease(l))' => Exists(Lease(l)))
      BY <1>2, <3>1, SetExpiryEffect DEF ApplyKeepAlive, Alive, Exists
    <3> QED BY <1>2, <2>3, <3>2 DEF Sound, BoundFor, Registering, Running
  <2> QED BY <1>1, <2>1, <2>2, <2>3
<1>5. TimingFor(l)'
  <2>1. CASE pc[l] \in {"grant", "put"}
    BY <1>2, <2>1 DEF TimingFor, Running
  <2>2. CASE pc[l] = "keepalive"
    <3>1. ApplyKeepAlive(m)
      BY <1>1, <2>2 DEF EtcdApplies, ApplyGrant, ApplyPut, ApplyRevoke, ApplyGet
    <3>2. now <= deadline[l] /\ deadline[l] <= now + KeepAlivePeriod
      BY <2>2 DEF Sound, TimingFor, Running
    <3>3. CASE Alive(m)
      <4>1. reply'[l] = "ok"
        BY <1>1, <1>2, <2>2, <3>3 DEF Answer
      <4>2. Exists(Lease(l))' /\ expiry'[Lease(l)] = now + LeaseTTL
        <5>1. SetExpiry(Lease(l))
          BY <3>1, <3>3 DEF ApplyKeepAlive
        <5>2. DOMAIN expiry' = DOMAIN expiry \cup {Lease(l)} /\ expiry'[Lease(l)] = now + LeaseTTL
          BY <5>1, SetExpiryEffect
        <5> QED BY <1>2, <5>2 DEF Exists
      <4>3. deadline[l] + (LeaseTTL - KeepAlivePeriod) <= now + LeaseTTL
        BY <3>2, Durations, SMT
      <4>4. Lasts(l, LeaseTTL - KeepAlivePeriod)'
        BY <1>2, <4>2, <4>3 DEF Lasts
      <4> QED BY <1>2, <2>2, <3>2, <4>1, <4>4 DEF TimingFor, Running
    <3>4. CASE ~Alive(m)
      <4>1. reply'[l] = "error"
        BY <1>1, <1>2, <2>2, <3>4 DEF Answer
      <4>2. \A d : ~Lasts(l, d)
        BY <3>4 DEF Lasts, Alive
      <4>3. Quarantined(l, 0)
        BY <2>2, <4>2 DEF Sound, TimingFor
      <4>4. Quarantined(l, 0)'
        BY <1>2, <4>3 DEF Quarantined
      <4> QED BY <1>2, <2>2, <3>2, <4>1, <4>4 DEF TimingFor, Running
    <3> QED BY <3>3, <3>4
  <2> QED BY <1>1, <2>1, <2>2
<1> QED BY <1>2, <1>3, <1>4, <1>5 DEF Sound, WatchingFor, Running

\* A request of an attempt that is given up, or the snapshot.
LEMMA LateRequest ==
  ASSUME TypeOK, Numbered, NEW m \in net, EtcdApplies(m), NEW l \in Launchers, Sound(l),
         pc[l] \notin {"grant", "put", "registered", "keepalive"}
  PROVE  Sound(l)'
<1>1. /\ UNCHANGED <<pc, restarts, server>>
      /\ reply'[l] = IF Waits(l, m) THEN Answer(m) ELSE reply[l]
  BY DEF EtcdApplies
<1>2. WatchingFor(l)'
  <2>1. CASE Waits(l, m) /\ pc[l] = "get"
    <3>1. ApplyGet(m) /\ m.op = "get"
      BY <2>1 DEF Waits, EtcdApplies, ApplyGrant, ApplyPut, ApplyKeepAlive, ApplyRevoke
    <3>2. reply'[l] = "occupied" => \A s \in Slots : key[s] # NoLease
      BY <1>1, <2>1, <3>1 DEF Answer
    <3> QED BY <1>1, <2>1, <3>1, <3>2 DEF WatchingFor, ApplyGet
  <2>2. CASE ~(Waits(l, m) /\ pc[l] = "get")
    <3>1. ~(m.op = "get" /\ Waits(l, m))
      BY <2>2 DEF Waits, Calling
    <3>2. l \in missed => l \in missed'
      BY <3>1, ApplyEffect
    <3>3. \A s \in Slots : key'[s] = NoLease => key[s] = NoLease \/ l \in missed'
      BY ApplyEffect
    <3>4. pc[l] = "get" => reply'[l] = reply[l]
      BY <1>1, <2>2
    <3> QED BY <1>1, <3>2, <3>3, <3>4 DEF Sound, WatchingFor
  <2> QED BY <2>1, <2>2
<1> QED BY <1>1, <1>2 DEF Sound, UnderwayFor, BoundFor, TimingFor, Registering, Running

\* Applying a request keeps the invariant.
LEMMA AppliesKeeps ==
  ASSUME LauncherInv, NEW m \in net, EtcdApplies(m)
  PROVE  LauncherInv'
<1>1. TypeOK /\ Numbered /\ \A k \in Launchers : Sound(k)
  BY ByLauncher
<1>2. /\ UNCHANGED <<now, pc, deadline, slot, grants, restarts, server, activeAt>>
      /\ net' = net \ {m}
      /\ reply' = [l \in Launchers |-> IF Waits(l, m) THEN Answer(m) ELSE reply[l]]
  BY DEF EtcdApplies
<1>3. TypeOK'
  <2>1. Answer(m) \in {NoReply, "ok", "occupied", "error"}
    BY DEF Answer
  <2>2. reply' \in [Launchers -> {NoReply, "ok", "occupied", "error"}]
    BY <1>1, <1>2, <2>1 DEF TypeOK
  <2>3. EtcdTyped'
    BY <1>1, ApplyEffect
  <2> QED BY <1>1, <1>2, <2>2, <2>3 DEF TypeOK, EtcdTyped
<1>4. Numbered'
  <2>1. DOMAIN expiry' \subseteq DOMAIN expiry \cup {m.id}
    BY <1>1, ApplyEffect
  <2> QED BY <1>1, <1>2, <2>1 DEF Numbered, Used
<1>5. \A l \in Launchers : Sound(l)'
  BY <1>1, ForeignRequest, OwnRequest, LateRequest
<1> QED BY <1>3, <1>4, <1>5 DEF LauncherInv, RestartsLeft, Underway, Bound,
      ServerRuns, Timing, Watching, Sound, UnderwayFor, BoundFor, TimingFor, WatchingFor

-----------------------------------------------------------------------------
(* The theorems. *)

\* Time passes, but not beyond the deadline of a launcher that waits.
LEMMA TickKeeps ==
  ASSUME LauncherInv, Tick
  PROVE  LauncherInv'
<1>1. TypeOK /\ Numbered /\ \A k \in Launchers : Sound(k)
  BY ByLauncher
<1>2. /\ now < MaxTime /\ now' = now + 1
      /\ \A l \in Launchers : pc[l] \in Calling \cup Sleeping => now < deadline[l]
      /\ UNCHANGED <<expiry, key, net, reply, missed, pc, deadline, slot, grants, restarts,
                     server, activeAt>>
  BY DEF Tick, etcdVars
<1>3. TypeOK'
  <2>1. now' \in 0..MaxTime
    BY <1>1, <1>2, Durations, SMT
  <2> QED BY <1>1, <1>2, <2>1 DEF TypeOK, Exists
<1>4. Numbered'
  BY <1>1, <1>2 DEF Numbered, Used
<1>5. ASSUME NEW l \in Launchers
      PROVE  Sound(l)'
  <2>1. Sound(l) /\ Lease(l)' = Lease(l)
    BY <1>1, <1>2 DEF Lease
  <2>2. UnderwayFor(l)' /\ BoundFor(l)' /\ WatchingFor(l)'
    BY <1>2, <2>1 DEF Sound, UnderwayFor, BoundFor, WatchingFor, Registering, Running, Exists, Message
  <2>3. Running(l) => now < deadline[l] /\ deadline[l] <= now + KeepAlivePeriod
    BY <1>2, <2>1 DEF Sound, TimingFor, Running, Calling, Sleeping
  <2>4. Running(l) => now' <= deadline[l] /\ deadline[l] <= now' + KeepAlivePeriod
    BY <1>1, <1>2, <2>3, Durations, SMT
  <2>5. (\A d : Lasts(l, d) => Lasts(l, d)') /\ (\A d : Quarantined(l, d) => Quarantined(l, d)')
    BY <1>2, <2>1 DEF Lasts, Quarantined, Exists
  <2>6. TimingFor(l)'
    BY <1>2, <2>1, <2>4, <2>5 DEF Sound, TimingFor, Running
  <2> QED BY <1>2, <2>1, <2>2, <2>6 DEF Sound, Running
<1> QED BY <1>3, <1>4, <1>5 DEF LauncherInv, RestartsLeft, Underway, Bound,
      ServerRuns, Timing, Watching, Sound, UnderwayFor, BoundFor, TimingFor, WatchingFor

\* The invariant holds initially.
LEMMA LauncherInit == Init => LauncherInv
<1> SUFFICES ASSUME Init
             PROVE  LauncherInv
  OBVIOUS
<1>1. PICK taken \in SUBSET Slots :
        /\ expiry = [id \in {"other"} \X taken |-> 0]
        /\ key = [s \in Slots |-> IF s \in taken THEN <<"other", s>> ELSE NoLease]
  BY DEF Init
<1>2. /\ {"other"} \X taken \subseteq LeaseIds /\ 0 \in Nat /\ 1 \in Slots
      /\ 0 \in 0..MaxTime /\ 0 \in 0..MaxGrants /\ 0 \in 0..MaxRestarts
  <2>1. SlotCount \in Nat \ {0} /\ MaxTime \in Nat /\ MaxGrants \in Nat /\ MaxRestarts \in Nat
    BY EtcdLauncherAssumption
  <2>2. {"other"} \X taken \subseteq {"other"} \X Slots
    BY SMT
  <2>3. \A n \in Nat : 0 \in 0..n /\ (n # 0 => 1 \in 1..n)
    BY SMT
  <2>4. 0 \in Nat
    BY SMT
  <2> QED BY <2>1, <2>2, <2>3, <2>4 DEF LeaseIds, Foreign, Slots
<1>3. EtcdTyped
  <2>1. \A s \in taken : <<"other", s>> \in {"other"} \X taken
    BY SMT
  <2> QED BY <1>1, <1>2, <2>1 DEF Init, EtcdTyped, Exists
<1>4. TypeOK
  BY <1>2, <1>3 DEF Init, TypeOK, EtcdTyped
<1>5. Numbered
  <2>1. ASSUME NEW id \in {"other"} \X taken
        PROVE  Used(id)
    <3>1. PICK s \in taken : id = <<"other", s>>
      BY <2>1, SMT
    <3> QED BY <3>1, PairsDiffer, EtcdLauncherAssumption DEF Used
  <2> QED BY <1>1, <2>1 DEF Init, Numbered
<1> QED BY <1>4, <1>5 DEF Init, LauncherInv, RestartsLeft, Underway, Bound, ServerRuns, Timing,
                          Watching, Registering, Running

\* The invariant is inductive.
THEOREM LauncherInvariant == Spec => []LauncherInv
<1>1. LauncherInv /\ [Next]_vars => LauncherInv'
  <2> SUFFICES ASSUME LauncherInv, [Next]_vars
               PROVE  LauncherInv'
    OBVIOUS
  <2>1. CASE UNCHANGED vars
    <3> USE <2>1 DEF LauncherInv, vars, etcdVars
    <3>1. TypeOK' /\ RestartsLeft'
      BY DEF TypeOK, RestartsLeft, Exists
    <3>2. Numbered' /\ Underway'
      BY DEF Numbered, Used, Underway, Lease, Message
    <3>3. Bound' /\ ServerRuns' /\ Watching'
      BY DEF Bound, ServerRuns, Watching, Registering, Running, Exists, Lease
    <3>4. Timing'
      BY DEF Timing, Running, Lasts, Quarantined, Exists, Lease
    <3> QED BY <3>1, <3>2, <3>3, <3>4
  <2> QED BY <2>1, TickKeeps, AppliesKeeps, ExpiresKeeps, LauncherKeeps DEF Next
<1> QED BY <1>1, LauncherInit, PTL DEF Spec

\* A server that serves leases holds its slot in etcd: before the first successful
\* keepalive the quarantine keeps it from serving, and from then on its lease outlives
\* every timer after which the launcher would stop it.
THEOREM ActiveHoldsSlotHolds == Spec => []ActiveHoldsSlot
<1>1. LauncherInv => ActiveHoldsSlot
  <2> SUFFICES ASSUME LauncherInv, NEW l \in Launchers, server[l] = "active"
               PROVE  key[slot[l]] = Lease(l)
    BY DEF LauncherInv, ActiveHoldsSlot
  <2>1. Running(l)
    BY DEF LauncherInv, ServerRuns
  <2>2. Exists(Lease(l))
    BY <2>1 DEF LauncherInv, Timing, Running, Lasts, Quarantined
  <2> QED BY <2>1, <2>2 DEF LauncherInv, Bound
<1> QED BY <1>1, LauncherInvariant, PTL

\* No deletion is lost between the snapshot and the watch.
THEOREM WatchSeesDeletionHolds == Spec => []WatchSeesDeletion
<1>1. LauncherInv => WatchSeesDeletion
  BY DEF LauncherInv, Watching, WatchSeesDeletion
<1> QED BY <1>1, LauncherInvariant, PTL
=============================================================================
