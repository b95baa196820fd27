----------------------------- MODULE EtcdLauncher -----------------------------
(***************************************************************************)
(* The standalone server's launcher in etcd mode:                          *)
(* cmd/redlease-server/etcd_registration.go and the lifecycle in main.go.  *)
(* A launcher takes one of the fixed slots (a key bound to an etcd lease), *)
(* runs a lease server while it keeps the etcd lease alive, and stops the  *)
(* server when a keepalive fails.                                          *)
(*                                                                         *)
(* Time is counted in ticks and does not pass a launcher's deadline: its   *)
(* timers are served promptly.  Requests to etcd may be applied late, even *)
(* after the launcher gave up on them, or never; etcd is external.         *)
(***************************************************************************)
EXTENDS Naturals, FiniteSets

CONSTANTS
  Launchers,
  SlotCount,         \* etcdServerSlotCount, 5 in the code
  LeaseTTL,          \* etcdLeaseTTLSeconds, 3 s
  KeepAlivePeriod,   \* etcdKeepAlivePeriod, 1 s: also the timeout of a keepalive
  OperationTimeout,  \* etcdOperationTimeout, 2 s
  RetryDelay,        \* etcdRetryDelay, 1 s
  Quarantine,        \* the server's restart quarantine, 5.101 s
  MaxTime,           \* bound on time
  MaxGrants,         \* bound: etcd leases a launcher asks for
  MaxRestarts        \* bound: process restarts of a launcher

ASSUME EtcdLauncherAssumption ==
  /\ {SlotCount, LeaseTTL, KeepAlivePeriod, OperationTimeout, RetryDelay, Quarantine}
       \subseteq Nat \ {0}
  /\ {MaxTime, MaxGrants, MaxRestarts} \subseteq Nat
  /\ "other" \notin Launchers
  /\ 2 * KeepAlivePeriod < LeaseTTL      \* 2 s < 3 s
  /\ 2 * KeepAlivePeriod < Quarantine    \* 2 s < 5.101 s

Slots == 1..SlotCount
\* The leases of other servers, one for each slot they may hold.
Foreign == {"other"} \X Slots
LeaseIds == Launchers \X (1..MaxGrants) \cup Foreign
NoLease == <<>>
NoReply == "none"

VARIABLES
  now,
  expiry,    \* etcd: when an existing lease may expire
  key,       \* etcd: the lease a slot's key is bound to, or NoLease
  net,       \* requests etcd has not applied
  reply,     \* etcd's answer to the request a launcher waits for
  missed,    \* a slot was deleted after the launcher's last snapshot
  pc,        \* where a launcher is
  deadline,  \* when its timer fires or its request times out
  slot,      \* the slot it tries or holds
  grants,    \* the number of the etcd lease it asked for last
  restarts,  \* process restarts so far
  server,    \* its lease server
  activeAt   \* when the quarantine of that server ends

etcdVars == <<expiry, key, net, reply, missed>>
vars == <<now, etcdVars, pc, deadline, slot, grants, restarts, server, activeAt>>

\* Places where a launcher waits for etcd, for a timer, and for neither.
Calling == {"grant", "put", "get", "keepalive",
            "revokeNext", "revokeRetry", "revokeLost", "revokeExit"}
Sleeping == {"retry", "registered"}

\* The lease of launcher l's latest grant.
Lease(l) == <<l, grants[l]>>
Exists(id) == id \in DOMAIN expiry

Message(l, op) == [op |-> op, id |-> Lease(l), slot |-> slot[l]]
Messages == [op : {"grant", "put", "get", "keepalive", "revoke"},
             id : LeaseIds \cup (Launchers \X {0}), slot : Slots]

\* The type of every variable.
TypeOK ==
  /\ now \in 0..MaxTime
  /\ DOMAIN expiry \subseteq LeaseIds /\ \A id \in DOMAIN expiry : expiry[id] \in Nat
  /\ key \in [Slots -> LeaseIds \cup {NoLease}]
  /\ \A s \in Slots : key[s] # NoLease => Exists(key[s])
  /\ net \subseteq Messages
  /\ reply \in [Launchers -> {NoReply, "ok", "occupied", "error"}]
  /\ missed \subseteq Launchers
  /\ pc \in [Launchers -> Calling \cup Sleeping \cup {"try", "snapshot", "watch", "exited"}]
  /\ deadline \in [Launchers -> Nat] /\ activeAt \in [Launchers -> Nat]
  /\ slot \in [Launchers -> Slots]
  /\ grants \in [Launchers -> 0..MaxGrants] /\ restarts \in [Launchers -> 0..MaxRestarts]
  /\ server \in [Launchers -> {"none", "quarantine", "active"}]

\* The launchers start while other servers hold some of the slots; these may lose
\* them, or give them up, at any time.
Init ==
  /\ now = 0
  /\ \E taken \in SUBSET Slots :
       /\ expiry = [id \in {"other"} \X taken |-> 0]
       /\ key = [s \in Slots |-> IF s \in taken THEN <<"other", s>> ELSE NoLease]
  /\ net = {} /\ reply = [l \in Launchers |-> NoReply] /\ missed = {}
  /\ pc = [l \in Launchers |-> "try"] /\ deadline = [l \in Launchers |-> 0]
  /\ slot = [l \in Launchers |-> 1]
  /\ grants = [l \in Launchers |-> 0] /\ restarts = [l \in Launchers |-> 0]
  /\ server = [l \in Launchers |-> "none"] /\ activeAt = [l \in Launchers |-> 0]

Goto(l, label) == pc' = [pc EXCEPT ![l] = label]
Arm(l, delay) == deadline' = [deadline EXCEPT ![l] = now + delay]

\* Sends request m and waits for its answer at label, for at most timeout.
Call(l, label, m, timeout) ==
  /\ net' = net \cup {m}
  /\ reply' = [reply EXCEPT ![l] = NoReply]
  /\ Goto(l, label) /\ Arm(l, timeout)
  /\ UNCHANGED <<expiry, key, missed>>

\* revokeEtcdLease, and the revocation in etcdRegistration.Close.
Revoke(l, label) == Call(l, label, Message(l, "revoke"), OperationTimeout)

\* waitEtcdRetry
Retry(l) == Goto(l, "retry") /\ Arm(l, RetryDelay) /\ UNCHANGED etcdVars

-----------------------------------------------------------------------------
(* etcd (external). *)

\* The launcher still waits for this very request.
Waits(l, m) ==
  /\ pc[l] \in Calling /\ m.id = Lease(l)
  /\ m.op = IF pc[l] \in {"grant", "put", "get", "keepalive"} THEN pc[l] ELSE "revoke"

Alive(m) == Exists(m.id)

\* Deletes a lease and every key bound to it, which ends the watches.
DeleteLease(id) ==
  /\ expiry' = [i \in DOMAIN expiry \ {id} |-> expiry[i]]
  /\ key' = [s \in Slots |-> IF key[s] = id THEN NoLease ELSE key[s]]
  /\ missed' = IF \E s \in Slots : key[s] = id THEN Launchers ELSE missed

SetExpiry(id) ==
  expiry' = [i \in DOMAIN expiry \cup {id} |-> IF i = id THEN now + LeaseTTL ELSE expiry[i]]

ApplyGrant(m) == m.op = "grant" /\ SetExpiry(m.id) /\ UNCHANGED <<key, missed>>

\* A transaction: puts the key if there is none.
ApplyPut(m) ==
  /\ m.op = "put"
  /\ key' = IF Alive(m) /\ key[m.slot] = NoLease THEN [key EXCEPT ![m.slot] = m.id] ELSE key
  /\ UNCHANGED <<expiry, missed>>

ApplyKeepAlive(m) ==
  /\ m.op = "keepalive"
  /\ IF Alive(m) THEN SetExpiry(m.id) ELSE UNCHANGED expiry
  /\ UNCHANGED <<key, missed>>

ApplyRevoke(m) == m.op = "revoke" /\ DeleteLease(m.id)

\* The snapshot's revision is where the watch will begin.
ApplyGet(m) ==
  /\ m.op = "get"
  /\ missed' = missed \ {l \in Launchers : Waits(l, m)}
  /\ UNCHANGED <<expiry, key>>

\* What etcd answers, judged by the state it applied the request in.
Answer(m) ==
  CASE m.op = "put" /\ key[m.slot] # NoLease -> "occupied"
    [] m.op = "put" /\ key[m.slot] = NoLease /\ ~Alive(m) -> "error"
    [] m.op = "keepalive" /\ ~Alive(m) -> "error"
    [] m.op = "get" /\ NoLease \notin {key[s] : s \in Slots} -> "occupied"
    [] OTHER -> "ok"

EtcdApplies(m) ==
  /\ m \in net
  /\ ApplyGrant(m) \/ ApplyPut(m) \/ ApplyKeepAlive(m) \/ ApplyRevoke(m) \/ ApplyGet(m)
  /\ net' = net \ {m}
  /\ reply' = [l \in Launchers |-> IF Waits(l, m) THEN Answer(m) ELSE reply[l]]
  /\ UNCHANGED <<now, pc, deadline, slot, grants, restarts, server, activeAt>>

\* etcd never expires a lease early, and may be late.
EtcdExpires(id) ==
  /\ Exists(id) /\ now >= expiry[id]
  /\ DeleteLease(id)
  /\ UNCHANGED <<now, net, reply, pc, deadline, slot, grants, restarts, server, activeAt>>
-----------------------------------------------------------------------------
(* acquireEtcdRegistration. *)

\* What acquiring a slot leaves alone.
lifeVars == <<now, restarts, server, activeAt>>

\* tryEtcdSlot asks for a lease of its own for every slot it tries.
Grant(l) ==
  /\ pc[l] = "try" /\ grants[l] < MaxGrants
  /\ grants' = [grants EXCEPT ![l] = @ + 1]
  /\ Call(l, "grant", [op |-> "grant", id |-> <<l, grants[l] + 1>>, slot |-> slot[l]],
          OperationTimeout)
  /\ UNCHANGED <<lifeVars, slot>>

Put(l) ==
  /\ pc[l] = "grant" /\ reply[l] = "ok"
  /\ Call(l, "put", Message(l, "put"), OperationTimeout)
  /\ UNCHANGED <<lifeVars, slot, grants>>

\* An error or the timeout, also of a request that etcd has applied: the granted
\* lease is not revoked, it expires.  waitEtcdRetry ends with the first slot.
GrantFails(l) ==
  /\ pc[l] = "grant"
  /\ Retry(l) /\ slot' = [slot EXCEPT ![l] = 1]
  /\ UNCHANGED <<lifeVars, grants>>

\* The slot is taken: keepAlive's ticker starts, the main loop gets the result and
\* finishAcquisition starts a new server, in quarantine.
Registered(l) ==
  /\ pc[l] = "put" /\ reply[l] = "ok"
  /\ Goto(l, "registered") /\ Arm(l, KeepAlivePeriod)
  /\ server' = [server EXCEPT ![l] = "quarantine"]
  /\ activeAt' = [activeAt EXCEPT ![l] = now + Quarantine]
  /\ UNCHANGED <<now, etcdVars, slot, grants, restarts>>

\* Somebody else has the slot: revoke the lease, then go on with the next slot.
Occupied(l) ==
  /\ pc[l] = "put" /\ reply[l] = "occupied"
  /\ Revoke(l, "revokeNext")
  /\ UNCHANGED <<lifeVars, slot, grants>>

PutFails(l) ==
  /\ pc[l] = "put"
  /\ Revoke(l, "revokeRetry")
  /\ UNCHANGED <<lifeVars, slot, grants>>

MoreSlots(l) == slot[l] < SlotCount

\* The answer to a revocation is not looked at.  errEtcdSlotsOccupied, after the
\* last slot, goes on to waitForEtcdSlotDeletion.
NextSlot(l) ==
  /\ pc[l] = "revokeNext"
  /\ IF MoreSlots(l)
       THEN Goto(l, "try") /\ slot' = [slot EXCEPT ![l] = @ + 1]
       ELSE Goto(l, "snapshot") /\ slot' = [slot EXCEPT ![l] = 1]
  /\ UNCHANGED <<lifeVars, etcdVars, deadline, grants>>

RetryAfterRevoke(l) ==
  /\ pc[l] = "revokeRetry"
  /\ Retry(l) /\ slot' = [slot EXCEPT ![l] = 1]
  /\ UNCHANGED <<lifeVars, grants>>

RetryOver(l) ==
  /\ pc[l] = "retry" /\ now = deadline[l]
  /\ Goto(l, "try")
  /\ UNCHANGED <<lifeVars, etcdVars, deadline, slot, grants>>

\* waitForEtcdSlotDeletion
Get(l) ==
  /\ pc[l] = "snapshot"
  /\ Call(l, "get", Message(l, "get"), OperationTimeout)
  /\ UNCHANGED <<lifeVars, slot, grants>>

SlotFree(l) ==
  /\ pc[l] = "get" /\ reply[l] = "ok"
  /\ Goto(l, "try")
  /\ UNCHANGED <<lifeVars, etcdVars, deadline, slot, grants>>

\* Mutation of Watch: begins at the current revision.
WatchFromNow(l) ==
  /\ pc[l] = "get" /\ reply[l] = "occupied"
  /\ Goto(l, "watch") /\ missed' = missed \ {l}
  /\ UNCHANGED <<lifeVars, expiry, key, net, reply, deadline, slot, grants>>

\* The watch begins with the revision after the snapshot's: what was deleted since
\* the snapshot is among its events.
Watch(l) ==
  /\ pc[l] = "get" /\ reply[l] = "occupied"
  /\ Goto(l, "watch")
  /\ UNCHANGED <<lifeVars, etcdVars, deadline, slot, grants>>

WatchEvent(l) ==
  /\ pc[l] = "watch" /\ l \in missed
  /\ Goto(l, "try")
  /\ UNCHANGED <<lifeVars, etcdVars, deadline, slot, grants>>

\* The snapshot or the watch is interrupted.
WatchFails(l) ==
  /\ pc[l] \in {"get", "watch"}
  /\ Retry(l)
  /\ UNCHANGED <<lifeVars, slot, grants>>

-----------------------------------------------------------------------------
(* The registration and the lifecycle of the process. *)

\* Mutation of KeepAliveTimeout: as long as any other request.
KeepAliveOperationTimeout == OperationTimeout

KeepAliveTimeout == KeepAlivePeriod

\* keepAlive, when its ticker fires.
KeepAlive(l) ==
  /\ pc[l] = "registered" /\ now = deadline[l]
  /\ Call(l, "keepalive", Message(l, "keepalive"), KeepAliveTimeout)
  /\ UNCHANGED <<lifeVars, slot, grants>>

\* The next tick is one period after the one this keepalive began with.
KeptAlive(l) ==
  /\ pc[l] = "keepalive" /\ reply[l] = "ok"
  /\ Goto(l, "registered")
  /\ UNCHANGED <<lifeVars, etcdVars, deadline, slot, grants>>

\* recoverRegistration: stopServer comes first.
ServerAfterLoss(l) == "none"

\* An error, the timeout, or an expired lease: keepAlive reports it once, and
\* recoverRegistration stops the server and closes the registration.
RegistrationLost(l) ==
  /\ pc[l] = "keepalive"
  /\ server' = [server EXCEPT ![l] = ServerAfterLoss(l)]
  /\ Revoke(l, "revokeLost")
  /\ UNCHANGED <<now, slot, grants, restarts, activeAt>>

\* registration.Close has returned: a new acquisition starts with the first slot.
Reacquire(l) ==
  /\ pc[l] = "revokeLost"
  /\ Goto(l, "try") /\ slot' = [slot EXCEPT ![l] = 1]
  /\ UNCHANGED <<lifeVars, etcdVars, deadline, grants>>

\* The server's own timer.
ServerActive(l) ==
  /\ server[l] = "quarantine" /\ now >= activeAt[l]
  /\ server' = [server EXCEPT ![l] = "active"]
  /\ UNCHANGED <<now, etcdVars, pc, deadline, slot, grants, restarts, activeAt>>

\* A signal, a failed server or the metrics endpoint ends run: Close stops the server,
\* cancels the acquisition or the keepalive, and revokes the lease it may have bound.
Shutdown(l) ==
  /\ pc[l] \notin {"exited", "revokeExit"} /\ restarts[l] < MaxRestarts
  /\ server' = [server EXCEPT ![l] = "none"]
  /\ IF pc[l] \in {"put", "registered", "keepalive", "revokeNext", "revokeRetry", "revokeLost"}
       THEN Revoke(l, "revokeExit")
       ELSE Goto(l, "exited") /\ UNCHANGED <<etcdVars, deadline>>
  /\ UNCHANGED <<now, slot, grants, restarts, activeAt>>

Exit(l) ==
  /\ pc[l] = "revokeExit"
  /\ Goto(l, "exited")
  /\ UNCHANGED <<lifeVars, etcdVars, deadline, slot, grants>>

\* The process dies; its etcd lease and its requests stay behind.
Crash(l) ==
  /\ pc[l] # "exited" /\ restarts[l] < MaxRestarts
  /\ server' = [server EXCEPT ![l] = "none"]
  /\ Goto(l, "exited")
  /\ UNCHANGED <<now, etcdVars, deadline, slot, grants, restarts, activeAt>>

\* run of a new process.
Restart(l) ==
  /\ pc[l] = "exited"
  /\ restarts' = [restarts EXCEPT ![l] = @ + 1]
  /\ Goto(l, "try") /\ slot' = [slot EXCEPT ![l] = 1]
  /\ UNCHANGED <<now, etcdVars, deadline, grants, server, activeAt>>

\* Time passes unless a launcher has a timer to serve or a request to give up.
Tick ==
  /\ now < MaxTime
  /\ \A l \in Launchers : pc[l] \in Calling \cup Sleeping => now < deadline[l]
  /\ now' = now + 1
  /\ UNCHANGED <<etcdVars, pc, deadline, slot, grants, restarts, server, activeAt>>

Launcher(l) ==
  \/ Grant(l) \/ Put(l) \/ GrantFails(l) \/ Registered(l) \/ Occupied(l) \/ PutFails(l)
  \/ NextSlot(l) \/ RetryAfterRevoke(l) \/ RetryOver(l)
  \/ Get(l) \/ SlotFree(l) \/ Watch(l) \/ WatchEvent(l) \/ WatchFails(l)
  \/ KeepAlive(l) \/ KeptAlive(l) \/ RegistrationLost(l) \/ Reacquire(l)
  \/ ServerActive(l) \/ Shutdown(l) \/ Exit(l) \/ Crash(l) \/ Restart(l)

Next ==
  \/ Tick
  \/ \E m \in net : EtcdApplies(m)
  \/ \E id \in LeaseIds : EtcdExpires(id)
  \/ \E l \in Launchers : Launcher(l)

Spec == Init /\ [][Next]_vars

-----------------------------------------------------------------------------
(* Properties. *)

\* A server that serves leases holds its slot in etcd: the keepalive that fails stops
\* it before etcd can give the slot away, and the quarantine outlasts a registration
\* whose lease had expired before the first keepalive.
ActiveHoldsSlot ==
  /\ TypeOK
  /\ \A l \in Launchers : server[l] = "active" => key[slot[l]] = Lease(l)

\* No deletion is lost between the snapshot and the watch: while a launcher watches
\* and some slot is free, the watch has an event to deliver.
WatchSeesDeletion ==
  \A l \in Launchers, s \in Slots : pc[l] = "watch" /\ key[s] = NoLease => l \in missed
=============================================================================
