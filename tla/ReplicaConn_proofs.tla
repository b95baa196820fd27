------------------------- MODULE ReplicaConn_proofs -------------------------
(***************************************************************************)
(* For any number of replicas, callers, calls and sessions and any size of *)
(* the queues: every wait of a collector gets exactly one result, one      *)
(* goroutine takes requests from a replica's queue, and a closed           *)
(* connection is closed for good.                                          *)
(***************************************************************************)
EXTENDS ReplicaConn, FiniteSetTheorems, TLAPS

\* Most leaves are first-order reasoning; the ones that need arithmetic, functions or
\* sequences cite SMT.
USE Zenon

-----------------------------------------------------------------------------
(* The waits: the inductive invariant. *)

\* The types of what the argument is about.
WaitTypes ==
  /\ pending \in [Replicas -> SUBSET Entries] /\ failing \in [Replicas -> SUBSET Entries]
  /\ inHand \in [Replicas -> Entries \cup {NoEntry}]
  /\ callerPc \in [Callers -> {"idle", "submit", "wait", "expired", "abort", "release"}]
  /\ calls \in [Callers -> 0..MaxCalls] /\ collector \in [Callers -> Collectors]
  /\ todo \in [Callers -> SUBSET Replicas] /\ pool \subseteq Collectors
  /\ waits \in [Collectors -> SUBSET Requests] /\ results \in [Collectors -> SUBSET Requests]
  /\ DOMAIN closePc = Replicas

\* An entry is kept by the replica its request is for.
Homes ==
  \A r \in Replicas, i \in Requests, k \in Collectors :
    <<i, k>> \in pending[r] \/ <<i, k>> \in failing[r] \/ inHand[r] = <<i, k>> => i[3] = r

\* The places of request i on its way to collector k.
IsPending(i, k) == <<i, k>> \in pending[i[3]]
IsTaken(i, k) == inHand[i[3]] = <<i, k>>
IsFailing(i, k) == <<i, k>> \in failing[i[3]]
IsSent(i, k) == i \in results[k]

\* It is in one of them exactly while k waits for it.
OnePlace(i, k) ==
  /\ i \in waits[k] <=> IsPending(i, k) \/ IsTaken(i, k) \/ IsFailing(i, k) \/ IsSent(i, k)
  /\ ~(IsPending(i, k) /\ IsTaken(i, k)) /\ ~(IsPending(i, k) /\ IsFailing(i, k))
  /\ ~(IsPending(i, k) /\ IsSent(i, k)) /\ ~(IsTaken(i, k) /\ IsFailing(i, k))
  /\ ~(IsTaken(i, k) /\ IsSent(i, k)) /\ ~(IsFailing(i, k) /\ IsSent(i, k))

Places == \A i \in Requests, k \in Collectors : OnePlace(i, k)

\* A request is waited for by one collector, and was submitted: nextRequestID
\* gives every request a number of its own.
Numbers ==
  /\ \A k \in Collectors : \A i \in waits[k] :
       /\ i[2] <= calls[i[1]]
       /\ i[2] = calls[i[1]] /\ callerPc[i[1]] = "submit" => i[3] \notin todo[i[1]]
  /\ \A k, j \in Collectors : k # j => waits[k] \cap waits[j] = {}

\* A collector is in the pool, unused, or belongs to one operation.
Pooling ==
  /\ \A k \in pool : waits[k] = {}
  /\ \A c \in Callers : callerPc[c] # "idle" => collector[c] \notin pool /\ calls[c] > 0
  /\ \A c, d \in Callers : callerPc[c] # "idle" /\ callerPc[d] # "idle" /\ c # d =>
       collector[c] # collector[d]
  /\ \A c \in Callers : callerPc[c] = "release" => waits[collector[c]] = {}

\* Only failPending has entries to fail.
Failing == \A r \in Replicas : closePc[r] # "fail" => failing[r] = {}

WaitInv == WaitTypes /\ Homes /\ Places /\ Numbers /\ Pooling /\ Failing

-----------------------------------------------------------------------------
(* Requests and entries. *)

LEMMA RequestParts ==
  \A i \in Requests : i[1] \in Callers /\ i[2] \in 1..MaxCalls /\ i[3] \in Replicas
  BY DEF Requests

LEMMA EntryParts ==
  /\ \A i, k : <<i, k>>[1] = i /\ <<i, k>>[2] = k /\ <<i, k>> # NoEntry
  /\ \A i, k : <<i, k>> \in Entries <=> i \in Requests /\ k \in Collectors
  /\ \A e \in Entries : e[1] \in Requests /\ e[2] \in Collectors /\ e = <<e[1], e[2]>>
  BY SMT DEF Entries, NoEntry

LEMMA PairParts ==
  \A h, j, i, k : <<h, j>> = <<i, k>> <=> h = i /\ j = k
  OBVIOUS

-----------------------------------------------------------------------------
(* The steps that touch no wait. *)

LEMMA PlacesKept ==
  ASSUME Places, UNCHANGED <<pending, failing, inHand, waits, results>>
  PROVE  Places'
<1> SUFFICES ASSUME NEW i \in Requests, NEW k \in Collectors
             PROVE  OnePlace(i, k)'
  BY DEF Places
<1>1. OnePlace(i, k)
  BY DEF Places
<1> QED
  BY <1>1 DEF OnePlace, IsPending, IsTaken, IsFailing, IsSent

LEMMA QuietStep ==
  ASSUME WaitInv, UNCHANGED <<pending, failing, inHand, callerVars, waits, results>>,
         DOMAIN closePc' = Replicas,
         \A r \in Replicas : closePc'[r] # "fail" => closePc[r] # "fail" \/ failing[r] = {}
  PROVE  WaitInv'
<1>1. WaitTypes' /\ Homes'
  BY DEF callerVars, WaitInv, WaitTypes, Homes
<1>2. Places'
  BY PlacesKept DEF WaitInv
<1>3. Numbers' /\ Pooling' /\ Failing'
  BY DEF callerVars, WaitInv, Numbers, Pooling, Failing
<1> QED
  BY <1>1, <1>2, <1>3 DEF WaitInv

\* A caller moves on without touching a wait.
LEMMA CallerMoves ==
  ASSUME WaitInv, NEW c \in Callers,
         SubmitCanceled(c) \/ Submitted(c) \/ Aborted(c) \/ SubmitRelease(c)
  PROVE  WaitInv'
<1>1. UNCHANGED <<pending, failing, inHand, closePc, calls, collector, pool, waits, results>>
  BY DEF SubmitCanceled, Submitted, Aborted, SubmitRelease, pendingVars, connVars, lifeVars
<1>2. /\ todo' \in [Callers -> SUBSET Replicas]
      /\ callerPc' \in [Callers -> {"idle", "submit", "wait", "expired", "abort", "release"}]
      /\ \A d \in Callers :
           /\ callerPc'[d] = "idle" <=> callerPc[d] = "idle"
           /\ callerPc'[d] = "submit" => callerPc[d] = "submit" /\ todo'[d] \subseteq todo[d]
           /\ callerPc'[d] = "release" => callerPc[d] = "release" \/ waits[collector[d]] = {}
  <2>1. CASE SubmitCanceled(c)
    BY <2>1 DEF WaitInv, WaitTypes, SubmitCanceled
  <2>2. CASE Submitted(c)
    BY <2>2 DEF WaitInv, WaitTypes, Submitted, CallerGoto
  <2>3. CASE Aborted(c)
    BY <2>3 DEF WaitInv, WaitTypes, Aborted, CallerGoto
  <2>4. CASE SubmitRelease(c)
    BY <2>4, SMT DEF WaitInv, WaitTypes, SubmitRelease
  <2> QED
    BY <2>1, <2>2, <2>3, <2>4
<1>3. WaitTypes' /\ Homes' /\ Failing'
  BY <1>1, <1>2, SMT DEF WaitInv, WaitTypes, Homes, Failing
<1>4. Places'
  BY <1>1, PlacesKept DEF WaitInv
<1>5. Numbers'
  <2>1. \A k \in Collectors : \A i \in waits[k] : i[1] \in Callers
    BY RequestParts DEF WaitInv, WaitTypes
  <2> QED
    BY <1>1, <1>2, <2>1 DEF WaitInv, Numbers
<1>6. Pooling'
  BY <1>1, <1>2 DEF WaitInv, Pooling
<1> QED
  BY <1>3, <1>4, <1>5, <1>6 DEF WaitInv

-----------------------------------------------------------------------------
(* An operation begins, submits, and ends. *)

LEMMA BeginStep ==
  ASSUME WaitInv, NEW c \in Callers, Begin(c)
  PROVE  WaitInv'
<1>1. UNCHANGED <<pending, failing, inHand, closePc, waits, results>>
  BY DEF Begin, pendingVars, connVars, lifeVars
<1>2. PICK k \in pool : /\ collector' = [collector EXCEPT ![c] = k]
                       /\ pool' = pool \ {k}
  BY DEF Begin
<1>3. /\ callerPc[c] = "idle" /\ calls[c] < MaxCalls
      /\ calls' = [calls EXCEPT ![c] = @ + 1]
      /\ callerPc' = [callerPc EXCEPT ![c] = "submit"]
      /\ todo' \in [Callers -> SUBSET Replicas]
      /\ \A d \in Callers \ {c} : todo'[d] = todo[d]
  BY SMT DEF Begin, CallerGoto, WaitInv, WaitTypes
<1>4. WaitTypes'
  BY <1>1, <1>2, <1>3, ReplicaConnAssumption, SMT DEF WaitInv, WaitTypes
<1>5. Homes' /\ Failing'
  BY <1>1 DEF WaitInv, Homes, Failing
<1>6. Places'
  BY <1>1, PlacesKept DEF WaitInv
<1>7. Numbers'
  <2>1. \A j \in Collectors : \A i \in waits[j] :
          i[1] \in Callers /\ i[2] \in Nat /\ calls[i[1]] \in Nat
    BY RequestParts, SMT DEF WaitInv, WaitTypes
  <2>2. calls \in [Callers -> 0..MaxCalls] /\ DOMAIN callerPc = Callers
    BY DEF WaitInv, WaitTypes
  <2> QED
    BY <1>1, <1>3, <2>1, <2>2, ReplicaConnAssumption, SMT DEF WaitInv, Numbers
<1>8. Pooling'
  BY <1>1, <1>2, <1>3, SMT DEF WaitInv, WaitTypes, Pooling
<1> QED
  BY <1>4, <1>5, <1>6, <1>7, <1>8 DEF WaitInv

LEMMA FinishStep ==
  ASSUME WaitInv, NEW c \in Callers, Finish(c)
  PROVE  WaitInv'
<1>1. UNCHANGED <<pending, failing, inHand, closePc, calls, collector, todo, waits, results>>
  BY DEF Finish, pendingVars, connVars, lifeVars
<1>2. /\ callerPc[c] # "idle" /\ waits[collector[c]] = {}
      /\ pool' = pool \cup {collector[c]}
      /\ callerPc' = [callerPc EXCEPT ![c] = "idle"]
  BY DEF Finish, Drained, CallerGoto, WaitInv, Pooling
<1>3. WaitTypes' /\ Homes' /\ Failing'
  BY <1>1, <1>2, SMT DEF WaitInv, WaitTypes, Homes, Failing
<1>4. Places'
  BY <1>1, PlacesKept DEF WaitInv
<1>5. Numbers'
  BY <1>1, <1>2, RequestParts DEF WaitInv, WaitTypes, Numbers
<1>6. Pooling'
  BY <1>1, <1>2 DEF WaitInv, WaitTypes, Pooling
<1> QED
  BY <1>3, <1>4, <1>5, <1>6 DEF WaitInv

\* A submitted request is new: no collector has waited for it.
LEMMA SubmitStep ==
  ASSUME WaitInv, NEW c \in Callers, Submit(c)
  PROVE  WaitInv'
<1> DEFINE k == collector[c]
<1>1. UNCHANGED <<failing, inHand, closePc, callerPc, calls, collector, pool, results>>
  BY DEF Submit, connVars, lifeVars
<1>2. PICK r \in todo[c] :
        /\ todo' = [todo EXCEPT ![c] = @ \ {r}]
        /\ \/ /\ pending' = [pending EXCEPT ![r] = @ \cup {<<<<c, calls[c], r, "call">>, k>>}]
              /\ waits' = [waits EXCEPT ![k] = @ \cup {<<c, calls[c], r, "call">>}]
           \/ UNCHANGED <<pending, waits>>
  BY DEF Submit
<1>3. callerPc[c] = "submit"
  BY DEF Submit
<1>4. /\ c \in Callers /\ r \in Replicas /\ k \in Collectors /\ k \notin pool
      /\ calls[c] \in 1..MaxCalls
  BY <1>3, ReplicaConnAssumption, SMT DEF WaitInv, WaitTypes, Pooling
<1>5. PICK i \in Requests : /\ i = <<c, calls[c], r, "call">>
                           /\ i[1] = c /\ i[2] = calls[c] /\ i[3] = r
  <2>1. <<c, calls[c], r, "call">> \in Requests
    BY <1>4 DEF Requests
  <2> QED
    BY <2>1
<1>6. CASE UNCHANGED <<pending, waits>>
  <2>1. WaitTypes' /\ Homes' /\ Failing'
    BY <1>1, <1>2, <1>6 DEF WaitInv, WaitTypes, Homes, Failing
  <2>2. Places'
    BY <1>1, <1>6, PlacesKept DEF WaitInv
  <2>3. Numbers'
    <3>1. \A d \in Callers : todo'[d] \subseteq todo[d]
      BY <1>2 DEF WaitInv, WaitTypes
    <3>2. \A j \in Collectors : \A h \in waits[j] : h[1] \in Callers
      BY RequestParts DEF WaitInv, WaitTypes
    <3> QED
      BY <1>1, <1>6, <3>1, <3>2 DEF WaitInv, Numbers
  <2>4. Pooling'
    BY <1>1, <1>6 DEF WaitInv, Pooling
  <2> QED
    BY <2>1, <2>2, <2>3, <2>4 DEF WaitInv
<1>7. CASE /\ pending' = [pending EXCEPT ![r] = @ \cup {<<i, k>>}]
           /\ waits' = [waits EXCEPT ![k] = @ \cup {i}]
  <2>1. \A j \in Collectors : i \notin waits[j]
    BY <1>2, <1>3, <1>5 DEF WaitInv, Numbers
  <2>2. /\ \A q \in Replicas : pending'[q] = IF q = r THEN pending[q] \cup {<<i, k>>} ELSE pending[q]
        /\ \A j \in Collectors : waits'[j] = IF j = k THEN waits[j] \cup {i} ELSE waits[j]
    BY <1>4, <1>7 DEF WaitInv, WaitTypes
  <2>3. WaitTypes'
    BY <1>1, <1>2, <1>4, <1>7, EntryParts, SMT DEF WaitInv, WaitTypes
  <2>4. Homes' /\ Failing'
    <3>1. \A q \in Replicas, h \in Requests, j \in Collectors :
            <<h, j>> \in pending'[q] => <<h, j>> \in pending[q] \/ (h = i /\ q = r)
      <4> TAKE q \in Replicas, h \in Requests, j \in Collectors
      <4>1. <<h, j>> = <<i, k>> <=> h = i /\ j = k
        BY PairParts
      <4> QED
        BY <2>2, <4>1
    <3> QED
      BY <1>1, <1>5, <3>1, ZenonT(40) DEF WaitInv, Homes, Failing
  <2>5. Places'
    <3> SUFFICES ASSUME NEW h \in Requests, NEW j \in Collectors
                 PROVE  OnePlace(h, j)'
      BY DEF Places
    <3>1. OnePlace(h, j) /\ h[3] \in Replicas
      BY RequestParts DEF WaitInv, Places
    <3>2. IsPending(h, j)' <=> IsPending(h, j) \/ (h = i /\ j = k)
      <4>1. <<h, j>> = <<i, k>> <=> h = i /\ j = k
        BY PairParts
      <4>2. pending'[h[3]] = IF h[3] = r THEN pending[h[3]] \cup {<<i, k>>} ELSE pending[h[3]]
        BY <2>2, <3>1
      <4> QED
        BY <1>5, <4>1, <4>2 DEF IsPending
    <3>3. h \in waits'[j] <=> h \in waits[j] \/ (h = i /\ j = k)
      BY <2>2
    <3>4. /\ IsTaken(h, j)' = IsTaken(h, j) /\ IsFailing(h, j)' = IsFailing(h, j)
          /\ IsSent(h, j)' = IsSent(h, j)
      BY <1>1 DEF IsTaken, IsFailing, IsSent
    <3> QED
      BY <2>1, <3>1, <3>2, <3>3, <3>4 DEF OnePlace
  <2>6. Numbers'
    <3>1. \A d \in Callers : todo'[d] \subseteq todo[d]
      BY <1>2 DEF WaitInv, WaitTypes
    <3>2. \A j \in Collectors : \A h \in waits[j] : h[1] \in Callers
      BY RequestParts DEF WaitInv, WaitTypes
    <3>3. i[3] \notin todo'[c] /\ calls[c] <= calls[c]
      BY <1>2, <1>4, <1>5, SMT DEF WaitInv, WaitTypes
    <3>4. \A j \in Collectors : \A h \in waits'[j] : h \in waits[j] \/ (h = i /\ j = k)
      BY <2>2
    <3>5. ASSUME NEW j \in Collectors, NEW h \in waits'[j]
          PROVE  /\ h[2] <= calls'[h[1]]
                 /\ h[2] = calls'[h[1]] /\ callerPc'[h[1]] = "submit" => h[3] \notin todo'[h[1]]
      <4>1. CASE h \in waits[j]
        BY <1>1, <3>1, <3>2, <4>1 DEF WaitInv, Numbers
      <4>2. CASE h = i
        BY <1>1, <1>4, <1>5, <3>3, <4>2
      <4> QED
        BY <3>4, <4>1, <4>2
    <3>6. ASSUME NEW j \in Collectors, NEW l \in Collectors, j # l
          PROVE  waits'[j] \cap waits'[l] = {}
      <4>1. waits[j] \cap waits[l] = {}
        BY <3>6 DEF WaitInv, Numbers
      <4> QED
        BY <2>1, <3>4, <3>6, <4>1
    <3> QED
      BY <3>5, <3>6 DEF Numbers
  <2>7. Pooling'
    BY <1>1, <1>3, <1>4, <2>2, ZenonT(40) DEF WaitInv, WaitTypes, Pooling
  <2> QED
    BY <2>3, <2>4, <2>5, <2>6, <2>7 DEF WaitInv
<1> QED
  BY <1>2, <1>5, <1>6, <1>7

-----------------------------------------------------------------------------
(* A wait ends: its entry moves from one place to the next. *)

\* What such a step leaves alone.
LEMMA CallersKept ==
  ASSUME WaitInv, UNCHANGED <<calls, collector, todo, pool>>,
         \A k \in Collectors : waits'[k] \subseteq waits[k],
         \A c \in Callers : \/ callerPc'[c] = callerPc[c]
                            \/ /\ callerPc[c] \notin {"idle", "submit", "release"}
                               /\ callerPc'[c] \notin {"idle", "submit", "release"}
  PROVE  Numbers' /\ Pooling'
<1>1. \A k \in Collectors : \A i \in waits'[k] : i \in waits[k] /\ i[1] \in Callers
  BY RequestParts DEF WaitInv, WaitTypes
<1>2. Numbers'
  <2>1. ASSUME NEW k \in Collectors, NEW i \in waits'[k]
        PROVE  /\ i[2] <= calls'[i[1]]
               /\ i[2] = calls'[i[1]] /\ callerPc'[i[1]] = "submit" => i[3] \notin todo'[i[1]]
    BY <1>1 DEF WaitInv, Numbers
  <2>2. ASSUME NEW k \in Collectors, NEW j \in Collectors, k # j
        PROVE  waits'[k] \cap waits'[j] = {}
    <3>1. waits[k] \cap waits[j] = {}
      BY <2>2 DEF WaitInv, Numbers
    <3> QED
      BY <3>1
  <2> QED
    BY <2>1, <2>2 DEF Numbers
<1>3. Pooling'
  <2>1. \A k \in Collectors : waits[k] = {} => waits'[k] = {}
    OBVIOUS
  <2>2. pool \subseteq Collectors /\ \A c \in Callers : collector[c] \in Collectors
    BY DEF WaitInv, WaitTypes
  <2> QED
    BY <2>1, <2>2 DEF WaitInv, Pooling
<1> QED
  BY <1>2, <1>3

\* An entry is pending for one collector only.
LEMMA OneCollector ==
  ASSUME WaitInv, NEW i \in Requests, NEW k \in Collectors, NEW j \in Collectors,
         IsPending(i, k), IsPending(i, j)
  PROVE  j = k
<1>1. i \in waits[k] /\ i \in waits[j]
  BY DEF WaitInv, Places, OnePlace
<1> QED
  BY <1>1 DEF WaitInv, Numbers

LEMMA ReceiveStep ==
  ASSUME WaitInv, NEW c \in Callers, Receive(c)
  PROVE  WaitInv'
<1> DEFINE k == collector[c]
<1>1. UNCHANGED <<pending, failing, inHand, closePc, calls, collector, todo, pool>>
  BY DEF Receive, pendingVars, connVars, lifeVars
<1>2. PICK i \in results[k] : /\ results' = [results EXCEPT ![k] = @ \ {i}]
                             /\ waits' = [waits EXCEPT ![k] = @ \ {i}]
  BY DEF Receive, Consume
<1>3. k \in Collectors /\ i \in Requests
  BY <1>2 DEF WaitInv, WaitTypes
<1>4. \A j \in Collectors :
        /\ waits'[j] = IF j = k THEN waits[j] \ {i} ELSE waits[j]
        /\ results'[j] = IF j = k THEN results[j] \ {i} ELSE results[j]
  BY <1>2, <1>3 DEF WaitInv, WaitTypes
<1>5. /\ callerPc' \in [Callers -> {"idle", "submit", "wait", "expired", "abort", "release"}]
      /\ \A d \in Callers : \/ callerPc'[d] = callerPc[d]
                            \/ /\ callerPc[d] \notin {"idle", "submit", "release"}
                               /\ callerPc'[d] \notin {"idle", "submit", "release"}
  BY DEF Receive, CallerGoto, WaitInv, WaitTypes
<1>6. WaitTypes'
  BY <1>1, <1>2, <1>5 DEF WaitInv, WaitTypes
<1>7. Homes' /\ Failing'
  BY <1>1, SMT DEF WaitInv, Homes, Failing
<1>8. Places'
  <2> SUFFICES ASSUME NEW h \in Requests, NEW j \in Collectors
               PROVE  OnePlace(h, j)'
    BY DEF Places
  <2>1. OnePlace(h, j)
    BY DEF WaitInv, Places
  <2>2. /\ IsPending(h, j)' = IsPending(h, j) /\ IsTaken(h, j)' = IsTaken(h, j)
        /\ IsFailing(h, j)' = IsFailing(h, j)
    BY <1>1 DEF IsPending, IsTaken, IsFailing
  <2>3. /\ IsSent(h, j)' <=> IsSent(h, j) /\ ~(h = i /\ j = k)
        /\ h \in waits'[j] <=> h \in waits[j] /\ ~(h = i /\ j = k)
        /\ h = i /\ j = k => IsSent(h, j)
    BY <1>2, <1>4, SMT DEF IsSent
  <2> QED
    BY <2>1, <2>2, <2>3 DEF OnePlace
<1>9. Numbers' /\ Pooling'
  <2>1. \A j \in Collectors : waits'[j] \subseteq waits[j]
    BY <1>4
  <2> QED
    BY <1>1, <1>5, <2>1, CallersKept
<1> QED
  BY <1>6, <1>7, <1>8, <1>9 DEF WaitInv

LEMMA CompleteStep ==
  ASSUME WaitInv, NEW c \in Callers, Expire(c) \/ Abort(c)
  PROVE  WaitInv'
<1> DEFINE k == collector[c]
<1>1. /\ UNCHANGED <<failing, inHand, closePc, calls, collector, todo, pool, waits>>
      /\ callerPc[c] = "wait"
      /\ callerPc' = [callerPc EXCEPT ![c] = "expired"] \/ callerPc' = [callerPc EXCEPT ![c] = "abort"]
  BY DEF Expire, Abort, CallerGoto, connVars, lifeVars
<1>2. k \in Collectors
  BY DEF WaitInv, WaitTypes
<1>3. PICK I \in SUBSET waits[k] : CompleteAll(k, I)
  BY DEF Expire, Abort
<1>4. PICK M \in SUBSET Requests :
        /\ \A i \in M : IsPending(i, k)
        /\ pending' = [r \in Replicas |-> {e \in pending[r] : e[1] \notin M}]
        /\ results' = [results EXCEPT ![k] = @ \cup M]
  <2> DEFINE M == {i \in I : <<i, k>> \in pending[i[3]]}
  <2>1. M \in SUBSET Requests /\ \A i \in M : IsPending(i, k)
    BY <1>2 DEF WaitInv, WaitTypes, IsPending
  <2> QED
    BY <1>3, <2>1 DEF CompleteAll
<1>5. /\ \A j \in Collectors : results'[j] = IF j = k THEN results[j] \cup M ELSE results[j]
      /\ \A r \in Replicas : pending'[r] = {e \in pending[r] : e[1] \notin M}
  BY <1>2, <1>4 DEF WaitInv, WaitTypes
<1>6. WaitTypes'
  BY <1>1, <1>2, <1>4 DEF WaitInv, WaitTypes
<1>7. Homes' /\ Failing'
  BY <1>1, <1>5, SMT DEF WaitInv, Homes, Failing
<1>8. Places'
  <2> SUFFICES ASSUME NEW h \in Requests, NEW j \in Collectors
               PROVE  OnePlace(h, j)'
    BY DEF Places
  <2>1. OnePlace(h, j) /\ h[3] \in Replicas
    BY RequestParts DEF WaitInv, Places
  <2>2. IsTaken(h, j)' = IsTaken(h, j) /\ IsFailing(h, j)' = IsFailing(h, j)
    BY <1>1 DEF IsTaken, IsFailing
  <2>3. IsPending(h, j)' <=> IsPending(h, j) /\ h \notin M
    BY <1>5, <2>1, EntryParts, SMT DEF IsPending
  <2>4. IsSent(h, j)' <=> IsSent(h, j) \/ (j = k /\ h \in M)
    BY <1>5 DEF IsSent
  <2>5. h \in M => IsPending(h, k)
    BY <1>4
  <2>6. h \in M /\ IsPending(h, j) => j = k
    BY <1>2, <2>5, OneCollector
  <2> QED
    BY <1>1, <2>1, <2>2, <2>3, <2>4, <2>5, <2>6 DEF OnePlace
<1>9. Numbers' /\ Pooling'
  <2>1. \A d \in Callers : \/ callerPc'[d] = callerPc[d]
                           \/ /\ callerPc[d] \notin {"idle", "submit", "release"}
                              /\ callerPc'[d] \notin {"idle", "submit", "release"}
    BY <1>1 DEF WaitInv, WaitTypes
  <2> QED
    BY <1>1, <2>1, CallersKept
<1> QED
  BY <1>6, <1>7, <1>8, <1>9 DEF WaitInv

\* The worker finds one entry of a response, or none.
LEMMA WorkerTakesStep ==
  ASSUME WaitInv, NEW r \in Replicas, WorkerTakes(r)
  PROVE  WaitInv'
<1> DEFINE found == {e \in pending[r] : e[1] = Head(ring[r])}
<1>1. /\ UNCHANGED <<failing, closePc, callerVars, waits, results>> /\ inHand[r] = NoEntry
      /\ pending' = [pending EXCEPT ![r] = @ \ found]
      /\ inHand' = [inHand EXCEPT ![r] = IF found = {} THEN NoEntry ELSE CHOOSE e \in found : TRUE]
  BY DEF WorkerTakes, lifeVars
<1>2. CASE found = {}
  <2>1. UNCHANGED <<pending, inHand>>
    BY <1>1, <1>2 DEF WaitInv, WaitTypes
  <2>2. DOMAIN closePc' = Replicas
    BY <1>1 DEF WaitInv, WaitTypes
  <2> QED
    BY <1>1, <2>1, <2>2, QuietStep
<1>3. CASE found # {}
  <2>1. PICK e \in found : inHand' = [inHand EXCEPT ![r] = e]
    BY <1>1, <1>3
  <2>2. PICK i \in Requests, k \in Collectors : e = <<i, k>>
    BY <2>1, EntryParts, SMT DEF WaitInv, WaitTypes
  <2>3. i = Head(ring[r]) /\ <<i, k>> \in pending[r] /\ i[3] = r
    BY <2>1, <2>2, EntryParts DEF WaitInv, Homes
  <2>4. found = {<<i, k>>}
    <3> SUFFICES ASSUME NEW d \in found PROVE d = <<i, k>>
      BY <2>1, <2>2
    <3>1. PICK h \in Requests, j \in Collectors : d = <<h, j>>
      BY EntryParts, SMT DEF WaitInv, WaitTypes
    <3>2. h = i /\ <<h, j>> \in pending[r]
      BY <2>3, <3>1, EntryParts
    <3> QED
      BY <2>3, <3>1, <3>2, OneCollector DEF IsPending
  <2>5. /\ \A q \in Replicas : pending'[q] = IF q = r THEN pending[q] \ {<<i, k>>} ELSE pending[q]
        /\ \A q \in Replicas : inHand'[q] = IF q = r THEN <<i, k>> ELSE inHand[q]
    BY <1>1, <2>1, <2>2, <2>4 DEF WaitInv, WaitTypes
  <2>6. WaitTypes'
    BY <1>1, <2>1, EntryParts, SMT DEF WaitInv, WaitTypes, callerVars
  <2>7. Homes' /\ Failing'
    <3> SUFFICES ASSUME NEW q \in Replicas, NEW h \in Requests, NEW j \in Collectors,
                        <<h, j>> \in pending'[q] \/ <<h, j>> \in failing'[q] \/ inHand'[q] = <<h, j>>
                 PROVE  h[3] = q
      BY <1>1 DEF Homes, Failing, WaitInv
    <3>1. <<h, j>> = <<i, k>> => h = i
      BY PairParts
    <3>2. CASE <<h, j>> \in pending[q] \/ <<h, j>> \in failing[q] \/ inHand[q] = <<h, j>>
      BY <3>2 DEF WaitInv, Homes
    <3>3. CASE inHand'[q] = <<h, j>> /\ q = r
      BY <2>3, <2>5, <3>1, <3>3
    <3>4. CASE q = r
      BY <1>1, <2>5, <3>2, <3>3, <3>4, SMT
    <3>5. CASE q # r
      BY <1>1, <2>5, <3>2, <3>5
    <3> QED
      BY <3>4, <3>5
  <2>8. Places'
    <3> SUFFICES ASSUME NEW h \in Requests, NEW j \in Collectors
                 PROVE  OnePlace(h, j)'
      BY DEF Places
    <3>1. OnePlace(h, j) /\ h[3] \in Replicas /\ (<<h, j>> = <<i, k>> <=> h = i /\ j = k)
      BY RequestParts, PairParts DEF WaitInv, Places
    <3>2. IsFailing(h, j)' = IsFailing(h, j) /\ IsSent(h, j)' = IsSent(h, j)
      BY <1>1 DEF IsFailing, IsSent
    <3>3. /\ IsPending(h, j)' <=> IsPending(h, j) /\ ~(h = i /\ j = k)
          /\ h = i /\ j = k => IsPending(h, j)
      BY <2>3, <2>5, <3>1 DEF IsPending
    <3>4. IsTaken(h, j)' <=> IsTaken(h, j) \/ (h = i /\ j = k)
      BY <1>1, <2>3, <2>5, <3>1, EntryParts, SMT DEF IsTaken
    <3> QED
      BY <1>1, <3>1, <3>2, <3>3, <3>4 DEF OnePlace
  <2>9. Numbers' /\ Pooling'
    BY <1>1, CallersKept DEF callerVars
  <2> QED
    BY <2>6, <2>7, <2>8, <2>9 DEF WaitInv
<1> QED
  BY <1>2, <1>3

LEMMA WorkerSendsStep ==
  ASSUME WaitInv, NEW r \in Replicas, WorkerSends(r)
  PROVE  WaitInv'
<1>1. /\ UNCHANGED <<pending, failing, closePc, callerVars, waits>> /\ inHand[r] # NoEntry
      /\ results' = [results EXCEPT ![inHand[r][2]] = @ \cup {inHand[r][1]}]
      /\ inHand' = [inHand EXCEPT ![r] = NoEntry]
  BY DEF WorkerSends, Send, pendingVars, lifeVars
<1>2. PICK i \in Requests, k \in Collectors : inHand[r] = <<i, k>>
  BY <1>1, EntryParts, SMT DEF WaitInv, WaitTypes
<1>3. i[3] = r
  BY <1>2 DEF WaitInv, Homes
<1>4. /\ \A q \in Replicas : inHand'[q] = IF q = r THEN NoEntry ELSE inHand[q]
      /\ \A j \in Collectors : results'[j] = IF j = k THEN results[j] \cup {i} ELSE results[j]
  BY <1>1, <1>2, EntryParts DEF WaitInv, WaitTypes
<1>5. WaitTypes'
  <2>1. results' = [results EXCEPT ![k] = @ \cup {i}]
    BY <1>1, <1>2, EntryParts, SMT
  <2>2. results' \in [Collectors -> SUBSET Requests]
    BY <2>1 DEF WaitInv, WaitTypes
  <2>3. inHand' \in [Replicas -> Entries \cup {NoEntry}]
    BY <1>1 DEF WaitInv, WaitTypes
  <2> QED
    BY <1>1, <2>2, <2>3 DEF WaitInv, WaitTypes, callerVars
<1>6. Homes' /\ Failing'
  BY <1>1, <1>4, EntryParts, SMT DEF WaitInv, Homes, Failing
<1>7. Places'
  <2> SUFFICES ASSUME NEW h \in Requests, NEW j \in Collectors
               PROVE  OnePlace(h, j)'
    BY DEF Places
  <2>1. OnePlace(h, j) /\ h[3] \in Replicas /\ (<<h, j>> = <<i, k>> <=> h = i /\ j = k)
    BY RequestParts, PairParts DEF WaitInv, Places
  <2>2. IsFailing(h, j)' = IsFailing(h, j) /\ IsPending(h, j)' = IsPending(h, j)
    BY <1>1 DEF IsFailing, IsPending
  <2>3. /\ IsTaken(h, j)' <=> IsTaken(h, j) /\ ~(h = i /\ j = k)
        /\ h = i /\ j = k => IsTaken(h, j)
    <3>1. NoEntry # <<h, j>>
      BY EntryParts
    <3>2. CASE h[3] = r
      <4>1. inHand'[h[3]] = NoEntry /\ inHand[h[3]] = <<i, k>>
        BY <1>2, <1>4, <3>2
      <4> QED
        BY <2>1, <3>1, <4>1 DEF IsTaken
    <3>3. CASE h[3] # r
      BY <1>3, <1>4, <2>1, <3>3 DEF IsTaken
    <3> QED
      BY <3>2, <3>3
  <2>4. IsSent(h, j)' <=> IsSent(h, j) \/ (h = i /\ j = k)
    BY <1>4 DEF IsSent
  <2> QED
    BY <1>1, <2>1, <2>2, <2>3, <2>4 DEF OnePlace
<1>8. Numbers' /\ Pooling'
  BY <1>1, CallersKept DEF callerVars
<1> QED
  BY <1>5, <1>6, <1>7, <1>8 DEF WaitInv

LEMMA CloseFailPendingStep ==
  ASSUME WaitInv, NEW r \in Replicas, CloseFailPending(r)
  PROVE  WaitInv'
<1>1. /\ UNCHANGED <<inHand, callerVars, waits, results>> /\ closePc[r] = "manager"
      /\ failing' = [failing EXCEPT ![r] = pending[r]]
      /\ pending' = [pending EXCEPT ![r] = {}]
      /\ closePc' = [closePc EXCEPT ![r] = "fail"]
  BY DEF CloseFailPending, CloseGoto
<1>2. failing[r] = {}
  BY <1>1 DEF WaitInv, Failing
<1>3. /\ \A q \in Replicas : failing'[q] = IF q = r THEN pending[q] ELSE failing[q]
      /\ \A q \in Replicas : pending'[q] = IF q = r THEN {} ELSE pending[q]
  BY <1>1 DEF WaitInv, WaitTypes
<1>4. WaitTypes'
  BY <1>1 DEF WaitInv, WaitTypes, callerVars
<1>5. Homes'
  <2> SUFFICES ASSUME NEW q \in Replicas, NEW h \in Requests, NEW j \in Collectors,
                      <<h, j>> \in pending'[q] \/ <<h, j>> \in failing'[q] \/ inHand'[q] = <<h, j>>
               PROVE  h[3] = q
    BY DEF Homes
  <2>1. <<h, j>> \in pending[q] \/ <<h, j>> \in failing[q] \/ inHand[q] = <<h, j>>
    BY <1>1, <1>3, SMT
  <2> QED
    BY <2>1 DEF WaitInv, Homes
<1>6. Failing'
  <2>1. \A q \in Replicas : q # r => failing'[q] = failing[q] /\ closePc'[q] = closePc[q]
    BY <1>1, <1>3, SMT
  <2>2. closePc'[r] = "fail"
    BY <1>1 DEF WaitInv, WaitTypes
  <2> QED
    BY <1>1, <2>1, <2>2 DEF WaitInv, Failing
<1>7. Places'
  <2> SUFFICES ASSUME NEW h \in Requests, NEW j \in Collectors
               PROVE  OnePlace(h, j)'
    BY DEF Places
  <2>1. OnePlace(h, j) /\ h[3] \in Replicas
    BY RequestParts DEF WaitInv, Places
  <2>2. IsTaken(h, j)' = IsTaken(h, j) /\ IsSent(h, j)' = IsSent(h, j)
    BY <1>1 DEF IsTaken, IsSent
  <2>3. /\ IsPending(h, j)' <=> IsPending(h, j) /\ h[3] # r
        /\ IsFailing(h, j)' <=> IF h[3] = r THEN IsPending(h, j) ELSE IsFailing(h, j)
        /\ h[3] = r => ~IsFailing(h, j)
    BY <1>2, <1>3, <2>1 DEF IsPending, IsFailing
  <2> QED
    BY <1>1, <2>1, <2>2, <2>3 DEF OnePlace
<1>8. Numbers' /\ Pooling'
  BY <1>1, CallersKept DEF callerVars
<1> QED
  BY <1>4, <1>5, <1>6, <1>7, <1>8 DEF WaitInv

LEMMA CloseSendStep ==
  ASSUME WaitInv, NEW r \in Replicas, CloseSend(r)
  PROVE  WaitInv'
<1>1. /\ UNCHANGED <<pending, inHand, closePc, callerVars, waits>> /\ closePc[r] = "fail"
      /\ \E e \in failing[r] : /\ failing' = [failing EXCEPT ![r] = @ \ {e}]
                               /\ results' = [results EXCEPT ![e[2]] = @ \cup {e[1]}]
  BY DEF CloseSend, Send, lifeVars
<1>2. PICK i \in Requests, k \in Collectors :
        /\ <<i, k>> \in failing[r]
        /\ failing' = [failing EXCEPT ![r] = @ \ {<<i, k>>}]
        /\ results' = [results EXCEPT ![k] = @ \cup {i}]
  <2>1. PICK e \in failing[r] : /\ failing' = [failing EXCEPT ![r] = @ \ {e}]
                               /\ results' = [results EXCEPT ![e[2]] = @ \cup {e[1]}]
    BY <1>1
  <2>2. e \in Entries
    BY DEF WaitInv, WaitTypes
  <2>3. e[1] \in Requests /\ e[2] \in Collectors /\ e = <<e[1], e[2]>>
    BY <2>2, EntryParts
  <2> QED
    BY <2>1, <2>3
<1>3. i[3] = r
  BY <1>2 DEF WaitInv, Homes
<1>4. /\ \A q \in Replicas : failing'[q] = IF q = r THEN failing[q] \ {<<i, k>>} ELSE failing[q]
      /\ \A j \in Collectors : results'[j] = IF j = k THEN results[j] \cup {i} ELSE results[j]
  BY <1>2 DEF WaitInv, WaitTypes
<1>5. WaitTypes'
  BY <1>1, <1>2, SMT DEF WaitInv, WaitTypes, callerVars
<1>6. Homes' /\ Failing'
  <2>1. ASSUME NEW q \in Replicas, NEW h \in Requests, NEW j \in Collectors,
               <<h, j>> \in pending'[q] \/ <<h, j>> \in failing'[q] \/ inHand'[q] = <<h, j>>
        PROVE  h[3] = q
    <3>1. <<h, j>> \in pending[q] \/ <<h, j>> \in failing[q] \/ inHand[q] = <<h, j>>
      BY <1>1, <1>4, <2>1
    <3> QED
      BY <3>1 DEF WaitInv, Homes
  <2>2. \A q \in Replicas : failing[q] = {} => failing'[q] = {}
    BY <1>4
  <2> QED
    BY <1>1, <2>1, <2>2 DEF WaitInv, Homes, Failing
<1>7. Places'
  <2> SUFFICES ASSUME NEW h \in Requests, NEW j \in Collectors
               PROVE  OnePlace(h, j)'
    BY DEF Places
  <2>1. OnePlace(h, j) /\ h[3] \in Replicas /\ (<<h, j>> = <<i, k>> <=> h = i /\ j = k)
    BY RequestParts, PairParts DEF WaitInv, Places
  <2>2. IsTaken(h, j)' = IsTaken(h, j) /\ IsPending(h, j)' = IsPending(h, j)
    BY <1>1 DEF IsTaken, IsPending
  <2>3. /\ IsFailing(h, j)' <=> IsFailing(h, j) /\ ~(h = i /\ j = k)
        /\ h = i /\ j = k => IsFailing(h, j)
    BY <1>2, <1>3, <1>4, <2>1, SMT DEF IsFailing
  <2>4. IsSent(h, j)' <=> IsSent(h, j) \/ (h = i /\ j = k)
    BY <1>4 DEF IsSent
  <2> QED
    BY <1>1, <2>1, <2>2, <2>3, <2>4 DEF OnePlace
<1>8. Numbers' /\ Pooling'
  BY <1>1, CallersKept DEF callerVars
<1> QED
  BY <1>5, <1>6, <1>7, <1>8 DEF WaitInv

-----------------------------------------------------------------------------
(* The invariant holds. *)

LEMMA WaitInvInit == Init => WaitInv
<1> SUFFICES ASSUME Init PROVE WaitInv
  OBVIOUS
<1>1. WaitTypes
  BY ReplicaConnAssumption, SMT DEF Init, WaitTypes, Collectors
<1>2. Homes
  BY EntryParts DEF Init, Homes
<1>3. Places
  <2> SUFFICES ASSUME NEW i \in Requests, NEW k \in Collectors
               PROVE  OnePlace(i, k)
    BY DEF Places
  <2>1. i[3] \in Replicas /\ NoEntry # <<i, k>>
    BY RequestParts, EntryParts
  <2> QED
    BY <2>1 DEF Init, OnePlace, IsPending, IsTaken, IsFailing, IsSent
<1>4. Numbers /\ Pooling /\ Failing
  BY DEF Init, Numbers, Pooling, Failing
<1> QED
  BY <1>1, <1>2, <1>3, <1>4 DEF WaitInv

LEMMA WaitInvStep ==
  ASSUME WaitInv, [Next]_vars
  PROVE  WaitInv'
<1> DEFINE Quiet == UNCHANGED <<pending, failing, inHand, callerVars, waits, results>>
<1>1. DOMAIN closePc = Replicas
  BY DEF WaitInv, WaitTypes
<1>2. ASSUME Quiet, UNCHANGED closePc
      PROVE  WaitInv'
  BY <1>1, <1>2, QuietStep
<1>3. ASSUME NEW r \in Replicas, NEW label, Quiet, closePc' = [closePc EXCEPT ![r] = label],
             closePc[r] # "fail" \/ failing[r] = {}
      PROVE  WaitInv'
  BY <1>1, <1>3, QuietStep
<1>4. CASE UNCHANGED vars
  BY <1>2, <1>4 DEF vars, pendingVars, lifeVars
<1>5. ASSUME NEW c \in Callers, Caller(c)
      PROVE  WaitInv'
  BY <1>5, BeginStep, SubmitStep, CallerMoves, ReceiveStep, CompleteStep, FinishStep DEF Caller
<1>6. ASSUME NEW r \in Replicas, NEW s \in Sessions,
             \/ SenderTakes(r, s) \/ SenderWrites(r, s) \/ SenderEnds(r, s) \/ SenderFails(r, s)
             \/ ReceiverTakes(r, s) \/ ReceiverEnds(r, s)
      PROVE  WaitInv'
  BY <1>2, <1>6 DEF SenderTakes, SenderWrites, SenderEnds, SenderFails, ReceiverTakes,
                    ReceiverEnds, pendingVars, lifeVars
<1>7. ASSUME NEW r \in Replicas,
             WorkerEnds(r) \/ Open(r) \/ Publish(r) \/ SessionOver(r) \/ Redial(r) \/ ManagerEnds(r)
      PROVE  WaitInv'
  BY <1>2, <1>7 DEF WorkerEnds, Open, Publish, SessionOver, Redial, ManagerEnds, dataVars,
                    pendingVars, lifeVars
<1>8. ASSUME NEW r \in Replicas,
             \/ CloseCancel(r) \/ CloseMark(r) \/ CloseTerminate(r) \/ CloseSent(r)
             \/ CloseWorkersDone(r) \/ CloseDiscard(r)
      PROVE  WaitInv'
  BY <1>3, <1>8 DEF CloseCancel, CloseMark, CloseTerminate, CloseSent, CloseWorkersDone,
                    CloseDiscard, CloseGoto, pendingVars
<1> QED
  BY <1>4, <1>5, <1>6, <1>7, <1>8, WorkerTakesStep, WorkerSendsStep, CloseFailPendingStep,
     CloseSendStep DEF Next, CloseSteps

\* The invariant in the words of the property: a place of OneResultPerWait is the
\* place at the request's own replica.
LEMMA WaitInvImplies == WaitInv => OneResultPerWait
<1> SUFFICES ASSUME WaitInv, NEW k \in Collectors
             PROVE  LET places == <<Undecided(k), Taken(k), Failed(k), results[k]>> IN
                    /\ waits[k] = UNION {places[n] : n \in 1..4}
                    /\ \A m, n \in 1..4 : m # n => places[m] \cap places[n] = {}
                    /\ k \in pool => waits[k] = {}
  BY DEF OneResultPerWait
<1> DEFINE places == <<Undecided(k), Taken(k), Failed(k), results[k]>>
<1>1. \A i \in Requests : /\ i \in Undecided(k) <=> IsPending(i, k)
                          /\ i \in Taken(k) <=> IsTaken(i, k)
                          /\ i \in Failed(k) <=> IsFailing(i, k)
                          /\ i \in results[k] <=> IsSent(i, k)
                          /\ OnePlace(i, k)
  BY RequestParts DEF WaitInv, Homes, Places, Undecided, Taken, Failed, IsPending, IsTaken,
                      IsFailing, IsSent
<1>2. /\ Undecided(k) \subseteq Requests /\ Taken(k) \subseteq Requests
      /\ Failed(k) \subseteq Requests /\ results[k] \subseteq Requests
      /\ waits[k] \subseteq Requests
  BY DEF WaitInv, WaitTypes, Undecided, Taken, Failed
<1>3. waits[k] = Undecided(k) \cup Taken(k) \cup Failed(k) \cup results[k]
  BY <1>1, <1>2 DEF OnePlace
<1>4. /\ Undecided(k) \cap Taken(k) = {} /\ Undecided(k) \cap Failed(k) = {}
      /\ Undecided(k) \cap results[k] = {} /\ Taken(k) \cap Failed(k) = {}
      /\ Taken(k) \cap results[k] = {} /\ Failed(k) \cap results[k] = {}
  BY <1>1, <1>2 DEF OnePlace
<1>5. /\ places[1] = Undecided(k) /\ places[2] = Taken(k) /\ places[3] = Failed(k)
      /\ places[4] = results[k] /\ \A n \in 1..4 : n = 1 \/ n = 2 \/ n = 3 \/ n = 4
  BY SMT
<1>6. UNION {places[n] : n \in 1..4} = places[1] \cup places[2] \cup places[3] \cup places[4]
  BY <1>5, SMT
<1>7. \A m, n \in 1..4 : m # n => places[m] \cap places[n] = {}
  BY <1>4, <1>5, SMT
<1>8. k \in pool => waits[k] = {}
  BY DEF WaitInv, Pooling
<1> QED
  BY <1>3, <1>5, <1>6, <1>7, <1>8

\* Every wait of a collector gets exactly one result, whoever ends it (the completion
\* worker, a timeout, abort or Close), for any number of replicas, callers, calls and
\* sessions and queues of any size.
THEOREM OneResultPerWaitHolds == Spec => []OneResultPerWait
<1>1. Init => WaitInv
  BY WaitInvInit
<1>2. WaitInv /\ [Next]_vars => WaitInv'
  BY WaitInvStep
<1>3. WaitInv => OneResultPerWait
  BY WaitInvImplies
<1> QED
  BY <1>1, <1>2, <1>3, PTL DEF Spec

-----------------------------------------------------------------------------
(* The life of a connection: its sessions, its queues and its Close.      *)

\* The types of what the waits are not about.
ConnTypes ==
  /\ done \subseteq Replicas /\ closed \subseteq Replicas
  /\ nilMap \subseteq Replicas /\ worker \subseteq Replicas
  /\ closePc \in [Replicas -> {"open", "mark", "terminate", "manager", "fail", "worker",
                               "discard", "done"}]
  /\ managerPc \in [Replicas -> {"dial", "publish", "run", "close", "done"}]
  /\ session \in [Replicas -> Sessions \cup {NoSession}]
  /\ generation \in [Replicas -> Sessions \cup {NoSession}]
  /\ closing \in [Replicas -> Sessions \cup {NoSession}]
  /\ live \in [Replicas -> SUBSET Sessions] /\ receiver \in [Replicas -> SUBSET Sessions]
  /\ sender \in [Replicas -> [Sessions -> {<<"off">>, <<"take">>} \cup Requests]]
  /\ wire \in [Replicas -> [Sessions -> SUBSET Requests]]

QueueTypes ==
  /\ DOMAIN queue = Replicas /\ DOMAIN ring = Replicas
  /\ \A r \in Replicas :
       /\ queue[r] \in Seq(Requests) /\ Len(queue[r]) <= ReqCapacity
       /\ ring[r] \in Seq(Requests) /\ Len(ring[r]) <= RespCapacity

\* Only the session manage is running has goroutines or is not terminated, and only
\* that session is ever published.
SessionInv(r) ==
  /\ \A s \in Sessions : s # session[r] \/ managerPc[r] \in {"dial", "done"} =>
       WorkersDone(r, s) /\ s \notin live[r]
  /\ managerPc[r] = "close" => session[r] \notin live[r]
  /\ generation[r] # NoSession => generation[r] = session[r] /\ managerPc[r] = "run"

\* What Close has put behind it at each of its steps.
CloseInv(r) ==
  /\ closePc[r] = "open" <=> r \notin done
  /\ closePc[r] \in {"fail", "worker", "discard", "done"} => managerPc[r] = "done"
  /\ r \in nilMap => r \in done /\ pending[r] = {}
  /\ r \notin worker => inHand[r] = NoEntry
  /\ closePc[r] \in {"discard", "done"} => r \notin worker
  /\ closePc[r] = "done" => queue[r] = <<>>

LifeInv == ConnTypes /\ QueueTypes /\ \A r \in Replicas : SessionInv(r) /\ CloseInv(r)

-----------------------------------------------------------------------------
(* The steps keep it. *)

LEMMA RequestIsNoLabel == <<"take">> # <<"off">> /\ \A i \in Requests : i # <<"off">>
  BY SMT DEF Requests

\* What a queue of requests returns and how long it is.
LEMMA QueueFacts ==
  \A q \in Seq(Requests) :
    /\ Len(q) \in Nat
    /\ \A i \in Requests : Append(q, i) \in Seq(Requests) /\ Len(Append(q, i)) = Len(q) + 1
    /\ q # <<>> => Head(q) \in Requests /\ Tail(q) \in Seq(Requests) /\ Len(Tail(q)) = Len(q) - 1
  BY SMT

\* What a caller submits is a request.
LEMMA NewRequests ==
  ASSUME WaitInv, NEW c \in Callers, callerPc[c] # "idle", NEW r \in todo[c],
         NEW kind \in {"call", "release"}
  PROVE  <<c, calls[c], r, kind>> \in Requests
<1>1. calls[c] \in 1..MaxCalls /\ r \in Replicas
  BY ReplicaConnAssumption, SMT DEF WaitInv, WaitTypes, Pooling
<1> QED
  BY <1>1 DEF Requests

\* A caller writes no variable of the connection but its queue and its pending map,
\* and adds to neither once the context is done.
LEMMA CallerLife ==
  ASSUME WaitInv, LifeInv, NEW c \in Callers, Caller(c)
  PROVE  LifeInv'
<1>1. UNCHANGED <<connVars, nilMap>>
  BY DEF Caller, Begin, Submit, SubmitCanceled, Submitted, Receive, Expire, Abort, Aborted,
         SubmitRelease, Finish, pendingVars
<1>2. /\ DOMAIN queue' = Replicas
      /\ \A r \in Replicas : \/ queue'[r] = queue[r]
                             \/ /\ r \notin done /\ Len(queue[r]) < ReqCapacity
                                /\ \E i \in Requests : queue'[r] = Append(queue[r], i)
  <2>1. CASE Submit(c)
    <3>1. PICK r \in todo[c] : queue' = queue \/ /\ Accepts(r)
                                                 /\ queue' = [queue EXCEPT ![r] = Append(@, <<c, calls[c], r, "call">>)]
      BY <2>1 DEF Submit
    <3>2. <<c, calls[c], r, "call">> \in Requests
      BY <2>1, NewRequests DEF Submit
    <3> QED
      BY <3>1, <3>2 DEF LifeInv, QueueTypes, Accepts
  <2>2. CASE SubmitRelease(c)
    <3>1. PICK r \in todo[c] : queue' = [queue EXCEPT ![r] =
                      IF Accepts(r) THEN Append(@, <<c, calls[c], r, "release">>) ELSE @]
      BY <2>2 DEF SubmitRelease
    <3>2. <<c, calls[c], r, "release">> \in Requests
      BY <2>2, NewRequests DEF SubmitRelease
    <3> QED
      BY <3>1, <3>2 DEF LifeInv, QueueTypes, Accepts
  <2>3. CASE UNCHANGED queue
    BY <2>3 DEF LifeInv, QueueTypes
  <2> QED
    BY <2>1, <2>2, <2>3 DEF Caller, Begin, SubmitCanceled, Submitted, Receive, Expire, Abort,
                            Aborted, Finish
<1>3. \A r \in done : pending'[r] \subseteq pending[r]
  <2>1. CASE Submit(c)
    BY <2>1 DEF Submit, Accepts, WaitInv, WaitTypes, LifeInv, ConnTypes
  <2>2. CASE Expire(c) \/ Abort(c)
    <3>1. PICK I : CompleteAll(collector[c], I)
      BY <2>2 DEF Expire, Abort
    <3> QED
      BY <3>1 DEF CompleteAll, LifeInv, ConnTypes
  <2>3. CASE UNCHANGED pending
    BY <2>3
  <2> QED
    BY <2>1, <2>2, <2>3 DEF Caller, Begin, SubmitCanceled, Submitted, Receive, Aborted,
                            SubmitRelease, Finish, pendingVars
<1>4. ConnTypes'
  BY <1>1 DEF LifeInv, ConnTypes, connVars, lifeVars, managerVars, wireVars
<1>5. QueueTypes'
  <2>1. \A r \in Replicas : queue'[r] \in Seq(Requests) /\ Len(queue'[r]) <= ReqCapacity
    <3> TAKE r \in Replicas
    <3>1. CASE queue'[r] = queue[r]
      BY <3>1 DEF LifeInv, QueueTypes
    <3>2. CASE Len(queue[r]) < ReqCapacity /\ \E i \in Requests : queue'[r] = Append(queue[r], i)
      <4>1. queue[r] \in Seq(Requests)
        BY DEF LifeInv, QueueTypes
      <4> QED
        BY <3>2, <4>1, QueueFacts, ReplicaConnAssumption, SMT
    <3> QED
      BY <1>2, <3>1, <3>2
  <2> QED
    BY <1>1, <1>2, <2>1 DEF LifeInv, QueueTypes, connVars
<1>6. ASSUME NEW r \in Replicas PROVE (SessionInv(r) /\ CloseInv(r))'
  <2>1. SessionInv(r) /\ CloseInv(r)
    BY DEF LifeInv
  <2>2. SessionInv(r)'
    BY <1>1, <2>1 DEF SessionInv, WorkersDone, connVars, managerVars, wireVars
  <2>3. CloseInv(r)'
    BY <1>1, <1>2, <1>3, <2>1 DEF CloseInv, connVars, lifeVars, managerVars
  <2> QED
    BY <2>2, <2>3
<1> QED
  BY <1>4, <1>5, <1>6 DEF LifeInv

\* The goroutines of a generation end, and none comes back.
LEMMA GenerationLife ==
  ASSUME LifeInv, NEW r \in Replicas, NEW s \in Sessions,
         \/ SenderTakes(r, s) \/ SenderWrites(r, s) \/ SenderEnds(r, s) \/ SenderFails(r, s)
         \/ ReceiverTakes(r, s) \/ ReceiverEnds(r, s)
  PROVE  LifeInv'
<1>1. UNCHANGED <<lifeVars, managerVars, worker, inHand, pendingVars>>
  BY DEF SenderTakes, SenderWrites, SenderEnds, SenderFails, ReceiverTakes, ReceiverEnds
<1>2. \/ sender' = sender
      \/ /\ sender[r][s] # <<"off">>
         /\ \E x \in {<<"off">>, <<"take">>} \cup Requests : sender' = [sender EXCEPT ![r][s] = x]
  <2>1. CASE SenderTakes(r, s)
    <3>1. Head(queue[r]) \in Requests
      BY <2>1, QueueFacts DEF SenderTakes, LifeInv, QueueTypes
    <3> QED
      BY <2>1, <3>1, RequestIsNoLabel DEF SenderTakes
  <2>2. CASE SenderWrites(r, s)
    BY <2>2, RequestIsNoLabel DEF SenderWrites
  <2> QED
    BY <2>1, <2>2 DEF SenderEnds, SenderFails, ReceiverTakes, ReceiverEnds
<1>3. wire' = wire \/ \E W \in SUBSET Requests : wire' = [wire EXCEPT ![r][s] = W]
  <2>1. wire[r][s] \in SUBSET Requests
    BY SMT DEF LifeInv, ConnTypes
  <2> QED
    BY <2>1 DEF SenderTakes, SenderWrites, SenderEnds, SenderFails, ReceiverTakes, ReceiverEnds
<1>4. /\ live' = live \/ live' = [live EXCEPT ![r] = @ \ {s}]
      /\ receiver' = receiver \/ receiver' = [receiver EXCEPT ![r] = @ \ {s}]
  BY DEF SenderTakes, SenderWrites, SenderEnds, SenderFails, ReceiverTakes, ReceiverEnds, Terminate
<1>5. /\ live \in [Replicas -> SUBSET Sessions] /\ receiver \in [Replicas -> SUBSET Sessions]
  /\ sender \in [Replicas -> [Sessions -> {<<"off">>, <<"take">>} \cup Requests]]
  /\ wire \in [Replicas -> [Sessions -> SUBSET Requests]]
  BY DEF LifeInv, ConnTypes
<1>6. ConnTypes'
  <2>1. sender' \in [Replicas -> [Sessions -> {<<"off">>, <<"take">>} \cup Requests]]
    <3>1. ASSUME NEW x \in {<<"off">>, <<"take">>} \cup Requests, sender' = [sender EXCEPT ![r][s] = x]
          PROVE  sender' \in [Replicas -> [Sessions -> {<<"off">>, <<"take">>} \cup Requests]]
      <4>1. [sender[r] EXCEPT ![s] = x] \in [Sessions -> {<<"off">>, <<"take">>} \cup Requests]
        BY <1>5
      <4> QED
        BY <1>5, <3>1, <4>1
    <3> QED
      BY <1>2, <1>5, <3>1
  <2>2. wire' \in [Replicas -> [Sessions -> SUBSET Requests]]
    <3>1. ASSUME NEW W \in SUBSET Requests, wire' = [wire EXCEPT ![r][s] = W]
          PROVE  wire' \in [Replicas -> [Sessions -> SUBSET Requests]]
      <4>1. [wire[r] EXCEPT ![s] = W] \in [Sessions -> SUBSET Requests]
        BY <1>5
      <4> QED
        BY <1>5, <3>1, <4>1
    <3> QED
      BY <1>3, <1>5, <3>1
  <2>3. live' \in [Replicas -> SUBSET Sessions]
    <3>1. CASE live' = live
      BY <1>5, <3>1
    <3>2. CASE live' = [live EXCEPT ![r] = @ \ {s}]
      BY <1>5, <3>2
    <3> QED
      BY <1>4, <3>1, <3>2
  <2>4. receiver' \in [Replicas -> SUBSET Sessions]
    <3>1. CASE receiver' = receiver
      BY <1>5, <3>1
    <3>2. CASE receiver' = [receiver EXCEPT ![r] = @ \ {s}]
      BY <1>5, <3>2
    <3> QED
      BY <1>4, <3>1, <3>2
  <2> QED
    BY <1>1, <2>1, <2>2, <2>3, <2>4 DEF LifeInv, ConnTypes, lifeVars, managerVars, pendingVars
<1>7. /\ QueueTypes'
      /\ \A q \in Replicas : queue[q] = <<>> => queue'[q] = <<>>
  <2>1. CASE SenderTakes(r, s)
    BY <2>1, QueueFacts, ReplicaConnAssumption, SMT DEF SenderTakes, LifeInv, QueueTypes
  <2>2. CASE ReceiverTakes(r, s)
    <3>1. PICK i \in Requests : ring' = [ring EXCEPT ![r] = Append(@, i)]
      <4>1. wire[r][s] \subseteq Requests
        BY <1>5
      <4> QED
        BY <2>2, <4>1 DEF ReceiverTakes
    <3>2. /\ ring[r] \in Seq(Requests) /\ Len(ring[r]) < RespCapacity /\ UNCHANGED queue
      BY <2>2 DEF ReceiverTakes, LifeInv, QueueTypes
    <3>3. Append(ring[r], i) \in Seq(Requests) /\ Len(Append(ring[r], i)) <= RespCapacity
      BY <3>2, QueueFacts, ReplicaConnAssumption, SMT
    <3>4. ring'[r] = Append(ring[r], i) /\ DOMAIN ring' = DOMAIN ring
      BY <3>1 DEF LifeInv, QueueTypes
    <3>5. \A q \in Replicas : q # r => ring'[q] = ring[q]
      BY <3>1 DEF LifeInv, QueueTypes
    <3> QED
      BY <3>2, <3>3, <3>4, <3>5 DEF LifeInv, QueueTypes
  <2>3. CASE UNCHANGED <<queue, ring>>
    BY <2>3 DEF LifeInv, QueueTypes
  <2> QED
    BY <2>1, <2>2, <2>3 DEF SenderWrites, SenderEnds, SenderFails, ReceiverEnds
<1>8. ASSUME NEW q \in Replicas PROVE (SessionInv(q) /\ CloseInv(q))'
  <2>1. SessionInv(q) /\ CloseInv(q)
    BY DEF LifeInv
  <2>2. live'[q] \subseteq live[q] /\ \A t \in Sessions : WorkersDone(q, t) => WorkersDone(q, t)'
    <3>1. live'[q] \subseteq live[q]
      BY <1>4, <1>5
    <3>3. receiver'[q] \subseteq receiver[q]
      <4>1. receiver'[q] = receiver[q] \/ receiver'[q] = receiver[q] \ {s}
        BY <1>4, <1>5
      <4> QED
        BY <4>1
    <3>2. \A t \in Sessions : sender[q][t] = <<"off">> => sender'[q][t] = <<"off">>
      BY <1>2, <1>5, SMT
    <3> QED
      BY <3>1, <3>2, <3>3 DEF WorkersDone
  <2>3. SessionInv(q)'
    BY <1>1, <2>1, <2>2 DEF SessionInv, managerVars
  <2>4. CloseInv(q)'
    BY <1>1, <1>7, <2>1 DEF CloseInv, lifeVars, managerVars, pendingVars
  <2> QED
    BY <2>3, <2>4
<1> QED
  BY <1>6, <1>7, <1>8 DEF LifeInv

\* completeResponses holds an entry only while it runs.
LEMMA WorkerLife ==
  ASSUME WaitInv, LifeInv, NEW r \in Replicas, WorkerTakes(r) \/ WorkerSends(r) \/ WorkerEnds(r)
  PROVE  LifeInv'
<1>1. UNCHANGED <<lifeVars, managerVars, live, wireVars, queue, nilMap>>
  BY DEF WorkerTakes, WorkerSends, WorkerEnds, pendingVars
<1>2. /\ worker' \subseteq worker
      /\ \A q \in Replicas : pending'[q] \subseteq pending[q]
      /\ \A q \in Replicas : q \notin worker' /\ (q \notin worker => inHand[q] = NoEntry) =>
           inHand'[q] = NoEntry
  <2>1. CASE WorkerTakes(r)
    BY <2>1 DEF WorkerTakes, WaitInv, WaitTypes
  <2>2. CASE WorkerSends(r)
    BY <2>2 DEF WorkerSends, WaitInv, WaitTypes, pendingVars
  <2>3. CASE WorkerEnds(r)
    BY <2>3 DEF WorkerEnds, pendingVars
  <2> QED
    BY <2>1, <2>2, <2>3
<1>3. ConnTypes'
  BY <1>1, <1>2 DEF LifeInv, ConnTypes, lifeVars, managerVars, wireVars
<1>4. QueueTypes'
  <2>1. CASE WorkerTakes(r)
    <3>1. ring[r] \in Seq(Requests) /\ ring[r] # <<>> /\ Len(ring[r]) <= RespCapacity
      BY <2>1 DEF WorkerTakes, LifeInv, QueueTypes
    <3>2. Tail(ring[r]) \in Seq(Requests) /\ Len(Tail(ring[r])) <= RespCapacity
      BY <3>1, QueueFacts, ReplicaConnAssumption, SMT
    <3>3. /\ ring'[r] = Tail(ring[r]) /\ DOMAIN ring' = DOMAIN ring
          /\ \A q \in Replicas : q # r => ring'[q] = ring[q]
      BY <2>1 DEF WorkerTakes, LifeInv, QueueTypes
    <3> QED
      BY <1>1, <3>2, <3>3 DEF LifeInv, QueueTypes
  <2>2. CASE UNCHANGED ring
    BY <1>1, <2>2 DEF LifeInv, QueueTypes
  <2> QED
    BY <2>1, <2>2 DEF WorkerSends, WorkerEnds
<1>5. ASSUME NEW q \in Replicas PROVE (SessionInv(q) /\ CloseInv(q))'
  <2>1. SessionInv(q) /\ CloseInv(q)
    BY DEF LifeInv
  <2>2. SessionInv(q)'
    BY <1>1, <2>1 DEF SessionInv, WorkersDone, managerVars, wireVars
  <2>3. CloseInv(q)'
    BY <1>1, <1>2, <2>1 DEF CloseInv, lifeVars, managerVars
  <2> QED
    BY <2>2, <2>3
<1> QED
  BY <1>3, <1>4, <1>5 DEF LifeInv

\* manage opens a session only after the goroutines of the last one have ended.
LEMMA ManagerLife ==
  ASSUME LifeInv, NEW r \in Replicas,
         Open(r) \/ Publish(r) \/ SessionOver(r) \/ Redial(r) \/ ManagerEnds(r)
  PROVE  LifeInv'
<1>1. UNCHANGED <<lifeVars, wire, queue, ring, worker, inHand, pendingVars>>
  BY DEF Open, Publish, SessionOver, Redial, ManagerEnds, dataVars, wireVars
<1>2. QueueTypes'
  BY <1>1 DEF LifeInv, QueueTypes
<1>3. CASE Open(r)
  <2> DEFINE s == session[r] + 1
  <2>1. s \in Sessions
    BY <1>3, ReplicaConnAssumption, SMT DEF Open, LifeInv, ConnTypes, Sessions, NoSession
  <2>2. /\ UNCHANGED generation /\ managerPc[r] = "dial"
        /\ session' = [session EXCEPT ![r] = s]
        /\ live' = [live EXCEPT ![r] = @ \cup {s}]
        /\ sender' = [sender EXCEPT ![r] = [sender[r] EXCEPT ![s] = <<"take">>]]
        /\ receiver' = [receiver EXCEPT ![r] = @ \cup {s}]
        /\ managerPc' = [managerPc EXCEPT ![r] = "publish"]
    BY <1>3 DEF Open, ManagerGoto, LifeInv, ConnTypes
  <2> HIDE DEF s
  <2>3. ConnTypes'
    <3>1. [sender[r] EXCEPT ![s] = <<"take">>] \in [Sessions -> {<<"off">>, <<"take">>} \cup Requests]
      BY DEF LifeInv, ConnTypes
    <3> QED
      BY <1>1, <2>1, <2>2, <3>1 DEF LifeInv, ConnTypes, lifeVars, pendingVars
  <2>4. ASSUME NEW q \in Replicas PROVE (SessionInv(q) /\ CloseInv(q))'
    <3>1. SessionInv(q) /\ CloseInv(q)
      BY DEF LifeInv
    <3>2. CASE q # r
      <4>1. /\ session'[q] = session[q] /\ live'[q] = live[q] /\ sender'[q] = sender[q]
            /\ receiver'[q] = receiver[q] /\ managerPc'[q] = managerPc[q] /\ generation'[q] = generation[q]
        BY <2>2, <3>2 DEF LifeInv, ConnTypes
      <4> QED
        BY <1>1, <3>1, <4>1 DEF SessionInv, CloseInv, WorkersDone, lifeVars, pendingVars
    <3>3. CASE q = r
      <4>1. /\ session'[r] = s /\ managerPc'[r] = "publish" /\ generation'[r] = generation[r]
            /\ \A t \in Sessions \ {s} : sender'[r][t] = sender[r][t]
            /\ live'[r] \subseteq live[r] \cup {s} /\ receiver'[r] \subseteq receiver[r] \cup {s}
        BY <2>2 DEF LifeInv, ConnTypes
      <4>2. SessionInv(r)'
        BY <2>2, <3>1, <3>3, <4>1 DEF SessionInv, WorkersDone
      <4> QED
        BY <1>1, <2>2, <3>1, <3>3, <4>1, <4>2 DEF CloseInv, lifeVars, pendingVars
    <3> QED
      BY <3>2, <3>3
  <2> QED
    BY <1>2, <2>3, <2>4 DEF LifeInv
<1>4. CASE Publish(r) \/ SessionOver(r) \/ Redial(r) \/ ManagerEnds(r)
  <2>1. UNCHANGED <<session, sender, receiver>>
    BY <1>4 DEF Publish, SessionOver, Redial, ManagerEnds, dataVars, wireVars
  <2>2. ConnTypes'
    <3>1. managerPc' \in [Replicas -> {"dial", "publish", "run", "close", "done"}]
      BY <1>4 DEF Publish, SessionOver, Redial, ManagerEnds, ManagerGoto, LifeInv, ConnTypes
    <3>2. live' \in [Replicas -> SUBSET Sessions]
      <4>1. live \in [Replicas -> SUBSET Sessions]
        BY DEF LifeInv, ConnTypes
      <4>2. \A t : [live EXCEPT ![r] = @ \ {t}] \in [Replicas -> SUBSET Sessions]
        BY <4>1
      <4>3. live' = live \/ \E t : live' = [live EXCEPT ![r] = @ \ {t}]
        BY <1>4 DEF Publish, SessionOver, Redial, ManagerEnds, Terminate
      <4> QED
        BY <4>1, <4>2, <4>3
    <3>3. generation' \in [Replicas -> Sessions \cup {NoSession}]
      BY <1>4 DEF Publish, SessionOver, Redial, ManagerEnds, LifeInv, ConnTypes
    <3> QED
      BY <1>1, <2>1, <3>1, <3>2, <3>3 DEF LifeInv, ConnTypes, lifeVars, pendingVars
  <2>3. ASSUME NEW q \in Replicas PROVE (SessionInv(q) /\ CloseInv(q))'
    <3>1. SessionInv(q) /\ CloseInv(q)
      BY DEF LifeInv
    <3>2. CASE q # r
      <4>1. live'[q] = live[q] /\ managerPc'[q] = managerPc[q] /\ generation'[q] = generation[q]
        BY <1>4, <3>2 DEF Publish, SessionOver, Redial, ManagerEnds, ManagerGoto, Terminate,
                          LifeInv, ConnTypes
      <4> QED
        BY <1>1, <2>1, <3>1, <4>1 DEF SessionInv, CloseInv, WorkersDone, lifeVars, pendingVars
    <3>3. CASE q = r
      <4>1. \/ /\ managerPc[r] \in {"publish", "run"} /\ managerPc'[r] = "close"
               /\ live'[r] = live[r] \ {session[r]} /\ generation'[r] = NoSession
            \/ /\ managerPc[r] = "publish" /\ managerPc'[r] = "run"
               /\ live'[r] = live[r] /\ generation'[r] = session[r]
            \/ /\ managerPc[r] = "close" /\ WorkersDone(r, session[r]) /\ managerPc'[r] \in {"dial", "done"}
               /\ live'[r] = live[r] /\ generation'[r] = generation[r]
            \/ /\ managerPc[r] = "dial" /\ managerPc'[r] = "done"
               /\ live'[r] = live[r] /\ generation'[r] = generation[r]
        BY <1>4, <3>1, <3>3, SMT DEF Publish, SessionOver, Redial, ManagerEnds, ManagerGoto, Terminate,
                  SessionClosed, SessionInv, LifeInv, ConnTypes
      <4>2. SessionInv(r)'
        BY <2>1, <3>1, <3>3, <4>1 DEF SessionInv, WorkersDone
      <4> QED
        BY <1>1, <3>1, <3>3, <4>1, <4>2 DEF CloseInv, lifeVars, pendingVars
    <3> QED
      BY <3>2, <3>3
  <2> QED
    BY <1>2, <2>2, <2>3 DEF LifeInv
<1> QED
  BY <1>3, <1>4

\* Close waits for the manager, and so for the goroutines of its last session, before
\* it fails what is pending, and for the completion workers before it empties the queue.
LEMMA CloseLife ==
  ASSUME WaitInv, LifeInv, NEW r \in Replicas, CloseCancel(r) \/ CloseSteps(r)
  PROVE  LifeInv'
<1>1. UNCHANGED <<managerPc, session, wireVars, ring, worker, inHand>>
  BY DEF CloseCancel, CloseSteps, CloseMark, CloseTerminate, CloseFailPending, CloseSend,
         CloseSent, CloseWorkersDone, CloseDiscard, managerVars
<1>2. /\ live' = live \/ live' = [live EXCEPT ![r] = @ \ {closing[r]}]
      /\ generation' = generation \/ generation' = [generation EXCEPT ![r] = NoSession]
      /\ closing' = closing \/ closing' = [closing EXCEPT ![r] = generation[r]]
      /\ queue' = queue \/ queue' = [queue EXCEPT ![r] = <<>>]
      /\ nilMap' = nilMap \/ CloseFailPending(r)
      /\ pending' = pending \/ pending' = [pending EXCEPT ![r] = {}]
      /\ closed' = closed \/ closed' = closed \cup {r}
  BY DEF CloseCancel, CloseSteps, CloseMark, CloseTerminate, CloseFailPending, CloseSend,
         CloseSent, CloseWorkersDone, CloseDiscard, managerVars, lifeVars, pendingVars, Terminate
<1>3. PICK label \in {"mark", "terminate", "manager", "fail", "worker", "discard", "done"} :
        /\ closePc' = [closePc EXCEPT ![r] = label]
        /\ done' = done \cup {r} /\ (closePc[r] = "open" => label = "mark")
        /\ label \in {"fail", "worker", "discard", "done"} =>
             closePc[r] \in {"fail", "worker", "discard", "done"} \/ CloseFailPending(r)
        /\ label \in {"discard", "done"} => closePc[r] = "discard" \/ r \notin worker
        /\ label = "done" => queue' = [queue EXCEPT ![r] = <<>>]
  <2>1. closePc[r] # "open" => done = done \cup {r}
    BY DEF LifeInv, CloseInv
  <2>2. closePc[r] = "fail" => closePc = [closePc EXCEPT ![r] = "fail"]
    BY DEF LifeInv, ConnTypes
  <2>3. CASE CloseCancel(r)
    BY <2>3 DEF CloseCancel, CloseGoto
  <2>4. CASE CloseMark(r) \/ CloseTerminate(r)
    BY <2>1, <2>4 DEF CloseMark, CloseTerminate, CloseGoto
  <2>5. CASE CloseFailPending(r) \/ CloseSend(r)
    BY <2>1, <2>2, <2>5 DEF CloseFailPending, CloseSend, CloseGoto, lifeVars
  <2>6. CASE CloseSent(r) \/ CloseWorkersDone(r) \/ CloseDiscard(r)
    BY <2>1, <2>6 DEF CloseSent, CloseWorkersDone, CloseDiscard, CloseGoto
  <2> QED
    BY <2>3, <2>4, <2>5, <2>6 DEF CloseSteps
<1>4. ConnTypes'
  <2>1. live' \in [Replicas -> SUBSET Sessions]
    <3>1. live \in [Replicas -> SUBSET Sessions]
      BY DEF LifeInv, ConnTypes
    <3> QED
      BY <1>2, <3>1
  <2>2. generation' \in [Replicas -> Sessions \cup {NoSession}]
    BY <1>2 DEF LifeInv, ConnTypes
  <2>3. closing' \in [Replicas -> Sessions \cup {NoSession}]
    <3>1. /\ generation[r] \in Sessions \cup {NoSession}
          /\ closing \in [Replicas -> Sessions \cup {NoSession}]
      BY DEF LifeInv, ConnTypes
    <3> QED
      BY <1>2, <3>1
  <2>4. closePc' \in [Replicas -> {"open", "mark", "terminate", "manager", "fail", "worker",
                                   "discard", "done"}]
    BY <1>3 DEF LifeInv, ConnTypes
  <2>5. done' \subseteq Replicas /\ closed' \subseteq Replicas /\ nilMap' \subseteq Replicas
    BY <1>2, <1>3 DEF LifeInv, ConnTypes, CloseFailPending
  <2> QED
    BY <1>1, <2>1, <2>2, <2>3, <2>4, <2>5 DEF LifeInv, ConnTypes, wireVars
<1>5. QueueTypes'
  <2>1. <<>> \in Seq(Requests) /\ Len(<<>>) <= ReqCapacity
    BY ReplicaConnAssumption, SMT
  <2> QED
    BY <1>1, <1>2, <2>1 DEF LifeInv, QueueTypes
<1>6. ASSUME NEW q \in Replicas PROVE (SessionInv(q) /\ CloseInv(q))'
  <2>1. SessionInv(q) /\ CloseInv(q)
    BY DEF LifeInv
  <2>2. SessionInv(q)'
    <3>1. live'[q] \subseteq live[q] /\ generation'[q] \in {generation[q], NoSession}
      BY <1>2, SMT DEF LifeInv, ConnTypes
    <3> QED
      BY <1>1, <2>1, <3>1 DEF SessionInv, WorkersDone, wireVars
  <2>3. CASE q # r
    <3>1. closePc'[q] = closePc[q] /\ queue'[q] = queue[q] /\ pending'[q] = pending[q]
      <4>1. DOMAIN closePc = Replicas /\ DOMAIN queue = Replicas /\ DOMAIN pending = Replicas
        BY DEF LifeInv, QueueTypes, WaitInv, WaitTypes
      <4> QED
        BY <1>2, <1>3, <2>3, <4>1
    <3>2. (q \in done' <=> q \in done) /\ (q \in nilMap' <=> q \in nilMap)
      BY <1>2, <1>3, <2>3 DEF CloseFailPending
    <3> QED
      BY <1>1, <2>1, <2>2, <3>1, <3>2 DEF CloseInv
  <2>4. CASE q = r
    <3>1. /\ closePc'[r] = label /\ r \in done'
          /\ label \in {"fail", "worker", "discard", "done"} => managerPc[r] = "done"
      BY <1>3, <2>1, <2>4 DEF CloseInv, CloseFailPending, StoppedSending, LifeInv, ConnTypes
    <3>2. r \in nilMap' => pending'[r] = {}
      <4>1. pending' = [pending EXCEPT ![r] = {}] => pending'[r] = {}
        BY DEF WaitInv, WaitTypes
      <4>2. CASE CloseFailPending(r)
        BY <4>1, <4>2 DEF CloseFailPending
      <4>3. CASE nilMap' = nilMap
        BY <1>2, <2>1, <2>4, <4>1, <4>3 DEF CloseInv
      <4> QED
        BY <1>2, <4>2, <4>3
    <3>3. label = "done" => queue'[r] = <<>>
      BY <1>3 DEF LifeInv, QueueTypes
    <3> QED
      BY <1>1, <1>3, <2>1, <2>2, <2>4, <3>1, <3>2, <3>3 DEF CloseInv
  <2> QED
    BY <2>3, <2>4
<1> QED
  BY <1>4, <1>5, <1>6 DEF LifeInv

-----------------------------------------------------------------------------
(* The invariant holds. *)

LEMMA LifeInvInit == Init => LifeInv
<1> SUFFICES ASSUME Init PROVE LifeInv
  OBVIOUS
<1>1. ConnTypes
  <2>1. [s \in Sessions |-> <<"off">>] \in [Sessions -> {<<"off">>, <<"take">>} \cup Requests]
    OBVIOUS
  <2> QED
    BY <2>1 DEF Init, ConnTypes
<1>2. QueueTypes
  BY ReplicaConnAssumption, SMT DEF Init, QueueTypes
<1>3. \A r \in Replicas : SessionInv(r) /\ CloseInv(r)
  BY DEF Init, SessionInv, CloseInv, WorkersDone
<1> QED
  BY <1>1, <1>2, <1>3 DEF LifeInv

LEMMA LifeInvStep ==
  ASSUME WaitInv, LifeInv, [Next]_vars
  PROVE  LifeInv'
<1>1. CASE UNCHANGED vars
  <2>1. ConnTypes' /\ QueueTypes'
    BY <1>1 DEF vars, lifeVars, managerVars, wireVars, pendingVars, LifeInv, ConnTypes, QueueTypes
  <2>2. ASSUME NEW r \in Replicas PROVE SessionInv(r)' /\ CloseInv(r)'
    <3>1. SessionInv(r) /\ CloseInv(r)
      BY DEF LifeInv
    <3>2. SessionInv(r)'
      BY <1>1, <3>1 DEF vars, managerVars, wireVars, SessionInv, WorkersDone
    <3>3. CloseInv(r)'
      BY <1>1, <3>1 DEF vars, lifeVars, managerVars, wireVars, pendingVars, CloseInv
    <3> QED
      BY <3>2, <3>3
  <2> QED
    BY <2>1, <2>2 DEF LifeInv
<1>2. CASE Next
  BY <1>2, CallerLife, GenerationLife, WorkerLife, ManagerLife, CloseLife DEF Next
<1> QED
  BY <1>1, <1>2

LEMMA LifeInvHolds == Spec => [](WaitInv /\ LifeInv)
<1>1. Init => WaitInv /\ LifeInv
  BY WaitInvInit, LifeInvInit
<1>2. WaitInv /\ LifeInv /\ [Next]_vars => (WaitInv /\ LifeInv)'
  BY WaitInvStep, LifeInvStep
<1> QED
  BY <1>1, <1>2, PTL DEF Spec

\* Only one goroutine at a time takes requests from a replica's queue, the sender of
\* one generation or Close: manage waits for both goroutines of a generation before
\* it dials again, and Close waits for manage.
THEOREM OneConsumerHolds == Spec => []OneConsumer
<1>1. WaitInv /\ LifeInv => OneConsumer
  <2> SUFFICES ASSUME WaitInv, LifeInv PROVE OneConsumer
    OBVIOUS
  <2>1. TypeOK
    BY DEF TypeOK, WaitInv, WaitTypes, LifeInv, ConnTypes, QueueTypes
  <2>2. ASSUME NEW r \in Replicas
        PROVE  LET senders == {s \in Sessions : sender[r][s] # <<"off">>} IN
               /\ Cardinality(senders) <= 1
               /\ closePc[r] = "discard" => senders = {}
    <3> DEFINE senders == {s \in Sessions : sender[r][s] # <<"off">>}
    <3>1. senders \subseteq {session[r]} /\ (closePc[r] = "discard" => senders = {})
      BY DEF LifeInv, SessionInv, CloseInv, WorkersDone
    <3>2. IsFiniteSet({session[r]}) /\ Cardinality({session[r]}) = 1
      BY FS_Singleton
    <3>3. Cardinality(senders) <= 1
      BY <3>1, <3>2, FS_Subset
    <3> QED
      BY <3>1, <3>3
  <2> QED
    BY <2>1, <2>2 DEF OneConsumer
<1> QED
  BY <1>1, LifeInvHolds, PTL

\* A connection whose Close has returned is dead for good: nothing is queued, pending
\* or about to be sent, no goroutine of any of its sessions runs, nobody sees it as
\* ready, and no submit has written to the pending map that Close set to nil.
THEOREM ClosedForGoodHolds == Spec => []ClosedForGood
<1>1. WaitInv /\ LifeInv => ClosedForGood
  BY DEF ClosedForGood, WaitInv, Failing, LifeInv, SessionInv, CloseInv
<1> QED
  BY <1>1, LifeInvHolds, PTL
=============================================================================
