------------------------ MODULE ClusterCache_proofs -------------------------
(***************************************************************************)
(* Proofs about ClusterCache, for every set of callers and keys, every set  *)
(* of poll intervals and every bound.                                       *)
(***************************************************************************)
EXTENDS ClusterCache, TLAPS

(* Whoever is inside fetch_fn holds the lock of its key.                    *)
LockInv ==
    \A c \in Caller : call[c].pc = "fetching" => holder[call[c].key] = c

(* What has been returned is never newer than what is cached, what a fetch  *)
(* may still fall back on, or what Proxmox has.                             *)
KeyInv(k) ==
    /\ seen[k] <= world[k]
    /\ entries[k] # None => /\ seen[k] <= entries[k].data
                            /\ entries[k].data <= world[k]
                            /\ entries[k].is_stale <=> outcome[k] = "failed"

(* While a fetch is out, the cached entry can only be the object the fetch  *)
(* picked up at its re-check, or gone; the answer it read is not older.     *)
FetchInv(c) ==
    LET k == call[c].key IN
    /\ call[c].old # None => /\ seen[k] <= call[c].old.data
                             /\ call[c].old.data <= world[k]
    /\ entries[k] # None => /\ call[c].old # None
                            /\ entries[k].data = call[c].old.data
    /\ call[c].got # None => /\ seen[k] <= call[c].got
                             /\ call[c].got <= world[k]
                             /\ entries[k] # None =>
                                    entries[k].data <= call[c].got

CallInv(c) ==
    /\ call[c].floor <= seen[call[c].key]
    /\ call[c].pc = "fetching" => FetchInv(c)
    /\ call[c].pc # "fetching" => call[c].got = None
    /\ call[c].pc = "returned" => /\ call[c].ret # None
                                  /\ call[c].ret >= call[c].floor

Inv ==
    /\ TypeOK
    /\ LockInv
    /\ \A k \in Key : KeyInv(k)
    /\ \A c \in Caller : CallInv(c)

-----------------------------------------------------------------------------

(* The type invariant: every variable of the cache keeps its type.          *)
LEMMA TypeInit == Init => TypeOK
  BY CacheAssumption DEF Init, TypeOK, CallState, Version, Entry

(* Each step of the cache keeps the types.                                  *)
LEMMA TypeNext == TypeOK /\ [Next]_vars => TypeOK'
<1> SUFFICES ASSUME TypeOK, [Next]_vars PROVE TypeOK'
  OBVIOUS
<1>1. ASSUME NEW c \in Caller, NEW k \in Key, NEW t \in TTL, CallHit(c, k, t)
      PROVE TypeOK'
  <2>1. entries[k].data \in Version
    BY <1>1 DEF CallHit, Valid, TypeOK, Entry
  <2> QED
    BY <1>1, <2>1 DEF CallHit, Valid, Max2, TypeOK, CallState
<1>2. ASSUME NEW c \in Caller, NEW k \in Key, NEW t \in TTL,
             NEW force \in BOOLEAN, CallMiss(c, k, t, force)
      PROVE TypeOK'
  <2>1. entries' \in [Key -> Entry \cup {None}]
    BY <1>2 DEF CallMiss, Invalidated, TypeOK
  <2>2. seen[k] \in Version /\ entries'[k] \in Entry \cup {None}
    BY <2>1 DEF TypeOK
  <2> DEFINE fresh == [pc |-> "waiting", key |-> k, ttl |-> t, old |-> None,
                       got |-> None, floor |-> seen[k], ret |-> None]
  <2>3. /\ fresh \in CallState
        /\ [fresh EXCEPT !.pc = "fetching", !.old = entries'[k]] \in CallState
    BY <2>2 DEF CallState
  <2>4. call' \in [Caller -> CallState]
    BY <1>2, <2>3 DEF CallMiss, TypeOK
  <2>5. holder' \in [Key -> Caller \cup {None}]
    BY <1>2 DEF CallMiss, TypeOK
  <2>6. Append(queue[k], c) \in Seq(Caller)
    BY DEF TypeOK
  <2>7. queue' \in [Key -> Seq(Caller)]
    BY <1>2, <2>6 DEF CallMiss, TypeOK
  <2> QED
    BY <1>2, <2>1, <2>4, <2>5, <2>7 DEF CallMiss, TypeOK
<1>3. ASSUME NEW c \in Caller, WakeHit(c) PROVE TypeOK'
  <2>1. call[c] \in CallState
    BY DEF TypeOK
  <2>2. PICK k \in Key : k = call[c].key
    BY <2>1 DEF CallState
  <2>3. entries[k].data \in Version /\ queue[k] \in Seq(Caller)
    BY <1>3, <2>2 DEF WakeHit, Valid, TypeOK, Entry
  <2>4. call' \in [Caller -> CallState]
    BY <1>3, <2>1, <2>2, <2>3 DEF WakeHit, Return, TypeOK, CallState
  <2>5. Tail(queue[k]) \in Seq(Caller)
    BY <1>3, <2>2, <2>3 DEF WakeHit
  <2> QED
    BY <1>3, <2>2, <2>3, <2>4, <2>5 DEF WakeHit, Return, Max2, TypeOK
<1>4. ASSUME NEW c \in Caller, WakeFetch(c) PROVE TypeOK'
  <2>1. call[c] \in CallState
    BY DEF TypeOK
  <2>2. PICK k \in Key : k = call[c].key
    BY <2>1 DEF CallState
  <2>3. entries[k] \in Entry \cup {None} /\ queue[k] \in Seq(Caller)
    BY DEF TypeOK
  <2>4. call' \in [Caller -> CallState]
    BY <1>4, <2>1, <2>2, <2>3 DEF WakeFetch, TypeOK, CallState
  <2>5. Tail(queue[k]) \in Seq(Caller)
    BY <1>4, <2>2, <2>3 DEF WakeFetch
  <2> QED
    BY <1>4, <2>2, <2>4, <2>5 DEF WakeFetch, TypeOK
<1>5. ASSUME NEW c \in Caller, FetchRead(c) PROVE TypeOK'
  <2>1. call[c] \in CallState
    BY DEF TypeOK
  <2>2. world[call[c].key] \in Version
    BY <2>1 DEF TypeOK, CallState
  <2>3. call' \in [Caller -> CallState]
    BY <1>5, <2>1, <2>2 DEF FetchRead, TypeOK, CallState
  <2> QED
    BY <1>5, <2>3 DEF FetchRead, TypeOK
<1>6. ASSUME NEW c \in Caller, FetchOk(c) PROVE TypeOK'
  <2>1. call[c] \in CallState
    BY DEF TypeOK
  <2>2. PICK k \in Key : k = call[c].key
    BY <2>1 DEF CallState
  <2>3. call[c].got \in Version
    BY <1>6, <2>1 DEF FetchOk, CallState
  <2>4. call' \in [Caller -> CallState]
    BY <1>6, <2>1, <2>3 DEF FetchOk, Return, TypeOK, CallState
  <2> QED
    BY <1>6, <2>2, <2>3, <2>4 DEF FetchOk, Return, Max2, TypeOK, Entry
<1>7. ASSUME NEW c \in Caller, FetchFailStale(c) PROVE TypeOK'
  <2>1. call[c] \in CallState
    BY DEF TypeOK
  <2>2. PICK k \in Key : k = call[c].key
    BY <2>1 DEF CallState
  <2>3. call[c].old.data \in Version
    BY <1>7, <2>1 DEF FetchFailStale, CallState, Entry
  <2>4. call' \in [Caller -> CallState]
    BY <1>7, <2>1, <2>3 DEF FetchFailStale, Return, TypeOK, CallState
  <2>5. entries' \in [Key -> Entry \cup {None}]
    BY <1>7, <2>2 DEF FetchFailStale, TypeOK, Entry
  <2> QED
    BY <1>7, <2>2, <2>3, <2>4, <2>5 DEF FetchFailStale, Return, Max2, TypeOK
<1>8. ASSUME NEW c \in Caller, FetchFailRaise(c) PROVE TypeOK'
  <2>1. call[c] \in CallState
    BY DEF TypeOK
  <2>2. call' \in [Caller -> CallState]
    BY <1>8, <2>1 DEF FetchFailRaise, TypeOK, CallState
  <2> QED
    BY <1>8, <2>1, <2>2 DEF FetchFailRaise, TypeOK, CallState
<1>9. CASE Tick
  BY <1>9, CacheAssumption DEF Tick, TypeOK
<1>10. ASSUME NEW k \in Key, WorldChanges(k) PROVE TypeOK'
  BY <1>10, CacheAssumption DEF WorldChanges, TypeOK, Version
<1>11. CASE UNCHANGED vars
  BY <1>11 DEF vars, TypeOK
<1> QED
  BY <1>1, <1>2, <1>3, <1>4, <1>5, <1>6, <1>7, <1>8, <1>9, <1>10, <1>11
     DEF Next, Request, Progress

(* The state of ClusterCacheService and of its callers keeps its type.      *)
THEOREM TypeCorrect == Spec => []TypeOK
  BY TypeInit, TypeNext, PTL DEF Spec

(* What the proof needs of the types, free of the record sets.              *)
KeyTypes ==
    /\ \A k \in Key : /\ seen[k] \in Nat /\ world[k] \in Nat
                      /\ entries[k] # None => entries[k].data \in Nat
    /\ \A c \in Caller :
         /\ call[c].key \in Key /\ call[c].floor \in Nat
         /\ call[c].old # None => call[c].old.data \in Nat
         /\ call[c].got # None => call[c].got \in Nat

(* The cache's numbers are numbers wherever they are present.               *)
LEMMA KeyTypesHold == TypeOK => KeyTypes
<1> SUFFICES ASSUME TypeOK PROVE KeyTypes
  OBVIOUS
<1> USE CacheAssumption
<1>1. ASSUME NEW k \in Key
      PROVE  /\ seen[k] \in Nat /\ world[k] \in Nat
             /\ entries[k] # None => entries[k].data \in Nat
  BY DEF TypeOK, Version, Entry
<1>2. ASSUME NEW c \in Caller
      PROVE  /\ call[c].key \in Key /\ call[c].floor \in Nat
             /\ call[c].old # None => call[c].old.data \in Nat
             /\ call[c].got # None => call[c].got \in Nat
  <2>1. call[c] \in CallState
    BY DEF TypeOK
  <2> QED
    BY <2>1 DEF CallState, Version, Entry
<1> QED
  BY <1>1, <1>2 DEF KeyTypes

(* The initial cache satisfies the inductive invariant.                     *)
LEMMA InvInit == Init => Inv
  BY TypeInit, CacheAssumption
     DEF Init, Inv, LockInv, KeyInv, CallInv, FetchInv

(* Every step keeps it: one step of the proof per action, and under it what *)
(* the action changes, then one step per part of the invariant.             *)
LEMMA InvNext == Inv /\ [Next]_vars => Inv'
<1> SUFFICES ASSUME Inv, [Next]_vars PROVE Inv'
  OBVIOUS
<1>0. TypeOK /\ TypeOK' /\ KeyTypes /\ KeyTypes'
  <2>1. TypeOK /\ TypeOK'
    BY TypeNext DEF Inv
  <2> QED
    BY <2>1, KeyTypesHold, PTL
<1>1. ASSUME NEW c \in Caller, NEW k \in Key, NEW t \in TTL, CallHit(c, k, t)
      PROVE Inv'
  <2>1. k \in Key /\ call[c] \in CallState
    BY <1>0 DEF TypeOK, CallState
  <2>2. \A d \in Caller \ {c} : call'[d] = call[d]
    BY <1>0, <1>1 DEF CallHit, Valid, Max2, TypeOK
  <2>3. /\ call'[c].pc = "returned" /\ call'[c].key = k /\ call'[c].got = None
        /\ call'[c].floor = seen[k] /\ call'[c].ret = entries[k].data
    BY <1>0, <1>1, <2>1, CacheAssumption DEF CallHit, Valid, Max2, Idle, TypeOK, CallState
  <2>4. /\ entries[k] # None /\ seen'[k] = Max2(seen[k], entries[k].data)
        /\ \A q \in Key \ {k} : seen'[q] = seen[q]
        /\ UNCHANGED <<world, entries, holder, outcome>>
    BY <1>0, <1>1, <2>1, CacheAssumption DEF CallHit, Valid, Max2, TypeOK, Entry
  <2>5. LockInv'
    BY <1>0, <2>1, <2>2, <2>3, <2>4, CacheAssumption DEF Inv, LockInv, KeyTypes
  <2>6. ASSUME NEW q \in Key PROVE KeyInv(q)'
    BY <1>0, <2>1, <2>3, <2>4, CacheAssumption
       DEF Inv, KeyInv, CallInv, FetchInv, KeyTypes, Max2
  <2>7. ASSUME NEW d \in Caller PROVE CallInv(d)'
    <3>1. CASE d = c
      BY <3>1, <1>0, <2>1, <2>3, <2>4, CacheAssumption
         DEF Inv, LockInv, KeyInv, CallInv, FetchInv, KeyTypes, Max2
    <3>2. CASE d # c
      BY <3>2, <1>0, <2>1, <2>2, <2>3, <2>4, CacheAssumption
         DEF Inv, LockInv, KeyInv, CallInv, FetchInv, KeyTypes, Max2
    <3> QED
      BY <3>1, <3>2
  <2> QED
    BY <1>0, <2>5, <2>6, <2>7 DEF Inv
<1>2. ASSUME NEW c \in Caller, NEW k \in Key, NEW t \in TTL,
             NEW force \in BOOLEAN, CallMiss(c, k, t, force)
      PROVE Inv'
  <2>1. k \in Key /\ call[c] \in CallState
    BY <1>0 DEF TypeOK, CallState
  <2>2. \A d \in Caller \ {c} : call'[d] = call[d]
    BY <1>0, <1>2 DEF CallMiss, Invalidated, TypeOK
  <2>3. /\ call[c].pc # "fetching" /\ call'[c].key = k
        /\ call'[c].floor = seen[k] /\ call'[c].got = None
        /\ \/ call'[c].pc = "waiting" /\ holder' = holder
           \/ /\ call'[c].pc = "fetching" /\ call'[c].old = entries'[k]
              /\ holder[k] = None /\ holder'[k] = c
              /\ \A q \in Key \ {k} : holder'[q] = holder[q]
    <3>1. call[c].pc # "fetching"
      BY <1>2 DEF CallMiss, Idle
    <3>2. CASE holder[k] = None /\ queue[k] = <<>>
      <4> DEFINE fresh == [pc |-> "waiting", key |-> k, ttl |-> t,
                           old |-> None, got |-> None, floor |-> seen[k],
                           ret |-> None]
                 r == [fresh EXCEPT !.pc = "fetching", !.old = entries'[k]]
      <4>1. call' = [call EXCEPT ![c] = r] /\ holder' = [holder EXCEPT ![k] = c]
        BY <1>2, <3>2 DEF CallMiss
      <4>2. call'[c] = r
        BY <1>0, <4>1 DEF TypeOK
      <4>3. /\ r.pc = "fetching" /\ r.key = k /\ r.floor = seen[k]
            /\ r.got = None /\ r.old = entries'[k]
        OBVIOUS
      <4>4. holder'[k] = c /\ \A q \in Key \ {k} : holder'[q] = holder[q]
        BY <1>0, <4>1 DEF TypeOK
      <4> HIDE DEF r
      <4> QED
        BY <3>1, <3>2, <4>2, <4>3, <4>4
    <3>3. CASE holder[k] # None \/ queue[k] # <<>>
      BY <1>0, <1>2, <3>1, <3>3 DEF CallMiss, TypeOK
    <3> QED
      BY <3>2, <3>3
  <2>4. /\ \A q \in Key : entries'[q] = None \/ entries'[q] = entries[q]
        /\ UNCHANGED <<world, seen, outcome>>
    BY <1>0, <1>2, <2>1, CacheAssumption DEF CallMiss, Invalidated, TypeOK, Entry
  <2>5. LockInv'
    BY <1>0, <2>1, <2>2, <2>3, <2>4, CacheAssumption DEF Inv, LockInv, KeyTypes
  <2>6. ASSUME NEW q \in Key PROVE KeyInv(q)'
    BY <1>0, <2>1, <2>3, <2>4, CacheAssumption
       DEF Inv, KeyInv, CallInv, FetchInv, KeyTypes
  <2>7. ASSUME NEW d \in Caller PROVE CallInv(d)'
    <3>1. CASE d = c
      BY <3>1, <1>0, <2>1, <2>3, <2>4, CacheAssumption
         DEF Inv, LockInv, KeyInv, CallInv, FetchInv, KeyTypes
    <3>2. CASE d # c
      BY <3>2, <1>0, <2>1, <2>2, <2>3, <2>4, CacheAssumption
         DEF Inv, LockInv, KeyInv, CallInv, FetchInv, KeyTypes
    <3> QED
      BY <3>1, <3>2
  <2> QED
    BY <1>0, <2>5, <2>6, <2>7 DEF Inv
<1>3. ASSUME NEW c \in Caller, WakeHit(c)
      PROVE Inv'
  <2> DEFINE k == call[c].key
  <2>1. k \in Key /\ call[c] \in CallState
    BY <1>0 DEF TypeOK, CallState
  <2>2. \A d \in Caller \ {c} : call'[d] = call[d]
    BY <1>0, <1>3 DEF WakeHit, Valid, Return, Max2, TypeOK
  <2>3. /\ call'[c].pc = "returned" /\ call'[c].key = k /\ call'[c].got = None
        /\ call'[c].floor = call[c].floor /\ call'[c].ret = entries[k].data
    BY <1>0, <1>3, <2>1, CacheAssumption DEF WakeHit, Valid, Return, Max2, Idle, TypeOK, CallState
  <2>4. /\ entries[k] # None /\ seen'[k] = Max2(seen[k], entries[k].data)
        /\ \A q \in Key \ {k} : seen'[q] = seen[q]
        /\ UNCHANGED <<world, entries, holder, outcome>>
    BY <1>0, <1>3, <2>1, CacheAssumption DEF WakeHit, Valid, Return, Max2, TypeOK, Entry
  <2> HIDE DEF k
  <2>5. LockInv'
    BY <1>0, <2>1, <2>2, <2>3, <2>4, CacheAssumption DEF Inv, LockInv, KeyTypes, k
  <2>6. ASSUME NEW q \in Key PROVE KeyInv(q)'
    BY <1>0, <2>1, <2>3, <2>4, CacheAssumption
       DEF Inv, KeyInv, CallInv, FetchInv, KeyTypes, Max2, k
  <2>7. ASSUME NEW d \in Caller PROVE CallInv(d)'
    <3>1. CASE d = c
      BY <3>1, <1>0, <2>1, <2>3, <2>4, CacheAssumption
         DEF Inv, LockInv, KeyInv, CallInv, FetchInv, KeyTypes, Max2, k
    <3>2. CASE d # c
      BY <3>2, <1>0, <2>1, <2>2, <2>3, <2>4, CacheAssumption
         DEF Inv, LockInv, KeyInv, CallInv, FetchInv, KeyTypes, Max2, k
    <3> QED
      BY <3>1, <3>2
  <2> QED
    BY <1>0, <2>5, <2>6, <2>7 DEF Inv
<1>4. ASSUME NEW c \in Caller, WakeFetch(c)
      PROVE Inv'
  <2> DEFINE k == call[c].key
  <2>1. k \in Key /\ call[c] \in CallState
    BY <1>0 DEF TypeOK, CallState
  <2>2. \A d \in Caller \ {c} : call'[d] = call[d]
    BY <1>0, <1>4 DEF WakeFetch, TypeOK
  <2>3. /\ call'[c].pc = "fetching" /\ call'[c].key = k
        /\ call'[c].floor = call[c].floor /\ call'[c].old = entries[k]
        /\ call'[c].got = call[c].got
    BY <1>0, <1>4, <2>1, CacheAssumption DEF WakeFetch, Idle, TypeOK, CallState
  <2>4. /\ holder[k] = None /\ holder'[k] = c
        /\ \A q \in Key \ {k} : holder'[q] = holder[q]
        /\ UNCHANGED <<world, entries, seen, outcome>>
    BY <1>0, <1>4, <2>1, CacheAssumption DEF WakeFetch, TypeOK, Entry
  <2> HIDE DEF k
  <2>5. LockInv'
    BY <1>0, <2>1, <2>2, <2>3, <2>4, CacheAssumption DEF Inv, LockInv, KeyTypes, k
  <2>6. ASSUME NEW q \in Key PROVE KeyInv(q)'
    BY <1>0, <2>1, <2>3, <2>4, CacheAssumption
       DEF Inv, KeyInv, CallInv, FetchInv, KeyTypes, k
  <2>7. ASSUME NEW d \in Caller PROVE CallInv(d)'
    <3>1. CASE d = c
      BY <3>1, <1>0, <2>1, <2>3, <2>4, CacheAssumption
         DEF Inv, LockInv, KeyInv, CallInv, FetchInv, KeyTypes, k
    <3>2. CASE d # c
      BY <3>2, <1>0, <2>1, <2>2, <2>3, <2>4, CacheAssumption
         DEF Inv, LockInv, KeyInv, CallInv, FetchInv, KeyTypes, k
    <3> QED
      BY <3>1, <3>2
  <2> QED
    BY <1>0, <2>5, <2>6, <2>7 DEF Inv
<1>5. ASSUME NEW c \in Caller, FetchRead(c)
      PROVE Inv'
  <2> DEFINE k == call[c].key
  <2>1. k \in Key /\ call[c] \in CallState
    BY <1>0 DEF TypeOK, CallState
  <2>2. \A d \in Caller \ {c} : call'[d] = call[d]
    BY <1>0, <1>5 DEF FetchRead, TypeOK
  <2>3. /\ call[c].pc = "fetching" /\ call'[c].pc = "fetching"
        /\ call'[c].key = k /\ call'[c].floor = call[c].floor
        /\ call'[c].old = call[c].old /\ call'[c].got = world[k]
    BY <1>0, <1>5, <2>1, CacheAssumption DEF FetchRead, Idle, TypeOK, CallState
  <2>4. UNCHANGED <<world, entries, seen, holder, outcome>>
    BY <1>0, <1>5, <2>1, CacheAssumption DEF FetchRead, TypeOK, Entry
  <2> HIDE DEF k
  <2>5. LockInv'
    BY <1>0, <2>1, <2>2, <2>3, <2>4, CacheAssumption DEF Inv, LockInv, KeyTypes, k
  <2>6. ASSUME NEW q \in Key PROVE KeyInv(q)'
    BY <1>0, <2>1, <2>3, <2>4, CacheAssumption
       DEF Inv, KeyInv, CallInv, FetchInv, KeyTypes, k
  <2>7. ASSUME NEW d \in Caller PROVE CallInv(d)'
    <3>1. CASE d = c
      BY <3>1, <1>0, <2>1, <2>3, <2>4, CacheAssumption
         DEF Inv, LockInv, KeyInv, CallInv, FetchInv, KeyTypes, k
    <3>2. CASE d # c
      BY <3>2, <1>0, <2>1, <2>2, <2>3, <2>4, CacheAssumption
         DEF Inv, LockInv, KeyInv, CallInv, FetchInv, KeyTypes, k
    <3> QED
      BY <3>1, <3>2
  <2> QED
    BY <1>0, <2>5, <2>6, <2>7 DEF Inv
<1>6. ASSUME NEW c \in Caller, FetchOk(c)
      PROVE Inv'
  <2> DEFINE k == call[c].key
  <2>1. k \in Key /\ call[c] \in CallState
    BY <1>0 DEF TypeOK, CallState
  <2>2. \A d \in Caller \ {c} : call'[d] = call[d]
    BY <1>0, <1>6 DEF FetchOk, Return, Max2, TypeOK
  <2>3. /\ call[c].pc = "fetching" /\ call[c].got # None
        /\ call'[c].pc = "returned" /\ call'[c].key = k /\ call'[c].got = None
        /\ call'[c].floor = call[c].floor /\ call'[c].ret = call[c].got
    BY <1>0, <1>6, <2>1, CacheAssumption DEF FetchOk, Return, Max2, Idle, TypeOK, CallState
  <2>4. /\ entries'[k] # None /\ entries'[k].data = call[c].got
        /\ entries'[k].is_stale = FALSE /\ outcome'[k] = "ok"
        /\ seen'[k] = Max2(seen[k], call[c].got)
        /\ \A q \in Key \ {k} : /\ seen'[q] = seen[q]
                               /\ entries'[q] = entries[q]
                               /\ holder'[q] = holder[q]
                               /\ outcome'[q] = outcome[q]
        /\ UNCHANGED world
    <3> DEFINE e == [data |-> call[c].got, fetched_at |-> now,
                     is_stale |-> FALSE]
    <3>1. entries' = [entries EXCEPT ![k] = e]
      BY <1>6 DEF FetchOk
    <3>2. e \in [data : Nat, fetched_at : Nat, is_stale : BOOLEAN]
      BY <1>0, <1>6, CacheAssumption DEF FetchOk, TypeOK, KeyTypes
    <3>3. e # None
      BY <3>2, CacheAssumption
    <3>4. /\ entries'[k] # None /\ entries'[k].data = call[c].got
          /\ entries'[k].is_stale = FALSE
      BY <1>0, <2>1, <3>1, <3>3 DEF TypeOK
    <3> QED
      BY <1>0, <1>6, <2>1, <3>4 DEF FetchOk, Return, TypeOK
  <2> HIDE DEF k
  <2>5. LockInv'
    BY <1>0, <2>1, <2>2, <2>3, <2>4, CacheAssumption DEF Inv, LockInv, KeyTypes, k
  <2>6. ASSUME NEW q \in Key PROVE KeyInv(q)'
    BY <1>0, <2>1, <2>3, <2>4, CacheAssumption
       DEF Inv, KeyInv, CallInv, FetchInv, KeyTypes, Max2, k
  <2>7. ASSUME NEW d \in Caller PROVE CallInv(d)'
    <3>1. CASE d = c
      BY <3>1, <1>0, <2>1, <2>3, <2>4, CacheAssumption
         DEF Inv, LockInv, KeyInv, CallInv, FetchInv, KeyTypes, Max2, k
    <3>2. CASE d # c
      BY <3>2, <1>0, <2>1, <2>2, <2>3, <2>4, CacheAssumption
         DEF Inv, LockInv, KeyInv, CallInv, FetchInv, KeyTypes, Max2, k
    <3> QED
      BY <3>1, <3>2
  <2> QED
    BY <1>0, <2>5, <2>6, <2>7 DEF Inv
<1>7. ASSUME NEW c \in Caller, FetchFailStale(c)
      PROVE Inv'
  <2> DEFINE k == call[c].key
  <2>1. k \in Key /\ call[c] \in CallState
    BY <1>0 DEF TypeOK, CallState
  <2>2. \A d \in Caller \ {c} : call'[d] = call[d]
    BY <1>0, <1>7 DEF FetchFailStale, Return, Max2, TypeOK
  <2>3. /\ call[c].pc = "fetching" /\ call[c].old # None
        /\ call'[c].pc = "returned" /\ call'[c].key = k /\ call'[c].got = None
        /\ call'[c].floor = call[c].floor /\ call'[c].ret = call[c].old.data
    BY <1>0, <1>7, <2>1, CacheAssumption DEF FetchFailStale, Return, Max2, Idle, TypeOK, CallState
  <2>4. /\ \/ entries'[k] = None
           \/ /\ entries[k] # None /\ entries'[k].data = entries[k].data
              /\ entries'[k].is_stale = TRUE
        /\ outcome'[k] = "failed"
        /\ seen'[k] = Max2(seen[k], call[c].old.data)
        /\ \A q \in Key \ {k} : /\ seen'[q] = seen[q]
                               /\ entries'[q] = entries[q]
                               /\ holder'[q] = holder[q]
                               /\ outcome'[q] = outcome[q]
        /\ UNCHANGED world
    BY <1>0, <1>7, <2>1, CacheAssumption DEF FetchFailStale, Return, Max2, TypeOK, Entry
  <2> HIDE DEF k
  <2>5. LockInv'
    BY <1>0, <2>1, <2>2, <2>3, <2>4, CacheAssumption DEF Inv, LockInv, KeyTypes, k
  <2>6. ASSUME NEW q \in Key PROVE KeyInv(q)'
    BY <1>0, <2>1, <2>3, <2>4, CacheAssumption
       DEF Inv, KeyInv, CallInv, FetchInv, KeyTypes, Max2, k
  <2>7. ASSUME NEW d \in Caller PROVE CallInv(d)'
    <3>1. CASE d = c
      BY <3>1, <1>0, <2>1, <2>3, <2>4, CacheAssumption
         DEF Inv, LockInv, KeyInv, CallInv, FetchInv, KeyTypes, Max2, k
    <3>2. CASE d # c
      BY <3>2, <1>0, <2>1, <2>2, <2>3, <2>4, CacheAssumption
         DEF Inv, LockInv, KeyInv, CallInv, FetchInv, KeyTypes, Max2, k
    <3> QED
      BY <3>1, <3>2
  <2> QED
    BY <1>0, <2>5, <2>6, <2>7 DEF Inv
<1>8. ASSUME NEW c \in Caller, FetchFailRaise(c)
      PROVE Inv'
  <2> DEFINE k == call[c].key
  <2>1. k \in Key /\ call[c] \in CallState
    BY <1>0 DEF TypeOK, CallState
  <2>2. \A d \in Caller \ {c} : call'[d] = call[d]
    BY <1>0, <1>8 DEF FetchFailRaise, TypeOK
  <2>3. /\ call[c].pc = "fetching" /\ call[c].old = None
        /\ call'[c].pc = "raised" /\ call'[c].key = k /\ call'[c].got = None
        /\ call'[c].floor = call[c].floor
    BY <1>0, <1>8, <2>1, CacheAssumption DEF FetchFailRaise, Idle, TypeOK, CallState
  <2>4. /\ \A q \in Key \ {k} : /\ holder'[q] = holder[q]
                               /\ outcome'[q] = outcome[q]
        /\ UNCHANGED <<world, entries, seen>>
    BY <1>0, <1>8, <2>1, CacheAssumption DEF FetchFailRaise, TypeOK, Entry
  <2> HIDE DEF k
  <2>5. LockInv'
    BY <1>0, <2>1, <2>2, <2>3, <2>4, CacheAssumption DEF Inv, LockInv, KeyTypes, k
  <2>6. ASSUME NEW q \in Key PROVE KeyInv(q)'
    BY <1>0, <2>1, <2>3, <2>4, CacheAssumption
       DEF Inv, KeyInv, CallInv, FetchInv, KeyTypes, k
  <2>7. ASSUME NEW d \in Caller PROVE CallInv(d)'
    <3>1. CASE d = c
      BY <3>1, <1>0, <2>1, <2>3, <2>4, CacheAssumption
         DEF Inv, LockInv, KeyInv, CallInv, FetchInv, KeyTypes, k
    <3>2. CASE d # c
      BY <3>2, <1>0, <2>1, <2>2, <2>3, <2>4, CacheAssumption
         DEF Inv, LockInv, KeyInv, CallInv, FetchInv, KeyTypes, k
    <3> QED
      BY <3>1, <3>2
  <2> QED
    BY <1>0, <2>5, <2>6, <2>7 DEF Inv
<1>9. CASE Tick
  <2>1. \A q \in Key : world[q] <= world'[q]
    BY <1>0, <1>9 DEF Tick, TypeOK, Version
  <2>2. UNCHANGED <<entries, holder, call, seen, outcome>>
    BY <1>9 DEF Tick
  <2>3. LockInv'
    BY <2>2 DEF Inv, LockInv
  <2>4. ASSUME NEW q \in Key PROVE KeyInv(q)'
    BY <1>0, <2>1, <2>2 DEF Inv, KeyInv, KeyTypes
  <2>5. ASSUME NEW d \in Caller PROVE CallInv(d)'
    BY <1>0, <2>1, <2>2 DEF Inv, CallInv, FetchInv, KeyTypes
  <2> QED
    BY <1>0, <2>3, <2>4, <2>5 DEF Inv
<1>10. ASSUME NEW j \in Key, WorldChanges(j) PROVE Inv'
  <2>1. \A q \in Key : world[q] <= world'[q]
    BY <1>0, <1>10 DEF WorldChanges, TypeOK, Version
  <2>2. UNCHANGED <<entries, holder, call, seen, outcome>>
    BY <1>10 DEF WorldChanges
  <2>3. LockInv'
    BY <2>2 DEF Inv, LockInv
  <2>4. ASSUME NEW q \in Key PROVE KeyInv(q)'
    BY <1>0, <2>1, <2>2 DEF Inv, KeyInv, KeyTypes
  <2>5. ASSUME NEW d \in Caller PROVE CallInv(d)'
    BY <1>0, <2>1, <2>2 DEF Inv, CallInv, FetchInv, KeyTypes
  <2> QED
    BY <1>0, <2>3, <2>4, <2>5 DEF Inv
<1>11. CASE UNCHANGED vars
  <2>1. \A q \in Key : world[q] <= world'[q]
    BY <1>0, <1>11 DEF vars, TypeOK, Version
  <2>2. UNCHANGED <<entries, holder, call, seen, outcome>>
    BY <1>11 DEF vars
  <2>3. LockInv'
    BY <2>2 DEF Inv, LockInv
  <2>4. ASSUME NEW q \in Key PROVE KeyInv(q)'
    BY <1>0, <2>1, <2>2 DEF Inv, KeyInv, KeyTypes
  <2>5. ASSUME NEW d \in Caller PROVE CallInv(d)'
    BY <1>0, <2>1, <2>2 DEF Inv, CallInv, FetchInv, KeyTypes
  <2> QED
    BY <1>0, <2>3, <2>4, <2>5 DEF Inv
<1> QED
  BY <1>1, <1>2, <1>3, <1>4, <1>5, <1>6, <1>7, <1>8, <1>9, <1>10, <1>11
     DEF Next, Request, Progress

(* The single-flight, monotone-read and stale-flag guarantees of the cache  *)
(* (get_or_fetch), for any number of concurrent requests and keys, any poll *)
(* intervals, forced refreshes and failing fetches.                         *)
THEOREM CacheInvariant == Spec => []Inv
  BY InvInit, InvNext, PTL DEF Spec

(* get_or_fetch never hands out data older than what an earlier call had    *)
(* already been given for the key.                                          *)
THEOREM ReadsAreMonotone == Spec => []MonotoneReads
<1>1. Inv => MonotoneReads
  BY DEF Inv, CallInv, MonotoneReads
<1> QED
  BY <1>1, CacheInvariant, PTL

(* At most one coroutine per key is inside fetch_fn.                        *)
THEOREM FetchIsSingleFlight == Spec => []SingleFlight
<1>1. Inv => SingleFlight
  BY DEF Inv, LockInv, SingleFlight
<1> QED
  BY <1>1, CacheInvariant, PTL

(* is_stale() says exactly that the last fetch of the key failed.           *)
THEOREM StaleFlagCorrect == Spec => []StaleFlagIsTruth
<1>1. Inv => StaleFlagIsTruth
  BY DEF Inv, KeyInv, StaleFlagIsTruth
<1> QED
  BY <1>1, CacheInvariant, PTL

=============================================================================
