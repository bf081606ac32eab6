---------------------------- MODULE ClusterCache ----------------------------
(***************************************************************************)
(* The in-memory cluster cache of backend/services/cluster_cache_service.py *)
(* as used by backend/routers/cluster.py: one entry per (node, endpoint)    *)
(* key, one asyncio.Lock per key, callers that hit, wait, fetch and store.  *)
(*                                                                          *)
(* The process is single-threaded asyncio, so an action is the code between *)
(* two awaits that may really suspend.  _get_lock never suspends: the       *)
(* creation lock is only held over code without an await, so it is always   *)
(* free.  asyncio.Lock is first-in first-out and a newcomer queues when     *)
(* anybody is waiting, even if the lock is free at that moment.             *)
(*                                                                          *)
(* Proxmox is external: world[k] is the version of the data behind key k,   *)
(* and one fetch reads one version.                                         *)
(***************************************************************************)
EXTENDS Integers, Sequences

CONSTANTS
    Caller,     \* the request coroutines
    Key,        \* (portal_node_id, endpoint) pairs
    TTL,        \* the poll intervals a node may be configured with
    MaxNow,     \* bound on the clock
    MaxVersion, \* bound on the versions of the Proxmox data
    None

ASSUME CacheAssumption ==
    /\ Key # {}
    /\ TTL # {} /\ TTL \subseteq Nat
    /\ MaxNow \in Nat
    /\ MaxVersion \in Nat
    /\ None \notin Nat
    /\ None \notin Caller
    /\ None \notin [data : Nat, fetched_at : Nat, is_stale : BOOLEAN]

VARIABLES
    now,      \* time.monotonic()
    world,    \* [Key -> version Proxmox would answer with now]
    entries,  \* ClusterCacheService._entries
    holder,   \* [Key -> the coroutine inside "async with lock"]
    queue,    \* [Key -> coroutines suspended in lock.acquire(), in order]
    call,     \* [Caller -> locals of its get_or_fetch call]
    seen,     \* history: newest version any call ever returned for the key
    outcome   \* history: how the last fetch of the key ended

vars == <<now, world, entries, holder, queue, call, seen, outcome>>

Version == 0..MaxVersion
Entry == [data : Version, fetched_at : 0..MaxNow, is_stale : BOOLEAN]

(* The locals of one get_or_fetch call: "old" is the entry object the       *)
(* re-check saw, "got" the answer of fetch_fn once it is read, "floor" (a   *)
(* history) the newest version anybody had been given when the call began.  *)
CallState ==
    [pc    : {"idle", "waiting", "fetching", "returned", "raised"},
     key   : Key,
     ttl   : TTL,
     old   : Entry \cup {None},
     got   : Version \cup {None},
     floor : Version,
     ret   : Version \cup {None}]

Max2(a, b) == IF a >= b THEN a ELSE b

-----------------------------------------------------------------------------

Init ==
    /\ now = 0
    /\ world = [k \in Key |-> 0]
    /\ entries = [k \in Key |-> None]
    /\ holder = [k \in Key |-> None]
    /\ queue = [k \in Key |-> <<>>]
    /\ call = [c \in Caller |->
                 [pc |-> "idle", key |-> CHOOSE k \in Key : TRUE,
                  ttl |-> CHOOSE t \in TTL : TRUE, old |-> None,
                  got |-> None, floor |-> 0, ret |-> None]]
    /\ seen = [k \in Key |-> 0]
    /\ outcome = [k \in Key |-> "none"]

(* An entry exists and "not self._is_expired(entry, ttl)".                  *)
Valid(entry, ttl) ==
    /\ entry # None
    /\ now - entry.fetched_at < ttl

(* return data: the caller is given version v of key k.                     *)
Return(c, k, v) ==
    /\ call' = [call EXCEPT ![c].pc = "returned", ![c].ret = v,
                            ![c].old = None, ![c].got = None]
    /\ seen' = [seen EXCEPT ![k] = Max2(@, v)]

(* invalidate_all()                                                         *)
Invalidated(force) ==
    IF force THEN [k \in Key |-> None] ELSE entries

Idle(c) == call[c].pc \in {"idle", "returned", "raised"}

(* A call whose first lookup finds a valid entry never suspends.            *)
CallHit(c, k, t) ==
    /\ Idle(c)
    /\ Valid(entries[k], t)
    /\ call' = [call EXCEPT ![c] = [pc |-> "returned", key |-> k, ttl |-> t,
                                    old |-> None, got |-> None,
                                    floor |-> seen[k],
                                    ret |-> entries[k].data]]
    /\ seen' = [seen EXCEPT ![k] = Max2(@, entries[k].data)]
    /\ UNCHANGED <<now, world, entries, holder, queue, outcome>>

(* Mutant: a miss fetches at once, without the key's lock.                 *)
CallMissUnlocked(c, k, t, force) ==
    /\ Idle(c)
    /\ entries' = Invalidated(force)
    /\ ~Valid(entries'[k], t)
    /\ call' = [call EXCEPT ![c] = [pc |-> "fetching", key |-> k, ttl |-> t,
                                    old |-> entries'[k], got |-> None,
                                    floor |-> seen[k], ret |-> None]]
    /\ UNCHANGED <<now, world, holder, queue, seen, outcome>>

(* A call that misses, or forces (and then misses, having cleared every     *)
(* entry): it enters the lock when it is free and nobody queues, and starts *)
(* fetch_fn; otherwise it suspends in the lock's queue.                     *)
CallMiss(c, k, t, force) ==
    /\ Idle(c)
    /\ entries' = Invalidated(force)
    /\ ~Valid(entries'[k], t)
    /\ LET fresh == [pc |-> "waiting", key |-> k, ttl |-> t, old |-> None,
                     got |-> None, floor |-> seen[k], ret |-> None]
       IN \/ /\ holder[k] = None /\ queue[k] = <<>>
             /\ holder' = [holder EXCEPT ![k] = c]
             /\ call' = [call EXCEPT ![c] =
                           [fresh EXCEPT !.pc = "fetching", !.old = entries'[k]]]
             /\ UNCHANGED queue
          \/ /\ holder[k] # None \/ queue[k] # <<>>
             /\ queue' = [queue EXCEPT ![k] = Append(@, c)]
             /\ call' = [call EXCEPT ![c] = fresh]
             /\ UNCHANGED holder
    /\ UNCHANGED <<now, world, seen, outcome>>

(* The first waiter is woken with the lock and looks again: another         *)
(* coroutine may have fetched while it waited.                              *)
WakeHit(c) ==
    LET k == call[c].key IN
    /\ holder[k] = None /\ queue[k] # <<>> /\ Head(queue[k]) = c
    /\ Valid(entries[k], call[c].ttl)
    /\ queue' = [queue EXCEPT ![k] = Tail(@)]
    /\ Return(c, k, entries[k].data)
    /\ UNCHANGED <<now, world, entries, holder, outcome>>

WakeFetch(c) ==
    LET k == call[c].key IN
    /\ holder[k] = None /\ queue[k] # <<>> /\ Head(queue[k]) = c
    /\ ~Valid(entries[k], call[c].ttl)
    /\ queue' = [queue EXCEPT ![k] = Tail(@)]
    /\ holder' = [holder EXCEPT ![k] = c]
    /\ call' = [call EXCEPT ![c].pc = "fetching", ![c].old = entries[k]]
    /\ UNCHANGED <<now, world, entries, seen, outcome>>

(* Proxmox answers the fetch with the data it has at this moment; the       *)
(* answer is on its way until FetchOk.                                      *)
FetchRead(c) ==
    /\ call[c].pc = "fetching" /\ call[c].got = None
    /\ call' = [call EXCEPT ![c].got = world[call[c].key]]
    /\ UNCHANGED <<now, world, entries, holder, queue, seen, outcome>>

(* Mutant: the fetch is not awaited, and its missing answer is stored.      *)
FetchOkUnawaited(c) ==
    LET k == call[c].key IN
    /\ call[c].pc = "fetching"
    /\ entries' = [entries EXCEPT ![k] = [data |-> call[c].got,
                                          fetched_at |-> now,
                                          is_stale |-> FALSE]]
    /\ holder' = [holder EXCEPT ![k] = None]
    /\ call' = [call EXCEPT ![c].pc = "returned", ![c].ret = call[c].got,
                            ![c].old = None, ![c].got = None]
    /\ UNCHANGED <<now, world, queue, seen, outcome>>

(* fetch_fn returned: store a new entry stamped with the time of the store, *)
(* leave the lock, return the data.                                         *)
FetchOk(c) ==
    LET k == call[c].key IN
    /\ call[c].pc = "fetching" /\ call[c].got # None
    /\ entries' = [entries EXCEPT ![k] = [data |-> call[c].got,
                                          fetched_at |-> now,
                                          is_stale |-> FALSE]]
    /\ holder' = [holder EXCEPT ![k] = None]
    /\ outcome' = [outcome EXCEPT ![k] = "ok"]
    /\ Return(c, k, call[c].got)
    /\ UNCHANGED <<now, world, queue>>

(* Mutant: the failing call puts the object it holds back into the cache.   *)
FetchFailStaleRestored(c) ==
    LET k == call[c].key IN
    /\ call[c].pc = "fetching" /\ call[c].old # None
    /\ entries' = [entries EXCEPT ![k] = call[c].old]
    /\ holder' = [holder EXCEPT ![k] = None]
    /\ outcome' = [outcome EXCEPT ![k] = "failed"]
    /\ Return(c, k, call[c].old.data)
    /\ UNCHANGED <<now, world, queue>>

(* fetch_fn raised and the re-check had seen an (expired) entry object: it  *)
(* is marked stale and its data returned.  The object may no longer be in   *)
(* the cache: a forced call cleared the dictionary meanwhile.               *)
FetchFailStale(c) ==
    LET k == call[c].key IN
    /\ call[c].pc = "fetching" /\ call[c].old # None
    /\ entries' = IF entries[k] = None THEN entries
                  ELSE [entries EXCEPT ![k].is_stale = TRUE]
    /\ holder' = [holder EXCEPT ![k] = None]
    /\ outcome' = [outcome EXCEPT ![k] = "failed"]
    /\ Return(c, k, call[c].old.data)
    /\ UNCHANGED <<now, world, queue>>

(* Mutant: the lock is not released on the error path.                      *)
FetchFailRaiseLocked(c) ==
    LET k == call[c].key IN
    /\ call[c].pc = "fetching" /\ call[c].old = None
    /\ outcome' = [outcome EXCEPT ![k] = "failed"]
    /\ call' = [call EXCEPT ![c].pc = "raised", ![c].got = None]
    /\ UNCHANGED <<now, world, entries, holder, queue, seen>>

(* fetch_fn raised and there was no entry: the exception goes to the caller.*)
FetchFailRaise(c) ==
    LET k == call[c].key IN
    /\ call[c].pc = "fetching" /\ call[c].old = None
    /\ holder' = [holder EXCEPT ![k] = None]
    /\ outcome' = [outcome EXCEPT ![k] = "failed"]
    /\ call' = [call EXCEPT ![c].pc = "raised", ![c].got = None]
    /\ UNCHANGED <<now, world, entries, queue, seen>>

(* Time passes (one tick of time.monotonic()).                              *)
Tick ==
    /\ now < MaxNow
    /\ now' = now + 1
    /\ UNCHANGED <<world, entries, holder, queue, call, seen, outcome>>

(* The cluster changes behind the portal's back.                            *)
WorldChanges(k) ==
    /\ world[k] < MaxVersion
    /\ world' = [world EXCEPT ![k] = @ + 1]
    /\ UNCHANGED <<now, entries, holder, queue, call, seen, outcome>>

Request(c) ==
    \E k \in Key, t \in TTL :
        \/ CallHit(c, k, t)
        \/ \E force \in BOOLEAN : CallMiss(c, k, t, force)

Progress(c) ==
    \/ WakeHit(c) \/ WakeFetch(c) \/ FetchRead(c)
    \/ FetchOk(c) \/ FetchFailStale(c) \/ FetchFailRaise(c)

Next ==
    \/ \E c \in Caller : Request(c) \/ Progress(c)
    \/ Tick
    \/ \E k \in Key : WorldChanges(k)

(* The event loop resumes every coroutine that can run, and the HTTP client *)
(* behind fetch_fn has a timeout, so every fetch ends one way or the other. *)
Fairness == \A c \in Caller : WF_vars(Progress(c))

Spec == Init /\ [][Next]_vars
FairSpec == Spec /\ Fairness

-----------------------------------------------------------------------------

TypeOK ==
    /\ now \in 0..MaxNow
    /\ world \in [Key -> Version]
    /\ entries \in [Key -> Entry \cup {None}]
    /\ holder \in [Key -> Caller \cup {None}]
    /\ queue \in [Key -> Seq(Caller)]
    /\ call \in [Caller -> CallState]
    /\ seen \in [Key -> Version]
    /\ outcome \in [Key -> {"none", "ok", "failed"}]

(* No call is given data older than what any call had already been given    *)
(* for the same key when it began: a dashboard that polls never sees the    *)
(* cluster go back in time, although entries expire, are cleared by a       *)
(* forced refresh in the middle of a fetch, and are served stale after a    *)
(* failed fetch from an object that may have left the cache.                *)
MonotoneReads ==
    \A c \in Caller :
        call[c].pc = "returned" => call[c].ret >= call[c].floor

(* The thundering-herd guarantee: per key at most one coroutine is inside   *)
(* fetch_fn, whatever expires or is invalidated meanwhile.                  *)
SingleFlight ==
    \A c, d \in Caller :
        /\ call[c].pc = "fetching" /\ call[d].pc = "fetching"
        /\ call[c].key = call[d].key
        => c = d

(* is_stale() of a cached entry says exactly that the last fetch of its key *)
(* failed, although the flag is set on an object the failing coroutine      *)
(* picked up before its await.                                              *)
StaleFlagIsTruth ==
    \A k \in Key :
        entries[k] # None => (entries[k].is_stale <=> outcome[k] = "failed")

(* Every call ends: it returns or raises.  In particular an exception in    *)
(* fetch_fn never leaves the key's lock taken.                              *)
EveryCallEnds ==
    \A c \in Caller : call[c].pc \in {"waiting", "fetching"} ~> Idle(c)

=============================================================================
