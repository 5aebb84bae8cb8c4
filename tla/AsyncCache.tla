------------------------------ MODULE AsyncCache ------------------------------
(***************************************************************************)
(* AsyncCache (async_cache/core.py) over either of its adapters, with the  *)
(* calls of AsyncCacheAdapter (adapters/cache_adapter.py) and the cache    *)
(* calls of AsyncTaskWorker (core.py).                                     *)
(*                                                                         *)
(* The cache keeps two things that have to agree: the values, which the    *)
(* adapter stores under keys and may lose at any time, and entry_key_map,  *)
(* which leads from an entry id to a key.  A background task removes the   *)
(* mappings whose value is gone.                                           *)
(*                                                                         *)
(* Over MemoryCacheAdapter a call never suspends and is a single step.     *)
(* Over RedisCacheAdapter the event loop runs others while a call waits    *)
(* for the server, every request to the server may fail, and the adapter   *)
(* turns a failure into an ordinary answer: not found, or stored.  The     *)
(* server also drops keys by itself, for their ttl or for want of memory.  *)
(*                                                                         *)
(* A value is the request that computed it.  A result that cannot be       *)
(* serialized, or is too large, leaves no trace; a lookup over Redis only  *)
(* leaves the mapping.  _generated_keys is left out, it only feeds a log.  *)
(***************************************************************************)
EXTENDS CacheKeys, MemoryCacheAdapter, Sequences

CONSTANTS
    Callers,        \* the asyncio tasks with a call that waits for Redis
    Adapters,       \* the adapters considered: "memory", "redis"
    KeyFns,         \* the key functions considered, see CacheKeys
    Ttls, Forever,  \* the ttls in use; Forever stands for None
    Asked,          \* bound: Asked[a]: the requests made over adapter a
    MaxTime,        \* bound: how often the clock advances
    MaxDepth        \* bound: how deep temporarily_disabled() blocks are nested over a

ASSUME CacheAssumption ==
    /\ NoEntry \notin Requests
    /\ "no_task_id" \notin Requests
    /\ Adapters \subseteq {"memory", "redis"}
    /\ KeyFns \subseteq {"default", "normal", "task"}
    /\ Asked \in [Adapters -> SUBSET Requests]
    /\ MaxTime \in Nat
    /\ Forever \in Nat /\ Forever > MaxTime
    /\ Ttls \subseteq Nat
    /\ MaxDepth \in [Adapters -> Nat]

VARIABLES
    adapter,        \* the adapter the cache was made with
    keyFn,          \* the key function its clients use
    now,            \* the clock
    mem,            \* the MemoryCacheAdapter
    used,           \* history: when each value in it was last stored or found
    redis,          \* the values the server holds
    enabled,        \* AsyncCache.enabled
    blocks,         \* the states saved by the temporarily_disabled() blocks
    entryKeyMap,    \* entry_key_map
    calls,          \* the calls that wait for Redis
    cleanPc,        \* _cleanup_task: where its loop is, "none" if there is none
    cleanStop,      \* its cancellation is requested by stop_cleanup_task()
    todo, stale     \* entry_ids_to_check and stale_entry_ids of the loop

setup == <<adapter, keyFn>>
memory == <<now, mem, used>>
cleaner == <<cleanPc, cleanStop, todo, stale>>
vars == <<setup, memory, redis, enabled, blocks, entryKeyMap, calls, cleaner>>

\* A call may name the task or not; AsyncTaskWorker always does.
Entries(r) == {r} \union IF keyFn = "normal" THEN {} ELSE {NoEntry}

\* The keys a request may have, with its task and without.
Keys ==
    UNION {{KeyBy(fn, BuildContext(r, e), u) : fn \in KeyFns, e \in {r, NoEntry}, u \in Uuids} :
           r \in Requests}

Idle == [op |-> "idle"]
Call ==
    {Idle}
    \union [op : {"set"}, r : Requests, key : Keys]
    \union [op : {"delete"}, key : Keys]
    \union [op : {"delete by id", "unmap"}, r : Requests, key : Keys]
    \union [op : {"erase"}, keys : SUBSET Keys]
    \union [op : {"unmap all"}]

\* f is a dictionary with keys in K and values in V.
IsDict(f, K, V) == DOMAIN f \subseteq K /\ f \in [DOMAIN f -> V]

TypeOK ==
    /\ adapter \in Adapters
    /\ keyFn \in KeyFns
    /\ now \in 0..MaxTime
    /\ IsDict(mem.cache, Keys, [value : Requests, expiry : Nat])
    /\ mem.access \in [DOMAIN mem.cache -> 0..now]
    /\ used \in [DOMAIN mem.cache -> 0..now]
    /\ IsDict(redis, Keys, Requests)
    /\ enabled \in BOOLEAN
    /\ blocks \in Seq(BOOLEAN) /\ Len(blocks) <= MaxDepth[adapter]
    /\ IsDict(entryKeyMap, Requests, Keys)
    /\ calls \in [Callers -> Call]
    /\ cleanPc \in {"none", "sleeping", "checking", "over"}
    /\ cleanStop \in BOOLEAN
    /\ todo \subseteq Requests
    /\ stale \subseteq Requests

Nothing == [k \in {} |-> k]

\* AsyncCacheAdapter, with its key function and that of the worker, is always
\* made over a MemoryCacheAdapter.
Init ==
    /\ adapter \in Adapters
    /\ keyFn \in KeyFns
    /\ keyFn \in {"normal", "task"} => adapter = "memory"
    /\ now = 0
    /\ mem = Empty
    /\ used = Nothing
    /\ redis = Nothing
    /\ enabled = TRUE
    /\ blocks = <<>>
    /\ entryKeyMap = Nothing
    /\ calls = [c \in Callers |-> Idle]
    /\ cleanPc = "none"
    /\ cleanStop = FALSE
    /\ todo = {}
    /\ stale = {}

\* A lookup of k would hit.
Live(k) == IF adapter = "memory" THEN Hit(mem, k, now) ELSE k \in DOMAIN redis

\* The keys in use, and those that the key function may make for a call: a
\* uuid is not drawn twice, so that a key made with one is not in use.
CallKeys(call) ==
    CASE call.op \in {"set", "delete", "delete by id"} -> {call.key}
      [] call.op = "erase" -> call.keys
      [] OTHER -> {}

InUse ==
    DOMAIN mem.cache \union DOMAIN redis \union {entryKeyMap[e] : e \in DOMAIN entryKeyMap}
    \union UNION {CallKeys(calls[c]) : c \in Callers}

KeysOf(r, e) ==
    LET made == {KeyBy(keyFn, BuildContext(r, e), u) : u \in Uuids} IN
    IF keyFn = "default" /\ ArgsOf[r] \in Unencodable THEN made \ InUse ELSE made

\* entry_key_map with, and without, a mapping of the entry id e.
Mapped(e, k) == IF e = NoEntry THEN entryKeyMap ELSE With(entryKeyMap, e, k)
Unmapped(e) == Less(entryKeyMap, {e})

-----------------------------------------------------------------------------
(* Time, and the switch.                                                   *)

Tick ==
    /\ adapter = "memory"
    /\ now < MaxTime
    /\ now' = now + 1
    /\ UNCHANGED <<setup, mem, used, redis, enabled, blocks, entryKeyMap, calls, cleaner>>

\* temporarily_disabled() is entered.
Disable ==
    /\ Len(blocks) < MaxDepth[adapter]
    /\ blocks' = Append(blocks, enabled)
    /\ enabled' = FALSE
    /\ UNCHANGED <<setup, memory, redis, entryKeyMap, calls, cleaner>>

\* Seeded fault: the end of a block enables the cache.
Restore_Enabled ==
    /\ blocks # <<>>
    /\ enabled' = TRUE
    /\ blocks' = SubSeq(blocks, 1, Len(blocks) - 1)
    /\ UNCHANGED <<setup, memory, redis, entryKeyMap, calls, cleaner>>

\* The innermost block is left.
Restore ==
    /\ blocks # <<>>
    /\ enabled' = blocks[Len(blocks)]
    /\ blocks' = SubSeq(blocks, 1, Len(blocks) - 1)
    /\ UNCHANGED <<setup, memory, redis, entryKeyMap, calls, cleaner>>

-----------------------------------------------------------------------------
(* Calls over MemoryCacheAdapter.                                          *)

\* The values of the keys in K have been stored or found.
UseOf(K) == used' = [k \in DOMAIN mem'.cache |-> IF k \in K THEN now ELSE used[k]]

\* get() of AsyncCache and AsyncCacheAdapter: the mapping is made before it
\* is known whether there is a value.
GetMemory(e, k) ==
    /\ adapter = "memory"
    /\ enabled
    /\ entryKeyMap' = Mapped(e, k)
    /\ mem' = Get(mem, k, now)
    /\ UseOf({k})
    /\ UNCHANGED <<setup, now, redis, enabled, blocks, calls, cleaner>>

\* set()
SetMemory(r, e, k, ttl) ==
    /\ adapter = "memory"
    /\ enabled
    /\ entryKeyMap' = Mapped(e, k)
    /\ mem' \in Set(mem, k, r, IF ttl = Forever THEN Forever ELSE now + ttl, now)
    /\ UseOf({k})
    /\ UNCHANGED <<setup, now, redis, enabled, blocks, calls, cleaner>>

\* get_by_task_id(), which does not look at enabled.
GetByTaskId(r) ==
    /\ adapter = "memory"
    /\ r \in DOMAIN entryKeyMap
    /\ mem' = Get(mem, entryKeyMap[r], now)
    /\ UseOf({entryKeyMap[r]})
    /\ UNCHANGED <<setup, now, redis, enabled, blocks, entryKeyMap, calls, cleaner>>

\* invalidate()
InvalidateMemory(e, k) ==
    /\ adapter = "memory"
    /\ entryKeyMap' = Unmapped(e)
    /\ mem' = Delete(mem, k)
    /\ UseOf({})
    /\ UNCHANGED <<setup, now, redis, enabled, blocks, calls, cleaner>>

\* invalidate_by_id(): the mapping goes only if there was a value to delete.
InvalidateByIdMemory(r) ==
    /\ adapter = "memory"
    /\ r \in DOMAIN entryKeyMap
    /\ entryKeyMap[r] \in DOMAIN mem.cache
    /\ mem' = Delete(mem, entryKeyMap[r])
    /\ entryKeyMap' = Unmapped(r)
    /\ UseOf({})
    /\ UNCHANGED <<setup, now, redis, enabled, blocks, calls, cleaner>>

\* AsyncTaskWorker.invalidate_cache(), byId if the caller names the task: that
\* task's value, else the value under the key that add_task() would have used,
\* else all values whose key begins with the name of the function.
InvalidateCache(r, byId) ==
    /\ adapter = "memory"
    /\ keyFn # "default"
    /\ enabled
    /\ LET stored == {e \in DOMAIN entryKeyMap : entryKeyMap[e] \in DOMAIN mem.cache}
           normal == NormalKey(BuildContext(r, NoEntry))
       IN \/ /\ byId /\ r \in stored
             /\ mem' = Delete(mem, entryKeyMap[r])
             /\ entryKeyMap' = Unmapped(r)
          \/ /\ ~(byId /\ r \in stored)
             /\ normal \in DOMAIN mem.cache
             /\ mem' = Delete(mem, normal)
             /\ UNCHANGED entryKeyMap
          \/ /\ ~(byId /\ r \in stored)
             /\ normal \notin DOMAIN mem.cache
             /\ LET own == {e \in stored : entryKeyMap[e][1] = FunctionOf[r]} IN
                /\ mem' = Without(mem, {entryKeyMap[e] : e \in own})
                /\ entryKeyMap' = Less(entryKeyMap, own)
    /\ UseOf({})
    /\ UNCHANGED <<setup, now, redis, enabled, blocks, calls, cleaner>>

\* clear()
ClearMemory ==
    /\ adapter = "memory"
    /\ mem' = Empty
    /\ UseOf({})
    /\ entryKeyMap' = Nothing
    /\ UNCHANGED <<setup, now, redis, enabled, blocks, calls, cleaner>>

-----------------------------------------------------------------------------
(* Calls over RedisCacheAdapter: what a call does before it waits for the  *)
(* server, what the server does, and what the call does with the answer.   *)

Waits(c, call) == adapter = "redis" /\ calls[c] = Idle /\ calls' = [calls EXCEPT ![c] = call]
Returns(c) == calls' = [calls EXCEPT ![c] = Idle]

GetRedis(e, k) ==
    /\ adapter = "redis"
    /\ enabled
    /\ entryKeyMap' = Mapped(e, k)
    /\ UNCHANGED <<setup, memory, redis, enabled, blocks, calls, cleaner>>

SetRedis(c, r, e, k) ==
    /\ enabled
    /\ Waits(c, [op |-> "set", r |-> r, key |-> k])
    /\ entryKeyMap' = Mapped(e, k)
    /\ UNCHANGED <<setup, memory, redis, enabled, blocks, cleaner>>

\* The server stores the value, or the request fails; set() is True anyway.
StoreRedis(c) ==
    /\ calls[c].op = "set"
    /\ redis' \in {redis, With(redis, calls[c].key, calls[c].r)}
    /\ Returns(c)
    /\ UNCHANGED <<setup, memory, enabled, blocks, entryKeyMap, cleaner>>

InvalidateRedis(c, e, k) ==
    /\ Waits(c, [op |-> "delete", key |-> k])
    /\ entryKeyMap' = Unmapped(e)
    /\ UNCHANGED <<setup, memory, redis, enabled, blocks, cleaner>>

DeleteRedis(c) ==
    /\ calls[c].op = "delete"
    /\ redis' \in {redis, Less(redis, {calls[c].key})}
    /\ Returns(c)
    /\ UNCHANGED <<setup, memory, enabled, blocks, entryKeyMap, cleaner>>

InvalidateByIdRedis(c, r) ==
    /\ r \in DOMAIN entryKeyMap
    /\ Waits(c, [op |-> "delete by id", r |-> r, key |-> entryKeyMap[r]])
    /\ UNCHANGED <<setup, memory, redis, enabled, blocks, entryKeyMap, cleaner>>

\* Only if the server says that there was a value does the mapping go, in the
\* next step and whatever it maps to by then.
DeleteByIdRedis(c) ==
    /\ calls[c].op = "delete by id"
    /\ \/ /\ calls[c].key \in DOMAIN redis
          /\ redis' = Less(redis, {calls[c].key})
          /\ calls' = [calls EXCEPT ![c] = [op |-> "unmap", r |-> calls[c].r, key |-> calls[c].key]]
       \/ UNCHANGED redis /\ Returns(c)
    /\ UNCHANGED <<setup, memory, enabled, blocks, entryKeyMap, cleaner>>

UnmapRedis(c) ==
    /\ calls[c].op = "unmap"
    /\ entryKeyMap' = Unmapped(calls[c].r)
    /\ Returns(c)
    /\ UNCHANGED <<setup, memory, redis, enabled, blocks, cleaner>>

\* clear(): the keys are looked for, then deleted, then the mappings go.
ClearRedis(c) ==
    /\ Waits(c, [op |-> "erase", keys |-> DOMAIN redis])
    /\ UNCHANGED <<setup, memory, redis, enabled, blocks, entryKeyMap, cleaner>>

EraseRedis(c) ==
    /\ calls[c].op = "erase"
    /\ redis' \in {redis, Less(redis, calls[c].keys)}
    /\ calls' = [calls EXCEPT ![c] = [op |-> "unmap all"]]
    /\ UNCHANGED <<setup, memory, enabled, blocks, entryKeyMap, cleaner>>

UnmapAllRedis(c) ==
    /\ calls[c].op = "unmap all"
    /\ entryKeyMap' = Nothing
    /\ Returns(c)
    /\ UNCHANGED <<setup, memory, redis, enabled, blocks, cleaner>>

\* The ttl of a key ends, or the server needs the memory.
RedisForget(k) ==
    /\ k \in DOMAIN redis
    /\ redis' = Less(redis, {k})
    /\ UNCHANGED <<setup, memory, enabled, blocks, entryKeyMap, calls, cleaner>>

-----------------------------------------------------------------------------
(* The clean-up of stale mappings.                                         *)

StartCleanupTask ==
    /\ cleanPc = "none"
    /\ cleanPc' = "sleeping"
    /\ UNCHANGED <<setup, memory, redis, enabled, blocks, entryKeyMap, calls,
                   cleanStop, todo, stale>>

\* Seeded fault: every mapping is taken for stale.
CleanupMemory_All ==
    /\ adapter = "memory"
    /\ cleanPc = "sleeping" /\ ~cleanStop
    /\ entryKeyMap' = Nothing
    /\ UNCHANGED <<setup, memory, redis, enabled, blocks, calls, cleaner>>

\* Seeded fault: the clean-up finds nothing.
CleanupMemory_None ==
    /\ adapter = "memory"
    /\ cleanPc = "sleeping" /\ ~cleanStop
    /\ UNCHANGED vars

\* _cleanup_stale_mappings() over MemoryCacheAdapter: its lookups are uses of
\* the values, and remove the expired ones.
CleanupMemory ==
    /\ adapter = "memory"
    /\ cleanPc = "sleeping" /\ ~cleanStop
    /\ LET keys == {entryKeyMap[e] : e \in DOMAIN entryKeyMap}
           hits == {k \in keys : Hit(mem, k, now)}
           left == Without(mem, keys \ hits)
       IN /\ mem' = [ cache  |-> left.cache,
                     access |-> [k \in DOMAIN left.access |->
                                    IF k \in hits THEN now ELSE left.access[k]] ]
          /\ UseOf(hits)
          /\ entryKeyMap' = Less(entryKeyMap, {e \in DOMAIN entryKeyMap : entryKeyMap[e] \notin hits})
    /\ UNCHANGED <<setup, now, redis, enabled, blocks, calls, cleaner>>

\* The same over RedisCacheAdapter: the ids are read at once, ...
CleanupScan ==
    /\ adapter = "redis"
    /\ cleanPc = "sleeping" /\ ~cleanStop
    /\ DOMAIN entryKeyMap # {}
    /\ cleanPc' = "checking"
    /\ todo' = DOMAIN entryKeyMap
    /\ UNCHANGED <<setup, memory, redis, enabled, blocks, entryKeyMap, calls, cleanStop, stale>>

\* ... looked up one by one, where a failed lookup is a miss, ...
CleanupCheck(e) ==
    /\ cleanPc = "checking" /\ ~cleanStop
    /\ e \in todo
    /\ todo' = todo \ {e}
    /\ \/ /\ e \in DOMAIN entryKeyMap
          /\ stale' = stale \union {e}
       \/ /\ e \in DOMAIN entryKeyMap => entryKeyMap[e] \in DOMAIN redis
          /\ UNCHANGED stale
    /\ UNCHANGED <<setup, memory, redis, enabled, blocks, entryKeyMap, calls, cleanPc, cleanStop>>

\* ... and removed together.
CleanupRemove ==
    /\ cleanPc = "checking" /\ ~cleanStop
    /\ todo = {}
    /\ entryKeyMap' = Less(entryKeyMap, stale)
    /\ stale' = {}
    /\ cleanPc' = "sleeping"
    /\ UNCHANGED <<setup, memory, redis, enabled, blocks, calls, cleanStop, todo>>

\* stop_cleanup_task() cancels the loop and waits for its end; until then
\* start_cleanup_task() does nothing.
StopCleanupTask ==
    /\ cleanPc \in {"sleeping", "checking"}
    /\ ~cleanStop
    /\ cleanStop' = TRUE
    /\ UNCHANGED <<setup, memory, redis, enabled, blocks, entryKeyMap, calls, cleanPc, todo, stale>>

CleanupCancelled ==
    /\ cleanPc \in {"sleeping", "checking"}
    /\ cleanStop
    /\ cleanPc' = "over"
    /\ todo' = {}
    /\ stale' = {}
    /\ UNCHANGED <<setup, memory, redis, enabled, blocks, entryKeyMap, calls, cleanStop>>

StopCleanupReturn ==
    /\ cleanPc = "over"
    /\ cleanPc' = "none"
    /\ cleanStop' = FALSE
    /\ UNCHANGED <<setup, memory, redis, enabled, blocks, entryKeyMap, calls, todo, stale>>

-----------------------------------------------------------------------------
MemoryCalls ==
    \/ \E r \in Asked[adapter] : \E e \in Entries(r) : \E k \in KeysOf(r, e) :
          \/ GetMemory(e, k) \/ InvalidateMemory(e, k)
          \/ \E ttl \in Ttls : SetMemory(r, e, k, ttl)
    \/ \E r \in Asked[adapter] :
          \/ GetByTaskId(r) \/ InvalidateByIdMemory(r)
          \/ \E byId \in BOOLEAN : InvalidateCache(r, byId)
    \/ ClearMemory

RedisCalls ==
    \/ \E r \in Asked[adapter] : \E e \in Entries(r) : \E k \in KeysOf(r, e) :
          \/ GetRedis(e, k)
          \/ \E c \in Callers : SetRedis(c, r, e, k) \/ InvalidateRedis(c, e, k)
    \/ \E c \in Callers :
          \/ \E r \in Asked[adapter] : InvalidateByIdRedis(c, r)
          \/ StoreRedis(c) \/ DeleteRedis(c) \/ DeleteByIdRedis(c) \/ UnmapRedis(c)
          \/ ClearRedis(c) \/ EraseRedis(c) \/ UnmapAllRedis(c)
    \/ \E k \in Keys : RedisForget(k)

Cleanup ==
    \/ CleanupMemory \/ CleanupScan \/ CleanupRemove
    \/ \E e \in Requests : CleanupCheck(e)

Stopping == StopCleanupTask \/ CleanupCancelled \/ StopCleanupReturn

Next ==
    \/ Tick \/ Disable \/ Restore
    \/ MemoryCalls \/ RedisCalls
    \/ StartCleanupTask \/ Cleanup \/ Stopping

Spec == Init /\ [][Next]_vars

-----------------------------------------------------------------------------
(* Properties.                                                             *)

\* The values under the keys in K were computed by calls of the function of r
\* with the arguments of r.
Own(r, K) ==
    /\ \A k \in K \intersect DOMAIN mem.cache : CallOf(mem.cache[k].value) = CallOf(r)
    /\ \A k \in K \intersect DOMAIN redis : CallOf(redis[k]) = CallOf(r)

\* Nobody gets the result of another call, neither by its own function and
\* arguments nor by its task id.
OwnResult ==
    /\ \A r \in Requests : \A e \in Entries(r) : Own(r, KeysOf(r, e))
    /\ \A r \in DOMAIN entryKeyMap : Own(r, {entryKeyMap[r]})

\* What holds of it under each key function.  With the one that add_task()
\* attaches it fails; with the one of AsyncCacheAdapter a call that names no
\* task gets the result of any other such call of its function, but whoever
\* names the task gets the task's own result and nobody else's.
KeysTellCallsApart ==
    keyFn # "normal" =>
        /\ \A r \in Requests : \A e \in Entries(r) :
              keyFn = "default" \/ e # NoEntry => Own(r, KeysOf(r, e))
        /\ \A r \in DOMAIN entryKeyMap : Own(r, {entryKeyMap[r]})

\* The two dictionaries of MemoryCacheAdapter have the same keys, or a del
\* would raise KeyError, and no more of them than max_size; except that with
\* max_size 0 there is one, since there is nothing to evict for the first.
MemoryBounded ==
    /\ DOMAIN mem.access = DOMAIN mem.cache
    /\ Cardinality(DOMAIN mem.cache) <= IF MaxSize = 0 THEN 1 ELSE MaxSize

\* A value that makes room for another was not used later than any that
\* stays, whatever calls, and rounds of the clean-up, used them.
LeastRecentlyUsedGoes ==
    [][DOMAIN mem'.cache \ DOMAIN mem.cache # {} =>
          \A k \in DOMAIN mem.cache \ DOMAIN mem'.cache,
             j \in DOMAIN mem.cache \intersect DOMAIN mem'.cache : used[k] <= used[j]]_vars

\* A mapping is not removed from under a value: "all valid mappings are
\* preserved", by the clean-up and by every call.  The exception is a call of
\* invalidate() with arguments that cannot be encoded, which deletes the value
\* of a new key and the mapping of the value there is.  Over Redis a failed
\* lookup is enough.
MappingsOutliveValues ==
    [][adapter = "memory" =>
          \A e \in DOMAIN entryKeyMap \ DOMAIN entryKeyMap' :
             \/ ~Hit(mem', entryKeyMap[e], now')
             \/ /\ keyFn = "default" /\ ArgsOf[e] \in Unencodable
                /\ \E k \in KeysOf(e, e) : InvalidateMemory(e, k)]_vars

\* Nothing is stored inside a temporarily_disabled() block, however deep
\* blocks are nested and whichever of them have ended.
DisabledStoresNothing ==
    [][blocks # <<>> /\ adapter = "memory" =>
          \A k \in DOMAIN mem'.cache : k \in DOMAIN mem.cache /\ mem'.cache[k] = mem.cache[k]]_vars

\* The event loop wakes the clean-up loop; nothing is assumed of the clients.
CleanupFairness ==
    /\ WF_vars(CleanupMemory)
    /\ WF_vars(CleanupScan)
    /\ WF_vars(\E e \in Requests : CleanupCheck(e))
    /\ WF_vars(CleanupRemove)

FairSpec == Spec /\ CleanupFairness

CleanupRuns == cleanPc \in {"sleeping", "checking"} /\ ~cleanStop

Stale(e) == e \in DOMAIN entryKeyMap /\ ~Live(entryKeyMap[e])

\* "No memory leaks from expired cache entries": while the clean-up runs, a
\* mapping whose value is gone does not stay.
StaleMappingsGo ==
    \A e \in Requests : Stale(e) ~> ~Stale(e) \/ ~CleanupRuns
=============================================================================
