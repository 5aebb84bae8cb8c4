--------------------------- MODULE AsyncCacheProofs ---------------------------
(***************************************************************************)
(* The types of AsyncCache, the bound and the order of its evictions, that *)
(* every value is found only by its own calls, that nothing is stored in a *)
(* temporarily_disabled() block, and that no mapping is removed from under *)
(* a value, for any requests, callers, ttls and bounds.                    *)
(***************************************************************************)
EXTENDS AsyncCache, FiniteSetTheorems, SequenceTheorems, TLAPS

IsAFunction(f) == f = [x \in DOMAIN f |-> f[x]]

\* m is a record of two dictionaries with the same keys.
Shape(m) ==
    /\ m = [cache |-> m.cache, access |-> m.access]
    /\ IsAFunction(m.cache)
    /\ IsAFunction(m.access)
    /\ DOMAIN m.access = DOMAIN m.cache

\* n has no values that m does not have.
Shrinks(m, n) ==
    \A k \in DOMAIN n.cache : k \in DOMAIN m.cache /\ n.cache[k] = m.cache[k]

\* From m to n, what is in K was used at time t and nothing else was.
Touched(m, n, K, t) ==
    \A k \in DOMAIN n.access :
        /\ k \in K => n.access[k] = t
        /\ k \notin K => k \in DOMAIN m.access /\ n.access[k] = m.access[k]

-----------------------------------------------------------------------------
(* The operators on dictionaries and on the memory.                        *)

\* What With() makes: the function one expects.
LEMMA WithIs ==
    ASSUME NEW f, NEW k, NEW v
    PROVE  /\ IsAFunction(With(f, k, v))
           /\ DOMAIN With(f, k, v) = DOMAIN f \union {k}
           /\ With(f, k, v)[k] = v
           /\ \A x \in DOMAIN f \ {k} : With(f, k, v)[x] = f[x]
  BY DEF With, IsAFunction

\* What Less() makes.
LEMMA LessIs ==
    ASSUME NEW f, NEW K
    PROVE  /\ IsAFunction(Less(f, K))
           /\ DOMAIN Less(f, K) = DOMAIN f \ K
           /\ \A x \in DOMAIN f \ K : Less(f, K)[x] = f[x]
  BY DEF Less, Restrict, IsAFunction

\* Removing keys from both dictionaries.
LEMMA WithoutStep ==
    ASSUME NEW m, Shape(m), NEW K, NEW t
    PROVE  /\ Shape(Without(m, K))
           /\ Shrinks(m, Without(m, K))
           /\ Touched(m, Without(m, K), {}, t)
           /\ DOMAIN Without(m, K).cache = DOMAIN m.cache \ K
  <1>1. /\ Without(m, K).cache = Less(m.cache, K)
        /\ Without(m, K).access = Less(m.access, K)
        /\ Without(m, K) = [cache |-> Without(m, K).cache, access |-> Without(m, K).access]
    BY DEF Without
  <1>2. /\ IsAFunction(Less(m.cache, K))
        /\ DOMAIN Less(m.cache, K) = DOMAIN m.cache \ K
        /\ \A x \in DOMAIN m.cache \ K : Less(m.cache, K)[x] = m.cache[x]
    BY LessIs
  <1>3. /\ IsAFunction(Less(m.access, K))
        /\ DOMAIN Less(m.access, K) = DOMAIN m.access \ K
        /\ \A x \in DOMAIN m.access \ K : Less(m.access, K)[x] = m.access[x]
    BY LessIs
  <1>4. DOMAIN m.access = DOMAIN m.cache
    BY DEF Shape
  <1>5. Shape(Without(m, K))
    BY <1>1, <1>2, <1>3, <1>4 DEF Shape
  <1>6. Shrinks(m, Without(m, K))
    BY <1>1, <1>2 DEF Shrinks
  <1>7. Touched(m, Without(m, K), {}, t)
    BY <1>1, <1>3 DEF Touched
  <1> QED
    BY <1>1, <1>2, <1>5, <1>6, <1>7

\* m with the times of the keys in H set to t.
LEMMA TouchStep ==
    ASSUME NEW m, Shape(m), NEW a, NEW H, NEW t,
           IsAFunction(a), DOMAIN a = DOMAIN m.access,
           \A k \in DOMAIN a : a[k] = IF k \in H THEN t ELSE m.access[k]
    PROVE  LET n == [cache |-> m.cache, access |-> a] IN
           Shape(n) /\ Shrinks(m, n) /\ Touched(m, n, H, t)
  BY DEF Shape, Shrinks, Touched

\* get()
LEMMA GetStep ==
    ASSUME NEW m, Shape(m), NEW k, NEW t
    PROVE  Shape(Get(m, k, t)) /\ Shrinks(m, Get(m, k, t)) /\ Touched(m, Get(m, k, t), {k}, t)
  <1>1. CASE Hit(m, k, t)
    <2> DEFINE a == With(m.access, k, t)
    <2>1. k \in DOMAIN m.access
      BY <1>1 DEF Hit, Shape
    <2>2. /\ IsAFunction(a)
          /\ DOMAIN a = DOMAIN m.access
          /\ \A x \in DOMAIN a : a[x] = IF x \in {k} THEN t ELSE m.access[x]
      BY <2>1 DEF With, IsAFunction
    <2>3. Get(m, k, t) = [cache |-> m.cache, access |-> a]
      BY <1>1 DEF Get
    <2> HIDE DEF a
    <2> QED
      BY <2>2, <2>3, TouchStep
  <1>2. CASE ~Hit(m, k, t) /\ k \in DOMAIN m.cache
    <2>1. Get(m, k, t) = Without(m, {k})
      BY <1>2 DEF Get
    <2>2. DOMAIN Without(m, {k}).access = DOMAIN m.cache \ {k}
      BY WithoutStep DEF Shape
    <2>3. Touched(m, Without(m, {k}), {}, t)
      BY WithoutStep
    <2>4. Touched(m, Without(m, {k}), {k}, t)
      BY <2>2, <2>3 DEF Touched
    <2>5. Shape(Without(m, {k})) /\ Shrinks(m, Without(m, {k}))
      BY WithoutStep
    <2> QED
      BY <2>1, <2>4, <2>5
  <1>3. CASE ~Hit(m, k, t) /\ k \notin DOMAIN m.cache
    <2>1. Get(m, k, t) = m
      BY <1>3 DEF Get
    <2> QED
      BY <1>3, <2>1 DEF Shape, Shrinks, Touched
  <1> QED
    BY <1>1, <1>2, <1>3

\* m after a round of the clean-up that misses K and hits H.
Swept(m, K, H, t) ==
    [ cache  |-> Without(m, K).cache,
      access |-> [k \in DOMAIN Without(m, K).access |-> IF k \in H THEN t ELSE Without(m, K).access[k]] ]

\* A round of the clean-up.
LEMMA SweptStep ==
    ASSUME NEW m, Shape(m), NEW K, NEW H, NEW t
    PROVE  Shape(Swept(m, K, H, t)) /\ Shrinks(m, Swept(m, K, H, t)) /\ Touched(m, Swept(m, K, H, t), H, t)
  <1> DEFINE n == Swept(m, K, H, t)
             left == Without(m, K)
             a == [k \in DOMAIN left.access |-> IF k \in H THEN t ELSE left.access[k]]
  <1>1. Shape(left) /\ Shrinks(m, left) /\ Touched(m, left, {}, t)
    BY WithoutStep
  <1>2. n = [cache |-> left.cache, access |-> a]
    BY DEF Swept
  <1>3. /\ IsAFunction(a)
        /\ DOMAIN a = DOMAIN left.access
        /\ \A k \in DOMAIN a : a[k] = IF k \in H THEN t ELSE left.access[k]
    BY DEF IsAFunction
  <1> HIDE DEF n, left, a
  <1>4. Shape(n) /\ Shrinks(left, n) /\ Touched(left, n, H, t)
    BY <1>1, <1>2, <1>3, TouchStep
  <1>5. Shrinks(m, n)
    BY <1>1, <1>4 DEF Shrinks
  <1>6. Touched(m, n, H, t)
    BY <1>1, <1>4 DEF Touched
  <1> QED
    BY <1>4, <1>5, <1>6 DEF n

\* What MemoryBounded allows.
Limit == IF MaxSize = 0 THEN 1 ELSE MaxSize

Fits(m) == IsFiniteSet(DOMAIN m.cache) /\ Cardinality(DOMAIN m.cache) <= Limit

\* The limit is at least one entry.
LEMMA LimitIsNat == Limit \in Nat /\ Limit >= 1 /\ (MaxSize > 0 => Limit = MaxSize)
  BY MaxSizeAssumption DEF Limit

\* What only loses values stays within the limit.
LEMMA ShrinksFits ==
    ASSUME NEW m, NEW n, Fits(m), Shrinks(m, n)
    PROVE  Fits(n)
  <1>1. DOMAIN n.cache \in SUBSET DOMAIN m.cache
    BY DEF Shrinks
  <1>2. IsFiniteSet(DOMAIN m.cache)
    BY DEF Fits
  <1>3. IsFiniteSet(DOMAIN n.cache) /\ Cardinality(DOMAIN n.cache) <= Cardinality(DOMAIN m.cache)
    BY <1>1, <1>2, FS_Subset
  <1>4. Cardinality(DOMAIN n.cache) \in Nat /\ Cardinality(DOMAIN m.cache) \in Nat
    BY <1>2, <1>3, FS_CardinalityType
  <1> QED
    BY <1>3, <1>4, LimitIsNat DEF Fits

\* _evict_one() makes room: what is left has the limit to spare, or has k.
LEMMA RoomStep ==
    ASSUME NEW m, Shape(m), Fits(m), NEW k, NEW t, NEW n \in Room(m, k)
    PROVE  /\ Shape(n)
           /\ Shrinks(m, n)
           /\ Touched(m, n, {}, t)
           /\ Fits(n)
           /\ k \in DOMAIN n.cache \/ Cardinality(DOMAIN n.cache) < Limit
           /\ \A v \in DOMAIN m.cache \ DOMAIN n.cache : v \in Oldest(m)
  <1>1. IsFiniteSet(DOMAIN m.cache) /\ Cardinality(DOMAIN m.cache) <= Limit
    BY DEF Fits
  <1>2. Cardinality(DOMAIN m.cache) \in Nat
    BY <1>1, FS_CardinalityType
  <1>3. CASE Full(m, k) /\ DOMAIN m.access # {}
    <2>1. PICK v \in Oldest(m) : n = Without(m, {v})
      BY <1>3 DEF Room
    <2>2. v \in DOMAIN m.cache
      BY DEF Oldest, Shape
    <2>3. Shape(n) /\ Shrinks(m, n) /\ Touched(m, n, {}, t) /\ DOMAIN n.cache = DOMAIN m.cache \ {v}
      BY <2>1, WithoutStep
    <2>4. Cardinality(DOMAIN n.cache) = Cardinality(DOMAIN m.cache) - 1
      BY <1>1, <2>2, <2>3, FS_RemoveElement
    <2>5. Cardinality(DOMAIN n.cache) < Limit
      BY <1>1, <1>2, <2>4, LimitIsNat
    <2>6. \A w \in DOMAIN m.cache \ DOMAIN n.cache : w \in Oldest(m)
      BY <2>3
    <2> QED
      BY <2>3, <2>5, <2>6, ShrinksFits
  <1>4. CASE ~(Full(m, k) /\ DOMAIN m.access # {})
    <2>1. n = m
      BY <1>4 DEF Room
    <2>2. Shrinks(m, n) /\ Touched(m, n, {}, t)
      BY <2>1 DEF Shrinks, Touched
    <2>3. ASSUME ~Full(m, k)
          PROVE  k \in DOMAIN m.cache \/ Cardinality(DOMAIN m.cache) < Limit
      BY <1>2, <2>3, MaxSizeAssumption DEF Full, Limit
    <2>4. ASSUME DOMAIN m.access = {}
          PROVE  Cardinality(DOMAIN m.cache) < Limit
      <3>1. DOMAIN m.cache = {}
        BY <2>4 DEF Shape
      <3>2. Cardinality(DOMAIN m.cache) = 0
        BY <3>1, FS_EmptySet
      <3> QED
        BY <3>2, LimitIsNat
    <2>5. k \in DOMAIN n.cache \/ Cardinality(DOMAIN n.cache) < Limit
      BY <1>4, <2>1, <2>3, <2>4
    <2> QED
      BY <2>1, <2>2, <2>5
  <1> QED
    BY <1>3, <1>4

\* What set() stores.
Stored(v, x) == [value |-> v, expiry |-> x]

\* set()
LEMMA SetStep ==
    ASSUME NEW m, Shape(m), Fits(m), NEW k, NEW v, NEW x, NEW t, NEW n \in Set(m, k, v, x, t)
    PROVE  /\ Shape(n)
           /\ Touched(m, n, {k}, t)
           /\ Fits(n)
           /\ k \in DOMAIN n.cache
           /\ n.cache[k] = Stored(v, x)
           /\ \A j \in DOMAIN n.cache \ {k} : j \in DOMAIN m.cache /\ n.cache[j] = m.cache[j]
           /\ \A j \in DOMAIN m.cache \ DOMAIN n.cache : j \in Oldest(m)
  <1> DEFINE e == Stored(v, x)
  <1>1. PICK r \in Room(m, k) : n = [cache |-> With(r.cache, k, e), access |-> With(r.access, k, t)]
    BY DEF Set, Stored
  <1>2. /\ Shape(r) /\ Shrinks(m, r) /\ Touched(m, r, {}, t) /\ Fits(r)
        /\ k \in DOMAIN r.cache \/ Cardinality(DOMAIN r.cache) < Limit
        /\ \A j \in DOMAIN m.cache \ DOMAIN r.cache : j \in Oldest(m)
    BY RoomStep
  <1>3. n.cache = With(r.cache, k, e) /\ n.access = With(r.access, k, t)
    BY <1>1
  <1> HIDE DEF e
  <1>4. /\ IsAFunction(n.cache)
        /\ DOMAIN n.cache = DOMAIN r.cache \union {k}
        /\ n.cache[k] = e
        /\ \A j \in DOMAIN r.cache \ {k} : n.cache[j] = r.cache[j]
    BY <1>3 DEF With, IsAFunction
  <1>5. /\ IsAFunction(n.access)
        /\ DOMAIN n.access = DOMAIN r.access \union {k}
        /\ n.access[k] = t
        /\ \A j \in DOMAIN r.access \ {k} : n.access[j] = r.access[j]
    BY <1>3 DEF With, IsAFunction
  <1>6. Shape(n)
    BY <1>1, <1>2, <1>3, <1>4, <1>5 DEF Shape
  <1>7. Touched(m, n, {k}, t)
    BY <1>2, <1>5 DEF Touched
  <1>8. Fits(n)
    <2>1. IsFiniteSet(DOMAIN r.cache) /\ Cardinality(DOMAIN r.cache) <= Limit
      BY <1>2 DEF Fits
    <2>2. Cardinality(DOMAIN r.cache) \in Nat
      BY <2>1, FS_CardinalityType
    <2>3. /\ IsFiniteSet(DOMAIN n.cache)
          /\ Cardinality(DOMAIN n.cache) =
                IF k \in DOMAIN r.cache THEN Cardinality(DOMAIN r.cache) ELSE Cardinality(DOMAIN r.cache) + 1
      BY <1>4, <2>1, FS_AddElement
    <2> QED
      BY <1>2, <2>1, <2>2, <2>3, LimitIsNat DEF Fits
  <1>9. \A j \in DOMAIN n.cache \ {k} : j \in DOMAIN m.cache /\ n.cache[j] = m.cache[j]
    BY <1>2, <1>4 DEF Shrinks
  <1>10. \A j \in DOMAIN m.cache \ DOMAIN n.cache : j \in Oldest(m)
    BY <1>2, <1>4
  <1> QED
    BY <1>4, <1>6, <1>7, <1>8, <1>9, <1>10 DEF e

\* The value is what the caller gave.
LEMMA SetStores ==
    ASSUME NEW m, NEW k, NEW v, NEW x, NEW t, NEW n \in Set(m, k, v, x, t)
    PROVE  n.cache[k] = Stored(v, x)
  <1> DEFINE e == Stored(v, x)
  <1>1. PICK r \in Room(m, k) : n = [cache |-> With(r.cache, k, e), access |-> With(r.access, k, t)]
    BY DEF Set, Stored
  <1>2. n.cache = With(r.cache, k, e)
    BY <1>1
  <1> HIDE DEF e
  <1>3. n.cache[k] = e
    BY <1>2 DEF With
  <1> QED
    BY <1>3 DEF e

\* It changes no other value.
LEMMA SetKeeps ==
    ASSUME NEW m, Shape(m), Fits(m), NEW k, NEW v, NEW x, NEW t, NEW n \in Set(m, k, v, x, t)
    PROVE  \A j \in DOMAIN n.cache \ {k} : j \in DOMAIN m.cache /\ n.cache[j] = m.cache[j]
  BY SetStep

-----------------------------------------------------------------------------
(* What a step of the cache does to the memory.                            *)

\* The step leaves the memory alone, or only takes values from it and uses K.
Takes(K) ==
    /\ Shape(mem')
    /\ Shrinks(mem, mem')
    /\ Touched(mem, mem', K, now)
    /\ UseOf(K)
    /\ now' = now

\* The step is a set().
SetsMemory ==
    \E r \in Asked[adapter] : \E e \in Entries(r) : \E k \in KeysOf(r, e), ttl \in Ttls :
        SetMemory(r, e, k, ttl)

\* Every step leaves the memory alone, or takes from it, or is a set().
LEMMA MemoryStep ==
    ASSUME Shape(mem), [Next]_vars
    PROVE  \/ UNCHANGED <<mem, used>>
           \/ \E K : Takes(K)
           \/ SetsMemory
  <1>1. CASE UNCHANGED vars
    BY <1>1 DEF vars, memory
  <1>2. CASE Tick \/ Disable \/ Restore
    BY <1>2 DEF Tick, Disable, Restore, memory
  <1>3. CASE SetsMemory
    BY <1>3
  <1>4. ASSUME NEW e, NEW k, GetMemory(e, k) PROVE Takes({k})
    BY <1>4, GetStep DEF GetMemory, Takes
  <1>5. ASSUME NEW r, GetByTaskId(r) PROVE Takes({entryKeyMap[r]})
    BY <1>5, GetStep DEF GetByTaskId, Takes
  <1>6. ASSUME NEW e, NEW k, InvalidateMemory(e, k) \/ InvalidateByIdMemory(e) PROVE Takes({})
    BY <1>6, WithoutStep DEF InvalidateMemory, InvalidateByIdMemory, Delete, Takes
  <1>7. ASSUME NEW r, NEW byId \in BOOLEAN, InvalidateCache(r, byId) PROVE Takes({})
    <2>1. \E K : mem' = Without(mem, K)
      BY <1>7 DEF InvalidateCache, Delete
    <2>2. UseOf({}) /\ now' = now
      BY <1>7 DEF InvalidateCache
    <2> QED
      BY <2>1, <2>2, WithoutStep DEF Takes
  <1>8. CASE ClearMemory
    <2>1. mem' = Empty /\ UseOf({}) /\ now' = now
      BY <1>8 DEF ClearMemory
    <2>2. Shape(Empty) /\ Shrinks(mem, Empty) /\ Touched(mem, Empty, {}, now)
      BY DEF Empty, Shape, Shrinks, Touched, IsAFunction
    <2> QED
      BY <2>1, <2>2 DEF Takes
  <1>9. CASE RedisCalls
    BY <1>9 DEF RedisCalls, GetRedis, SetRedis, StoreRedis, InvalidateRedis, DeleteRedis,
       InvalidateByIdRedis, DeleteByIdRedis, UnmapRedis, ClearRedis, EraseRedis, UnmapAllRedis,
       RedisForget, memory
  <1>10. CASE CleanupMemory
    <2> DEFINE keys == {entryKeyMap[e] : e \in DOMAIN entryKeyMap}
               hits == {k \in keys : Hit(mem, k, now)}
    <2>1. mem' = Swept(mem, keys \ hits, hits, now) /\ UseOf(hits) /\ now' = now
      BY <1>10 DEF CleanupMemory, Swept
    <2> HIDE DEF keys, hits
    <2>2. Shape(mem') /\ Shrinks(mem, mem') /\ Touched(mem, mem', hits, now)
      BY <2>1, SweptStep
    <2>3. Takes(hits)
      BY <2>1, <2>2 DEF Takes
    <2> QED
      BY <2>3
  <1>11. CASE StartCleanupTask \/ CleanupScan \/ CleanupRemove \/ (\E e \in Requests : CleanupCheck(e)) \/ Stopping
    BY <1>11 DEF StartCleanupTask, CleanupScan, CleanupRemove, CleanupCheck, Stopping, StopCleanupTask,
       CleanupCancelled, StopCleanupReturn, memory
  <1> QED
    BY <1>1, <1>2, <1>3, <1>4, <1>5, <1>6, <1>7, <1>8, <1>9, <1>10, <1>11
       DEF Next, MemoryCalls, Cleanup, SetsMemory

-----------------------------------------------------------------------------
(* The bound, and the order of evictions.                                  *)

\* Inductive: the adapter's own times are the times of the uses.
MemInv == Shape(mem) /\ Fits(mem) /\ used = mem.access

\* Before any call the memory is empty.
LEMMA MemInvInit == Init => MemInv
  <1> SUFFICES ASSUME Init PROVE MemInv
    OBVIOUS
  <1>1. mem = Empty /\ used = [k \in {} |-> k]
    BY DEF Init, Nothing
  <1>2. Shape(Empty) /\ Empty.access = [k \in {} |-> k] /\ DOMAIN Empty.cache = {}
    BY DEF Empty, Shape, IsAFunction
  <1>3. Fits(Empty)
    BY <1>2, FS_EmptySet, LimitIsNat DEF Fits
  <1> QED
    BY <1>1, <1>2, <1>3 DEF MemInv

\* UseOf(K) repeats in the history what Touched() says of the times.
LEMMA UseOfIsTouched ==
    ASSUME NEW K, Shape(mem'), Touched(mem, mem', K, now), UseOf(K), used = mem.access
    PROVE  used' = mem'.access
  <1>1. used' = [k \in DOMAIN mem'.access |-> IF k \in K THEN now ELSE mem.access[k]]
    BY DEF UseOf, Shape
  <1>2. mem'.access = [k \in DOMAIN mem'.access |-> mem'.access[k]]
    BY DEF Shape, IsAFunction
  <1>3. \A k \in DOMAIN mem'.access : mem'.access[k] = IF k \in K THEN now ELSE mem.access[k]
    BY DEF Touched
  <1> QED
    BY <1>1, <1>2, <1>3

\* Every call keeps the bound and the times.
LEMMA MemInvStep == MemInv /\ [Next]_vars => MemInv'
  <1> SUFFICES ASSUME MemInv, [Next]_vars PROVE MemInv'
    OBVIOUS
  <1>0. Shape(mem) /\ Fits(mem) /\ used = mem.access
    BY DEF MemInv
  <1>1. CASE UNCHANGED <<mem, used>>
    BY <1>0, <1>1 DEF MemInv, Shape, Fits
  <1>2. ASSUME NEW K, Takes(K) PROVE MemInv'
    <2>1. Shape(mem') /\ Shrinks(mem, mem') /\ Touched(mem, mem', K, now) /\ UseOf(K)
      BY <1>2 DEF Takes
    <2>2. Fits(mem')
      BY <1>0, <2>1, ShrinksFits
    <2>3. used' = mem'.access
      BY <1>0, <2>1, UseOfIsTouched
    <2> QED
      BY <2>1, <2>2, <2>3 DEF MemInv, Shape, Fits
  <1>3. ASSUME NEW r, NEW e, NEW k, NEW ttl, SetMemory(r, e, k, ttl) PROVE MemInv'
    <2>1. mem' \in Set(mem, k, r, IF ttl = Forever THEN Forever ELSE now + ttl, now)
      BY <1>3 DEF SetMemory
    <2>2. UseOf({k})
      BY <1>3 DEF SetMemory
    <2>3. Shape(mem') /\ Touched(mem, mem', {k}, now) /\ Fits(mem')
      BY <1>0, <2>1, SetStep
    <2>4. used' = mem'.access
      BY <1>0, <2>2, <2>3, UseOfIsTouched
    <2> QED
      BY <2>3, <2>4 DEF MemInv, Shape, Fits
  <1> QED
    BY <1>0, <1>1, <1>2, <1>3, MemoryStep DEF SetsMemory

\* The two dictionaries of MemoryCacheAdapter have the same keys, and no more
\* than max_size of them, whatever calls are made and whatever the ttls.
THEOREM MemoryIsBounded == Spec => []MemoryBounded
  <1>1. MemInv => MemoryBounded
    BY DEF MemInv, Shape, Fits, Limit, MemoryBounded
  <1> QED
    BY <1>1, MemInvInit, MemInvStep, PTL DEF Spec

\* The step property of LeastRecentlyUsedGoes.
LeastRecent ==
    DOMAIN mem'.cache \ DOMAIN mem.cache # {} =>
        \A k \in DOMAIN mem.cache \ DOMAIN mem'.cache,
           j \in DOMAIN mem.cache \intersect DOMAIN mem'.cache : used[k] <= used[j]

\* set() evicts a value that was used no later than those that stay, although
\* the times are kept by every call on its own.
THEOREM LeastRecentlyUsedIsEvicted == Spec => LeastRecentlyUsedGoes
  <1>1. MemInv /\ [Next]_vars => LeastRecent
    <2> SUFFICES ASSUME MemInv, [Next]_vars PROVE LeastRecent
      OBVIOUS
    <2>0. Shape(mem) /\ Fits(mem) /\ used = mem.access
      BY DEF MemInv
    <2>1. CASE UNCHANGED <<mem, used>>
      BY <2>1 DEF LeastRecent
    <2>2. ASSUME NEW K, Takes(K) PROVE LeastRecent
      BY <2>2 DEF Takes, Shrinks, LeastRecent
    <2>3. ASSUME NEW r, NEW e, NEW k, NEW ttl, SetMemory(r, e, k, ttl) PROVE LeastRecent
      <3>1. mem' \in Set(mem, k, r, IF ttl = Forever THEN Forever ELSE now + ttl, now)
        BY <2>3 DEF SetMemory
      <3>2. \A j \in DOMAIN mem.cache \ DOMAIN mem'.cache : j \in Oldest(mem)
        BY <2>0, <3>1, SetStep
      <3> QED
        BY <2>0, <3>2 DEF LeastRecent, Oldest, Shape
    <2> QED
      BY <2>0, <2>1, <2>2, <2>3, MemoryStep DEF SetsMemory
  <1>2. Spec => [][LeastRecent]_vars
    BY <1>1, MemInvInit, MemInvStep, PTL DEF Spec
  <1> QED
    BY <1>2 DEF LeastRecentlyUsedGoes, LeastRecent

-----------------------------------------------------------------------------
(* The types.                                                              *)

\* The adapter and the key function of a cache never change.
LEMMA SetupStays == [Next]_vars => UNCHANGED setup
  BY DEF Next, MemoryCalls, RedisCalls, Cleanup, Stopping, vars, Tick, Disable, Restore, GetMemory,
     SetMemory, GetByTaskId, InvalidateMemory, InvalidateByIdMemory, InvalidateCache, ClearMemory,
     GetRedis, SetRedis, StoreRedis, InvalidateRedis, DeleteRedis, InvalidateByIdRedis,
     DeleteByIdRedis, UnmapRedis, ClearRedis, EraseRedis, UnmapAllRedis, RedisForget,
     StartCleanupTask, CleanupMemory, CleanupScan, CleanupCheck, CleanupRemove, StopCleanupTask,
     CleanupCancelled, StopCleanupReturn

\* Only requests are asked for.
LEMMA AskedIsRequest ==
    ASSUME adapter \in Adapters, NEW r \in Asked[adapter]
    PROVE  r \in Requests
  BY CacheAssumption

\* The keys made for a request are keys.
LEMMA KeyIsKey ==
    ASSUME keyFn \in KeyFns, NEW r \in Requests, NEW e \in Entries(r), NEW k \in KeysOf(r, e)
    PROVE  k \in Keys /\ e \in Requests \union {NoEntry}
  <1>1. e \in {r, NoEntry}
    BY DEF Entries
  <1>2. \E u \in Uuids : k = KeyBy(keyFn, BuildContext(r, e), u)
    BY DEF KeysOf
  <1> QED
    BY <1>1, <1>2 DEF Keys

\* A dictionary with one more entry of its types.
LEMMA WithDict ==
    ASSUME NEW f, NEW K, NEW V, IsDict(f, K, V), NEW k \in K, NEW v \in V
    PROVE  IsDict(With(f, k, v), K, V)
  BY DEF With, IsDict

\* A dictionary with fewer entries.
LEMMA LessDict ==
    ASSUME NEW f, NEW K, NEW V, IsDict(f, K, V), NEW S
    PROVE  IsDict(Less(f, S), K, V)
  BY DEF Less, Restrict, IsDict

\* The empty dictionary.
LEMMA NothingDict ==
    ASSUME NEW K, NEW V
    PROVE  IsDict(Nothing, K, V)
  BY DEF Nothing, IsDict

\* TypeOK without the memory.
MapType == IsDict(entryKeyMap, Requests, Keys)
RedisType == IsDict(redis, Keys, Requests)
CallsType == calls \in [Callers -> Call]
SwitchType == enabled \in BOOLEAN /\ blocks \in Seq(BOOLEAN) /\ Len(blocks) <= MaxDepth[adapter]
CleanerType ==
    /\ cleanPc \in {"none", "sleeping", "checking", "over"}
    /\ cleanStop \in BOOLEAN
    /\ todo \subseteq Requests
    /\ stale \subseteq Requests

MemType ==
    /\ now \in 0..MaxTime
    /\ IsDict(mem.cache, Keys, [value : Requests, expiry : Nat])
    /\ mem.access \in [DOMAIN mem.cache -> 0..now]
    /\ used \in [DOMAIN mem.cache -> 0..now]

\* TypeOK is the conjunction of its parts.
LEMMA TypeParts ==
    TypeOK <=> /\ adapter \in Adapters /\ keyFn \in KeyFns
               /\ MapType /\ RedisType /\ CallsType /\ SwitchType /\ CleanerType /\ MemType
  BY DEF TypeOK, MapType, RedisType, CallsType, SwitchType, CleanerType, MemType

\* Every step leaves entry_key_map alone, sets a mapping, or takes some away.
LEMMA MapChange ==
    ASSUME [Next]_vars
    PROVE  \/ UNCHANGED entryKeyMap
           \/ \E r \in Asked[adapter] : \E e \in Entries(r) : \E k \in KeysOf(r, e) : entryKeyMap' = Mapped(e, k)
           \/ \E S : entryKeyMap' = Less(entryKeyMap, S)
           \/ entryKeyMap' = Nothing
  BY DEF Next, MemoryCalls, RedisCalls, Cleanup, Stopping, vars, Tick, Disable, Restore, GetMemory,
     SetMemory, GetByTaskId, InvalidateMemory, InvalidateByIdMemory, InvalidateCache, ClearMemory,
     GetRedis, SetRedis, StoreRedis, InvalidateRedis, DeleteRedis, InvalidateByIdRedis,
     DeleteByIdRedis, UnmapRedis, ClearRedis, EraseRedis, UnmapAllRedis, RedisForget,
     StartCleanupTask, CleanupMemory, CleanupScan, CleanupCheck, CleanupRemove, StopCleanupTask,
     CleanupCancelled, StopCleanupReturn, Unmapped

\* entry_key_map keeps its type.
LEMMA MapStep ==
    ASSUME adapter \in Adapters, keyFn \in KeyFns, MapType, [Next]_vars
    PROVE  MapType'
  <1> USE DEF MapType
  <1>1. ASSUME NEW r \in Asked[adapter], NEW e \in Entries(r), NEW k \in KeysOf(r, e)
        PROVE  IsDict(Mapped(e, k), Requests, Keys)
    <2>1. k \in Keys /\ e \in Requests \union {NoEntry}
      BY AskedIsRequest, KeyIsKey
    <2> QED
      BY <2>1, WithDict DEF Mapped
  <1>2. \A S : IsDict(Less(entryKeyMap, S), Requests, Keys)
    BY LessDict
  <1>3. IsDict(Nothing, Requests, Keys)
    BY NothingDict
  <1>4. \/ UNCHANGED entryKeyMap
        \/ \E r \in Asked[adapter] : \E e \in Entries(r) : \E k \in KeysOf(r, e) : entryKeyMap' = Mapped(e, k)
        \/ \E S : entryKeyMap' = Less(entryKeyMap, S)
        \/ entryKeyMap' = Nothing
    BY MapChange
  <1> QED
    BY <1>1, <1>2, <1>3, <1>4

\* Appending to a sequence.
LEMMA AppendIs ==
    ASSUME NEW S, NEW s \in Seq(S), NEW x \in S
    PROVE  Append(s, x) \in Seq(S) /\ Len(Append(s, x)) = Len(s) + 1
  OBVIOUS

\* The blocks keep their type: each one nested in the others.
LEMMA SwitchStep ==
    ASSUME adapter \in Adapters, SwitchType, [Next]_vars
    PROVE  SwitchType'
  <1>0. adapter' = adapter
    BY SetupStays DEF setup
  <1>m. MaxDepth[adapter] \in Nat
    BY CacheAssumption
  <1>1. CASE Disable
    <2>1. blocks' = Append(blocks, enabled) /\ enabled' = FALSE /\ Len(blocks) < MaxDepth[adapter]
      BY <1>1 DEF Disable
    <2>2. enabled \in BOOLEAN /\ blocks \in Seq(BOOLEAN)
      BY DEF SwitchType
    <2>3. blocks' \in Seq(BOOLEAN) /\ Len(blocks') = Len(blocks) + 1
      BY <2>1, <2>2, AppendIs
    <2>4. Len(blocks) \in Nat
      BY <2>2
    <2>5. Len(blocks') <= MaxDepth[adapter]
      BY <1>m, <2>1, <2>3, <2>4
    <2> QED
      BY <1>0, <2>1, <2>3, <2>5 DEF SwitchType
  <1>2. CASE Restore
    <2>1. blocks # <<>> /\ enabled' = blocks[Len(blocks)] /\ blocks' = SubSeq(blocks, 1, Len(blocks) - 1)
      BY <1>2 DEF Restore
    <2> QED
      BY <1>0, <1>m, <2>1 DEF SwitchType
  <1>3. CASE UNCHANGED <<enabled, blocks>>
    BY <1>0, <1>3 DEF SwitchType
  <1>4. Disable \/ Restore \/ UNCHANGED <<enabled, blocks>>
    BY DEF Next, MemoryCalls, RedisCalls, Cleanup, Stopping, vars, Tick, GetMemory,
       SetMemory, GetByTaskId, InvalidateMemory, InvalidateByIdMemory, InvalidateCache, ClearMemory,
       GetRedis, SetRedis, StoreRedis, InvalidateRedis, DeleteRedis, InvalidateByIdRedis,
       DeleteByIdRedis, UnmapRedis, ClearRedis, EraseRedis, UnmapAllRedis, RedisForget,
       StartCleanupTask, CleanupMemory, CleanupScan, CleanupCheck, CleanupRemove, StopCleanupTask,
       CleanupCancelled, StopCleanupReturn
  <1> QED
    BY <1>1, <1>2, <1>3, <1>4

\* The clean-up keeps its type: what it looks up is mapped when it starts.
LEMMA CleanerStep ==
    ASSUME MapType, CleanerType, [Next]_vars
    PROVE  CleanerType'
  <1>1. CASE UNCHANGED cleaner
    BY <1>1 DEF cleaner, CleanerType
  <1>2. CASE CleanupScan
    BY <1>2 DEF CleanupScan, CleanerType, MapType, IsDict
  <1>3. CASE \E e \in Requests : CleanupCheck(e)
    BY <1>3 DEF CleanupCheck, CleanerType
  <1>4. CASE StartCleanupTask \/ CleanupRemove \/ Stopping
    BY <1>4 DEF StartCleanupTask, CleanupRemove, Stopping, StopCleanupTask, CleanupCancelled,
       StopCleanupReturn, CleanerType
  <1>5. UNCHANGED cleaner \/ CleanupScan \/ (\E e \in Requests : CleanupCheck(e))
        \/ StartCleanupTask \/ CleanupRemove \/ Stopping
    BY DEF Next, MemoryCalls, RedisCalls, Cleanup, vars, Tick, Disable, Restore, GetMemory,
       SetMemory, GetByTaskId, InvalidateMemory, InvalidateByIdMemory, InvalidateCache, ClearMemory,
       GetRedis, SetRedis, StoreRedis, InvalidateRedis, DeleteRedis, InvalidateByIdRedis,
       DeleteByIdRedis, UnmapRedis, ClearRedis, EraseRedis, UnmapAllRedis, RedisForget, CleanupMemory
  <1> QED
    BY <1>1, <1>2, <1>3, <1>4, <1>5

\* The fields of a call that waits, by its kind.
LEMMA CallFields ==
    ASSUME NEW x \in Call
    PROVE  /\ x.op = "set" => x.r \in Requests /\ x.key \in Keys
           /\ x.op = "delete by id" => x.r \in Requests /\ x.key \in Keys
  <1>1. CASE x = Idle
    BY <1>1 DEF Idle
  <1>2. CASE x \in [op : {"set"}, r : Requests, key : Keys]
    BY <1>2
  <1>3. CASE x \in [op : {"delete"}, key : Keys]
    BY <1>3
  <1>4. CASE x \in [op : {"delete by id", "unmap"}, r : Requests, key : Keys]
    BY <1>4
  <1>5. CASE x \in [op : {"erase"}, keys : SUBSET Keys]
    BY <1>5
  <1>6. CASE x \in [op : {"unmap all"}]
    BY <1>6
  <1> QED
    BY <1>1, <1>2, <1>3, <1>4, <1>5, <1>6 DEF Call

\* The calls that wait keep their types.
LEMMA CallsStep ==
    ASSUME adapter \in Adapters, keyFn \in KeyFns, MapType, RedisType, CallsType, [Next]_vars
    PROVE  CallsType'
  <1>1. CASE UNCHANGED calls
    BY <1>1 DEF CallsType
  <1>2. ASSUME NEW c \in Callers, NEW x \in Call, calls' = [calls EXCEPT ![c] = x]
        PROVE  CallsType'
    BY <1>2 DEF CallsType
  <1>3. ASSUME NEW c \in Callers, NEW r \in Asked[adapter], NEW e \in Entries(r), NEW k \in KeysOf(r, e),
               SetRedis(c, r, e, k) \/ InvalidateRedis(c, e, k)
        PROVE  \E x \in Call : calls' = [calls EXCEPT ![c] = x]
    <2>1. r \in Requests /\ k \in Keys
      BY AskedIsRequest, KeyIsKey
    <2>2. [op |-> "set", r |-> r, key |-> k] \in Call /\ [op |-> "delete", key |-> k] \in Call
      BY <2>1 DEF Call
    <2> QED
      BY <1>3, <2>2 DEF SetRedis, InvalidateRedis, Waits
  <1>7. ASSUME NEW c \in Callers, NEW r \in Asked[adapter], InvalidateByIdRedis(c, r)
        PROVE  \E x \in Call : calls' = [calls EXCEPT ![c] = x]
    <2>1. r \in Requests
      BY AskedIsRequest
    <2>3. r \in DOMAIN entryKeyMap => [op |-> "delete by id", r |-> r, key |-> entryKeyMap[r]] \in Call
      <3>1. r \in DOMAIN entryKeyMap => entryKeyMap[r] \in Keys
        BY DEF MapType, IsDict
      <3> QED
        BY <2>1, <3>1 DEF Call
    <2> QED
      BY <1>7, <2>3 DEF InvalidateByIdRedis, Waits
  <1>4. ASSUME NEW c \in Callers,
               \/ StoreRedis(c) \/ DeleteRedis(c) \/ UnmapRedis(c) \/ UnmapAllRedis(c)
               \/ ClearRedis(c) \/ EraseRedis(c)
        PROVE  \E x \in Call : calls' = [calls EXCEPT ![c] = x]
    <2>1. Idle \in Call /\ [op |-> "unmap all"] \in Call
      BY DEF Call
    <2>2. [op |-> "erase", keys |-> DOMAIN redis] \in Call
      BY DEF Call, RedisType, IsDict
    <2> QED
      BY <1>4, <2>1, <2>2 DEF StoreRedis, DeleteRedis, UnmapRedis, UnmapAllRedis, ClearRedis, EraseRedis,
         Returns, Waits
  <1>5. ASSUME NEW c \in Callers, DeleteByIdRedis(c)
        PROVE  \E x \in Call : calls' = [calls EXCEPT ![c] = x]
    <2>1. CASE Returns(c)
      BY <2>1 DEF Returns, Call
    <2>2. CASE calls' = [calls EXCEPT ![c] = [op |-> "unmap", r |-> calls[c].r, key |-> calls[c].key]]
      <3>1. calls[c] \in Call /\ calls[c].op = "delete by id"
        BY <1>5 DEF DeleteByIdRedis, CallsType
      <3>2. calls[c].r \in Requests /\ calls[c].key \in Keys
        BY <3>1, CallFields
      <3>3. [op |-> "unmap", r |-> calls[c].r, key |-> calls[c].key] \in Call
        BY <3>2 DEF Call
      <3> QED
        BY <2>2, <3>3
    <2> QED
      BY <1>5, <2>1, <2>2 DEF DeleteByIdRedis
  <1>6. \/ UNCHANGED calls
        \/ \E c \in Callers : \E r \in Asked[adapter] : \E e \in Entries(r) : \E k \in KeysOf(r, e) :
              SetRedis(c, r, e, k) \/ InvalidateRedis(c, e, k)
        \/ \E c \in Callers : \E r \in Asked[adapter] : InvalidateByIdRedis(c, r)
        \/ \E c \in Callers :
              \/ StoreRedis(c) \/ DeleteRedis(c) \/ UnmapRedis(c) \/ UnmapAllRedis(c)
              \/ ClearRedis(c) \/ EraseRedis(c) \/ DeleteByIdRedis(c)
    BY DEF Next, MemoryCalls, RedisCalls, Cleanup, Stopping, vars, Tick, Disable, Restore, GetMemory,
       SetMemory, GetByTaskId, InvalidateMemory, InvalidateByIdMemory, InvalidateCache, ClearMemory,
       GetRedis, RedisForget, StartCleanupTask, CleanupMemory, CleanupScan, CleanupCheck, CleanupRemove,
       StopCleanupTask, CleanupCancelled, StopCleanupReturn
  <1> QED
    BY <1>1, <1>2, <1>3, <1>4, <1>5, <1>6, <1>7

\* The server only gets what a set() that waits has computed.
LEMMA RedisChange ==
    ASSUME [Next]_vars
    PROVE  \/ UNCHANGED redis
           \/ \E S : redis' = Less(redis, S)
           \/ \E c \in Callers : calls[c].op = "set" /\ redis' = With(redis, calls[c].key, calls[c].r)
  BY DEF Next, MemoryCalls, RedisCalls, Cleanup, Stopping, vars, Tick, Disable, Restore, GetMemory,
     SetMemory, GetByTaskId, InvalidateMemory, InvalidateByIdMemory, InvalidateCache, ClearMemory,
     GetRedis, SetRedis, StoreRedis, InvalidateRedis, DeleteRedis, InvalidateByIdRedis,
     DeleteByIdRedis, UnmapRedis, ClearRedis, EraseRedis, UnmapAllRedis, RedisForget,
     StartCleanupTask, CleanupMemory, CleanupScan, CleanupCheck, CleanupRemove, StopCleanupTask,
     CleanupCancelled, StopCleanupReturn

\* A set() that waits was made for a request, and has a key.
LEMMA SetIsOfARequest ==
    ASSUME CallsType, NEW c \in Callers, calls[c].op = "set"
    PROVE  calls[c].r \in Requests /\ calls[c].key \in Keys
  <1>1. calls[c] \in Call
    BY DEF CallsType
  <1> QED
    BY <1>1, CallFields

\* The server keeps its type.
LEMMA RedisStep ==
    ASSUME keyFn \in KeyFns, RedisType, CallsType, [Next]_vars
    PROVE  RedisType'
  <1> USE DEF RedisType
  <1>1. \A S : IsDict(Less(redis, S), Keys, Requests)
    BY LessDict
  <1>2. ASSUME NEW c \in Callers, calls[c].op = "set"
        PROVE  IsDict(With(redis, calls[c].key, calls[c].r), Keys, Requests)
    <2>1. calls[c].r \in Requests /\ calls[c].key \in Keys
      BY <1>2, SetIsOfARequest
    <2> QED
      BY <2>1, WithDict
  <1> QED
    BY <1>1, <1>2, RedisChange

\* The values and times of the memory, one by one.
MemEntries ==
    \A k \in DOMAIN mem.cache :
        /\ k \in Keys
        /\ mem.cache[k] \in [value : Requests, expiry : Nat]
        /\ mem.access[k] \in 0..now

\* With equal domains and times, the type of the memory is that of its
\* entries.
LEMMA MemTypeParts ==
    ASSUME MemInv
    PROVE  MemType <=> now \in 0..MaxTime /\ MemEntries
  BY DEF MemInv, Shape, IsAFunction, MemType, MemEntries, IsDict

\* The memory and its times keep their types: no use lies in the future.
LEMMA MemTypeStep ==
    ASSUME adapter \in Adapters, keyFn \in KeyFns, MemInv, MemType, [Next]_vars
    PROVE  MemType'
  <1>0. MemInv' /\ Shape(mem) /\ Fits(mem)
    BY MemInvStep DEF MemInv
  <1>1. now \in 0..MaxTime /\ MemEntries
    BY MemTypeParts
  <1>2. now' = now \/ Tick
    BY DEF Next, MemoryCalls, RedisCalls, Cleanup, Stopping, vars, memory, Disable, Restore, GetMemory,
       SetMemory, GetByTaskId, InvalidateMemory, InvalidateByIdMemory, InvalidateCache, ClearMemory,
       GetRedis, SetRedis, StoreRedis, InvalidateRedis, DeleteRedis, InvalidateByIdRedis,
       DeleteByIdRedis, UnmapRedis, ClearRedis, EraseRedis, UnmapAllRedis, RedisForget,
       StartCleanupTask, CleanupMemory, CleanupScan, CleanupCheck, CleanupRemove, StopCleanupTask,
       CleanupCancelled, StopCleanupReturn
  <1>3. CASE Tick
    <2>1. now' = now + 1 /\ now < MaxTime /\ mem' = mem
      BY <1>3 DEF Tick
    <2>2. now' \in 0..MaxTime /\ 0..now \subseteq 0..now'
      BY <1>1, <2>1, CacheAssumption
    <2>3. MemEntries'
      BY <1>1, <2>1, <2>2 DEF MemEntries
    <2> QED
      BY <1>0, <2>2, <2>3 DEF MemInv, Shape, IsAFunction, MemType, MemEntries, IsDict
  <1>4. ASSUME now' = now, MemEntries' PROVE MemType'
    BY <1>0, <1>1, <1>4 DEF MemInv, Shape, IsAFunction, MemType, MemEntries, IsDict
  <1>5. ASSUME now' = now, UNCHANGED <<mem, used>> PROVE MemEntries'
    BY <1>1, <1>5 DEF MemEntries
  <1>6. ASSUME NEW K, Takes(K) PROVE MemEntries'
    <2>1. /\ Shape(mem') /\ Shrinks(mem, mem') /\ Touched(mem, mem', K, now) /\ now' = now
      BY <1>6 DEF Takes
    <2>2. now \in 0..now
      BY <1>1
    <2> QED
      BY <1>0, <1>1, <2>1, <2>2 DEF MemEntries, Shape, Shrinks, Touched
  <1>7. ASSUME NEW r \in Asked[adapter], NEW e \in Entries(r), NEW k \in KeysOf(r, e), NEW ttl \in Ttls,
               SetMemory(r, e, k, ttl)
        PROVE  MemEntries' /\ now' = now
    <2> DEFINE x == IF ttl = Forever THEN Forever ELSE now + ttl
    <2>1. mem' \in Set(mem, k, r, x, now) /\ now' = now
      BY <1>7 DEF SetMemory
    <2>2. x \in Nat /\ now \in 0..now
      BY <1>1, CacheAssumption
    <2> HIDE DEF x
    <2>3. /\ Shape(mem')
          /\ Touched(mem, mem', {k}, now)
          /\ mem'.cache[k] = Stored(r, x)
          /\ \A j \in DOMAIN mem'.cache \ {k} : j \in DOMAIN mem.cache /\ mem'.cache[j] = mem.cache[j]
      <3>1. Shape(mem')
        BY <1>0, <2>1, SetStep
      <3>2. Touched(mem, mem', {k}, now)
        BY <1>0, <2>1, SetStep
      <3>3. mem'.cache[k] = Stored(r, x)
        BY <2>1, SetStores
      <3>4. \A j \in DOMAIN mem'.cache \ {k} : j \in DOMAIN mem.cache /\ mem'.cache[j] = mem.cache[j]
        BY <1>0, <2>1, SetKeeps
      <3> QED
        BY <3>1, <3>2, <3>3, <3>4
    <2>4. r \in Requests /\ k \in Keys
      BY AskedIsRequest, KeyIsKey
    <2>5. Stored(r, x) \in [value : Requests, expiry : Nat]
      BY <2>2, <2>4 DEF Stored
    <2>6. ASSUME NEW j \in DOMAIN mem'.cache
          PROVE  j \in Keys /\ mem'.cache[j] \in [value : Requests, expiry : Nat] /\ mem'.access[j] \in 0..now
      <3>1. CASE j = k
        BY <2>2, <2>3, <2>4, <2>5, <3>1 DEF Shape, Touched
      <3>2. CASE j # k
        BY <1>0, <1>1, <2>3, <3>2 DEF MemEntries, Shape, Touched
      <3> QED
        BY <3>1, <3>2
    <2> QED
      BY <2>1, <2>6 DEF MemEntries
  <1> QED
    BY <1>0, <1>2, <1>3, <1>4, <1>5, <1>6, <1>7, MemoryStep DEF Takes, SetsMemory

\* The types hold at first.
LEMMA TypeInit == Init => TypeOK
  <1> SUFFICES ASSUME Init PROVE TypeOK
    OBVIOUS
  <1>1. MapType /\ RedisType
    BY NothingDict DEF Init, MapType, RedisType
  <1>2. CallsType
    BY DEF Init, CallsType, Call
  <1>3. SwitchType /\ CleanerType
    <2>1. enabled = TRUE /\ blocks = <<>>
      BY DEF Init
    <2>2. blocks \in Seq(BOOLEAN) /\ Len(blocks) = 0
      BY <2>1
    <2>5. MaxDepth[adapter] \in Nat
      BY CacheAssumption DEF Init
    <2>3. SwitchType
      BY <2>1, <2>2, <2>5 DEF SwitchType
    <2>4. CleanerType
      BY DEF Init, CleanerType
    <2> QED
      BY <2>3, <2>4
  <1>4. now \in 0..MaxTime
    BY CacheAssumption DEF Init
  <1>5. DOMAIN mem.cache = {}
    BY DEF Init, Empty
  <1>6. MemEntries
    BY <1>5 DEF MemEntries
  <1>7. MemType
    BY <1>4, <1>6, MemInvInit, MemTypeParts
  <1>8. adapter \in Adapters /\ keyFn \in KeyFns
    BY DEF Init
  <1> QED
    BY <1>1, <1>2, <1>3, <1>7, <1>8, TypeParts

\* Every step keeps the types, given what it keeps of the memory.
LEMMA TypeStep == TypeOK /\ MemInv /\ [Next]_vars => TypeOK'
  <1> SUFFICES ASSUME TypeOK, MemInv, [Next]_vars PROVE TypeOK'
    OBVIOUS
  <1>1. /\ adapter \in Adapters /\ keyFn \in KeyFns
        /\ MapType /\ RedisType /\ CallsType /\ SwitchType /\ CleanerType /\ MemType
    BY TypeParts
  <1>2. adapter' \in Adapters /\ keyFn' \in KeyFns
    BY <1>1, SetupStays DEF setup
  <1>3. MapType' /\ RedisType'
    BY <1>1, MapStep, RedisStep
  <1>4. CallsType'
    BY <1>1, CallsStep
  <1>5. SwitchType' /\ CleanerType'
    BY <1>1, SwitchStep, CleanerStep
  <1>6. MemType'
    BY <1>1, MemTypeStep
  <1> QED
    BY <1>2, <1>3, <1>4, <1>5, <1>6
       DEF TypeOK, MapType, RedisType, CallsType, SwitchType, CleanerType, MemType

\* Every variable of the cache has its type, over both adapters and for every
\* key function: among others, no time of use lies in the future, and an id is
\* mapped to a key that some request has.
THEOREM CacheTypes == Spec => []TypeOK
  BY TypeInit, TypeStep, MemInvInit, MemInvStep, PTL DEF Spec

-----------------------------------------------------------------------------
(* Nobody gets the result of another call.                                 *)

\* What each key function makes of a request.
LEMMA KeyIs ==
    ASSUME NEW r, NEW e, NEW u
    PROVE  /\ keyFn = "default" =>
                KeyBy(keyFn, BuildContext(r, e), u) =
                    IF ArgsOf[r] \in Unencodable THEN <<"error", FunctionOf[r], u>>
                    ELSE <<"md5", FunctionOf[r], ArgsOf[r]>>
           /\ keyFn = "normal" => KeyBy(keyFn, BuildContext(r, e), u) = NormalKey(BuildContext(r, e))
           /\ keyFn = "task" =>
                KeyBy(keyFn, BuildContext(r, e), u) =
                    <<FunctionOf[r], IF e = NoEntry THEN "no_task_id" ELSE e>>
  <1> DEFINE x == BuildContext(r, e)
  <1>1. /\ x["fn_name"] = FunctionOf[r]
        /\ x["args"] = ArgsOf[r]
        /\ "fn_name" \in DOMAIN x
        /\ "entry_id" \in DOMAIN x <=> e # NoEntry
        /\ e # NoEntry => x["entry_id"] = e
    BY DEF BuildContext
  <1>2. keyFn = "default" => KeyBy(keyFn, x, u) = DefaultKey(x, u)
    BY DEF KeyBy
  <1>3. keyFn = "normal" => KeyBy(keyFn, x, u) = NormalKey(x)
    BY DEF KeyBy
  <1>4. keyFn = "task" => KeyBy(keyFn, x, u) = TaskKey(x)
    BY DEF KeyBy
  <1> HIDE DEF x
  <1>5. DefaultKey(x, u) = IF ArgsOf[r] \in Unencodable THEN <<"error", FunctionOf[r], u>>
                           ELSE <<"md5", FunctionOf[r], ArgsOf[r]>>
    BY <1>1 DEF DefaultKey
  <1>6. TaskKey(x) = <<FunctionOf[r], IF e = NoEntry THEN "no_task_id" ELSE e>>
    BY <1>1 DEF TaskKey, Extract
  <1> QED
    BY <1>2, <1>3, <1>4, <1>5, <1>6 DEF x

\* The uuid makes a difference only to a key that matches nothing else.
Unmatched(r) == keyFn = "default" /\ ArgsOf[r] \in Unencodable

\* Any other key is the same whenever it is made.
LEMMA KeyIsFixed ==
    ASSUME keyFn \in KeyFns, NEW r, NEW e, NEW u, NEW w, ~Unmatched(r)
    PROVE  KeyBy(keyFn, BuildContext(r, e), u) = KeyBy(keyFn, BuildContext(r, e), w)
  <1>1. keyFn = "default" \/ keyFn = "normal" \/ keyFn = "task"
    BY CacheAssumption
  <1> QED
    BY <1>1, KeyIs DEF Unmatched

\* k may be a key of r, with its task or without.
MadeFor(k, r) == \E e \in Entries(r), u \in Uuids : k = KeyBy(keyFn, BuildContext(r, e), u)

\* r has k: it computed the value there, waits to store one there, or is
\* mapped to it.
InMemory(r, k) == k \in DOMAIN mem.cache /\ mem.cache[k].value = r
OnServer(r, k) == k \in DOMAIN redis /\ redis[k] = r
IsMapped(r, k) == r \in DOMAIN entryKeyMap /\ entryKeyMap[r] = k
Waiting(r, k) == \E c \in Callers : calls[c].op = "set" /\ calls[c].r = r /\ calls[c].key = k

Has(r, k) == InMemory(r, k) \/ OnServer(r, k) \/ IsMapped(r, k) \/ Waiting(r, k)

\* Inductive: every key was made for the requests that have it, and a key that
\* matches nothing else has only one.
OwnKeys ==
    /\ \A r \in Requests, k \in Keys : Has(r, k) => MadeFor(k, r)
    /\ \A r \in Requests, v \in Requests, k \in Keys : Unmatched(r) /\ Has(r, k) /\ Has(v, k) => v = r

\* Before any call no key is in use.
LEMMA OwnKeysInit == Init => OwnKeys
  <1> SUFFICES ASSUME Init PROVE OwnKeys
    OBVIOUS
  <1>1. /\ DOMAIN mem.cache = {} /\ DOMAIN redis = {} /\ DOMAIN entryKeyMap = {}
        /\ \A c \in Callers : calls[c].op # "set"
    BY DEF Init, Empty, Nothing, Idle
  <1>2. \A r, k : ~Has(r, k)
    BY <1>1 DEF Has, InMemory, OnServer, IsMapped, Waiting
  <1> QED
    BY <1>2 DEF OwnKeys

\* A key that some request has is in use.
LEMMA HasIsInUse ==
    ASSUME NEW r, NEW k, Has(r, k)
    PROVE  k \in InUse
  <1>1. CASE Waiting(r, k)
    <2>1. PICK c \in Callers : calls[c].op = "set" /\ calls[c].key = k
      BY <1>1 DEF Waiting
    <2>2. k \in CallKeys(calls[c])
      BY <2>1 DEF CallKeys
    <2> QED
      BY <2>2 DEF InUse
  <1>2. CASE InMemory(r, k) \/ OnServer(r, k) \/ IsMapped(r, k)
    BY <1>2 DEF InMemory, OnServer, IsMapped, InUse
  <1> QED
    BY <1>1, <1>2 DEF Has

\* get() and set() of a request under one of its keys.
Uses(r, e, k) ==
    \/ GetMemory(e, k) \/ GetRedis(e, k)
    \/ \E ttl \in Ttls : SetMemory(r, e, k, ttl)
    \/ \E c \in Callers : SetRedis(c, r, e, k)

\* get() and set() give a key to no request but their own.
LEMMA UsesGive ==
    ASSUME CallsType, Shape(mem), Fits(mem), NEW q, NEW e \in Entries(q), NEW j, Uses(q, e, j),
           NEW r, NEW k, Has(r, k)'
    PROVE  Has(r, k) \/ (r = q /\ k = j)
  <1>1. CASE InMemory(r, k)'
    <2>1. CASE GetMemory(e, j)
      <3>1. Shrinks(mem, mem')
        BY <2>1, GetStep DEF GetMemory
      <3> QED
        BY <1>1, <3>1 DEF InMemory, Shrinks, Has
    <2>2. ASSUME NEW ttl \in Ttls, SetMemory(q, e, j, ttl)
          PROVE  Has(r, k) \/ (r = q /\ k = j)
      <3> DEFINE x == IF ttl = Forever THEN Forever ELSE now + ttl
      <3>1. mem' \in Set(mem, j, q, x, now)
        BY <2>2 DEF SetMemory
      <3> HIDE DEF x
      <3>2. mem'.cache[j] = Stored(q, x)
        BY <3>1, SetStores
      <3>3. \A i \in DOMAIN mem'.cache \ {j} : i \in DOMAIN mem.cache /\ mem'.cache[i] = mem.cache[i]
        BY <3>1, SetStep
      <3>4. Stored(q, x).value = q
        BY DEF Stored
      <3> QED
        BY <1>1, <3>2, <3>3, <3>4 DEF InMemory, Has
    <2>3. CASE GetRedis(e, j) \/ \E c \in Callers : SetRedis(c, q, e, j)
      BY <1>1, <2>3 DEF GetRedis, SetRedis, memory, InMemory, Has
    <2> QED
      BY <2>1, <2>2, <2>3 DEF Uses
  <1>2. CASE OnServer(r, k)'
    <2>1. redis' = redis
      BY DEF Uses, GetMemory, GetRedis, SetMemory, SetRedis
    <2> QED
      BY <1>2, <2>1 DEF OnServer, Has
  <1>3. CASE IsMapped(r, k)'
    <2>1. entryKeyMap' = Mapped(e, j)
      BY DEF Uses, GetMemory, GetRedis, SetMemory, SetRedis
    <2>2. e = NoEntry \/ e = q
      BY DEF Entries
    <2>3. CASE e = NoEntry
      BY <1>3, <2>1, <2>3 DEF Mapped, IsMapped, Has
    <2>4. CASE e = q /\ e # NoEntry
      <3>1. entryKeyMap' = With(entryKeyMap, q, j)
        BY <2>1, <2>4 DEF Mapped
      <3>2. /\ DOMAIN entryKeyMap' = DOMAIN entryKeyMap \union {q}
            /\ entryKeyMap'[q] = j
            /\ \A d \in DOMAIN entryKeyMap \ {q} : entryKeyMap'[d] = entryKeyMap[d]
        BY <3>1 DEF With
      <3> QED
        BY <1>3, <3>2 DEF IsMapped, Has
    <2> QED
      BY <2>2, <2>3, <2>4
  <1>4. CASE Waiting(r, k)'
    <2>1. CASE UNCHANGED calls
      BY <1>4, <2>1 DEF Waiting, Has
    <2>2. ASSUME NEW d \in Callers, SetRedis(d, q, e, j)
          PROVE  Has(r, k) \/ (r = q /\ k = j)
      <3>1. PICK c \in Callers : calls'[c].op = "set" /\ calls'[c].r = r /\ calls'[c].key = k
        BY <1>4 DEF Waiting
      <3>2. calls' = [calls EXCEPT ![d] = [op |-> "set", r |-> q, key |-> j]]
        BY <2>2 DEF SetRedis, Waits
      <3>3. CASE c = d
        <4>1. calls'[c] = [op |-> "set", r |-> q, key |-> j]
          BY <3>2, <3>3 DEF CallsType
        <4> QED
          BY <3>1, <4>1
      <3>4. CASE c # d
        <4>1. calls'[c] = calls[c]
          BY <3>2, <3>4 DEF CallsType
        <4> QED
          BY <3>1, <4>1 DEF Waiting, Has
      <3> QED
        BY <3>3, <3>4
    <2> QED
      BY <2>1, <2>2 DEF Uses, GetMemory, GetRedis, SetMemory
  <1> QED
    BY <1>1, <1>2, <1>3, <1>4 DEF Has

\* The step is a get() or a set().
Used == \E r \in Asked[adapter] : \E e \in Entries(r) : \E k \in KeysOf(r, e) : Uses(r, e, k)

\* No other step maps an id, or makes a set() wait.
LEMMA OthersKeep ==
    ASSUME CallsType, [Next]_vars, ~Used
    PROVE  /\ ~SetsMemory
           /\ \/ UNCHANGED entryKeyMap
              \/ \E S : entryKeyMap' = Less(entryKeyMap, S)
              \/ entryKeyMap' = Nothing
           /\ \A c \in Callers : calls'[c].op = "set" => calls'[c] = calls[c]
  <1>1. ~SetsMemory
    BY DEF SetsMemory, Used, Uses
  <1>2. \/ UNCHANGED entryKeyMap
        \/ \E S : entryKeyMap' = Less(entryKeyMap, S)
        \/ entryKeyMap' = Nothing
    BY DEF Used, Uses, Next, MemoryCalls, RedisCalls, Cleanup, Stopping, vars, Tick, Disable, Restore,
       GetByTaskId, InvalidateMemory, InvalidateByIdMemory, InvalidateCache, ClearMemory, StoreRedis,
       InvalidateRedis, DeleteRedis, InvalidateByIdRedis, DeleteByIdRedis, UnmapRedis, ClearRedis,
       EraseRedis, UnmapAllRedis, RedisForget, StartCleanupTask, CleanupMemory, CleanupScan,
       CleanupCheck, CleanupRemove, StopCleanupTask, CleanupCancelled, StopCleanupReturn, Unmapped
  <1>3. \/ UNCHANGED calls
        \/ \E d \in Callers : \E x : x.op # "set" /\ calls' = [calls EXCEPT ![d] = x]
    <2>1. Idle.op # "set"
      BY DEF Idle
    <2>2. CASE \E d \in Callers :
                  \/ StoreRedis(d) \/ DeleteRedis(d) \/ DeleteByIdRedis(d) \/ UnmapRedis(d)
                  \/ ClearRedis(d) \/ EraseRedis(d) \/ UnmapAllRedis(d)
      BY <2>1, <2>2 DEF StoreRedis, DeleteRedis, DeleteByIdRedis, UnmapRedis, ClearRedis, EraseRedis,
         UnmapAllRedis, Waits, Returns
    <2>3. CASE \E d \in Callers : \E e, k : InvalidateRedis(d, e, k) \/ InvalidateByIdRedis(d, e)
      BY <2>3 DEF InvalidateRedis, InvalidateByIdRedis, Waits
    <2>4. \/ UNCHANGED calls
          \/ \E d \in Callers :
                  \/ StoreRedis(d) \/ DeleteRedis(d) \/ DeleteByIdRedis(d) \/ UnmapRedis(d)
                  \/ ClearRedis(d) \/ EraseRedis(d) \/ UnmapAllRedis(d)
          \/ \E d \in Callers : \E e, k : InvalidateRedis(d, e, k) \/ InvalidateByIdRedis(d, e)
      BY DEF Used, Uses, Next, MemoryCalls, RedisCalls, Cleanup, Stopping, vars, Tick, Disable, Restore,
         GetByTaskId, InvalidateMemory, InvalidateByIdMemory, InvalidateCache, ClearMemory,
         RedisForget, StartCleanupTask, CleanupMemory, CleanupScan, CleanupCheck, CleanupRemove,
         StopCleanupTask, CleanupCancelled, StopCleanupReturn
    <2> QED
      BY <2>2, <2>3, <2>4
  <1>4. \A c \in Callers : calls'[c].op = "set" => calls'[c] = calls[c]
    BY <1>3 DEF CallsType
  <1> QED
    BY <1>1, <1>2, <1>4

\* They give no key to any request: at most a set() that waited is stored.
LEMMA OthersGiveNone ==
    ASSUME CallsType, Shape(mem), [Next]_vars, ~Used, NEW r, NEW k, Has(r, k)'
    PROVE  Has(r, k)
  <1>1. CASE InMemory(r, k)'
    <2>1. UNCHANGED <<mem, used>> \/ \E K : Takes(K)
      BY OthersKeep, MemoryStep
    <2>2. Shrinks(mem, mem')
      BY <2>1 DEF Takes, Shrinks
    <2> QED
      BY <1>1, <2>2 DEF InMemory, Shrinks, Has
  <1>2. CASE OnServer(r, k)'
    <2>1. CASE UNCHANGED redis
      BY <1>2, <2>1 DEF OnServer, Has
    <2>2. ASSUME NEW S, redis' = Less(redis, S) PROVE Has(r, k)
      <3>1. DOMAIN redis' = DOMAIN redis \ S /\ \A i \in DOMAIN redis \ S : redis'[i] = redis[i]
        BY <2>2, LessIs
      <3> QED
        BY <1>2, <3>1 DEF OnServer, Has
    <2>3. ASSUME NEW c \in Callers, calls[c].op = "set", redis' = With(redis, calls[c].key, calls[c].r)
          PROVE  Has(r, k)
      <3>1. PICK j, q : j = calls[c].key /\ q = calls[c].r
        OBVIOUS
      <3>2. redis' = With(redis, j, q)
        BY <2>3, <3>1
      <3>3. /\ DOMAIN redis' = DOMAIN redis \union {j}
            /\ redis'[j] = q
            /\ \A i \in DOMAIN redis \ {j} : redis'[i] = redis[i]
        BY <3>2 DEF With
      <3>4. CASE k = j
        BY <1>2, <2>3, <3>1, <3>3, <3>4 DEF OnServer, Waiting, Has
      <3>5. CASE k # j
        BY <1>2, <3>3, <3>5 DEF OnServer, Has
      <3> QED
        BY <3>4, <3>5
    <2> QED
      BY <2>1, <2>2, <2>3, RedisChange
  <1>3. CASE IsMapped(r, k)'
    <2>1. CASE UNCHANGED entryKeyMap
      BY <1>3, <2>1 DEF IsMapped, Has
    <2>2. ASSUME NEW S, entryKeyMap' = Less(entryKeyMap, S) PROVE Has(r, k)
      <3>1. /\ DOMAIN entryKeyMap' = DOMAIN entryKeyMap \ S
            /\ \A i \in DOMAIN entryKeyMap \ S : entryKeyMap'[i] = entryKeyMap[i]
        BY <2>2, LessIs
      <3> QED
        BY <1>3, <3>1 DEF IsMapped, Has
    <2>3. CASE entryKeyMap' = Nothing
      BY <1>3, <2>3 DEF IsMapped, Nothing
    <2> QED
      BY <2>1, <2>2, <2>3, OthersKeep
  <1>4. CASE Waiting(r, k)'
    BY <1>4, OthersKeep DEF Waiting, Has
  <1> QED
    BY <1>1, <1>2, <1>3, <1>4 DEF Has

\* A key that may be made anew for a request, and that another one has, is not
\* one that matches nothing else.
LEMMA NewKeyIsFree ==
    ASSUME OwnKeys, NEW q \in Requests, NEW e \in Entries(q), NEW j \in KeysOf(q, e), j \in Keys,
           NEW v \in Requests, Has(v, j)
    PROVE  ~Unmatched(q) /\ ~Unmatched(v)
  <1>1. ~Unmatched(q)
    <2>1. Unmatched(q) => j \notin InUse
      BY DEF Unmatched, KeysOf
    <2> QED
      BY <2>1, HasIsInUse
  <1>2. ~Unmatched(v)
    <2> SUFFICES ASSUME Unmatched(v) PROVE FALSE
      OBVIOUS
    <2>1. keyFn = "default" /\ ArgsOf[v] \in Unencodable /\ ArgsOf[q] \notin Unencodable
      BY <1>1 DEF Unmatched
    <2>2. PICK u : j = KeyBy(keyFn, BuildContext(q, e), u)
      BY DEF KeysOf
    <2>3. PICK d, w : j = KeyBy(keyFn, BuildContext(v, d), w)
      BY DEF OwnKeys, MadeFor
    <2>4. j = <<"md5", FunctionOf[q], ArgsOf[q]>>
      BY <2>1, <2>2, KeyIs
    <2>5. j = <<"error", FunctionOf[v], w>>
      BY <2>1, <2>3, KeyIs
    <2> QED
      BY <2>4, <2>5
  <1> QED
    BY <1>1, <1>2

\* Every step keeps OwnKeys.
LEMMA OwnKeysStep == TypeOK /\ MemInv /\ OwnKeys /\ [Next]_vars => OwnKeys'
  <1> SUFFICES ASSUME TypeOK, MemInv, OwnKeys, [Next]_vars PROVE OwnKeys'
    OBVIOUS
  <1>0. adapter \in Adapters /\ keyFn \in KeyFns /\ CallsType /\ Shape(mem) /\ Fits(mem)
    BY TypeParts DEF MemInv
  <1>1. keyFn' = keyFn
    BY SetupStays DEF setup
  <1>2. /\ \A r, k : MadeFor(k, r)' <=> MadeFor(k, r)
        /\ \A r : Unmatched(r)' <=> Unmatched(r)
    BY <1>1 DEF MadeFor, Unmatched, Entries
  <1>3. CASE ~Used
    <2>1. \A r, k : Has(r, k)' => Has(r, k)
      BY <1>0, <1>3, OthersGiveNone
    <2> QED
      BY <1>2, <2>1 DEF OwnKeys
  <1>4. CASE Used
    <2>1. PICK q \in Asked[adapter] : \E e \in Entries(q) : \E k \in KeysOf(q, e) : Uses(q, e, k)
      BY <1>4 DEF Used
    <2>2. PICK e \in Entries(q) : \E k \in KeysOf(q, e) : Uses(q, e, k)
      BY <2>1
    <2>3. PICK j \in KeysOf(q, e) : Uses(q, e, j)
      BY <2>2
    <2>4. q \in Requests /\ j \in Keys
      BY <1>0, AskedIsRequest, KeyIsKey
    <2>5. \A r, k : Has(r, k)' => Has(r, k) \/ (r = q /\ k = j)
      BY <1>0, <2>3, UsesGive
    <2>6. MadeFor(j, q)
      BY DEF MadeFor, KeysOf
    <2>7. \A v \in Requests : Has(v, j) => ~Unmatched(q) /\ ~Unmatched(v)
      BY <2>4, NewKeyIsFree
    <2>8. \A r \in Requests, k \in Keys : Has(r, k)' => MadeFor(k, r)
      BY <2>5, <2>6 DEF OwnKeys
    <2>9. ASSUME NEW r \in Requests, NEW v \in Requests, NEW k \in Keys,
                 Unmatched(r), Has(r, k)', Has(v, k)'
          PROVE  v = r
      <3>1. Has(r, k) \/ (r = q /\ k = j)
        BY <2>5, <2>9
      <3>2. Has(v, k) \/ (v = q /\ k = j)
        BY <2>5, <2>9
      <3>3. CASE Has(r, k) /\ Has(v, k)
        BY <2>9, <3>3 DEF OwnKeys
      <3> QED
        BY <2>7, <2>9, <3>1, <3>2, <3>3
    <2> QED
      BY <1>2, <2>8, <2>9 DEF OwnKeys
  <1> QED
    BY <1>3, <1>4

\* An entry id is mapped to a key of its own request.
OwnMappings == \A e \in DOMAIN entryKeyMap : \E u \in Uuids : entryKeyMap[e] = KeyBy(keyFn, BuildContext(e, e), u)

LEMMA OwnMappingsStep ==
    ASSUME OwnMappings, [Next]_vars
    PROVE  OwnMappings'
  <1>0. keyFn' = keyFn
    BY SetupStays DEF setup
  <1>1. CASE UNCHANGED entryKeyMap
    BY <1>0, <1>1 DEF OwnMappings
  <1>2. ASSUME NEW r, NEW e \in Entries(r), NEW k \in KeysOf(r, e), entryKeyMap' = Mapped(e, k)
        PROVE  OwnMappings'
    <2>1. CASE e = NoEntry
      BY <1>1, <1>2, <2>1 DEF Mapped
    <2>2. CASE e # NoEntry
      <3>1. e = r /\ entryKeyMap' = With(entryKeyMap, r, k)
        BY <1>2, <2>2 DEF Mapped, Entries
      <3>2. /\ DOMAIN entryKeyMap' = DOMAIN entryKeyMap \union {r}
            /\ entryKeyMap'[r] = k
            /\ \A d \in DOMAIN entryKeyMap \ {r} : entryKeyMap'[d] = entryKeyMap[d]
        BY <3>1 DEF With
      <3>3. \E u \in Uuids : k = KeyBy(keyFn, BuildContext(r, r), u)
        BY <3>1 DEF KeysOf
      <3> QED
        BY <1>0, <3>2, <3>3 DEF OwnMappings
    <2> QED
      BY <2>1, <2>2
  <1>3. ASSUME NEW S, entryKeyMap' = Less(entryKeyMap, S) PROVE OwnMappings'
    <2>1. /\ DOMAIN entryKeyMap' = DOMAIN entryKeyMap \ S
          /\ \A e \in DOMAIN entryKeyMap \ S : entryKeyMap'[e] = entryKeyMap[e]
      BY <1>3, LessIs
    <2> QED
      BY <1>0, <2>1 DEF OwnMappings
  <1>4. CASE entryKeyMap' = Nothing
    BY <1>4 DEF OwnMappings, Nothing
  <1> QED
    BY <1>1, <1>2, <1>3, <1>4, MapChange

\* Two requests have one key only if they call the same function with the same
\* arguments: unless it is made of the task id, which is then not that of the
\* first.
LEMMA KeyTellsCalls ==
    ASSUME keyFn \in KeyFns, keyFn # "normal",
           NEW r \in Requests, NEW v \in Requests, ~Unmatched(r),
           NEW e \in Entries(r), keyFn = "default" \/ e # NoEntry,
           NEW u, NEW k, k = KeyBy(keyFn, BuildContext(r, e), u), MadeFor(k, v)
    PROVE  CallOf(v) = CallOf(r)
  <1>1. PICK d \in Entries(v), w \in Uuids : k = KeyBy(keyFn, BuildContext(v, d), w)
    BY DEF MadeFor
  <1>2. CASE keyFn = "default"
    <2>1. k = <<"md5", FunctionOf[r], ArgsOf[r]>>
      BY <1>2, KeyIs DEF Unmatched
    <2>2. k = <<"error", FunctionOf[v], w>> \/ k = <<"md5", FunctionOf[v], ArgsOf[v]>>
      BY <1>1, <1>2, KeyIs
    <2> QED
      BY <2>1, <2>2 DEF CallOf
  <1>3. CASE keyFn = "task"
    <2>1. k = <<FunctionOf[r], r>>
      BY <1>3, KeyIs DEF Entries
    <2>2. k = <<FunctionOf[v], IF d = NoEntry THEN "no_task_id" ELSE d>>
      BY <1>1, <1>3, KeyIs
    <2>3. r # "no_task_id"
      BY CacheAssumption
    <2>4. d = NoEntry \/ d = v
      BY DEF Entries
    <2> QED
      BY <2>1, <2>2, <2>3, <2>4
  <1> QED
    BY <1>2, <1>3, CacheAssumption

\* The request whose value is found under a key has the key.
LEMMA FoundHas ==
    ASSUME TypeOK, NEW k
    PROVE  /\ k \in DOMAIN mem.cache => mem.cache[k].value \in Requests /\ Has(mem.cache[k].value, k) /\ k \in Keys
           /\ k \in DOMAIN redis => redis[k] \in Requests /\ Has(redis[k], k) /\ k \in Keys
  <1>1. k \in DOMAIN mem.cache => mem.cache[k] \in [value : Requests, expiry : Nat] /\ k \in Keys
    BY DEF TypeOK, IsDict
  <1>2. k \in DOMAIN redis => redis[k] \in Requests /\ k \in Keys
    BY DEF TypeOK, IsDict
  <1> QED
    BY <1>1, <1>2 DEF Has, InMemory, OnServer

\* A value that a lookup of a request finds, in memory or on the server, was
\* computed by a call of the same function with the same arguments, and one
\* that an id is mapped to by a call of that id's request; unless the key
\* function is the one of AsyncTaskWorker.add_task(), or that of
\* AsyncCacheAdapter and the lookup does not name the task.
THEOREM OnlyOwnResults == Spec => []KeysTellCallsApart
  <1>1. TypeOK /\ OwnKeys /\ OwnMappings => KeysTellCallsApart
    <2> SUFFICES ASSUME TypeOK, OwnKeys, OwnMappings, keyFn # "normal"
                 PROVE  /\ \A r \in Requests : \A e \in Entries(r) :
                              keyFn = "default" \/ e # NoEntry => Own(r, KeysOf(r, e))
                        /\ \A r \in DOMAIN entryKeyMap : Own(r, {entryKeyMap[r]})
      BY DEF KeysTellCallsApart
    <2>0. keyFn \in KeyFns
      BY DEF TypeOK
    <2>1. ASSUME NEW r, NEW K,
                 \A k \in K, v \in Requests : k \in Keys /\ Has(v, k) => CallOf(v) = CallOf(r)
          PROVE  Own(r, K)
      BY <2>1, FoundHas DEF Own
    <2>2. ASSUME NEW r \in Requests, NEW e \in Entries(r), keyFn = "default" \/ e # NoEntry,
                 NEW k \in KeysOf(r, e), NEW v \in Requests, k \in Keys, Has(v, k)
          PROVE  CallOf(v) = CallOf(r)
      <3>1. PICK u : k = KeyBy(keyFn, BuildContext(r, e), u)
        BY DEF KeysOf
      <3>2. ~Unmatched(r)
        BY <2>2, NewKeyIsFree
      <3>3. MadeFor(k, v)
        BY <2>2 DEF OwnKeys
      <3> QED
        BY <2>0, <2>2, <3>1, <3>2, <3>3, KeyTellsCalls
    <2>3. ASSUME NEW r \in DOMAIN entryKeyMap, NEW v \in Requests, Has(v, entryKeyMap[r])
          PROVE  CallOf(v) = CallOf(r)
      <3>1. r \in Requests /\ r # NoEntry /\ entryKeyMap[r] \in Keys
        BY CacheAssumption DEF TypeOK, IsDict
      <3>2. CASE Unmatched(r)
        <4>1. Has(r, entryKeyMap[r])
          BY DEF Has, IsMapped
        <4> QED
          BY <2>3, <3>1, <3>2, <4>1 DEF OwnKeys
      <3>3. CASE ~Unmatched(r)
        <4>1. PICK u : entryKeyMap[r] = KeyBy(keyFn, BuildContext(r, r), u)
          BY DEF OwnMappings
        <4>2. MadeFor(entryKeyMap[r], v)
          BY <2>3, <3>1 DEF OwnKeys
        <4>3. r \in Entries(r)
          BY DEF Entries
        <4> QED
          BY <2>0, <3>1, <3>3, <4>1, <4>2, <4>3, KeyTellsCalls
      <3> QED
        BY <3>2, <3>3
    <2> QED
      BY <2>1, <2>2, <2>3
  <1>2. Init => OwnMappings
    BY DEF Init, OwnMappings, Nothing
  <1>3. OwnMappings /\ [Next]_vars => OwnMappings'
    BY OwnMappingsStep
  <1>4. Spec => []TypeOK
    BY CacheTypes
  <1>5. Spec => []OwnMappings
    BY <1>2, <1>3, PTL DEF Spec
  <1>6. Spec => []OwnKeys
    BY <1>4, OwnKeysInit, OwnKeysStep, MemInvInit, MemInvStep, PTL DEF Spec
  <1> QED
    BY <1>1, <1>4, <1>5, <1>6, PTL

-----------------------------------------------------------------------------
(* The switch.                                                             *)

\* Inductive: inside a block the cache is disabled, and only the outermost
\* block may have found it enabled.
SwitchInv ==
    /\ blocks # <<>> => ~enabled
    /\ \A i \in 2..Len(blocks) : ~blocks[i]

LEMMA SwitchInvStep ==
    ASSUME SwitchType, SwitchInv, [Next]_vars
    PROVE  SwitchInv'
  <1>t. blocks \in Seq(BOOLEAN) /\ Len(blocks) \in Nat /\ enabled \in BOOLEAN
    BY DEF SwitchType
  <1>1. CASE Disable
    <2>1. blocks' = Append(blocks, enabled) /\ ~enabled'
      BY <1>1 DEF Disable
    <2>2. /\ Len(blocks') = Len(blocks) + 1
          /\ blocks'[Len(blocks) + 1] = enabled
          /\ \A i \in 1..Len(blocks) : blocks'[i] = blocks[i]
      BY <1>t, <2>1
    <2>3. ASSUME NEW i \in 2..Len(blocks') PROVE ~blocks'[i]
      <3>1. CASE i = Len(blocks) + 1
        <4>1. blocks # <<>>
          BY <3>1, <2>3, <1>t
        <4> QED
          BY <4>1, <3>1, <2>2 DEF SwitchInv
      <3>2. CASE i # Len(blocks) + 1
        <4>1. i \in 2..Len(blocks) /\ i \in 1..Len(blocks)
          BY <3>2, <2>2, <2>3, <1>t
        <4> QED
          BY <4>1, <2>2 DEF SwitchInv
      <3> QED
        BY <3>1, <3>2
    <2> QED
      BY <2>1, <2>3 DEF SwitchInv
  <1>2. CASE Restore
    <2>1. /\ blocks # <<>> /\ enabled' = blocks[Len(blocks)]
          /\ blocks' = SubSeq(blocks, 1, Len(blocks) - 1)
      BY <1>2 DEF Restore
    <2>2. /\ Len(blocks') = Len(blocks) - 1
          /\ \A i \in 1..Len(blocks) - 1 : blocks'[i] = blocks[i]
      <3>1. Len(blocks) > 0
        BY <1>t, <2>1
      <3>2. PICK n \in Nat : n = Len(blocks) - 1
        BY <1>t, <3>1
      <3>3. 1 \in Int /\ n \in Int /\ n - 1 + 1 = n /\ \A i \in 1..n : blocks[i] \in BOOLEAN
        BY <1>t, <3>2
      <3>4. /\ Len(blocks') = IF 1 <= n THEN n - 1 + 1 ELSE 0
            /\ \A i \in 1..n - 1 + 1 : blocks'[i] = blocks[1 + i - 1]
        BY <2>1, <3>2, <3>3, SubSeqProperties
      <3>5. Len(blocks') = n
        BY <3>2, <3>4
      <3>6. \A i \in 1..n : blocks'[i] = blocks[i]
        <4>1. \A i \in 1..n : 1 + i - 1 = i
          BY <3>2
        <4> QED
          BY <3>3, <3>4, <4>1
      <3> QED
        BY <3>2, <3>5, <3>6
    <2>3. blocks' # <<>> => ~enabled'
      <3>1. blocks' # <<>> => Len(blocks) \in 2..Len(blocks)
        BY <1>t, <2>1, <2>2
      <3> QED
        BY <3>1, <2>1 DEF SwitchInv
    <2>4. ASSUME NEW i \in 2..Len(blocks') PROVE ~blocks'[i]
      <3>1. i \in 2..Len(blocks) /\ i \in 1..Len(blocks) - 1
        BY <1>t, <2>2, <2>4
      <3> QED
        BY <3>1, <2>2 DEF SwitchInv
    <2> QED
      BY <2>3, <2>4 DEF SwitchInv
  <1>3. CASE UNCHANGED <<enabled, blocks>>
    BY <1>3 DEF SwitchInv
  <1>4. Disable \/ Restore \/ UNCHANGED <<enabled, blocks>>
    BY DEF Next, MemoryCalls, RedisCalls, Cleanup, Stopping, vars, Tick, GetMemory,
       SetMemory, GetByTaskId, InvalidateMemory, InvalidateByIdMemory, InvalidateCache, ClearMemory,
       GetRedis, SetRedis, StoreRedis, InvalidateRedis, DeleteRedis, InvalidateByIdRedis,
       DeleteByIdRedis, UnmapRedis, ClearRedis, EraseRedis, UnmapAllRedis, RedisForget,
       StartCleanupTask, CleanupMemory, CleanupScan, CleanupCheck, CleanupRemove, StopCleanupTask,
       CleanupCancelled, StopCleanupReturn
  <1> QED
    BY <1>1, <1>2, <1>3, <1>4

\* The step property of DisabledStoresNothing.
NothingNew ==
    blocks # <<>> /\ adapter = "memory" =>
        \A k \in DOMAIN mem'.cache : k \in DOMAIN mem.cache /\ mem'.cache[k] = mem.cache[k]

\* Nothing is stored inside a temporarily_disabled() block, however deep the
\* blocks are nested.
THEOREM NothingIsStoredDisabled == Spec => DisabledStoresNothing
  <1>1. Init => SwitchInv
    BY DEF Init, SwitchInv
  <1>2. TypeOK /\ SwitchInv /\ [Next]_vars => SwitchInv'
    BY SwitchInvStep, TypeParts
  <1>3. MemInv /\ SwitchInv /\ [Next]_vars => NothingNew
    <2> SUFFICES ASSUME MemInv, SwitchInv, [Next]_vars, blocks # <<>>
                 PROVE  \A k \in DOMAIN mem'.cache : k \in DOMAIN mem.cache /\ mem'.cache[k] = mem.cache[k]
      BY DEF NothingNew
    <2>1. ~enabled
      BY DEF SwitchInv
    <2>2. ~SetsMemory
      BY <2>1 DEF SetMemory, SetsMemory
    <2>3. Shape(mem)
      BY DEF MemInv
    <2>4. UNCHANGED <<mem, used>> \/ \E K : Takes(K)
      BY <2>2, <2>3, MemoryStep
    <2> QED
      BY <2>4 DEF Takes, Shrinks
  <1>4. Spec => [][NothingNew]_vars
    BY <1>1, <1>2, <1>3, MemInvInit, MemInvStep, CacheTypes, PTL DEF Spec
  <1> QED
    BY <1>4 DEF DisabledStoresNothing, NothingNew

-----------------------------------------------------------------------------
(* The mappings.                                                           *)

\* Inductive: what waits for a server is only there over Redis.
NoServer ==
    adapter = "memory" => cleanPc # "checking" /\ \A c \in Callers : calls[c] = Idle

LEMMA NoServerStep ==
    ASSUME NoServer, CallsType, [Next]_vars
    PROVE  NoServer'
  <1> SUFFICES ASSUME adapter' = "memory"
               PROVE  cleanPc' # "checking" /\ \A c \in Callers : calls'[c] = Idle
    BY DEF NoServer
  <1>1. adapter = "memory"
    BY SetupStays DEF setup
  <1>2. cleanPc # "checking" /\ \A c \in Callers : calls[c] = Idle /\ calls[c].op = "idle"
    BY <1>1 DEF NoServer, Idle
  <1>3. cleanPc' # "checking" /\ calls' = calls
    BY <1>1, <1>2
    DEF Next, MemoryCalls, RedisCalls, Cleanup, Stopping, vars, cleaner, Tick, Disable, Restore,
       GetMemory, SetMemory, GetByTaskId, InvalidateMemory, InvalidateByIdMemory, InvalidateCache,
       ClearMemory, Waits, GetRedis, SetRedis, StoreRedis, InvalidateRedis, DeleteRedis,
       InvalidateByIdRedis, DeleteByIdRedis, UnmapRedis, ClearRedis, EraseRedis, UnmapAllRedis,
       RedisForget, StartCleanupTask, CleanupMemory, CleanupScan, CleanupCheck, CleanupRemove,
       StopCleanupTask, CleanupCancelled, StopCleanupReturn
  <1> QED
    BY <1>2, <1>3

\* The step is invalidate() of a request whose key matches nothing else.
NewKeyDeleted(e) ==
    keyFn = "default" /\ ArgsOf[e] \in Unencodable /\ \E k \in KeysOf(e, e) : InvalidateMemory(e, k)

\* The step property of MappingsOutliveValues.
NoneFromUnderAValue ==
    adapter = "memory" =>
        \A e \in DOMAIN entryKeyMap \ DOMAIN entryKeyMap' :
           \/ ~Hit(mem', entryKeyMap[e], now')
           \/ /\ keyFn = "default" /\ ArgsOf[e] \in Unencodable
              /\ \E k \in KeysOf(e, e) : InvalidateMemory(e, k)

\* A mapping that a step removes leads to a value that the step removes too,
\* with that exception.
LEMMA MappingGoesWithValue ==
    ASSUME keyFn \in KeyFns, OwnMappings, NoServer, Shape(mem), MapType, [Next]_vars, adapter = "memory",
           NEW e \in DOMAIN entryKeyMap \ DOMAIN entryKeyMap'
    PROVE  entryKeyMap[e] \notin DOMAIN mem'.cache \/ NewKeyDeleted(e)
  <1>1. \A K : entryKeyMap[e] \in K => entryKeyMap[e] \notin DOMAIN Without(mem, K).cache
    BY DEF Without, Less, Restrict
  <1>2. \A S : entryKeyMap' = Less(entryKeyMap, S) => e \in S
    BY DEF Less, Restrict
  <1>3. \A d, k : entryKeyMap' # Mapped(d, k)
    BY DEF Mapped, With
  <1>4. ASSUME NEW r, NEW d \in Entries(r), NEW k \in KeysOf(r, d), InvalidateMemory(d, k)
        PROVE  entryKeyMap[e] \notin DOMAIN mem'.cache \/ NewKeyDeleted(e)
    <2>1. entryKeyMap' = Less(entryKeyMap, {d}) /\ mem' = Without(mem, {k})
      BY <1>4 DEF InvalidateMemory, Unmapped, Delete
    <2>2. e = d /\ e \in Requests
      BY <1>2, <2>1 DEF MapType, IsDict
    <2>3. e = r /\ d = r
      BY <2>2, CacheAssumption DEF Entries
    <2>4. CASE Unmatched(e)
      BY <1>4, <2>3, <2>4 DEF Unmatched, NewKeyDeleted
    <2>5. CASE ~Unmatched(e)
      <3>1. PICK u : entryKeyMap[e] = KeyBy(keyFn, BuildContext(e, e), u)
        BY DEF OwnMappings
      <3>2. PICK w : k = KeyBy(keyFn, BuildContext(e, e), w)
        BY <2>3 DEF KeysOf
      <3>3. entryKeyMap[e] = k
        BY <2>5, <3>1, <3>2, KeyIsFixed
      <3> QED
        BY <1>1, <2>1, <3>3
    <2> QED
      BY <2>4, <2>5
  <1>5. ASSUME NEW r, InvalidateByIdMemory(r) PROVE entryKeyMap[e] \notin DOMAIN mem'.cache
    <2>1. entryKeyMap' = Less(entryKeyMap, {r}) /\ mem' = Without(mem, {entryKeyMap[r]})
      BY <1>5 DEF InvalidateByIdMemory, Unmapped, Delete
    <2>2. e = r
      BY <1>2, <2>1
    <2> QED
      BY <1>1, <2>1, <2>2
  <1>6. ASSUME NEW r, NEW byId \in BOOLEAN, InvalidateCache(r, byId)
        PROVE  entryKeyMap[e] \notin DOMAIN mem'.cache
    <2>1. \/ entryKeyMap' = Less(entryKeyMap, {r}) /\ mem' = Without(mem, {entryKeyMap[r]})
          \/ entryKeyMap' = entryKeyMap
          \/ \E own : /\ mem' = Without(mem, {entryKeyMap[d] : d \in own})
                      /\ entryKeyMap' = Less(entryKeyMap, own)
      BY <1>6 DEF InvalidateCache, Unmapped, Delete
    <2>2. ASSUME NEW own, mem' = Without(mem, {entryKeyMap[d] : d \in own}),
                 entryKeyMap' = Less(entryKeyMap, own)
          PROVE  entryKeyMap[e] \notin DOMAIN mem'.cache
      <3>1. e \in own
        BY <1>2, <2>2
      <3>2. entryKeyMap[e] \in {entryKeyMap[d] : d \in own}
        BY <3>1
      <3> QED
        BY <1>1, <2>2, <3>2
    <2>3. ASSUME entryKeyMap' = Less(entryKeyMap, {r}), mem' = Without(mem, {entryKeyMap[r]})
          PROVE  entryKeyMap[e] \notin DOMAIN mem'.cache
      <3>1. e = r
        BY <1>2, <2>3
      <3> QED
        BY <1>1, <2>3, <3>1
    <2> QED
      BY <2>1, <2>2, <2>3
  <1>7. CASE ClearMemory
    BY <1>7 DEF ClearMemory, Empty
  <1>8. CASE CleanupMemory
    <2> DEFINE keys == {entryKeyMap[d] : d \in DOMAIN entryKeyMap}
               hits == {k \in keys : Hit(mem, k, now)}
    <2>1. /\ mem'.cache = Without(mem, keys \ hits).cache
          /\ entryKeyMap' = Less(entryKeyMap, {d \in DOMAIN entryKeyMap : entryKeyMap[d] \notin hits})
      BY <1>8 DEF CleanupMemory
    <2>2. entryKeyMap[e] \in keys /\ entryKeyMap[e] \notin hits
      BY <1>2, <2>1
    <2> HIDE DEF keys, hits
    <2>3. entryKeyMap[e] \in keys \ hits
      BY <2>2
    <2> QED
      BY <1>1, <2>1, <2>3
  <1>9. entryKeyMap' # entryKeyMap
    OBVIOUS
  <1>10. cleanPc # "checking" /\ \A c \in Callers : calls[c].op = "idle"
    BY DEF NoServer, Idle
  <1>11. \/ ClearMemory \/ CleanupMemory
         \/ \E r \in Asked[adapter] : \E d \in Entries(r) : \E k \in KeysOf(r, d) : InvalidateMemory(d, k)
         \/ \E r \in Asked[adapter] : InvalidateByIdMemory(r) \/ \E byId \in BOOLEAN : InvalidateCache(r, byId)
    BY <1>3, <1>9, <1>10
    DEF Next, MemoryCalls, RedisCalls, Cleanup, Stopping, vars, Tick, Disable, Restore,
       GetMemory, SetMemory, GetByTaskId, Waits, GetRedis, SetRedis, StoreRedis, InvalidateRedis,
       DeleteRedis, InvalidateByIdRedis, DeleteByIdRedis, UnmapRedis, ClearRedis, EraseRedis,
       UnmapAllRedis, RedisForget, StartCleanupTask, CleanupScan, CleanupCheck, CleanupRemove,
       StopCleanupTask, CleanupCancelled, StopCleanupReturn
  <1> QED
    BY <1>4, <1>5, <1>6, <1>7, <1>8, <1>11

\* Over MemoryCacheAdapter no call and no round of the clean-up removes the
\* mapping of a value that is still there to be found, except invalidate() of
\* a call whose arguments cannot be encoded.
THEOREM MappingsStayWithValues == Spec => MappingsOutliveValues
  <1>1. Init => OwnMappings /\ NoServer
    BY DEF Init, OwnMappings, NoServer, Nothing
  <1>2. TypeOK /\ OwnMappings /\ NoServer /\ [Next]_vars => (OwnMappings /\ NoServer)'
    BY OwnMappingsStep, NoServerStep, TypeParts
  <1>3. TypeOK /\ MemInv /\ OwnMappings /\ NoServer /\ [Next]_vars => NoneFromUnderAValue
    <2> SUFFICES ASSUME TypeOK, MemInv, OwnMappings, NoServer, [Next]_vars, adapter = "memory",
                        NEW e \in DOMAIN entryKeyMap \ DOMAIN entryKeyMap'
                 PROVE  ~Hit(mem', entryKeyMap[e], now') \/ NewKeyDeleted(e)
      BY DEF NoneFromUnderAValue, NewKeyDeleted
    <2>1. entryKeyMap[e] \notin DOMAIN mem'.cache \/ NewKeyDeleted(e)
      BY MappingGoesWithValue, TypeParts DEF MemInv
    <2> QED
      BY <2>1 DEF Hit
  <1>4. Spec => [][NoneFromUnderAValue]_vars
    BY <1>1, <1>2, <1>3, MemInvInit, MemInvStep, CacheTypes, PTL DEF Spec
  <1> QED
    BY <1>4 DEF MappingsOutliveValues, NoneFromUnderAValue
=============================================================================
