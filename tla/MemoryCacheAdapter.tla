------------------------- MODULE MemoryCacheAdapter -------------------------
(***************************************************************************)
(* MemoryCacheAdapter (adapters/memory.py) as operators on the record      *)
(*     [cache |-> key :> [value, expiry], access |-> key :> last use].     *)
(* Its lock is never contended: nothing is awaited while it is held, so    *)
(* that every call is a single step.                                       *)
(***************************************************************************)
EXTENDS Naturals, FiniteSets, Functions

CONSTANT MaxSize    \* max_size

ASSUME MaxSizeAssumption == MaxSize \in Nat

Empty == [cache |-> [k \in {} |-> k], access |-> [k \in {} |-> k]]

\* f with f[k] = v
With(f, k, v) == [x \in DOMAIN f \union {k} |-> IF x = k THEN v ELSE f[x]]

\* f without the keys in K
Less(f, K) == Restrict(f, DOMAIN f \ K)

\* Seeded fault: the time of the last use is kept.
Without_Time(m, K) == [m EXCEPT !.cache = Less(@, K)]

\* Both dictionaries lose K.
Without(m, K) == [cache |-> Less(m.cache, K), access |-> Less(m.access, K)]

Hit(m, k, now) == k \in DOMAIN m.cache /\ now <= m.cache[k].expiry

\* Seeded fault: looking up is no use.
Get_NotUsed(m, k, now) ==
    IF k \in DOMAIN m.cache /\ ~Hit(m, k, now) THEN Without(m, {k}) ELSE m

\* get(): a hit is a use, and an expired entry is removed.
Get(m, k, now) ==
    IF Hit(m, k, now) THEN [cache |-> m.cache, access |-> With(m.access, k, now)]
    ELSE IF k \in DOMAIN m.cache THEN Without(m, {k})
    ELSE m

\* The keys min() may find in _evict_one(): time.time() has a resolution, and
\* of two equal times the dictionary's order decides.
Oldest(m) ==
    {k \in DOMAIN m.access : \A j \in DOMAIN m.access : m.access[k] <= m.access[j]}

\* Seeded fault: one entry too many.
Full_OffByOne(m, k) == Cardinality(DOMAIN m.cache) > MaxSize /\ k \notin DOMAIN m.cache

Full(m, k) == Cardinality(DOMAIN m.cache) >= MaxSize /\ k \notin DOMAIN m.cache

\* What may be left when there is room for k: _evict_one() if need be, which
\* does nothing when there is nothing to evict.
Room(m, k) ==
    IF Full(m, k) /\ DOMAIN m.access # {}
    THEN {Without(m, {v}) : v \in Oldest(m)}
    ELSE {m}

\* set(): the possible states after it.
Set(m, k, v, expiry, now) ==
    { [ cache  |-> With(r.cache, k, [value |-> v, expiry |-> expiry]),
        access |-> With(r.access, k, now) ] : r \in Room(m, k) }

\* delete(); whether it found the key does not depend on its expiry.
Delete(m, k) == Without(m, {k})
=============================================================================
