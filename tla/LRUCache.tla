-------------------------------- MODULE LRUCache --------------------------------
(***************************************************************************)
(* LRUCache of caching/lru_cache.py, used by one thread: an ordered        *)
(* dictionary of entries and what must agree with it: the collision chains *)
(* (keys by the hash of their text), the byte count, a heap of expiry      *)
(* times and the mapping from a hash in the heap to the key it stands for. *)
(* Taking a key out of the heap only drops the mapping; what stays in the  *)
(* heap is skipped when a cleanup comes across it.                         *)
(*                                                                         *)
(* Times are ages in ticks.  A cleanup's tolerance is at most 15% of the   *)
(* time to live, less than a tick.                                         *)
(***************************************************************************)
EXTENDS Integers, Sequences, FiniteSets, SequencesExt, FiniteSetsExt

CONSTANTS
    Keys,
    NoKey,
    Hash,          \* [Keys -> hash of the key's text]
    MaxSize,       \* config.max_size
    MaxBytes,      \* config.max_content_size_bytes, of all values together
    MaxValueSize,  \* security.max_content_size, of one value
    Sizes,         \* sizes of values, one beyond these limits among them
    ChainLimit,    \* security.max_collision_chain
    TTL,           \* config.ttl_seconds, in ticks
    CleanupEvery   \* _cleanup_interval, in ticks

ASSUME LRUAssumption ==
    /\ IsFiniteSet(Keys) /\ NoKey \notin Keys /\ DOMAIN Hash = Keys
    /\ {MaxSize, MaxBytes, MaxValueSize, ChainLimit, TTL, CleanupEvery} \subseteq Nat \ {0}
    /\ Sizes \subseteq Nat \ {0}

VARIABLES
    lru,           \* the five structures
    sinceCleanup,  \* time since _last_cleanup
    grown,         \* history: a value has changed its size inside the cache
    shadowed       \* history: keys whose heap entry is not the only one of
                   \* their hash, see Push

lruVars == <<lru, sinceCleanup, grown, shadowed>>

Hashes == {Hash[k] : k \in Keys}

NoEntry == [size |-> 0, age |-> 0]

Empty ==
    [order   |-> <<>>,                        \* _cache: least recently used first
     entry   |-> [k \in Keys |-> NoEntry],    \* what each key in order stands for
     chains  |-> [h \in Hashes |-> {}],       \* _collision_chains
     bytes   |-> 0,                           \* _total_size
     heap    |-> {},                          \* _expiration_heap: <<age, hash>>
     heapKey |-> [h \in Hashes |-> NoKey]]    \* _heap_key_mapping

LRUTypeOK ==
    /\ lru.order \in Seq(Keys)
    /\ lru.entry \in [Keys -> [size : Sizes \cup {0}, age : 0..TTL + 1]]
    /\ lru.chains \in [Hashes -> SUBSET Keys]
    /\ lru.bytes \in Int
    /\ lru.heap \subseteq (0..TTL) \X Hashes
    /\ lru.heapKey \in [Hashes -> Keys \cup {NoKey}]
    /\ sinceCleanup \in 0..CleanupEvery
    /\ grown \in BOOLEAN /\ shadowed \subseteq Keys

LRUInit ==
    /\ lru = Empty
    /\ sinceCleanup = 0
    /\ grown = FALSE
    /\ shadowed = {}

-----------------------------------------------------------------------------
(* The cache's private methods, as functions of the cache *)

Cached(c) == ToSet(c.order)
SizeOf(c, ks) == Cardinality(UNION {{k} \X (1..c.entry[k].size) : k \in ks})

\* What is left of an order without some keys: its n-th is the n-th that is kept.
Without(order, ks) ==
    LET kept == {i \in DOMAIN order : order[i] \notin ks}
        Nth(n) == CHOOSE i \in kept : Cardinality({j \in kept : j <= i}) = n
    IN  [n \in 1..Cardinality(kept) |-> order[Nth(n)]]

\* The cached entry of k leaves the dictionary, the count and the mapping.
Unlink(c, ks) ==
    [c EXCEPT !.order = Without(@, ks),
              !.entry = [k \in Keys |-> IF k \in ks THEN NoEntry ELSE @[k]],
              !.bytes = @ - SizeOf(c, ks),
              !.heapKey = [h \in Hashes |-> IF h \in {Hash[k] : k \in ks} THEN NoKey ELSE @[h]]]

\* Mutant of Deleted: the collision chain keeps the key.
DeletedButChained(c, ks) == Unlink(c, ks \cap Cached(c))

\* delete() of some keys: the collision chains lose them as well.
Deleted(c, ks) ==
    LET gone == ks \cap Cached(c)
    IN  [Unlink(c, gone) EXCEPT !.chains = [h \in Hashes |-> @[h] \ gone]]

\* _add_to_expiration_heap: a new entry, which the hash now stands for.
Push(c, k) ==
    [c EXCEPT !.heap = @ \cup {<<0, Hash[k]>>}, !.heapKey[Hash[k]] = k]

\* _optional_cleanup: each hash that is due in the heap loses its mapping, and
\* its key leaves the cache if the entry has expired.  An empty cache is left.
Cleaned(c) ==
    LET due == {e[2] : e \in {x \in c.heap : x[1] >= TTL}}
        expired == {k \in Cached(c) : c.entry[k].age >= TTL}
    IN  IF sinceCleanup < CleanupEvery \/ c.order = <<>> THEN c
        ELSE [Deleted(c, {c.heapKey[h] : h \in due} \cap expired) EXCEPT
                !.heap = {e \in @ : e[1] < TTL},
                !.heapKey = [h \in Hashes |-> IF h \in due THEN NoKey ELSE @[h]]]

\* _evict_lru, n times.
Evicted(c, n) == Deleted(c, ToSet(SubSeq(c.order, 1, n)))

\* The eviction loop of set: at most max_size times, until "size" bytes fit.
MadeRoom(c, size) ==
    LET limit == Min({Len(c.order), MaxSize})
        fits == {n \in 0..limit : Evicted(c, n).bytes + size <= MaxBytes}
    IN  Evicted(c, IF fits = {} THEN limit ELSE Min(fits))

\* History: pushing k when the heap knows its hash, or another key has it.
Shadow(c, k) ==
    (shadowed \ {k}) \cup
        (IF (\E e \in c.heap : e[2] = Hash[k]) \/ c.chains[Hash[k]] \ {k} # {}
            THEN c.chains[Hash[k]] \cup {k} ELSE {})

CleanupDone == sinceCleanup' = IF sinceCleanup < CleanupEvery THEN sinceCleanup ELSE 0

-----------------------------------------------------------------------------
(* Actions *)

\* get(k) of an entry that is there and has not expired.
GetHit(k) ==
    LET c == Cleaned(lru)
    IN  /\ k \in Cached(c) /\ c.entry[k].age <= TTL
        /\ lru' = Push([c EXCEPT !.order = Append(Without(@, {k}), k),
                                 !.entry[k].age = 0], k)
        /\ shadowed' = Shadow(c, k)
        /\ CleanupDone
        /\ UNCHANGED grown

\* get(k) of anything else.
GetMiss(k) ==
    LET c == Cleaned(lru)
    IN  /\ k \in Cached(c) => c.entry[k].age > TTL
        /\ lru' = Deleted(c, {k})
        /\ CleanupDone
        /\ UNCHANGED <<grown, shadowed>>

\* contains(k) cleans up nothing but an expired k.
ContainsExpired(k) ==
    /\ k \in Cached(lru) /\ lru.entry[k].age > TTL
    /\ lru' = Deleted(lru, {k})
    /\ UNCHANGED <<sinceCleanup, grown, shadowed>>

TooLarge(size) == size > MaxValueSize \/ size > MaxBytes
Full(c, k) == Cardinality(c.chains[Hash[k]]) >= ChainLimit

\* set() refuses a value that is too large, and a key whose chain is full.
SetRejected(k, size) ==
    LET c == Cleaned(lru)
    IN  /\ TooLarge(size) \/ Full(c, k)
        /\ lru' = c
        /\ CleanupDone
        /\ UNCHANGED <<grown, shadowed>>

\* set() replaces, makes room and stores.
Set(k, size) ==
    LET c == Cleaned(lru)
        chained == [c EXCEPT !.chains[Hash[k]] = @ \cup {k}]
        replaced == IF k \in Cached(c) THEN Unlink(chained, {k}) ELSE chained
        counted == IF Len(replaced.order) >= MaxSize THEN Evicted(replaced, 1) ELSE replaced
        room == MadeRoom(counted, size)
    IN  /\ ~TooLarge(size) /\ ~Full(c, k)
        /\ lru' = Push([room EXCEPT !.order = Append(@, k),
                                    !.entry[k] = [size |-> size, age |-> 0],
                                    !.bytes = @ + size], k)
        /\ shadowed' = Shadow(c, k)
        /\ CleanupDone
        /\ UNCHANGED grown

Delete(k) ==
    /\ lru' = Deleted(lru, {k})
    /\ UNCHANGED <<sinceCleanup, grown, shadowed>>

Clear ==
    /\ lru' = Empty
    /\ sinceCleanup' = 0
    /\ shadowed' = {}
    /\ UNCHANGED grown

\* The owner of a cached value changes it (bound: once): it is sized again when
\* it leaves.
Grow(k, size) ==
    /\ ~grown
    /\ k \in Cached(lru)
    /\ lru' = [lru EXCEPT !.entry[k].size = size]
    /\ grown' = TRUE
    /\ UNCHANGED <<sinceCleanup, shadowed>>

TimeGoesOn ==
    /\ lru' = [lru EXCEPT
          !.entry = [k \in Keys |-> LET e == lru.entry[k]
                                    IN  IF k \notin Cached(lru) THEN e
                                        ELSE [e EXCEPT !.age = Min({e.age + 1, TTL + 1})]],
          !.heap = {<<Min({e[1] + 1, TTL}), e[2]>> : e \in @}]
    /\ sinceCleanup' = Min({sinceCleanup + 1, CleanupEvery})
    /\ UNCHANGED <<grown, shadowed>>

LRUNext ==
    \/ \E k \in Keys : GetHit(k) \/ GetMiss(k) \/ ContainsExpired(k) \/ Delete(k)
    \/ \E k \in Keys, size \in Sizes : SetRejected(k, size) \/ Set(k, size) \/ Grow(k, size)
    \/ Clear \/ TimeGoesOn

LRUSpec == LRUInit /\ [][LRUNext]_lruVars

-----------------------------------------------------------------------------
(* Properties *)

\* The structures agree after every sequence of calls: a chain holds the cached
\* keys of its hash, so that set() refuses nothing for the sake of keys that are
\* gone; a hash in the mapping stands for a cached key; the cache keeps to its
\* bounds, and the bytes are those of the entries unless a value has changed.  A
\* cleanup removes every expired entry whose hash was new to the heap when it was
\* set or last read, and is no other cached key's.  The others may stay for good:
\* an earlier entry of the hash that comes up takes the mapping along.
LRUAgrees ==
    /\ Len(lru.order) <= MaxSize
    /\ \A h \in Hashes :
          /\ lru.chains[h] = {k \in Cached(lru) : Hash[k] = h}
          /\ lru.heapKey[h] \in lru.chains[h] \cup {NoKey}
    /\ ~grown => lru.bytes = SizeOf(lru, Cached(lru)) /\ lru.bytes <= MaxBytes
    /\ sinceCleanup = 0 =>
           \A k \in Cached(lru) : lru.entry[k].age >= TTL => k \in shadowed
=============================================================================
