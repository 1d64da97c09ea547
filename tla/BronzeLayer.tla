------------------------------ MODULE BronzeLayer ------------------------------
(***************************************************************************)
(* The in-memory records of BronzeLayer (medallion/bronze_layer.py), which *)
(* the threads of ingest_batch fill without a lock: the stores by          *)
(* identifier, the order of ingestion and the cache of immutable records.  *)
(* It persists a record at the end of its ingest and falls back to what it *)
(* has persisted when none in memory matches; RecordStore has the steps of *)
(* storing.  The process may die at any step, and memory with it.          *)
(*                                                                         *)
(* A step runs from one point where the interpreter may switch threads (a  *)
(* call or a loop iteration) to the next.  The identifier is a hash of the *)
(* content, the source and the time of ingestion: a caller may ingest it   *)
(* again, but no two threads ingest one identifier at the same time.       *)
(***************************************************************************)
EXTENDS Integers, Sequences, FiniteSets, SequencesExt

CONSTANTS
    Ingesters,      \* callers of the layer
    Ids,            \* data identifiers
    MaxRecords,     \* _max_in_memory_records
    HasTtl,         \* is _in_memory_ttl_seconds set?
    MaxBronzeCalls, \* bound: calls of ingest and of get_bronze_records
    NoId            \* no identifier

\* __init__ replaces a capacity below one by the default.
ASSUME CapacityAssumption == MaxRecords \in Nat \ {0} /\ HasTtl \in BOOLEAN
ASSUME CallsAssumption == MaxBronzeCalls \in Nat /\ NoId \notin Ids

VARIABLES
    data,      \* keys of _data_store
    meta,      \* keys of _metadata_store and _lineage_store
    stamped,   \* keys of _in_memory_timestamps
    cached,    \* keys of _record_cache
    ingested,  \* _ingestion_order
    persisted, \* records the storage backend returns
    at,        \* [Ingesters -> next step of its call]
    id,        \* [Ingesters -> identifier it ingests or asks for, or NoId]
    victim,    \* [Ingesters -> identifier it evicts, or NoId]
    return,    \* [Ingesters -> step to which _evict_record returns]
    calls,     \* calls so far
    crossed,   \* history: a record was ingested again while it was evicted, or
               \* the expiry dropped an identifier that had a timestamp
    outrun,    \* history: a record was evicted while it was being cached
    sole,      \* history: [Ingesters -> nobody else ran during its call]
    sure,      \* history: [Ingesters -> its record has been persisted since it asked]
    there      \* history: [Ingesters -> its record was there at a time since it asked]

memory == <<data, meta, stamped, cached, ingested>>
stores == <<memory, persisted>>
callVars == <<id, victim, return>>
asked == <<sure, there>>
history == <<crossed, outrun, sole, asked>>
bronzeVars == <<stores, at, callVars, calls, history>>

Steps == {"purge", "orphan", "insert", "register", "enforce", "head", "resolve", "cache",
          "evictData", "evictMeta", "evictStamp", "evictCached", "evictOrder",
          "persist", "look", "getResolve", "getCache", "query", "empty", "found", "missing"}

\* The steps of get_bronze_records, before and after it has its answer.
Asking == {"look", "getResolve", "getCache", "query", "empty"}
Answered == {"found", "missing"}

BronzeTypeOK ==
    /\ data \subseteq Ids /\ meta \subseteq Ids /\ stamped \subseteq Ids /\ cached \subseteq Ids
    /\ ingested \in Seq(Ids) /\ persisted \subseteq Ids
    /\ at \in [Ingesters -> {"idle"} \cup Steps]
    /\ id \in [Ingesters -> Ids \cup {NoId}]
    /\ victim \in [Ingesters -> Ids \cup {NoId}]
    /\ return \in [Ingesters -> {"purge", "insert", "enforce"}]
    /\ calls \in 0..MaxBronzeCalls
    /\ crossed \in BOOLEAN /\ outrun \in BOOLEAN
    /\ {sole, sure, there} \subseteq [Ingesters -> BOOLEAN]
    /\ \A t \in Ingesters : (at[t] = "idle") = (id[t] = NoId)

BronzeInit ==
    /\ data = {} /\ meta = {} /\ stamped = {} /\ cached = {}
    /\ ingested = <<>> /\ persisted = {}
    /\ at = [t \in Ingesters |-> "idle"]
    /\ id = [t \in Ingesters |-> NoId]
    /\ victim = [t \in Ingesters |-> NoId]
    /\ return = [t \in Ingesters |-> "insert"]
    /\ calls = 0
    /\ crossed = FALSE
    /\ outrun = FALSE
    /\ sole = [t \in Ingesters |-> FALSE]
    /\ sure = [t \in Ingesters |-> FALSE] /\ there = [t \in Ingesters |-> FALSE]

-----------------------------------------------------------------------------
(* Helpers *)

Proceed(t, label) == at' = [at EXCEPT ![t] = label]

\* History: what has become of the records that are asked for.
Follow ==
    LET asking(t) == at[t] \in Asking
    IN  /\ sure' = [t \in Ingesters |-> asking(t) /\ sure[t] /\ id[t] \in persisted']
        /\ there' = [t \in Ingesters |-> asking(t) /\ (there[t] \/ id[t] \in persisted' \cup data')]

\* get_bronze_records has its answer.
Tell(t, label) ==
    /\ Proceed(t, label)
    /\ sure' = [sure EXCEPT ![t] = FALSE] /\ there' = [there EXCEPT ![t] = FALSE]

\* A call begins.
Begin(t, i, label) ==
    /\ at[t] = "idle"
    /\ calls < MaxBronzeCalls
    /\ calls' = calls + 1
    /\ id' = [id EXCEPT ![t] = i]
    /\ sole' = [u \in Ingesters |-> u = t /\ \A o \in Ingesters \ {t} : at[o] = "idle"]
    /\ Proceed(t, label)
    /\ UNCHANGED <<stores, victim, return, crossed, outrun>>

\* A call returns or raises.
Finish(t) ==
    /\ Proceed(t, "idle")
    /\ id' = [id EXCEPT ![t] = NoId]

\* _evict_record is called for i.
CallEvict(t, i, label) ==
    /\ victim' = [victim EXCEPT ![t] = i]
    /\ return' = [return EXCEPT ![t] = label]
    /\ Proceed(t, "evictData")
    /\ crossed' = (crossed \/ \E u \in Ingesters \ {t} :
                      victim[u] = i /\ "insert" \in {label, return[u]})

-----------------------------------------------------------------------------
(* ingest *)

StartIngest(t, i) ==
    /\ \A u \in Ingesters : id[u] = i => at[u] \in Asking \cup Answered
    /\ Begin(t, i, "purge")
    /\ UNCHANGED asked

\* _purge_expired_records, one iteration; then a stale copy under the same
\* identifier is evicted.
Purge(t, expired) ==
    /\ at[t] = "purge"
    /\ expired => HasTtl /\ ingested # <<>> /\ Head(ingested) \in stamped
    /\ IF HasTtl /\ ingested # <<>> /\ Head(ingested) \notin stamped
          THEN /\ victim' = [victim EXCEPT ![t] = Head(ingested)]
               /\ Proceed(t, "orphan")
               /\ UNCHANGED <<return, crossed>>
          ELSE IF expired THEN CallEvict(t, Head(ingested), "purge")
                          ELSE CallEvict(t, id[t], "insert")
    /\ UNCHANGED <<stores, id, calls, outrun, sole, asked>>

\* The oldest record has no timestamp: popleft, whatever is oldest by now.
\* An empty order raises IndexError, which ingest does not catch here.
Orphan(t) ==
    /\ at[t] = "orphan"
    /\ victim' = [victim EXCEPT ![t] = NoId]
    /\ IF ingested = <<>>
          THEN Finish(t) /\ UNCHANGED <<ingested, crossed>>
          ELSE /\ ingested' = Tail(ingested)
               /\ crossed' = (crossed \/ Head(ingested) \in stamped)
               /\ Proceed(t, "purge")
               /\ UNCHANGED id
    /\ UNCHANGED <<data, meta, stamped, cached, persisted, return, calls, outrun, sole, asked>>

\* Data, metadata and lineage are stored.
Insert(t) ==
    /\ at[t] = "insert"
    /\ data' = data \cup {id[t]}
    /\ meta' = meta \cup {id[t]}
    /\ Proceed(t, "register")
    /\ UNCHANGED <<stamped, cached, ingested, persisted, callVars, calls, crossed, outrun, sole>>
    /\ Follow

\* _register_in_memory_record
Register(t) ==
    /\ at[t] = "register"
    /\ stamped' = stamped \cup {id[t]}
    /\ ingested' = Append(ingested, id[t])
    /\ Proceed(t, "enforce")
    /\ UNCHANGED <<data, meta, cached, persisted, callVars, calls, history>>

\* Mutant of Over: one record too many is let in.
OverByOne == Len(ingested) > MaxRecords + 1

Over == Len(ingested) > MaxRecords

\* _enforce_in_memory_capacity: the test of the loop ...
Enforce(t) ==
    /\ at[t] = "enforce"
    /\ Proceed(t, IF Over THEN "head" ELSE "resolve")
    /\ UNCHANGED <<stores, callVars, calls, history>>

\* Mutant of EvictFirst: the newest record goes.
EvictNewest(t) ==
    /\ at[t] = "head"
    /\ IF ingested = <<>>
          THEN Finish(t) /\ UNCHANGED <<victim, return, crossed>>
          ELSE CallEvict(t, Last(ingested), "enforce") /\ UNCHANGED id
    /\ UNCHANGED <<stores, calls, outrun, sole, asked>>

\* ... and its body.  An order emptied since then raises IndexError: the ingest
\* has failed, and is not undone.
EvictFirst(t) ==
    /\ at[t] = "head"
    /\ IF ingested = <<>>
          THEN Finish(t) /\ UNCHANGED <<victim, return, crossed>>
          ELSE CallEvict(t, Head(ingested), "enforce") /\ UNCHANGED id
    /\ UNCHANGED <<stores, calls, outrun, sole, asked>>

\* _cache_bronze_record, and for get_bronze_records _resolve_cached_record:
\* a record is built from the stores unless there is one.
Resolve(t) ==
    /\ at[t] \in {"resolve", "getResolve"}
    /\ LET built == id[t] \notin cached /\ id[t] \in data \cap meta
       IN  IF at[t] = "resolve"
              THEN Proceed(t, IF built THEN "cache" ELSE "persist") /\ UNCHANGED asked
              ELSE IF id[t] \in cached
                      THEN Tell(t, "found")
                      ELSE Proceed(t, IF built THEN "getCache" ELSE "query") /\ UNCHANGED asked
    /\ UNCHANGED <<stores, callVars, calls, crossed, outrun, sole>>

\* The record is cached.
Cache(t) ==
    /\ at[t] \in {"cache", "getCache"}
    /\ cached' = cached \cup {id[t]}
    /\ IF at[t] = "cache" THEN Proceed(t, "persist") /\ UNCHANGED asked ELSE Tell(t, "found")
    /\ UNCHANGED <<data, meta, stamped, ingested, persisted, callVars, calls, crossed, outrun, sole>>

\* store_data returns True, or it returns False or raises, in which case it may
\* have spoilt what was stored before: ingest returns all the same.
Persist(t) ==
    /\ at[t] = "persist"
    /\ persisted' \in {persisted \cup {id[t]}, persisted, persisted \ {id[t]}}
    /\ Finish(t)
    /\ UNCHANGED <<memory, victim, return, calls, crossed, outrun, sole>>
    /\ Follow

-----------------------------------------------------------------------------
(* _evict_record: five stores, one after the other *)

EvictData(t) ==
    /\ at[t] = "evictData"
    /\ data' = data \ {victim[t]}
    /\ Proceed(t, "evictMeta")
    /\ UNCHANGED <<meta, stamped, cached, ingested, persisted, callVars, calls, crossed, outrun, sole>>
    /\ Follow

\* Metadata and lineage.
EvictMeta(t) ==
    /\ at[t] = "evictMeta"
    /\ meta' = meta \ {victim[t]}
    /\ Proceed(t, "evictStamp")
    /\ UNCHANGED <<data, stamped, cached, ingested, persisted, callVars, calls, history>>

EvictStamp(t) ==
    /\ at[t] = "evictStamp"
    /\ stamped' = stamped \ {victim[t]}
    /\ Proceed(t, "evictCached")
    /\ UNCHANGED <<data, meta, cached, ingested, persisted, callVars, calls, history>>

\* Mutant of EvictCached: the record cache keeps the record.
EvictNotCached(t) ==
    /\ at[t] = "evictCached"
    /\ Proceed(t, "evictOrder")
    /\ UNCHANGED <<stores, callVars, calls, history>>

EvictCached(t) ==
    /\ at[t] = "evictCached"
    /\ cached' = cached \ {victim[t]}
    /\ outrun' = (outrun \/ \E u \in Ingesters :
                     at[u] \in {"cache", "getCache"} /\ id[u] = victim[t])
    /\ Proceed(t, "evictOrder")
    /\ UNCHANGED <<data, meta, stamped, ingested, persisted, callVars, calls, crossed, sole, asked>>

\* Mutant of Dropped: the oldest identifier goes, whatever it is by now.
DroppedHead(i) == IF ingested = <<>> THEN ingested ELSE Tail(ingested)

\* Mutant of Dropped: the identifier stays.
DroppedNever(i) == ingested

\* popleft, or remove: the first occurrence goes; ValueError is suppressed.
Dropped(i) == RemoveFirst(ingested, i)

EvictOrder(t) ==
    /\ at[t] = "evictOrder"
    /\ ingested' = Dropped(victim[t])
    /\ victim' = [victim EXCEPT ![t] = NoId]
    /\ Proceed(t, return[t])
    /\ UNCHANGED <<data, meta, stamped, cached, persisted, id, return, calls, history>>

-----------------------------------------------------------------------------
(* get_bronze_records *)

\* The call asks for one record, by a filter.
StartGet(t, i) ==
    /\ Begin(t, i, "look")
    /\ sure' = [sure EXCEPT ![t] = i \in persisted]
    /\ there' = [there EXCEPT ![t] = i \in persisted \cup data]

\* Mutant of Look: no record in memory, no record.
LookOnly(t, found) ==
    /\ at[t] = "look"
    /\ IF found
          THEN id[t] \in data \cap meta /\ Proceed(t, "getResolve") /\ UNCHANGED asked
          ELSE Tell(t, "missing")
    /\ UNCHANGED <<stores, callVars, calls, crossed, outrun, sole>>

\* The iteration over _data_store reaches the record, or ends without it, which
\* takes another thread's changes if it is there.
Look(t, found) ==
    /\ at[t] = "look"
    /\ IF found THEN id[t] \in data \cap meta ELSE id[t] \notin data \cap meta \/ ~sole[t]
    /\ Proceed(t, IF found THEN "getResolve" ELSE "query")
    /\ UNCHANGED <<stores, callVars, calls, history>>

\* RuntimeError: another thread has changed the size of the store.
LookRaises(t) ==
    /\ at[t] = "look" /\ ~sole[t]
    /\ Finish(t)
    /\ sure' = [sure EXCEPT ![t] = FALSE] /\ there' = [there EXCEPT ![t] = FALSE]
    /\ UNCHANGED <<stores, victim, return, calls, crossed, outrun, sole>>

\* _collect_persisted_records: the record, nothing, or an error of the backend,
\* which get_bronze_records answers with nothing.
Query(t) ==
    /\ at[t] = "query"
    /\ Tell(t, IF id[t] \in persisted THEN "found" ELSE "missing")
    /\ UNCHANGED <<stores, callVars, calls, crossed, outrun, sole>>

QueryFails(t) ==
    /\ at[t] = "query"
    /\ Proceed(t, "empty")
    /\ sure' = [sure EXCEPT ![t] = FALSE]
    /\ UNCHANGED <<stores, callVars, calls, crossed, outrun, sole, there>>

QueryEmpty(t) ==
    /\ at[t] = "empty"
    /\ Tell(t, "missing")
    /\ UNCHANGED <<stores, callVars, calls, crossed, outrun, sole>>

EndGet(t) ==
    /\ at[t] \in {"found", "missing"}
    /\ Finish(t)
    /\ UNCHANGED <<stores, victim, return, calls, history>>

-----------------------------------------------------------------------------
\* The process dies and another begins: memory is empty, and what was being
\* stored may be spoilt.
Restart ==
    /\ data' = {} /\ meta' = {} /\ stamped' = {} /\ cached' = {} /\ ingested' = <<>>
    /\ \E spoilt \in SUBSET {id[t] : t \in {u \in Ingesters : at[u] = "persist"}} :
          persisted' = persisted \ spoilt
    /\ at' = [t \in Ingesters |-> "idle"] /\ id' = [t \in Ingesters |-> NoId]
    /\ victim' = [t \in Ingesters |-> NoId] /\ return' = [t \in Ingesters |-> "insert"]
    /\ crossed' = FALSE /\ outrun' = FALSE
    /\ sole' = [t \in Ingesters |-> FALSE]
    /\ sure' = [t \in Ingesters |-> FALSE] /\ there' = [t \in Ingesters |-> FALSE]
    /\ UNCHANGED calls

-----------------------------------------------------------------------------

BronzeStep(t) ==
    \/ \E expired \in BOOLEAN : Purge(t, expired)
    \/ Orphan(t) \/ Insert(t) \/ Register(t) \/ Enforce(t) \/ EvictFirst(t)
    \/ Resolve(t) \/ Cache(t) \/ Persist(t)
    \/ EvictData(t) \/ EvictMeta(t) \/ EvictStamp(t) \/ EvictCached(t) \/ EvictOrder(t)
    \/ \E found \in BOOLEAN : Look(t, found)
    \/ LookRaises(t) \/ Query(t) \/ QueryFails(t) \/ QueryEmpty(t) \/ EndGet(t)

BronzeNext ==
    \/ \E t \in Ingesters : BronzeStep(t)
    \/ \E t \in Ingesters, i \in Ids : StartIngest(t, i) \/ StartGet(t, i)
    \/ Restart

BronzeSpec == BronzeInit /\ [][BronzeNext]_bronzeVars

\* A thread in a call keeps being scheduled.
BronzeFairSpec == BronzeSpec /\ \A t \in Ingesters : WF_bronzeVars(BronzeStep(t))

-----------------------------------------------------------------------------
(* Properties *)

NoCalls == \A t \in Ingesters : at[t] = "idle"

\* Between calls the stores of _evict_record and ingest hold the same records,
\* each once in the order of ingestion, however the ingests interleave; a record
\* ingested again while another thread evicts it, or an expiry that drops the
\* wrong identifier, parts them for good.
StoresAgree ==
    NoCalls /\ ~crossed =>
        /\ data = meta /\ data = stamped
        /\ data = ToSet(ingested) /\ IsInjective(ingested)

\* _enforce_in_memory_capacity: between calls the order is within its capacity.
\* An ingest that fails on an empty order is no exception.
CapacityIsKept == NoCalls => Len(ingested) <= MaxRecords

\* The record cache holds no record the layer has evicted, unless the eviction
\* ran between the building of the record and its caching.
RecordCacheFollows == NoCalls /\ ~outrun => cached \subseteq data

\* The record an ingest reports is in memory when it returns, if nothing else
\* ran meanwhile: making room never takes the newest record, even when earlier
\* calls have left the order wrong.
OwnRecordSurvives ==
    \A t \in Ingesters : at[t] \in {"resolve", "cache"} /\ sole[t] =>
        id[t] \in data \cap meta /\ Contains(ingested, id[t])

\* What the stores and the calls are in the catalog.
StatusOf == [i \in Ids |-> IF i \in persisted THEN "durable"
                           ELSE IF i \in data THEN "volatile" ELSE "absent"]
BeingStored == {id[t] : t \in {u \in Ingesters : at[u] = "persist"}}
RequestOf ==
    [t \in Ingesters |->
        [id |-> IF at[t] \in Asking \cup Answered THEN id[t] ELSE NoId,
         sure |-> sure[t], seen |-> there[t],
         told |-> IF at[t] \in Answered THEN at[t] ELSE "nothing yet"]]

Layer == INSTANCE RecordCatalog WITH
    Askers <- Ingesters, None <- NoId,
    status <- StatusOf, storing <- BeingStored, request <- RequestOf

\* The layer implements the catalog of its records: memory, capacity, expiry and
\* the storage backend together lose a stored record only to a crash or failure
\* in the storing of it again, and a call that asks for it while it is stored
\* gets it, in memory or not, unless it raises or the backend fails.
ImplementsCatalog == Layer!Catalog

\* Every call returns: neither loop over the order runs for ever.
CallEnds == \A t \in Ingesters : at[t] # "idle" ~> at[t] = "idle"
=============================================================================
