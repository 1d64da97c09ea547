--------------------------- MODULE BronzeLayerProofs ---------------------------
(***************************************************************************)
(* Theorems about BronzeLayer for every number of callers, identifiers and *)
(* calls and every capacity: that its record cache follows the evictions,  *)
(* that its order is kept within the capacity, that between calls its      *)
(* stores agree, that an ingest by itself keeps its own record, and that   *)
(* it implements the abstract RecordCatalog.                               *)
(*                                                                         *)
(* Caching says who may still hold a record that is no longer in the       *)
(* stores: a caller who has yet to take it out of the cache as well.       *)
(* Apart keeps the ingests of one identifier apart, so that what is being  *)
(* stored is known by identifier.  Knows says what the history of a        *)
(* request stands for: sure, that its record is persisted; there, that it  *)
(* was in one of the stores when it mattered.                              *)
(***************************************************************************)
EXTENDS BronzeLayer, CommonLemmas

Ingesting(t) == at[t] \notin Asking \cup Answered \cup {"idle"}

\* Steps of an ingest before it has anything to cache or to persist.
Making == {"purge", "orphan", "insert", "register", "enforce", "head", "resolve",
           "evictData", "evictMeta", "evictStamp", "evictCached", "evictOrder"}

\* Steps of an eviction that has taken the record from the data, not yet from the cache.
Evicting == {"evictMeta", "evictStamp", "evictCached"}

BronzeTypes ==
    /\ data \subseteq Ids /\ persisted \subseteq Ids
    /\ at \in [Ingesters -> {"idle"} \cup Steps]
    /\ id \in [Ingesters -> Ids \cup {NoId}]
    /\ DOMAIN victim = Ingesters /\ victim = [t \in Ingesters |-> victim[t]]
    /\ return \in [Ingesters -> {"purge", "insert", "enforce"}]
    /\ sure \in [Ingesters -> BOOLEAN] /\ there \in [Ingesters -> BOOLEAN]
    /\ \A t \in Ingesters : at[t] = "idle" <=> id[t] = NoId

Kept(i) == i \in cached \/ \E t \in Ingesters : at[t] \in {"cache", "getCache"} /\ id[t] = i

Caching ==
    ~outrun =>
        \A i \in Ids : Kept(i) => i \in data \/ \E u \in Ingesters : at[u] \in Evicting /\ victim[u] = i

CachedIds == cached \subseteq Ids

Apart ==
    \A t, u \in Ingesters : t # u /\ Ingesting(t) /\ Ingesting(u) => id[t] # id[u]

Knows ==
    \A t \in Ingesters :
        /\ at[t] \notin Asking => ~sure[t] /\ ~there[t]
        /\ sure[t] => id[t] \in persisted
        /\ at[t] \in Asking /\ id[t] \in persisted \cup data => there[t]
        /\ at[t] \in {"getResolve", "getCache"} => there[t]
        /\ at[t] = "empty" => ~sure[t]

BronzeInv == BronzeTypes /\ CachedIds /\ Caching /\ Apart /\ Knows

USE CapacityAssumption, CallsAssumption

-----------------------------------------------------------------------------
(* Steps the catalog does not see *)

\* One caller moves, and may get or lose its identifier.
Moves(t, l, j) ==
    /\ at' = [at EXCEPT ![t] = l] /\ id' = [id EXCEPT ![t] = j]
    /\ DOMAIN victim' = Ingesters /\ victim' = [u \in Ingesters |-> victim'[u]]
    /\ \A u \in Ingesters \ {t} : victim'[u] = victim[u]
    /\ return' \in [Ingesters -> {"purge", "insert", "enforce"}]

LEMMA MovesType ==
    ASSUME BronzeTypes, NEW t \in Ingesters, NEW l \in {"idle"} \cup Steps, NEW j \in Ids \cup {NoId},
           Moves(t, l, j), l = "idle" <=> j = NoId,
           data' \subseteq Ids, persisted' \subseteq Ids,
           sure' \in [Ingesters -> BOOLEAN], there' \in [Ingesters -> BOOLEAN]
    PROVE  /\ BronzeTypes'
           /\ at'[t] = l /\ id'[t] = j
           /\ \A u \in Ingesters \ {t} : at'[u] = at[u] /\ id'[u] = id[u]
  BY DEF BronzeTypes, Moves

\* A caller that keeps its identifier.
LEMMA KeepsId ==
    ASSUME BronzeTypes, NEW t \in Ingesters, UNCHANGED id
    PROVE  id' = [id EXCEPT ![t] = id[t]] /\ id[t] \in Ids \cup {NoId}
  BY DEF BronzeTypes

\* A caller that evicts nothing else.
LEMMA KeepsVictim ==
    ASSUME BronzeTypes, UNCHANGED <<victim, return>>
    PROVE  /\ DOMAIN victim' = Ingesters /\ victim' = [u \in Ingesters |-> victim'[u]]
           /\ return' \in [Ingesters -> {"purge", "insert", "enforce"}]
  BY DEF BronzeTypes

LEMMA SetsVictim ==
    ASSUME BronzeTypes, NEW t \in Ingesters, NEW v, victim' = [victim EXCEPT ![t] = v]
    PROVE  /\ DOMAIN victim' = Ingesters /\ victim' = [u \in Ingesters |-> victim'[u]]
           /\ \A u \in Ingesters \ {t} : victim'[u] = victim[u]
  BY DEF BronzeTypes

LEMMA CachingKept ==
    ASSUME Caching, ~outrun' => ~outrun, data \subseteq data',
           \A i \in Ids : Kept(i)' => Kept(i) \/ i \in data',
           \A u \in Ingesters : at[u] \in Evicting => at'[u] \in Evicting /\ victim'[u] = victim[u]
    PROVE  Caching'
<1> SUFFICES ASSUME ~outrun', NEW i \in Ids, Kept(i)'
             PROVE  i \in data' \/ \E u \in Ingesters : at'[u] \in Evicting /\ victim'[u] = i
  BY DEF Caching
<1>1. CASE i \in data'
  BY <1>1
<1>2. CASE Kept(i)
  <2>1. i \in data \/ \E u \in Ingesters : at[u] \in Evicting /\ victim[u] = i
    BY <1>2 DEF Caching
  <2>2. QED
    BY <2>1
<1>3. QED
  BY <1>1, <1>2

LEMMA ApartKept ==
    ASSUME Apart, \A u \in Ingesters : Ingesting(u)' => Ingesting(u) /\ id'[u] = id[u]
    PROVE  Apart'
  BY DEF Apart

\* A step that leaves the stores and the histories alone and moves one caller within
\* what an ingest does before its record is cached.
LEMMA QuietInv ==
    ASSUME BronzeInv, NEW t \in Ingesters, NEW l \in Making, at[t] \in Making,
           UNCHANGED <<data, persisted, cached, sure, there, outrun, id>>,
           Moves(t, l, id[t]),
           at[t] \in Evicting => l \in Evicting /\ victim'[t] = victim[t]
    PROVE  BronzeInv'
<1>1. /\ l # "idle" /\ at[t] # "idle" /\ l \in Steps
      /\ at[t] \notin {"cache", "getCache"} /\ l \notin {"cache", "getCache"}
      /\ at[t] \notin Asking \cup Answered /\ l \notin Asking \cup Answered
  BY DEF Making, Steps, Asking, Answered
<1>2. BronzeTypes' /\ at'[t] = l /\ \A u \in Ingesters \ {t} : at'[u] = at[u]
  BY <1>1, MovesType DEF BronzeInv, BronzeTypes
<1>3. \A i \in Ids : Kept(i)' => Kept(i)
  BY <1>1, <1>2 DEF Kept
<1>4. \A u \in Ingesters : at[u] \in Evicting => at'[u] \in Evicting /\ victim'[u] = victim[u]
  BY <1>2 DEF Moves
<1>5. Caching'
  BY <1>3, <1>4, CachingKept DEF BronzeInv
<1>6. Apart'
  BY <1>1, <1>2, ApartKept DEF BronzeInv, Ingesting
<1>7. Knows'
  BY <1>1, <1>2 DEF BronzeInv, Knows, Asking
<1>8. QED
  BY <1>2, <1>5, <1>6, <1>7 DEF BronzeInv, CachedIds

\* Nor does the catalog see it.
LEMMA QuietCatalog ==
    ASSUME BronzeInv, NEW t \in Ingesters, NEW l \in Making \cup {"cache"}, at[t] \in Making,
           at' = [at EXCEPT ![t] = l], UNCHANGED <<data, persisted, sure, there, id>>
    PROVE  UNCHANGED Layer!catalogVars
<1>1. at \in [Ingesters -> {"idle"} \cup Steps]
  BY DEF BronzeInv, BronzeTypes
<1>2. /\ at[t] \notin Asking \cup Answered \cup {"persist"}
      /\ l \notin Asking \cup Answered \cup {"persist"}
  BY DEF Making, Asking, Answered
<1>3. /\ \A u \in Ingesters \ {t} : at'[u] = at[u]
      /\ at'[t] = l
  BY <1>1
<1>4. UNCHANGED <<StatusOf, BeingStored>>
  BY <1>2, <1>3 DEF StatusOf, BeingStored
<1>5. UNCHANGED RequestOf
  BY <1>2, <1>3 DEF RequestOf
<1>6. QED
  BY <1>4, <1>5 DEF Layer!catalogVars

Step == BronzeInv' /\ [Layer!CatalogNext]_(Layer!catalogVars)

LEMMA QuietStep ==
    ASSUME BronzeInv, NEW t \in Ingesters, NEW l \in Making, at[t] \in Making,
           UNCHANGED <<data, persisted, cached, sure, there, outrun, id>>,
           Moves(t, l, id[t]),
           at[t] \in Evicting => l \in Evicting /\ victim'[t] = victim[t]
    PROVE  Step
  BY QuietInv, QuietCatalog DEF Step, Moves

\* A call ends without its effect on the stores: an ingest that raises before it has
\* persisted, or a call of get_bronze_records.
LEMMA EndStep ==
    ASSUME BronzeInv, NEW t \in Ingesters, Finish(t), at[t] \notin Evicting \cup {"persist", "idle"},
           UNCHANGED <<data, persisted, cached, outrun, return>>,
           \A u \in Ingesters : sure'[u] = (u # t /\ sure[u]) /\ there'[u] = (u # t /\ there[u]),
           sure' \in [Ingesters -> BOOLEAN], there' \in [Ingesters -> BOOLEAN],
           DOMAIN victim' = Ingesters, victim' = [u \in Ingesters |-> victim'[u]],
           \A u \in Ingesters \ {t} : victim'[u] = victim[u]
    PROVE  Step
<1>1. Moves(t, "idle", NoId)
  BY DEF Moves, Finish, Proceed, BronzeInv, BronzeTypes
<1>2. /\ BronzeTypes' /\ at'[t] = "idle" /\ id'[t] = NoId
      /\ \A u \in Ingesters \ {t} : at'[u] = at[u] /\ id'[u] = id[u]
  <2>1. BronzeTypes /\ data' \subseteq Ids /\ persisted' \subseteq Ids
    BY DEF BronzeInv, BronzeTypes
  <2>2. QED
    BY <1>1, <2>1, MovesType
<1>3. "idle" \notin Asking \cup Answered \cup Evicting \cup {"persist", "cache", "getCache", "empty"}
  BY DEF Asking, Answered, Evicting
<1>4. Caching'
  <2>1. \A i \in Ids : Kept(i)' => Kept(i)
    BY <1>2, <1>3 DEF Kept
  <2>2. \A u \in Ingesters : at[u] \in Evicting => at'[u] \in Evicting /\ victim'[u] = victim[u]
    BY <1>1, <1>2 DEF Moves
  <2>3. QED
    BY <2>1, <2>2, CachingKept DEF BronzeInv
<1>5. Apart'
  BY <1>2, ApartKept DEF BronzeInv, Ingesting
<1>6. Knows'
  BY <1>2, <1>3 DEF BronzeInv, Knows, Asking
<1>7. UNCHANGED <<StatusOf, BeingStored>>
  BY <1>2, <1>3 DEF StatusOf, BeingStored
<1>8. RequestOf' = [RequestOf EXCEPT ![t] = Layer!NoRequest]
  <2>1. ~sure'[t] /\ ~there'[t] /\ sure'[t] \in BOOLEAN /\ there'[t] \in BOOLEAN
    OBVIOUS
  <2>2. RequestOf'[t] = Layer!NoRequest
    BY <1>2, <1>3, <2>1 DEF RequestOf, Layer!NoRequest, Layer!Asked
  <2>3. ASSUME NEW u \in Ingesters, u # t PROVE RequestOf'[u] = RequestOf[u]
    <3>1. sure'[u] = sure[u] /\ there'[u] = there[u]
      BY <2>3 DEF BronzeInv, BronzeTypes
    <3>2. QED
      BY <1>2, <2>3, <3>1 DEF RequestOf
  <2>4. RequestOf' = [u \in Ingesters |-> RequestOf'[u]] /\ DOMAIN RequestOf = Ingesters
    BY DEF RequestOf
  <2>5. QED
    BY <2>2, <2>3, <2>4
<1>9. Layer!Leave(t)
  BY <1>7, <1>8 DEF Layer!Leave
<1>10. QED
  BY <1>2, <1>4, <1>5, <1>6, <1>9 DEF Step, BronzeInv, CachedIds, Layer!CatalogNext

-----------------------------------------------------------------------------
(* Steps of an ingest that the catalog does not see, or an end of it *)

LEMMA CallEvictStep ==
    ASSUME BronzeInv, NEW t \in Ingesters, NEW i, NEW label \in {"purge", "insert", "enforce"},
           at[t] \in {"purge", "head"}, CallEvict(t, i, label),
           UNCHANGED <<data, persisted, cached, sure, there, outrun, id>>
    PROVE  Step
<1>1. /\ "evictData" \in Making /\ at[t] \in Making /\ at[t] \notin Evicting
  BY DEF Making, Evicting
<1>2. Moves(t, "evictData", id[t])
  <2>1. BronzeTypes
    BY DEF BronzeInv
  <2>2. return' \in [Ingesters -> {"purge", "insert", "enforce"}]
    BY <2>1 DEF CallEvict, BronzeTypes
  <2>3. QED
    BY <2>1, <2>2, KeepsId, SetsVictim DEF Moves, CallEvict, Proceed
<1>3. QED
  BY <1>1, <1>2, QuietStep

LEMMA PurgeStep ==
    ASSUME BronzeInv, NEW t \in Ingesters, NEW expired \in BOOLEAN, Purge(t, expired)
    PROVE  Step
<1>1. UNCHANGED <<data, persisted, cached, sure, there, outrun, id>> /\ at[t] = "purge"
  BY DEF Purge, stores, memory, asked
<1>2. \/ \E i : CallEvict(t, i, "purge") \/ CallEvict(t, i, "insert")
      \/ /\ victim' = [victim EXCEPT ![t] = Head(ingested)] /\ Proceed(t, "orphan")
         /\ UNCHANGED return
  BY DEF Purge
<1>3. ASSUME NEW i, CallEvict(t, i, "purge") \/ CallEvict(t, i, "insert") PROVE Step
  BY <1>1, <1>3, CallEvictStep
<1>4. CASE /\ victim' = [victim EXCEPT ![t] = Head(ingested)] /\ Proceed(t, "orphan")
           /\ UNCHANGED return
  <2>1. "orphan" \in Making /\ at[t] \in Making /\ at[t] \notin Evicting
    BY <1>1 DEF Making, Evicting
  <2>2. BronzeTypes
    BY DEF BronzeInv
  <2>3. Moves(t, "orphan", id[t])
    BY <1>1, <1>4, <2>2, KeepsId, SetsVictim DEF Moves, Proceed, BronzeTypes
  <2>4. QED
    BY <1>1, <2>1, <2>3, QuietStep
<1>5. QED
  BY <1>2, <1>3, <1>4

\* A quiet step that changes nothing in what the caller evicts.
LEMMA AlongStep ==
    ASSUME BronzeInv, NEW t \in Ingesters, NEW l \in Making, at[t] \in Making, Proceed(t, l),
           at[t] \in Evicting => l \in Evicting,
           UNCHANGED <<data, persisted, cached, sure, there, outrun, id, victim, return>>
    PROVE  Step
<1>1. BronzeTypes
  BY DEF BronzeInv
<1>2. Moves(t, l, id[t])
  BY <1>1, KeepsId, KeepsVictim DEF Moves, Proceed
<1>3. QED
  BY <1>2, QuietStep

\* An ingest ends early.
LEMMA RaiseStep ==
    ASSUME BronzeInv, NEW t \in Ingesters, Finish(t), at[t] \in {"orphan", "head"},
           UNCHANGED <<data, persisted, cached, outrun, return, sure, there>>,
           DOMAIN victim' = Ingesters, victim' = [u \in Ingesters |-> victim'[u]],
           \A u \in Ingesters \ {t} : victim'[u] = victim[u]
    PROVE  Step
<1>1. ~sure[t] /\ ~there[t] /\ at[t] \notin Evicting \cup {"persist", "idle"}
  BY DEF BronzeInv, Knows, Asking, Evicting
<1>2. sure \in [Ingesters -> BOOLEAN] /\ there \in [Ingesters -> BOOLEAN]
  BY DEF BronzeInv, BronzeTypes
<1>3. QED
  BY <1>1, <1>2, EndStep

LEMMA OrphanStep ==
    ASSUME BronzeInv, NEW t \in Ingesters, Orphan(t)
    PROVE  Step
<1>1. /\ at[t] = "orphan" /\ victim' = [victim EXCEPT ![t] = NoId]
      /\ UNCHANGED <<data, persisted, cached, sure, there, outrun, return>>
  BY DEF Orphan, asked
<1>2. BronzeTypes
  BY DEF BronzeInv
<1>3. CASE Finish(t)
  BY <1>1, <1>2, <1>3, RaiseStep, SetsVictim
<1>4. CASE Proceed(t, "purge") /\ UNCHANGED id
  <2>1. "purge" \in Making /\ at[t] \in Making /\ at[t] \notin Evicting
    BY <1>1 DEF Making, Evicting
  <2>2. Moves(t, "purge", id[t])
    BY <1>1, <1>2, <1>4, KeepsId, SetsVictim DEF Moves, Proceed, BronzeTypes
  <2>3. QED
    BY <1>1, <1>4, <2>1, <2>2, QuietStep
<1>5. QED
  BY <1>3, <1>4 DEF Orphan

LEMMA EvictFirstStep ==
    ASSUME BronzeInv, NEW t \in Ingesters, EvictFirst(t)
    PROVE  Step
<1>1. at[t] = "head" /\ UNCHANGED <<data, persisted, cached, sure, there, outrun>>
  BY DEF EvictFirst, stores, memory, asked
<1>2. CASE Finish(t) /\ UNCHANGED <<victim, return>>
  <2>1. BronzeTypes
    BY DEF BronzeInv
  <2>2. QED
    BY <1>1, <1>2, <2>1, RaiseStep, KeepsVictim
<1>3. CASE CallEvict(t, Head(ingested), "enforce") /\ UNCHANGED id
  BY <1>1, <1>3, CallEvictStep
<1>4. QED
  BY <1>2, <1>3 DEF EvictFirst

LEMMA AlongSteps ==
    ASSUME BronzeInv, NEW t \in Ingesters,
           Register(t) \/ Enforce(t) \/ EvictMeta(t) \/ EvictStamp(t)
    PROVE  Step
<1>1. CASE Register(t)
  BY <1>1, AlongStep DEF Register, callVars, history, asked, Making, Evicting
<1>2. CASE Enforce(t)
  <2>1. PICK l \in {"head", "resolve"} : Proceed(t, l)
    BY <1>2 DEF Enforce
  <2>2. l \in Making /\ at[t] \in Making /\ at[t] \notin Evicting
    BY <1>2 DEF Enforce, Making, Evicting
  <2>3. QED
    BY <1>2, <2>1, <2>2, AlongStep DEF Enforce, stores, memory, callVars, history, asked
<1>3. CASE EvictMeta(t)
  BY <1>3, AlongStep DEF EvictMeta, callVars, history, asked, Making, Evicting
<1>4. CASE EvictStamp(t)
  BY <1>4, AlongStep DEF EvictStamp, callVars, history, asked, Making, Evicting
<1>5. QED
  BY <1>1, <1>2, <1>3, <1>4

LEMMA EvictOrderStep ==
    ASSUME BronzeInv, NEW t \in Ingesters, EvictOrder(t)
    PROVE  Step
<1>1. /\ at[t] = "evictOrder" /\ victim' = [victim EXCEPT ![t] = NoId] /\ Proceed(t, return[t])
      /\ UNCHANGED <<data, persisted, cached, sure, there, outrun, return, id>>
  BY DEF EvictOrder, history, asked
<1>2. BronzeTypes
  BY DEF BronzeInv
<1>3. return[t] \in Making /\ at[t] \in Making /\ at[t] \notin Evicting
  BY <1>1, <1>2 DEF BronzeTypes, Making, Evicting
<1>4. Moves(t, return[t], id[t])
  BY <1>1, <1>2, KeepsId, SetsVictim DEF Moves, Proceed, BronzeTypes
<1>5. QED
  BY <1>1, <1>3, <1>4, QuietStep

-----------------------------------------------------------------------------
(* Steps that store, cache or drop the record *)

\* A caller in an ingest takes a step of it, and the histories are brought up to date.
Ingests(t, l) ==
    /\ Ingesting(t) /\ l \notin Asking \cup Answered
    /\ at'[t] = l /\ \A u \in Ingesters \ {t} : at'[u] = at[u] /\ id'[u] = id[u]
    /\ Follow

LEMMA FollowKnows ==
    ASSUME BronzeInv, NEW t \in Ingesters, NEW l \in {"idle"} \cup Steps, Ingests(t, l)
    PROVE  /\ Knows'
           /\ sure' \in [Ingesters -> BOOLEAN] /\ there' \in [Ingesters -> BOOLEAN]
<1>1. sure \in [Ingesters -> BOOLEAN] /\ there \in [Ingesters -> BOOLEAN]
  BY DEF BronzeInv, BronzeTypes
<1>2. \A u \in Ingesters :
         /\ sure'[u] = (at[u] \in Asking /\ sure[u] /\ id[u] \in persisted')
         /\ there'[u] = (at[u] \in Asking /\ (there[u] \/ id[u] \in persisted' \cup data'))
  BY DEF Follow, Ingests
<1>3. sure' \in [Ingesters -> BOOLEAN] /\ there' \in [Ingesters -> BOOLEAN]
  BY <1>1 DEF Follow, Ingests
<1>4. ASSUME NEW u \in Ingesters, u # t
      PROVE  /\ at'[u] \notin Asking => ~sure'[u] /\ ~there'[u]
             /\ sure'[u] => id'[u] \in persisted'
             /\ at'[u] \in Asking /\ id'[u] \in persisted' \cup data' => there'[u]
             /\ at'[u] \in {"getResolve", "getCache"} => there'[u]
             /\ at'[u] = "empty" => ~sure'[u]
  BY <1>2, <1>4 DEF Ingests, BronzeInv, Knows, Asking
<1>5. ~sure'[t] /\ ~there'[t] /\ l \notin Asking \cup {"getResolve", "getCache", "empty"}
  BY <1>2 DEF Ingests, Ingesting, Asking
<1>6. Knows'
  BY <1>4, <1>5 DEF Knows, Ingests
<1>7. QED
  BY <1>3, <1>6

LEMMA FollowIs ==
    ASSUME BronzeInv, NEW t \in Ingesters, NEW l \in {"idle"} \cup Steps, Ingests(t, l)
    PROVE  Layer!Follow
<1>1. /\ sure \in [Ingesters -> BOOLEAN] /\ there \in [Ingesters -> BOOLEAN]
      /\ id \in [Ingesters -> Ids \cup {NoId}]
      /\ \A u \in Ingesters : at[u] = "idle" <=> id[u] = NoId
  BY DEF BronzeInv, BronzeTypes
<1>2. \A u \in Ingesters :
         /\ sure'[u] = (at[u] \in Asking /\ sure[u] /\ id[u] \in persisted')
         /\ there'[u] = (at[u] \in Asking /\ (there[u] \/ id[u] \in persisted' \cup data'))
  BY DEF Follow, Ingests
<1>3. /\ at[t] \notin Asking \cup Answered /\ at'[t] \notin Asking \cup Answered
  BY DEF Ingests, Ingesting
<1> DEFINE Brought(a) ==
      IF Layer!Open(a)
         THEN Layer!Asked(RequestOf[a].id, RequestOf[a].sure /\ StatusOf'[RequestOf[a].id] = "durable",
                          RequestOf[a].seen \/ StatusOf'[RequestOf[a].id] # "absent", "nothing yet")
         ELSE RequestOf[a]
<1>4. ASSUME NEW a \in Ingesters, at[a] \in Asking PROVE RequestOf'[a] = Brought(a)
  <2>1. /\ a # t /\ at[a] \notin Answered /\ at[a] # "idle" /\ id[a] \in Ids
        /\ at'[a] = at[a] /\ id'[a] = id[a]
    BY <1>1, <1>3, <1>4 DEF Ingests, Asking, Answered
  <2>2. /\ RequestOf[a].id = id[a] /\ RequestOf[a].told = "nothing yet"
        /\ RequestOf[a].sure = sure[a] /\ RequestOf[a].seen = there[a]
    BY <1>4, <2>1 DEF RequestOf
  <2>3. Layer!Open(a)
    BY <2>1, <2>2 DEF Layer!Open
  <2>4. RequestOf'[a] = Layer!Asked(id[a], sure'[a], there'[a], "nothing yet")
    BY <1>4, <2>1 DEF RequestOf, Layer!Asked
  <2>5. sure'[a] = (sure[a] /\ StatusOf'[id[a]] = "durable")
    BY <1>2, <1>4, <2>1 DEF StatusOf
  <2>6. there'[a] = (there[a] \/ StatusOf'[id[a]] # "absent")
    BY <1>2, <1>4, <2>1 DEF StatusOf
  <2>7. Brought(a) = Layer!Asked(id[a], sure[a] /\ StatusOf'[id[a]] = "durable",
                                 there[a] \/ StatusOf'[id[a]] # "absent", "nothing yet")
    BY <2>2, <2>3
  <2> HIDE DEF Brought
  <2>8. QED
    BY <2>4, <2>5, <2>6, <2>7
<1>5. ASSUME NEW a \in Ingesters, at[a] \notin Asking PROVE RequestOf'[a] = Brought(a)
  <2>1. ~sure[a] /\ ~there[a] /\ ~sure'[a] /\ ~there'[a]
    BY <1>2, <1>5 DEF BronzeInv, Knows
  <2>2. sure[a] = sure'[a] /\ there[a] = there'[a]
    BY <1>1, <1>2, <2>1
  <2>3. RequestOf'[a] = RequestOf[a]
    BY <1>3, <1>5, <2>2 DEF RequestOf, Ingests
  <2>4. RequestOf[a].id = NoId \/ RequestOf[a].told # "nothing yet"
    BY <1>5 DEF RequestOf, Answered
  <2>5. QED
    BY <2>3, <2>4 DEF Layer!Open
<1>6. RequestOf' = [a \in Ingesters |-> RequestOf'[a]]
  BY DEF RequestOf
<1>7. RequestOf' = [a \in Ingesters |-> Brought(a)]
  <2> HIDE DEF Brought
  <2>1. QED
    BY <1>4, <1>5, <1>6
<1>8. QED
  BY <1>7 DEF Layer!Follow

\* Where nothing becomes of a record, nothing becomes of the requests for it.
LEMMA FollowStays ==
    ASSUME BronzeInv, NEW t \in Ingesters, NEW l \in {"idle"} \cup Steps, Ingests(t, l),
           persisted' = persisted, data' \cup persisted = data \cup persisted
    PROVE  UNCHANGED <<StatusOf, RequestOf>>
<1>1. /\ sure \in [Ingesters -> BOOLEAN] /\ there \in [Ingesters -> BOOLEAN]
  BY DEF BronzeInv, BronzeTypes
<1>2. \A u \in Ingesters :
         /\ sure'[u] = (at[u] \in Asking /\ sure[u] /\ id[u] \in persisted')
         /\ there'[u] = (at[u] \in Asking /\ (there[u] \/ id[u] \in persisted' \cup data'))
  BY DEF Follow, Ingests
<1>3. \A u \in Ingesters : sure'[u] = sure[u] /\ there'[u] = there[u]
  BY <1>1, <1>2 DEF BronzeInv, Knows
<1>4. at[t] \notin Asking \cup Answered /\ at'[t] \notin Asking \cup Answered
  BY DEF Ingests, Ingesting
<1>5. ASSUME NEW a \in Ingesters
      PROVE  /\ at[a] \in Asking \cup Answered <=> at'[a] \in Asking \cup Answered
             /\ at[a] \in Answered <=> at'[a] \in Answered
             /\ at[a] \in Asking \cup Answered => at'[a] = at[a] /\ id'[a] = id[a]
  BY <1>4 DEF Ingests
<1>6. RequestOf' = RequestOf
  BY <1>3, <1>5 DEF RequestOf
<1>7. StatusOf' = StatusOf
  BY DEF StatusOf
<1>8. QED
  BY <1>6, <1>7

LEMMA InsertStep ==
    ASSUME BronzeInv, NEW t \in Ingesters, Insert(t)
    PROVE  Step
<1>1. /\ at[t] = "insert" /\ data' = data \cup {id[t]} /\ Proceed(t, "register") /\ Follow
      /\ UNCHANGED <<cached, persisted, id, victim, return, outrun>>
  BY DEF Insert, callVars
<1>2. BronzeTypes /\ id[t] \in Ids
  BY <1>1 DEF BronzeInv, BronzeTypes
<1>3. Moves(t, "register", id[t])
  BY <1>1, <1>2, KeepsId, KeepsVictim DEF Moves, Proceed
<1>4. at'[t] = "register" /\ \A u \in Ingesters \ {t} : at'[u] = at[u]
  BY <1>1, <1>2 DEF Proceed, BronzeTypes
<1>5. Ingests(t, "register") /\ "register" \in Steps
  BY <1>1, <1>4 DEF Ingests, Ingesting, Asking, Answered, Steps
<1>6. Knows' /\ sure' \in [Ingesters -> BOOLEAN] /\ there' \in [Ingesters -> BOOLEAN]
  BY <1>5, FollowKnows
<1>7. BronzeTypes'
  <2>1. data' \subseteq Ids /\ persisted' \subseteq Ids /\ ("register" = "idle" <=> id[t] = NoId)
    BY <1>1, <1>2 DEF BronzeTypes
  <2>2. QED
    BY <1>2, <1>3, <1>5, <1>6, <2>1, MovesType
<1>8. Caching'
  <2>1. \A i \in Ids : Kept(i)' => Kept(i)
    BY <1>1, <1>4 DEF Kept
  <2>2. \A u \in Ingesters : at[u] \in Evicting => at'[u] \in Evicting /\ victim'[u] = victim[u]
    BY <1>1, <1>4 DEF Evicting
  <2>3. QED
    BY <1>1, <2>1, <2>2, CachingKept DEF BronzeInv
<1>9. Apart'
  BY <1>1, <1>4, <1>5, ApartKept DEF BronzeInv, Ingesting, Ingests
<1>10. BeingStored' = BeingStored
  BY <1>1, <1>4 DEF BeingStored
<1>11. CASE id[t] \in data \cup persisted
  <2>1. UNCHANGED <<StatusOf, RequestOf>>
    BY <1>1, <1>5, <1>11, FollowStays
  <2>2. QED
    BY <1>6, <1>7, <1>8, <1>9, <1>10, <1>1, <2>1 DEF Step, BronzeInv, CachedIds, Layer!catalogVars
<1>12. CASE id[t] \notin data \cup persisted
  <2>1. StatusOf[id[t]] = "absent" /\ StatusOf' = [StatusOf EXCEPT ![id[t]] = "volatile"]
    BY <1>1, <1>2, <1>12 DEF StatusOf
  <2>2. Layer!Take(id[t])
    BY <1>5, <1>10, <2>1, FollowIs DEF Layer!Take, Layer!Become
  <2>3. QED
    BY <1>1, <1>2, <1>6, <1>7, <1>8, <1>9, <2>2 DEF Step, BronzeInv, CachedIds, Layer!CatalogNext
<1>13. QED
  BY <1>11, <1>12

LEMMA EvictDataStep ==
    ASSUME BronzeInv, NEW t \in Ingesters, EvictData(t)
    PROVE  Step
<1>1. /\ at[t] = "evictData" /\ data' = data \ {victim[t]} /\ Proceed(t, "evictMeta") /\ Follow
      /\ UNCHANGED <<cached, persisted, id, victim, return, outrun>>
  BY DEF EvictData, callVars
<1>2. BronzeTypes /\ id[t] \in Ids
  BY <1>1 DEF BronzeInv, BronzeTypes
<1>3. Moves(t, "evictMeta", id[t])
  BY <1>1, <1>2, KeepsId, KeepsVictim DEF Moves, Proceed
<1>4. at'[t] = "evictMeta" /\ \A u \in Ingesters \ {t} : at'[u] = at[u]
  BY <1>1, <1>2 DEF Proceed, BronzeTypes
<1>5. Ingests(t, "evictMeta") /\ "evictMeta" \in Steps
  BY <1>1, <1>4 DEF Ingests, Ingesting, Asking, Answered, Steps
<1>6. Knows' /\ sure' \in [Ingesters -> BOOLEAN] /\ there' \in [Ingesters -> BOOLEAN]
  BY <1>5, FollowKnows
<1>7. BronzeTypes'
  <2>1. data' \subseteq Ids /\ persisted' \subseteq Ids /\ ("evictMeta" = "idle" <=> id[t] = NoId)
    BY <1>1, <1>2 DEF BronzeTypes
  <2>2. QED
    BY <1>2, <1>3, <1>5, <1>6, <2>1, MovesType
<1>8. Caching'
  <2> SUFFICES ASSUME ~outrun', NEW i \in Ids, Kept(i)'
               PROVE  i \in data' \/ \E u \in Ingesters : at'[u] \in Evicting /\ victim'[u] = i
    BY DEF Caching
  <2>1. Kept(i)
    BY <1>1, <1>4 DEF Kept
  <2>2. \A u \in Ingesters : at[u] \in Evicting => at'[u] \in Evicting /\ victim'[u] = victim[u]
    BY <1>1, <1>4 DEF Evicting
  <2>3. i \in data \/ \E u \in Ingesters : at[u] \in Evicting /\ victim[u] = i
    BY <1>1, <2>1 DEF BronzeInv, Caching
  <2>4. at'[t] \in Evicting /\ victim'[t] = victim[t]
    BY <1>1, <1>4 DEF Evicting
  <2>5. QED
    BY <1>1, <2>2, <2>3, <2>4
<1>9. Apart'
  BY <1>1, <1>4, <1>5, ApartKept DEF BronzeInv, Ingesting, Ingests
<1>10. BeingStored' = BeingStored
  BY <1>1, <1>4 DEF BeingStored
<1>11. CASE victim[t] \notin data \/ victim[t] \in persisted
  <2>1. UNCHANGED <<StatusOf, RequestOf>>
    BY <1>1, <1>5, <1>11, FollowStays
  <2>2. QED
    BY <1>6, <1>7, <1>8, <1>9, <1>10, <1>1, <2>1 DEF Step, BronzeInv, CachedIds, Layer!catalogVars
<1>12. CASE victim[t] \in data /\ victim[t] \notin persisted
  <2>1. victim[t] \in Ids
    BY <1>2, <1>12 DEF BronzeTypes
  <2>2. StatusOf[victim[t]] = "volatile" /\ StatusOf' = [StatusOf EXCEPT ![victim[t]] = "absent"]
    BY <1>1, <1>12, <2>1 DEF StatusOf
  <2>3. Layer!Drop(victim[t])
    BY <1>5, <1>10, <2>2, FollowIs DEF Layer!Drop, Layer!Become
  <2>4. QED
    BY <1>1, <1>6, <1>7, <1>8, <1>9, <2>1, <2>3 DEF Step, BronzeInv, CachedIds, Layer!CatalogNext
<1>13. QED
  BY <1>11, <1>12

\* The record cache is left behind before the record is.
LEMMA EvictCachedStep ==
    ASSUME BronzeInv, NEW t \in Ingesters, EvictCached(t)
    PROVE  Step
<1>1. /\ at[t] = "evictCached" /\ cached' = cached \ {victim[t]} /\ Proceed(t, "evictOrder")
      /\ UNCHANGED <<data, persisted, id, victim, return, sure, there>>
      /\ outrun' = (outrun \/ \E u \in Ingesters :
                       at[u] \in {"cache", "getCache"} /\ id[u] = victim[t])
  BY DEF EvictCached, callVars, asked
<1>2. BronzeTypes /\ id[t] \in Ids
  BY <1>1 DEF BronzeInv, BronzeTypes
<1>3. Moves(t, "evictOrder", id[t])
  BY <1>1, <1>2, KeepsId, KeepsVictim DEF Moves, Proceed
<1>4. at'[t] = "evictOrder" /\ \A u \in Ingesters \ {t} : at'[u] = at[u]
  BY <1>1, <1>2 DEF Proceed, BronzeTypes
<1>5. "evictOrder" \in Steps /\ "evictOrder" \in Making /\ at[t] \in Making
  BY <1>1 DEF Steps, Making
<1>6. BronzeTypes'
  <2>1. /\ data' \subseteq Ids /\ persisted' \subseteq Ids /\ ("evictOrder" = "idle" <=> id[t] = NoId)
        /\ sure' \in [Ingesters -> BOOLEAN] /\ there' \in [Ingesters -> BOOLEAN]
    BY <1>1, <1>2 DEF BronzeTypes
  <2>2. QED
    BY <1>2, <1>3, <1>5, <2>1, MovesType
<1>7. Caching'
  <2> SUFFICES ASSUME ~outrun', NEW i \in Ids, Kept(i)'
               PROVE  i \in data' \/ \E u \in Ingesters : at'[u] \in Evicting /\ victim'[u] = i
    BY DEF Caching
  <2>1. Kept(i) /\ i # victim[t]
    BY <1>1, <1>4 DEF Kept
  <2>2. i \in data \/ \E u \in Ingesters : at[u] \in Evicting /\ victim[u] = i
    BY <1>1, <2>1 DEF BronzeInv, Caching
  <2>3. ASSUME NEW u \in Ingesters, at[u] \in Evicting, victim[u] = i
        PROVE  at'[u] \in Evicting /\ victim'[u] = i
    BY <1>1, <1>4, <2>1, <2>3
  <2>4. QED
    BY <1>1, <2>2, <2>3
<1>8. Apart'
  BY <1>1, <1>4, ApartKept DEF BronzeInv, Ingesting, Asking, Answered
<1>9. Knows'
  BY <1>1, <1>4 DEF BronzeInv, Knows, Asking
<1>10. UNCHANGED Layer!catalogVars
  BY <1>1, <1>5, QuietCatalog DEF Proceed
<1>11. QED
  BY <1>1, <1>6, <1>7, <1>8, <1>9, <1>10 DEF Step, BronzeInv, CachedIds

\* An ingest has its record cached, or built it, or goes on to persist it.
LEMMA CacheOwnStep ==
    ASSUME BronzeInv, NEW t \in Ingesters, at[t] \in {"resolve", "cache"},
           NEW l \in {"cache", "persist"}, Proceed(t, l),
           UNCHANGED <<data, persisted, id, victim, return, outrun, sure, there>>,
           cached' \in {cached, cached \cup {id[t]}},
           at[t] = "resolve" => cached' = cached, at[t] = "cache" => l = "persist",
           l = "cache" => id[t] \in data
    PROVE  Step
<1>1. BronzeTypes /\ id[t] \in Ids
  BY DEF BronzeInv, BronzeTypes
<1>2. Moves(t, l, id[t])
  BY <1>1, KeepsId, KeepsVictim DEF Moves, Proceed
<1>3. at'[t] = l /\ \A u \in Ingesters \ {t} : at'[u] = at[u]
  BY <1>1 DEF Proceed, BronzeTypes
<1>4. /\ l \in Steps /\ l # "idle" /\ at[t] \notin Asking \cup Answered /\ l \notin Asking \cup Answered
      /\ l \notin Evicting /\ at[t] \notin Evicting /\ l \notin {"getCache", "getResolve", "empty"}
  BY DEF Steps, Asking, Answered, Evicting
<1>5. BronzeTypes'
  <2>1. /\ data' \subseteq Ids /\ persisted' \subseteq Ids /\ (l = "idle" <=> id[t] = NoId)
        /\ sure' \in [Ingesters -> BOOLEAN] /\ there' \in [Ingesters -> BOOLEAN]
    BY <1>1, <1>4 DEF BronzeTypes
  <2>2. QED
    BY <1>1, <1>2, <1>4, <2>1, MovesType
<1>6. Caching'
  <2>1. ASSUME NEW i \in Ids, Kept(i)' PROVE Kept(i) \/ i \in data'
    <3>1. CASE i \in cached'
      <4>1. i \in cached \/ (at[t] = "cache" /\ i = id[t])
        BY <3>1
      <4>2. QED
        BY <4>1 DEF Kept
    <3>2. ASSUME NEW u \in Ingesters, at'[u] \in {"cache", "getCache"}, id'[u] = i
          PROVE  Kept(i) \/ i \in data'
      BY <1>3, <3>2 DEF Kept
    <3>3. QED
      BY <2>1, <3>1, <3>2 DEF Kept
  <2>2. \A u \in Ingesters : at[u] \in Evicting => at'[u] \in Evicting /\ victim'[u] = victim[u]
    BY <1>3, <1>4
  <2>3. QED
    BY <2>1, <2>2, CachingKept DEF BronzeInv
<1>7. Apart'
  BY <1>3, <1>4, ApartKept DEF BronzeInv, Ingesting
<1>8. Knows'
  BY <1>3, <1>4 DEF BronzeInv, Knows
<1>9. CachedIds'
  BY <1>1 DEF BronzeInv, CachedIds
<1>10. UNCHANGED <<StatusOf, RequestOf>>
  BY <1>3, <1>4 DEF StatusOf, RequestOf
<1>11. CASE l = "cache"
  <2>1. BeingStored' = BeingStored
    BY <1>3, <1>11 DEF BeingStored
  <2>2. QED
    BY <1>5, <1>6, <1>7, <1>8, <1>9, <1>10, <2>1 DEF Step, BronzeInv, Layer!catalogVars
<1>12. CASE l = "persist"
  <2>1. BeingStored' = BeingStored \cup {id[t]}
    BY <1>3, <1>12 DEF BeingStored
  <2>2. Layer!StartStoring(id[t])
    BY <1>10, <2>1 DEF Layer!StartStoring
  <2>3. QED
    BY <1>1, <1>5, <1>6, <1>7, <1>8, <1>9, <2>2 DEF Step, BronzeInv, Layer!CatalogNext
<1>13. QED
  BY <1>11, <1>12

LEMMA PersistStep ==
    ASSUME BronzeInv, NEW t \in Ingesters, Persist(t)
    PROVE  Step
<1>1. /\ at[t] = "persist" /\ Finish(t) /\ Follow
      /\ persisted' \in {persisted \cup {id[t]}, persisted, persisted \ {id[t]}}
      /\ UNCHANGED <<data, cached, victim, return, outrun>>
  BY DEF Persist, memory
<1>2. BronzeTypes /\ id[t] \in Ids
  BY <1>1 DEF BronzeInv, BronzeTypes
<1>3. Moves(t, "idle", NoId)
  BY <1>1, <1>2, KeepsVictim DEF Moves, Finish, Proceed
<1>4. /\ at'[t] = "idle" /\ id'[t] = NoId
      /\ \A u \in Ingesters \ {t} : at'[u] = at[u] /\ id'[u] = id[u]
  BY <1>1, <1>2 DEF Finish, Proceed, BronzeTypes
<1>5. Ingests(t, "idle")
  BY <1>1, <1>4 DEF Ingests, Ingesting, Asking, Answered
<1>6. Knows' /\ sure' \in [Ingesters -> BOOLEAN] /\ there' \in [Ingesters -> BOOLEAN]
  BY <1>5, FollowKnows
<1>7. BronzeTypes'
  <2>1. data' \subseteq Ids /\ persisted' \subseteq Ids
    BY <1>1, <1>2 DEF BronzeTypes
  <2>2. QED
    BY <1>2, <1>3, <1>6, <2>1, MovesType
<1>8. Caching'
  <2>1. \A i \in Ids : Kept(i)' => Kept(i)
    BY <1>1, <1>4 DEF Kept
  <2>2. \A u \in Ingesters : at[u] \in Evicting => at'[u] \in Evicting /\ victim'[u] = victim[u]
    BY <1>1, <1>4 DEF Evicting
  <2>3. QED
    BY <1>1, <2>1, <2>2, CachingKept DEF BronzeInv
<1>9. Apart'
  BY <1>1, <1>4, ApartKept DEF BronzeInv, Ingesting
<1>10. id[t] \in BeingStored /\ BeingStored' = BeingStored \ {id[t]}
  <2>1. \A u \in Ingesters : u # t /\ at[u] = "persist" => id[u] # id[t]
    BY <1>1 DEF BronzeInv, Apart, Ingesting, Asking, Answered
  <2>2. QED
    BY <1>1, <1>4, <2>1 DEF BeingStored
<1>11. StatusOf' \in
          {[StatusOf EXCEPT ![id[t]] = s] : s \in {StatusOf[id[t]], "volatile", "absent", "durable"}}
  <2>1. StatusOf' = [StatusOf EXCEPT ![id[t]] = StatusOf'[id[t]]]
    BY <1>1, <1>2 DEF StatusOf
  <2>2. StatusOf'[id[t]] \in {StatusOf[id[t]], "volatile", "absent", "durable"}
    BY <1>2 DEF StatusOf
  <2>3. QED
    BY <2>1, <2>2
<1>12. Layer!EndStoring(id[t])
  BY <1>5, <1>10, <1>11, FollowIs DEF Layer!EndStoring
<1>13. QED
  BY <1>1, <1>2, <1>6, <1>7, <1>8, <1>9, <1>12 DEF Step, BronzeInv, CachedIds, Layer!CatalogNext

-----------------------------------------------------------------------------
(* Steps of get_bronze_records *)

\* A step that leaves the request as it is.
LEMMA SearchStep ==
    ASSUME BronzeInv, NEW t \in Ingesters, at[t] \in Asking, at[t] # "empty",
           NEW l \in {"getResolve", "getCache", "query"}, Proceed(t, l),
           UNCHANGED <<data, persisted, cached, id, victim, return, outrun, sure, there>>,
           l \in {"getResolve", "getCache"} => id[t] \in data
    PROVE  Step
<1>1. BronzeTypes /\ id[t] \in Ids
  BY DEF BronzeInv, BronzeTypes, Asking
<1>2. Moves(t, l, id[t])
  BY <1>1, KeepsId, KeepsVictim DEF Moves, Proceed
<1>3. at'[t] = l /\ \A u \in Ingesters \ {t} : at'[u] = at[u]
  BY <1>1 DEF Proceed, BronzeTypes
<1>4. /\ l \in Steps /\ l # "idle" /\ l \in Asking /\ l \notin Answered \cup {"empty", "cache", "persist"}
      /\ at[t] \notin Answered \cup {"persist"} /\ l \notin Evicting /\ at[t] \notin Evicting
  BY DEF Steps, Asking, Answered, Evicting
<1>5. BronzeTypes'
  <2>1. /\ data' \subseteq Ids /\ persisted' \subseteq Ids /\ (l = "idle" <=> id[t] = NoId)
        /\ sure' \in [Ingesters -> BOOLEAN] /\ there' \in [Ingesters -> BOOLEAN]
    BY <1>1, <1>4 DEF BronzeTypes
  <2>2. QED
    BY <1>1, <1>2, <1>4, <2>1, MovesType
<1>6. Caching'
  <2>1. ASSUME NEW i \in Ids, Kept(i)' PROVE Kept(i) \/ i \in data'
    BY <1>3, <2>1 DEF Kept
  <2>2. \A u \in Ingesters : at[u] \in Evicting => at'[u] \in Evicting /\ victim'[u] = victim[u]
    BY <1>3, <1>4
  <2>3. QED
    BY <2>1, <2>2, CachingKept DEF BronzeInv
<1>7. Apart'
  BY <1>3, <1>4, ApartKept DEF BronzeInv, Ingesting
<1>8. Knows'
  BY <1>3, <1>4 DEF BronzeInv, Knows
<1>9. UNCHANGED <<StatusOf, BeingStored>>
  BY <1>3, <1>4 DEF StatusOf, BeingStored
<1>10. UNCHANGED RequestOf
  BY <1>3, <1>4 DEF RequestOf
<1>11. QED
  BY <1>5, <1>6, <1>7, <1>8, <1>9, <1>10 DEF Step, BronzeInv, CachedIds, Layer!catalogVars

\* The call has its answer: found only if the record was there, missing only if it
\* has not been persisted all the time.
LEMMA AnswerStep ==
    ASSUME BronzeInv, NEW t \in Ingesters, at[t] \in Asking, NEW l \in Answered, Tell(t, l),
           UNCHANGED <<data, persisted, id, victim, return, outrun>>,
           cached' \in {cached, cached \cup {id[t]}},
           at[t] # "getCache" => cached' = cached,
           l = "found" => there[t], l = "missing" => ~sure[t]
    PROVE  Step
<1>1. BronzeTypes /\ id[t] \in Ids
  BY DEF BronzeInv, BronzeTypes, Asking
<1>2. Moves(t, l, id[t])
  BY <1>1, KeepsId, KeepsVictim DEF Moves, Tell, Proceed
<1>3. /\ at'[t] = l /\ ~sure'[t] /\ ~there'[t]
      /\ \A u \in Ingesters \ {t} : at'[u] = at[u] /\ sure'[u] = sure[u] /\ there'[u] = there[u]
      /\ sure' \in [Ingesters -> BOOLEAN] /\ there' \in [Ingesters -> BOOLEAN]
      /\ sure'[t] = FALSE /\ there'[t] = FALSE
  BY <1>1 DEF Tell, Proceed, BronzeTypes
<1>4. /\ l \in Steps /\ l # "idle" /\ l \notin Asking \cup {"empty", "cache", "getCache", "getResolve", "persist"}
      /\ at[t] \notin Answered \cup {"idle", "persist"} /\ l \notin Evicting /\ at[t] \notin Evicting
      /\ l \in {"found", "missing"}
  BY DEF Steps, Asking, Answered, Evicting
<1>5. BronzeTypes'
  <2>1. data' \subseteq Ids /\ persisted' \subseteq Ids /\ (l = "idle" <=> id[t] = NoId)
    BY <1>1, <1>4 DEF BronzeTypes
  <2>2. QED
    BY <1>1, <1>2, <1>3, <1>4, <2>1, MovesType
<1>6. Caching'
  <2>1. ASSUME NEW i \in Ids, Kept(i)' PROVE Kept(i) \/ i \in data'
    <3>1. CASE i \in cached'
      <4>1. i \in cached \/ (at[t] = "getCache" /\ i = id[t])
        BY <3>1
      <4>2. QED
        BY <4>1 DEF Kept
    <3>2. ASSUME NEW u \in Ingesters, at'[u] \in {"cache", "getCache"}, id'[u] = i
          PROVE  Kept(i) \/ i \in data'
      BY <1>3, <1>4, <3>2 DEF Kept
    <3>3. QED
      BY <2>1, <3>1, <3>2 DEF Kept
  <2>2. \A u \in Ingesters : at[u] \in Evicting => at'[u] \in Evicting /\ victim'[u] = victim[u]
    BY <1>3, <1>4
  <2>3. QED
    BY <2>1, <2>2, CachingKept DEF BronzeInv
<1>7. Apart'
  BY <1>3, <1>4, ApartKept DEF BronzeInv, Ingesting
<1>8. Knows'
  BY <1>3, <1>4 DEF BronzeInv, Knows
<1>9. CachedIds'
  BY <1>1 DEF BronzeInv, CachedIds
<1>10. UNCHANGED <<StatusOf, BeingStored>>
  BY <1>3, <1>4 DEF StatusOf, BeingStored
<1>11. /\ RequestOf[t].id = id[t] /\ RequestOf[t].told = "nothing yet"
       /\ RequestOf[t].sure = sure[t] /\ RequestOf[t].seen = there[t] /\ id[t] # NoId
  BY <1>1, <1>4 DEF RequestOf
<1>12. RequestOf' = [RequestOf EXCEPT ![t] = Layer!Asked(@.id, FALSE, FALSE, l)]
  <2>1. RequestOf'[t] = Layer!Asked(id[t], FALSE, FALSE, l)
    BY <1>3 DEF RequestOf, Layer!Asked
  <2>2. ASSUME NEW u \in Ingesters, u # t PROVE RequestOf'[u] = RequestOf[u]
    BY <1>3, <2>2 DEF RequestOf
  <2>3. RequestOf' = [u \in Ingesters |-> RequestOf'[u]] /\ DOMAIN RequestOf = Ingesters
    BY DEF RequestOf
  <2>4. QED
    BY <1>11, <2>1, <2>2, <2>3
<1>13. Layer!Answer(t)
  <2>1. Layer!Open(t)
    BY <1>11 DEF Layer!Open
  <2>2. Layer!Told(t, l)
    BY <1>12 DEF Layer!Told
  <2>3. QED
    BY <1>4, <1>10, <1>11, <2>1, <2>2 DEF Layer!Answer
<1>14. QED
  BY <1>5, <1>6, <1>7, <1>8, <1>9, <1>13 DEF Step, BronzeInv, Layer!CatalogNext

\* The backend cannot be read: the call may be told nothing of what is stored.
LEMMA QueryFailsStep ==
    ASSUME BronzeInv, NEW t \in Ingesters, QueryFails(t)
    PROVE  Step
<1>1. /\ at[t] = "query" /\ Proceed(t, "empty") /\ sure' = [sure EXCEPT ![t] = FALSE]
      /\ UNCHANGED <<data, persisted, cached, id, victim, return, outrun, there>>
  BY DEF QueryFails, stores, memory, callVars
<1>2. BronzeTypes /\ id[t] \in Ids
  BY <1>1 DEF BronzeInv, BronzeTypes
<1>3. Moves(t, "empty", id[t])
  BY <1>1, <1>2, KeepsId, KeepsVictim DEF Moves, Proceed
<1>4. /\ at'[t] = "empty" /\ sure'[t] = FALSE
      /\ \A u \in Ingesters \ {t} : at'[u] = at[u] /\ sure'[u] = sure[u]
      /\ sure' \in [Ingesters -> BOOLEAN]
  BY <1>1, <1>2 DEF Proceed, BronzeTypes
<1>5. /\ "empty" \in Steps /\ "empty" \in Asking /\ "empty" \notin Answered \cup Evicting
      /\ "query" \in Asking /\ "query" \notin Answered \cup Evicting
  BY DEF Steps, Asking, Answered, Evicting
<1>6. BronzeTypes'
  <2>1. /\ data' \subseteq Ids /\ persisted' \subseteq Ids /\ ("empty" = "idle" <=> id[t] = NoId)
        /\ there' \in [Ingesters -> BOOLEAN]
    BY <1>1, <1>2 DEF BronzeTypes
  <2>2. QED
    BY <1>2, <1>3, <1>4, <1>5, <2>1, MovesType
<1>7. Caching'
  <2>1. \A i \in Ids : Kept(i)' => Kept(i)
    BY <1>1, <1>4 DEF Kept
  <2>2. \A u \in Ingesters : at[u] \in Evicting => at'[u] \in Evicting /\ victim'[u] = victim[u]
    BY <1>1, <1>4, <1>5
  <2>3. QED
    BY <1>1, <2>1, <2>2, CachingKept DEF BronzeInv
<1>8. Apart'
  BY <1>1, <1>4, <1>5, ApartKept DEF BronzeInv, Ingesting
<1>9. Knows'
  BY <1>1, <1>4, <1>5 DEF BronzeInv, Knows
<1>10. UNCHANGED <<StatusOf, BeingStored>>
  BY <1>1, <1>4 DEF StatusOf, BeingStored
<1>11. /\ RequestOf[t].id = id[t] /\ RequestOf[t].told = "nothing yet"
       /\ RequestOf[t].seen = there[t] /\ id[t] # NoId
  BY <1>1, <1>2, <1>5 DEF RequestOf
<1>12. RequestOf' = [RequestOf EXCEPT ![t] = Layer!Asked(@.id, FALSE, @.seen, @.told)]
  <2>1. RequestOf'[t] = Layer!Asked(id[t], FALSE, there[t], "nothing yet")
    BY <1>1, <1>4, <1>5 DEF RequestOf, Layer!Asked
  <2>2. ASSUME NEW u \in Ingesters, u # t PROVE RequestOf'[u] = RequestOf[u]
    BY <1>1, <1>4, <2>2 DEF RequestOf
  <2>3. RequestOf' = [u \in Ingesters |-> RequestOf'[u]] /\ DOMAIN RequestOf = Ingesters
    BY DEF RequestOf
  <2>4. QED
    BY <1>11, <2>1, <2>2, <2>3
<1>13. Layer!Fault(t)
  BY <1>10, <1>11, <1>12 DEF Layer!Fault, Layer!Open
<1>14. QED
  BY <1>1, <1>6, <1>7, <1>8, <1>9, <1>13 DEF Step, BronzeInv, CachedIds, Layer!CatalogNext

LEMMA GetSteps ==
    ASSUME BronzeInv, NEW t \in Ingesters,
           \/ \E found \in BOOLEAN : Look(t, found)
           \/ LookRaises(t) \/ Query(t) \/ QueryFails(t) \/ QueryEmpty(t) \/ EndGet(t)
    PROVE  Step
<1>1. sure \in [Ingesters -> BOOLEAN] /\ there \in [Ingesters -> BOOLEAN] /\ BronzeTypes
  BY DEF BronzeInv, BronzeTypes
<1>2. ASSUME NEW found \in BOOLEAN, Look(t, found) PROVE Step
  <2>1. PICK l \in {"getResolve", "query"} : Proceed(t, l) /\ (l = "getResolve" => id[t] \in data)
    BY <1>2 DEF Look
  <2>2. at[t] \in Asking /\ at[t] # "empty"
    BY <1>2 DEF Look, Asking
  <2>3. QED
    BY <1>2, <2>1, <2>2, SearchStep DEF Look, stores, memory, callVars, history, asked
<1>3. CASE LookRaises(t)
  <2>1. \A u \in Ingesters : sure'[u] = (u # t /\ sure[u]) /\ there'[u] = (u # t /\ there[u])
    BY <1>1, <1>3 DEF LookRaises
  <2>2. sure' \in [Ingesters -> BOOLEAN] /\ there' \in [Ingesters -> BOOLEAN]
    BY <1>1, <1>3 DEF LookRaises
  <2>3. at[t] \notin Evicting \cup {"persist", "idle"}
    BY <1>3 DEF LookRaises, Evicting
  <2>4. QED
    BY <1>1, <1>3, <2>1, <2>2, <2>3, EndStep, KeepsVictim DEF LookRaises, stores, memory
<1>4. CASE Query(t)
  <2>1. PICK l \in Answered : /\ Tell(t, l)
                              /\ l = "found" => id[t] \in persisted
                              /\ l = "missing" => id[t] \notin persisted
    BY <1>4 DEF Query, Answered
  <2>2. at[t] \in Asking /\ at[t] # "getCache"
    BY <1>4 DEF Query, Asking
  <2>3. (l = "found" => there[t]) /\ (l = "missing" => ~sure[t])
    BY <2>1, <2>2 DEF BronzeInv, Knows
  <2>4. QED
    BY <1>4, <2>1, <2>2, <2>3, AnswerStep DEF Query, stores, memory, callVars
<1>5. CASE QueryFails(t)
  BY <1>5, QueryFailsStep
<1>6. CASE QueryEmpty(t)
  <2>1. at[t] = "empty" /\ "missing" \in Answered /\ at[t] \in Asking /\ Tell(t, "missing")
    BY <1>6 DEF QueryEmpty, Answered, Asking
  <2>2. ~sure[t]
    BY <2>1 DEF BronzeInv, Knows
  <2>3. QED
    BY <1>6, <2>1, <2>2, AnswerStep DEF QueryEmpty, stores, memory, callVars
<1>7. CASE EndGet(t)
  <2>1. at[t] \notin Evicting \cup {"persist", "idle"} /\ at[t] \notin Asking
    BY <1>7 DEF EndGet, Evicting, Asking
  <2>2. ~sure[t] /\ ~there[t]
    BY <2>1 DEF BronzeInv, Knows
  <2>3. \A u \in Ingesters : sure'[u] = (u # t /\ sure[u]) /\ there'[u] = (u # t /\ there[u])
    BY <1>1, <1>7, <2>2 DEF EndGet, history, asked
  <2>4. QED
    BY <1>1, <1>7, <2>1, <2>3, EndStep, KeepsVictim DEF EndGet, stores, memory, history, asked
<1>8. QED
  BY <1>2, <1>3, <1>4, <1>5, <1>6, <1>7

LEMMA CacheSteps ==
    ASSUME BronzeInv, NEW t \in Ingesters, Resolve(t) \/ Cache(t)
    PROVE  Step
<1>1. CASE Resolve(t) /\ at[t] = "resolve"
  <2>1. PICK l \in {"cache", "persist"} : Proceed(t, l) /\ (l = "cache" => id[t] \in data)
    BY <1>1 DEF Resolve
  <2>2. QED
    BY <1>1, <2>1, CacheOwnStep DEF Resolve, stores, memory, callVars, asked
<1>2. CASE Resolve(t) /\ at[t] # "resolve"
  <2>1. /\ at[t] = "getResolve" /\ at[t] \in Asking
        /\ UNCHANGED <<data, persisted, cached, id, victim, return, outrun>>
    BY <1>2 DEF Resolve, Asking, stores, memory, callVars
  <2>2. there[t]
    BY <2>1 DEF BronzeInv, Knows
  <2>3. CASE Tell(t, "found")
    <3>1. "found" \in Answered
      BY DEF Answered
    <3>2. QED
      BY <2>1, <2>2, <2>3, <3>1, AnswerStep
  <2>4. ASSUME NEW l \in {"getCache", "query"}, Proceed(t, l), UNCHANGED asked,
               l = "getCache" => id[t] \in data
        PROVE  Step
    BY <2>1, <2>4, SearchStep DEF asked
  <2>5. QED
    BY <1>2, <2>1, <2>3, <2>4 DEF Resolve
<1>3. CASE Cache(t) /\ at[t] = "cache"
  BY <1>3, CacheOwnStep DEF Cache, callVars, asked
<1>4. CASE Cache(t) /\ at[t] # "cache"
  <2>1. at[t] = "getCache" /\ at[t] \in Asking /\ "found" \in Answered
    BY <1>4 DEF Cache, Asking, Answered
  <2>2. there[t]
    BY <2>1 DEF BronzeInv, Knows
  <2>3. QED
    BY <1>4, <2>1, <2>2, AnswerStep DEF Cache, callVars
<1>5. QED
  BY <1>1, <1>2, <1>3, <1>4

-----------------------------------------------------------------------------
(* Calls begin, the process dies *)

LEMMA StartIngestStep ==
    ASSUME BronzeInv, NEW t \in Ingesters, NEW i \in Ids, StartIngest(t, i)
    PROVE  Step
<1>1. /\ at[t] = "idle" /\ Proceed(t, "purge") /\ id' = [id EXCEPT ![t] = i]
      /\ UNCHANGED <<data, persisted, cached, victim, return, outrun, sure, there>>
      /\ \A u \in Ingesters : id[u] = i => at[u] \in Asking \cup Answered
  BY DEF StartIngest, Begin, stores, memory, asked
<1>2. BronzeTypes /\ i # NoId
  BY DEF BronzeInv
<1>3. Moves(t, "purge", i)
  BY <1>1, <1>2, KeepsVictim DEF Moves, Proceed
<1>4. /\ at'[t] = "purge" /\ id'[t] = i
      /\ \A u \in Ingesters \ {t} : at'[u] = at[u] /\ id'[u] = id[u]
  BY <1>1, <1>2 DEF Proceed, BronzeTypes
<1>5. /\ "purge" \in Steps /\ "purge" \notin Asking \cup Answered \cup Evicting
      /\ "idle" \notin Asking \cup Answered \cup Evicting
  BY DEF Steps, Asking, Answered, Evicting
<1>6. BronzeTypes'
  <2>1. /\ data' \subseteq Ids /\ persisted' \subseteq Ids /\ ("purge" = "idle" <=> i = NoId)
        /\ sure' \in [Ingesters -> BOOLEAN] /\ there' \in [Ingesters -> BOOLEAN]
    BY <1>1, <1>2 DEF BronzeTypes
  <2>2. QED
    BY <1>2, <1>3, <1>5, <2>1, MovesType
<1>7. Caching'
  <2>1. \A j \in Ids : Kept(j)' => Kept(j)
    BY <1>1, <1>4 DEF Kept
  <2>2. \A u \in Ingesters : at[u] \in Evicting => at'[u] \in Evicting /\ victim'[u] = victim[u]
    BY <1>1, <1>4, <1>5
  <2>3. QED
    BY <1>1, <2>1, <2>2, CachingKept DEF BronzeInv
<1>8. Apart'
  <2>1. \A u \in Ingesters \ {t} : Ingesting(u)' <=> Ingesting(u)
    BY <1>4 DEF Ingesting
  <2>2. \A u \in Ingesters \ {t} : Ingesting(u) => id[u] # i
    BY <1>1 DEF Ingesting
  <2>3. QED
    BY <1>4, <2>1, <2>2 DEF BronzeInv, Apart
<1>9. Knows'
  BY <1>1, <1>4, <1>5 DEF BronzeInv, Knows
<1>10. UNCHANGED <<StatusOf, BeingStored>>
  BY <1>1, <1>4 DEF StatusOf, BeingStored
<1>11. UNCHANGED RequestOf
  BY ZenonT(60), <1>1, <1>4, <1>5 DEF RequestOf
<1>12. QED
  BY <1>1, <1>6, <1>7, <1>8, <1>9, <1>10, <1>11 DEF Step, BronzeInv, CachedIds, Layer!catalogVars

LEMMA StartGetStep ==
    ASSUME BronzeInv, NEW t \in Ingesters, NEW i \in Ids, StartGet(t, i)
    PROVE  Step
<1>1. /\ at[t] = "idle" /\ Proceed(t, "look") /\ id' = [id EXCEPT ![t] = i]
      /\ UNCHANGED <<data, persisted, cached, victim, return, outrun>>
      /\ sure' = [sure EXCEPT ![t] = i \in persisted]
      /\ there' = [there EXCEPT ![t] = i \in persisted \cup data]
  BY DEF StartGet, Begin, stores, memory
<1>2. BronzeTypes /\ i # NoId
  BY DEF BronzeInv
<1>3. Moves(t, "look", i)
  BY <1>1, <1>2, KeepsVictim DEF Moves, Proceed
<1>4. /\ at'[t] = "look" /\ id'[t] = i
      /\ \A u \in Ingesters \ {t} : at'[u] = at[u] /\ id'[u] = id[u]
  BY <1>1, <1>2 DEF Proceed, BronzeTypes
<1>5. /\ "look" \in Steps /\ "look" \in Asking /\ "look" \notin Answered \cup Evicting
      /\ "idle" \notin Asking \cup Answered \cup Evicting
  BY DEF Steps, Asking, Answered, Evicting
<1>6. /\ sure' \in [Ingesters -> BOOLEAN] /\ there' \in [Ingesters -> BOOLEAN]
      /\ sure'[t] = (i \in persisted) /\ there'[t] = (i \in persisted \cup data)
      /\ \A u \in Ingesters \ {t} : sure'[u] = sure[u] /\ there'[u] = there[u]
  BY <1>1, <1>2 DEF BronzeTypes
<1>7. BronzeTypes'
  <2>1. data' \subseteq Ids /\ persisted' \subseteq Ids /\ ("look" = "idle" <=> i = NoId)
    BY <1>1, <1>2 DEF BronzeTypes
  <2>2. QED
    BY <1>2, <1>3, <1>5, <1>6, <2>1, MovesType
<1>8. Caching'
  <2>1. \A j \in Ids : Kept(j)' => Kept(j)
    BY <1>1, <1>4 DEF Kept
  <2>2. \A u \in Ingesters : at[u] \in Evicting => at'[u] \in Evicting /\ victim'[u] = victim[u]
    BY <1>1, <1>4, <1>5
  <2>3. QED
    BY <1>1, <2>1, <2>2, CachingKept DEF BronzeInv
<1>9. Apart'
  BY <1>1, <1>4, <1>5, ApartKept DEF BronzeInv, Ingesting
<1>10. Knows'
  <2>1. ASSUME NEW u \in Ingesters, u # t
        PROVE  /\ at'[u] \notin Asking => ~sure'[u] /\ ~there'[u]
               /\ sure'[u] => id'[u] \in persisted'
               /\ at'[u] \in Asking /\ id'[u] \in persisted' \cup data' => there'[u]
               /\ at'[u] \in {"getResolve", "getCache"} => there'[u]
               /\ at'[u] = "empty" => ~sure'[u]
    BY <1>1, <1>4, <1>6, <2>1 DEF BronzeInv, Knows
  <2>2. /\ sure'[t] => id'[t] \in persisted'
        /\ id'[t] \in persisted' \cup data' => there'[t]
    BY <1>1, <1>4, <1>6
  <2>3. QED
    BY <1>4, <1>5, <2>1, <2>2 DEF Knows
<1>11. UNCHANGED <<StatusOf, BeingStored>>
  BY <1>1, <1>4 DEF StatusOf, BeingStored
<1>12. RequestOf[t] = Layer!NoRequest
  <2>1. ~sure[t] /\ ~there[t] /\ sure[t] \in BOOLEAN /\ there[t] \in BOOLEAN
    BY <1>1, <1>2, <1>5 DEF BronzeInv, Knows, BronzeTypes
  <2>2. QED
    BY <1>1, <1>5, <2>1 DEF RequestOf, Layer!NoRequest, Layer!Asked
<1>13. RequestOf' = [RequestOf EXCEPT ![t] =
           Layer!Asked(i, StatusOf[i] = "durable", StatusOf[i] # "absent", "nothing yet")]
  <2>1. sure'[t] = (StatusOf[i] = "durable") /\ there'[t] = (StatusOf[i] # "absent")
    BY <1>6 DEF StatusOf
  <2>2. RequestOf'[t] = Layer!Asked(i, sure'[t], there'[t], "nothing yet")
    BY <1>4, <1>5 DEF RequestOf, Layer!Asked
  <2>3. ASSUME NEW u \in Ingesters, u # t PROVE RequestOf'[u] = RequestOf[u]
    BY <1>4, <1>6, <2>3 DEF RequestOf
  <2>4. RequestOf' = [u \in Ingesters |-> RequestOf'[u]] /\ DOMAIN RequestOf = Ingesters
    BY DEF RequestOf
  <2>5. QED
    BY <2>1, <2>2, <2>3, <2>4
<1>14. Layer!Request(t, i)
  BY <1>11, <1>12, <1>13 DEF Layer!Request
<1>15. QED
  BY <1>1, <1>7, <1>8, <1>9, <1>10, <1>14 DEF Step, BronzeInv, CachedIds, Layer!CatalogNext

LEMMA RestartStep ==
    ASSUME BronzeInv, Restart
    PROVE  Step
<1>1. PICK spoilt \in SUBSET BeingStored : persisted' = persisted \ spoilt
  BY DEF Restart, BeingStored
<1>2. /\ data' = {} /\ cached' = {}
      /\ at' = [t \in Ingesters |-> "idle"] /\ id' = [t \in Ingesters |-> NoId]
      /\ victim' = [t \in Ingesters |-> NoId] /\ return' = [t \in Ingesters |-> "insert"]
      /\ sure' = [t \in Ingesters |-> FALSE] /\ there' = [t \in Ingesters |-> FALSE]
  BY DEF Restart
<1>3. "idle" \notin Asking \cup Answered \cup Evicting
  BY DEF Asking, Answered, Evicting
<1>4. BronzeTypes'
  BY <1>1, <1>2 DEF BronzeInv, BronzeTypes
<1>5. Caching'
  BY <1>2 DEF Caching, Kept
<1>6. Apart' /\ Knows'
  BY <1>2, <1>3 DEF Apart, Ingesting, Knows
<1>7. RequestOf' = [t \in Ingesters |-> Layer!NoRequest]
  BY <1>2, <1>3 DEF RequestOf, Layer!NoRequest, Layer!Asked
<1>8. BeingStored' = {}
  BY <1>2 DEF BeingStored
<1>9. StatusOf' = [i \in Ids |-> IF i \in persisted' THEN "durable" ELSE "absent"]
  BY <1>2 DEF StatusOf
<1>10. /\ \A i \in Ids \ BeingStored :
             StatusOf'[i] = IF StatusOf[i] = "durable" THEN "durable" ELSE "absent"
       /\ DOMAIN StatusOf' = Ids
  BY <1>1, <1>9 DEF StatusOf
<1>11. ASSUME NEW i \in BeingStored
       PROVE  /\ StatusOf'[i] \in {"absent", "durable"}
              /\ StatusOf[i] = "volatile" => StatusOf'[i] = "absent"
  <2>1. i \in Ids
    <3>1. PICK t \in Ingesters : at[t] = "persist" /\ i = id[t]
      BY DEF BeingStored
    <3>2. QED
      BY <3>1 DEF BronzeInv, BronzeTypes
  <2>2. QED
    BY <1>1, <1>9, <2>1 DEF StatusOf
<1>12. Layer!CatalogCrash
  BY <1>7, <1>8, <1>10, <1>11 DEF Layer!CatalogCrash
<1>13. QED
  BY <1>2, <1>4, <1>5, <1>6, <1>12 DEF Step, BronzeInv, CachedIds, Layer!CatalogNext

-----------------------------------------------------------------------------
(* Theorems *)

LEMMA BronzeInitInv == BronzeInit => BronzeInv /\ Layer!CatalogInit
<1> SUFFICES ASSUME BronzeInit PROVE BronzeInv /\ Layer!CatalogInit
  OBVIOUS
<1>1. "idle" \notin Asking \cup Answered \cup Evicting
  BY DEF Asking, Answered, Evicting
<1>2. BronzeTypes
  BY DEF BronzeInit, BronzeTypes
<1>3. CachedIds /\ Caching /\ Apart /\ Knows
  BY <1>1 DEF BronzeInit, CachedIds, Caching, Kept, Apart, Ingesting, Knows
<1>4. StatusOf \in [Ids -> {"absent"}] /\ BeingStored = {}
  BY DEF BronzeInit, StatusOf, BeingStored
<1>5. RequestOf = [t \in Ingesters |-> Layer!NoRequest]
  BY <1>1 DEF BronzeInit, RequestOf, Layer!NoRequest, Layer!Asked
<1>6. QED
  BY <1>2, <1>3, <1>4, <1>5 DEF BronzeInv, Layer!CatalogInit

LEMMA BronzeNextStep == BronzeInv /\ [BronzeNext]_bronzeVars => Step
<1> SUFFICES ASSUME BronzeInv, [BronzeNext]_bronzeVars PROVE Step
  OBVIOUS
<1>1. CASE UNCHANGED bronzeVars
  <2>1. UNCHANGED <<data, persisted, cached, at, id, victim, return, sure, there, outrun>>
    BY <1>1 DEF bronzeVars, stores, memory, callVars, history, asked
  <2>2. BronzeInv'
    BY <2>1 DEF BronzeInv, BronzeTypes, CachedIds, Caching, Kept, Apart, Ingesting, Knows
  <2>3. UNCHANGED Layer!catalogVars
    BY <2>1 DEF Layer!catalogVars, StatusOf, BeingStored, RequestOf
  <2>4. QED
    BY <2>2, <2>3 DEF Step
<1>2. ASSUME NEW t \in Ingesters, BronzeStep(t) PROVE Step
  <2>1. ASSUME NEW expired \in BOOLEAN, Purge(t, expired) PROVE Step
    BY <2>1, PurgeStep
  <2>2. CASE Orphan(t) \/ EvictFirst(t) \/ EvictOrder(t) \/ EvictData(t) \/ EvictCached(t)
    BY <2>2, OrphanStep, EvictFirstStep, EvictOrderStep, EvictDataStep, EvictCachedStep
  <2>3. CASE Insert(t) \/ Persist(t)
    BY <2>3, InsertStep, PersistStep
  <2>4. CASE Register(t) \/ Enforce(t) \/ EvictMeta(t) \/ EvictStamp(t)
    BY <2>4, AlongSteps
  <2>5. CASE Resolve(t) \/ Cache(t)
    BY <2>5, CacheSteps
  <2>6. CASE \/ \E found \in BOOLEAN : Look(t, found)
             \/ LookRaises(t) \/ Query(t) \/ QueryFails(t) \/ QueryEmpty(t) \/ EndGet(t)
    BY <2>6, GetSteps
  <2>7. QED
    BY <1>2, <2>1, <2>2, <2>3, <2>4, <2>5, <2>6 DEF BronzeStep
<1>3. ASSUME NEW t \in Ingesters, NEW i \in Ids, StartIngest(t, i) \/ StartGet(t, i) PROVE Step
  BY <1>3, StartIngestStep, StartGetStep
<1>4. CASE Restart
  BY <1>4, RestartStep
<1>5. QED
  BY <1>1, <1>2, <1>3, <1>4 DEF BronzeNext

\* The strengthened invariant of the bronze layer: who may still hold an evicted
\* record, that ingests of one identifier stay apart, and what a request may expect.
THEOREM BronzeInvariant == BronzeSpec => []BronzeInv
<1>1. BronzeInit => BronzeInv
  BY BronzeInitInv
<1>2. BronzeInv /\ [BronzeNext]_bronzeVars => BronzeInv'
  BY BronzeNextStep DEF Step
<1>3. QED
  BY <1>1, <1>2, PTL DEF BronzeSpec

\* Between calls the record cache holds no record the layer has evicted, for any
\* number of callers, unless an eviction has overtaken the caching of its record.
THEOREM CacheFollows == BronzeSpec => []RecordCacheFollows
<1>1. BronzeInv => RecordCacheFollows
  <2> SUFFICES ASSUME BronzeInv, NoCalls, ~outrun, NEW i \in cached PROVE i \in data
    BY DEF RecordCacheFollows
  <2>1. i \in Ids /\ Kept(i)
    BY DEF BronzeInv, CachedIds, Kept
  <2>2. \A u \in Ingesters : at[u] \notin Evicting
    BY DEF NoCalls, Evicting
  <2>3. QED
    BY <2>1, <2>2 DEF BronzeInv, Caching
<1>2. QED
  BY <1>1, BronzeInvariant, PTL

\* The bronze layer implements the catalog of its records: nothing but a crash or a
\* failure in the storing of a record again loses it once it is stored, and whoever
\* asks for it gets it, from memory or from the backend.
THEOREM LayerImplementsCatalog == BronzeSpec => ImplementsCatalog
<1>1. BronzeInit => Layer!CatalogInit
  BY BronzeInitInv
<1>2. BronzeInv /\ [BronzeNext]_bronzeVars => [Layer!CatalogNext]_(Layer!catalogVars)
  BY BronzeNextStep DEF Step
<1>3. QED
  BY <1>1, <1>2, BronzeInvariant, PTL DEF BronzeSpec, ImplementsCatalog, Layer!Catalog

-----------------------------------------------------------------------------
(* The capacity *)

\* A caller that will test the order against its capacity.
Enforcing(t) ==
    \/ at[t] \in {"enforce", "head"}
    \/ /\ at[t] \in {"evictData", "evictMeta", "evictStamp", "evictCached", "evictOrder"}
       /\ return[t] = "enforce"

CapacityInv ==
    /\ ingested \in Seq(Ids)
    /\ Len(ingested) > MaxRecords => \E t \in Ingesters : Enforcing(t)

\* Nobody who enforces the capacity leaves without having found it kept.
LEMMA CapacityKept ==
    ASSUME CapacityInv, ingested' \in Seq(Ids), Len(ingested') <= Len(ingested),
           \A u \in Ingesters : Enforcing(u) => Enforcing(u)'
    PROVE  CapacityInv'
<1>1. Len(ingested) \in Nat /\ Len(ingested') \in Nat
  BY DEF CapacityInv
<1>2. QED
  BY <1>1 DEF CapacityInv

\* A step of a caller that does not enforce it, or goes on doing so.
LEMMA CapacityMoves ==
    ASSUME CapacityInv, BronzeTypes, NEW t \in Ingesters, NEW l, Proceed(t, l),
           \A u \in Ingesters \ {t} : return'[u] = return[u],
           ingested' \in Seq(Ids), Len(ingested') <= Len(ingested),
           Enforcing(t) => Enforcing(t)'
    PROVE  CapacityInv'
<1>1. \A u \in Ingesters \ {t} : at'[u] = at[u]
  BY DEF Proceed, BronzeTypes
<1>2. \A u \in Ingesters : Enforcing(u) => Enforcing(u)'
  BY <1>1 DEF Enforcing
<1>3. QED
  BY <1>2, CapacityKept

LEMMA CapacityStep == CapacityInv /\ BronzeInv /\ [BronzeNext]_bronzeVars => CapacityInv'
<1> SUFFICES ASSUME CapacityInv, BronzeInv, [BronzeNext]_bronzeVars PROVE CapacityInv'
  OBVIOUS
<1>1. BronzeTypes /\ ingested \in Seq(Ids) /\ Len(ingested) \in Nat
  BY DEF BronzeInv, CapacityInv
<1>2. CASE UNCHANGED bronzeVars
  BY <1>2 DEF bronzeVars, stores, memory, callVars, CapacityInv, Enforcing
<1>3. ASSUME NEW t \in Ingesters, NEW i, NEW label \in {"purge", "insert", "enforce"},
             at[t] \in {"purge", "head"}, at[t] = "head" => label = "enforce",
             CallEvict(t, i, label), UNCHANGED ingested
      PROVE  CapacityInv'
  <2>1. at'[t] = "evictData" /\ return'[t] = label
    BY <1>1, <1>3 DEF CallEvict, Proceed, BronzeTypes
  <2>2. Enforcing(t) => Enforcing(t)'
    BY <1>3, <2>1 DEF Enforcing
  <2>3. Proceed(t, "evictData") /\ \A u \in Ingesters \ {t} : return'[u] = return[u]
    BY <1>1, <1>3 DEF CallEvict, BronzeTypes
  <2>4. QED
    BY <1>1, <1>3, <2>2, <2>3, CapacityMoves
<1>4. ASSUME NEW t \in Ingesters, NEW expired \in BOOLEAN, Purge(t, expired) PROVE CapacityInv'
  <2>1. at[t] = "purge" /\ UNCHANGED ingested
    BY <1>4 DEF Purge, stores, memory
  <2>2. \/ \E i : CallEvict(t, i, "purge") \/ CallEvict(t, i, "insert")
        \/ Proceed(t, "orphan") /\ UNCHANGED return
    BY <1>4 DEF Purge
  <2>3. CASE Proceed(t, "orphan") /\ UNCHANGED return
    BY <1>1, <2>1, <2>3, CapacityMoves DEF Enforcing
  <2>4. QED
    BY <1>3, <2>1, <2>2, <2>3
<1>5. ASSUME NEW t \in Ingesters, Orphan(t) PROVE CapacityInv'
  <2>1. at[t] = "orphan" /\ UNCHANGED return
    BY <1>5 DEF Orphan
  <2>2. ingested' \in Seq(Ids) /\ Len(ingested') <= Len(ingested)
    BY <1>1, <1>5 DEF Orphan
  <2>3. Proceed(t, "idle") \/ Proceed(t, "purge")
    BY <1>5 DEF Orphan, Finish
  <2>4. QED
    BY <1>1, <2>1, <2>2, <2>3, CapacityMoves DEF Enforcing
<1>6. ASSUME NEW t \in Ingesters, Register(t) PROVE CapacityInv'
  <2>1. id[t] \in Ids
    BY <1>1, <1>6 DEF Register, BronzeTypes
  <2>2. ingested' \in Seq(Ids)
    BY <1>1, <1>6, <2>1 DEF Register
  <2>3. at'[t] = "enforce"
    BY <1>1, <1>6 DEF Register, Proceed, BronzeTypes
  <2>4. QED
    BY <2>2, <2>3 DEF CapacityInv, Enforcing
<1>7. ASSUME NEW t \in Ingesters, Enforce(t) PROVE CapacityInv'
  <2>1. UNCHANGED <<ingested, return>>
    BY <1>7 DEF Enforce, stores, memory, callVars
  <2>2. CASE Over
    <3>1. at'[t] = "head"
      BY <1>1, <1>7, <2>2 DEF Enforce, Proceed, BronzeTypes
    <3>2. QED
      BY <1>1, <2>1, <3>1 DEF CapacityInv, Enforcing
  <2>3. CASE ~Over
    BY <1>1, <2>1, <2>3 DEF CapacityInv, Over
  <2>4. QED
    BY <2>2, <2>3
<1>8. ASSUME NEW t \in Ingesters, EvictFirst(t) PROVE CapacityInv'
  <2>1. at[t] = "head" /\ UNCHANGED ingested
    BY <1>8 DEF EvictFirst, stores, memory
  <2>2. CASE ingested = <<>>
    BY <1>1, <2>1, <2>2 DEF CapacityInv
  <2>3. CASE ingested # <<>>
    BY <1>3, <1>8, <2>1, <2>3 DEF EvictFirst
  <2>4. QED
    BY <2>2, <2>3
<1>9. ASSUME NEW t \in Ingesters, EvictOrder(t) PROVE CapacityInv'
  <2>1. at[t] = "evictOrder" /\ Proceed(t, return[t]) /\ UNCHANGED return
    BY <1>9 DEF EvictOrder
  <2>2. ingested' \in Seq(Ids) /\ Len(ingested') <= Len(ingested)
    BY <1>1, <1>9, RemoveFirstShrinks DEF EvictOrder, Dropped
  <2>3. at'[t] = return[t]
    BY <1>1, <2>1 DEF Proceed, BronzeTypes
  <2>4. QED
    BY <1>1, <2>1, <2>2, <2>3, CapacityMoves DEF Enforcing
<1>10. ASSUME NEW t \in Ingesters,
              EvictData(t) \/ EvictMeta(t) \/ EvictStamp(t) \/ EvictCached(t)
       PROVE  CapacityInv'
  <2>1. UNCHANGED <<ingested, return>>
    BY <1>10 DEF EvictData, EvictMeta, EvictStamp, EvictCached, callVars
  <2>2. PICK l \in {"evictMeta", "evictStamp", "evictCached", "evictOrder"} :
           Proceed(t, l) /\ at[t] \in {"evictData", "evictMeta", "evictStamp", "evictCached"}
    BY <1>10 DEF EvictData, EvictMeta, EvictStamp, EvictCached
  <2>3. at'[t] = l
    BY <1>1, <2>2 DEF Proceed, BronzeTypes
  <2>4. QED
    BY <1>1, <2>1, <2>2, <2>3, CapacityMoves DEF Enforcing
<1>11. ASSUME NEW t \in Ingesters, NEW l, Proceed(t, l), UNCHANGED <<ingested, return>>,
              ~Enforcing(t)
       PROVE  CapacityInv'
  BY <1>1, <1>11, CapacityMoves
<1>12. ASSUME NEW t \in Ingesters, Insert(t) \/ Resolve(t) \/ Cache(t) \/ Persist(t)
       PROVE  CapacityInv'
  <2>1. UNCHANGED <<ingested, return>> /\ ~Enforcing(t)
    BY <1>12 DEF Insert, Resolve, Cache, Persist, stores, memory, callVars, Enforcing
  <2>2. \E l : Proceed(t, l)
    BY <1>12 DEF Insert, Resolve, Cache, Persist, Finish, Tell
  <2>3. QED
    BY <1>11, <2>1, <2>2
<1>13. ASSUME NEW t \in Ingesters,
              \/ \E found \in BOOLEAN : Look(t, found)
              \/ LookRaises(t) \/ Query(t) \/ QueryFails(t) \/ QueryEmpty(t) \/ EndGet(t)
       PROVE  CapacityInv'
  <2>1. UNCHANGED <<ingested, return>> /\ ~Enforcing(t)
    BY <1>13 DEF Look, LookRaises, Query, QueryFails, QueryEmpty, EndGet, stores, memory, callVars,
                 Enforcing
  <2>2. \E l : Proceed(t, l)
    BY <1>13 DEF Look, LookRaises, Query, QueryFails, QueryEmpty, EndGet, Finish, Tell
  <2>3. QED
    BY <1>11, <2>1, <2>2
<1>14. ASSUME NEW t \in Ingesters, NEW i \in Ids, StartIngest(t, i) \/ StartGet(t, i)
       PROVE  CapacityInv'
  <2>1. UNCHANGED <<ingested, return>> /\ ~Enforcing(t)
    BY <1>14 DEF StartIngest, StartGet, Begin, stores, memory, Enforcing
  <2>2. \E l : Proceed(t, l)
    BY <1>14 DEF StartIngest, StartGet, Begin
  <2>3. QED
    BY <1>11, <2>1, <2>2
<1>15. CASE Restart
  <2>1. ingested' = <<>>
    BY <1>15 DEF Restart
  <2>2. QED
    BY <2>1 DEF CapacityInv
<1>16. QED
  BY <1>2, <1>4, <1>5, <1>6, <1>7, <1>8, <1>9, <1>10, <1>12, <1>13, <1>14, <1>15
  DEF BronzeNext, BronzeStep

\* Between calls the order of ingestion is within the layer's capacity, whatever
\* that is and however many callers fill and empty it at a time.
THEOREM CapacityHolds == BronzeSpec => []CapacityIsKept
<1>1. BronzeInit => CapacityInv
  BY DEF BronzeInit, CapacityInv
<1>2. CapacityInv /\ BronzeInv /\ [BronzeNext]_bronzeVars => CapacityInv'
  BY CapacityStep
<1>3. CapacityInv => CapacityIsKept
  BY DEF CapacityInv, CapacityIsKept, NoCalls, Enforcing
<1>4. QED
  BY <1>1, <1>2, <1>3, BronzeInvariant, PTL DEF BronzeSpec

-----------------------------------------------------------------------------
(* The order and the stores.  The order never holds an identifier twice, even *)
(* when ingests cross: an ingest takes the stale copy of its record out, and  *)
(* nobody else adds that identifier.  What the stores hold can be told once   *)
(* nobody is in the middle of it: an eviction empties the stores one by one,  *)
(* an ingest has yet to register what it has inserted.                        *)

Evictions == Evicting \cup {"evictData", "evictOrder"}

Evicts(t, i) == at[t] \in Evictions /\ victim[t] = i

\* An ingest that takes the stale copy of its record out, or has yet to register its own.
Renewing(t) ==
    \/ at[t] \in {"insert", "register"}
    \/ at[t] \in Evictions /\ return[t] = "insert"

OrderInv ==
    /\ ingested \in Seq(Ids) /\ IsInjective(ingested)
    /\ meta \subseteq Ids /\ stamped \subseteq Ids
    /\ \A t \in Ingesters :
          /\ at[t] \in {"insert", "register"} => id[t] \notin ToSet(ingested)
          /\ at[t] \in Evictions /\ return[t] = "insert" => victim[t] = id[t]

Undisturbed(t) == Renewing(t) => \A u \in Ingesters \ {t} : ~Evicts(u, id[t])

\* How far an eviction is: nobody puts back what it has taken out.
Gone(t) ==
    /\ at[t] = "evictMeta" => victim[t] \notin data
    /\ at[t] = "evictStamp" => victim[t] \notin data \cup meta
    /\ at[t] \in {"evictCached", "evictOrder"} => victim[t] \notin data \cup meta \cup stamped

\* How far an ingest is.
Fresh(t) ==
    /\ at[t] = "insert" => id[t] \notin data \cup meta \cup stamped
    /\ at[t] = "register" => id[t] \in data \cap meta /\ id[t] \notin stamped

Settled(i) ==
    \A u \in Ingesters : /\ at[u] \in Evictions \ {"evictData"} => victim[u] # i
                         /\ at[u] = "register" => id[u] # i

Agree(i) ==
    /\ i \in data <=> i \in ToSet(ingested)
    /\ i \in meta <=> i \in ToSet(ingested)
    /\ i \in stamped <=> i \in ToSet(ingested)

AgreeInv ==
    ~crossed =>
        /\ \A t \in Ingesters : Undisturbed(t) /\ Gone(t) /\ Fresh(t)
        /\ \A i \in Ids : Settled(i) => Agree(i)

StoresInv == BronzeInv /\ OrderInv /\ AgreeInv

\* The others stay where they are.
OthersStay(t) ==
    \A u \in Ingesters \ {t} :
        at'[u] = at[u] /\ id'[u] = id[u] /\ victim'[u] = victim[u] /\ return'[u] = return[u]

\* The steps that change none of the stores, nor what is being done to them, but that
\* an eviction may begin.
Aside(t) ==
    /\ UNCHANGED <<data, meta, stamped, ingested>> /\ OthersStay(t) /\ (crossed => crossed')
    /\ at[t] \notin Evictions \cup {"insert", "register"}
    /\ \/ at'[t] \notin Evictions \cup {"insert", "register"}
       \/ /\ at'[t] = "evictData"
          /\ return'[t] = "insert" => victim'[t] = id'[t]
          /\ ~crossed' => /\ Undisturbed(t)'
                          /\ \A u \in Ingesters \ {t} : Renewing(u) => id[u] # victim'[t]

LEMMA AsideKeeps ==
    ASSUME StoresInv, NEW t \in Ingesters, Aside(t)
    PROVE  OrderInv' /\ AgreeInv'
<1>1. OrderInv'
  <2>1. "evictData" \notin {"insert", "register"}
    OBVIOUS
  <2>2. QED
    BY <2>1 DEF StoresInv, OrderInv, Aside, OthersStay
<1>2. ASSUME ~crossed' PROVE /\ \A u \in Ingesters : Undisturbed(u)' /\ Gone(u)' /\ Fresh(u)'
                             /\ \A i \in Ids : Settled(i)' => Agree(i)'
  <2>1. /\ \A u \in Ingesters : Undisturbed(u) /\ Gone(u) /\ Fresh(u)
        /\ \A i \in Ids : Settled(i) => Agree(i)
    BY <1>2 DEF StoresInv, AgreeInv, Aside
  <2>2. /\ at'[t] \notin {"insert", "register", "evictMeta", "evictStamp", "evictCached", "evictOrder"}
        /\ at[t] \notin Evictions \cup {"insert", "register"}
    BY DEF Aside, Evictions, Evicting
  <2>3. ASSUME NEW u \in Ingesters PROVE Undisturbed(u)'
    <3>1. CASE u = t
      BY <1>2, <3>1 DEF Aside, Undisturbed, Renewing
    <3>2. ASSUME u # t, Renewing(u)', NEW w \in Ingesters \ {u}, Evicts(w, id[u])' PROVE FALSE
      <4>1. Renewing(u) /\ id'[u] = id[u]
        BY <3>2 DEF Renewing, Aside, OthersStay
      <4>2. CASE w = t
        BY <1>2, <3>2, <4>1, <4>2 DEF Aside, Evicts
      <4>3. CASE w # t
        BY <2>1, <3>2, <4>1, <4>3 DEF Aside, OthersStay, Evicts, Undisturbed
      <4>4. QED
        BY <4>2, <4>3
    <3>3. QED
      BY <3>1, <3>2 DEF Undisturbed
  <2>4. ASSUME NEW u \in Ingesters PROVE Gone(u)' /\ Fresh(u)'
    <3>1. CASE u = t
      BY <2>2, <3>1 DEF Gone, Fresh
    <3>2. CASE u # t
      BY <2>1, <3>2 DEF Gone, Fresh, Aside, OthersStay
    <3>3. QED
      BY <3>1, <3>2
  <2>5. ASSUME NEW i \in Ids, Settled(i)' PROVE Agree(i)'
    <3>1. Settled(i)
      BY <2>2, <2>5 DEF Settled, Aside, OthersStay
    <3>2. QED
      BY <2>1, <3>1 DEF Agree, Aside
  <2>6. QED
    BY <2>3, <2>4, <2>5
<1>3. QED
  BY <1>1, <1>2 DEF AgreeInv

LEMMA InsertAgrees ==
    ASSUME StoresInv, NEW t \in Ingesters, Insert(t)
    PROVE  OrderInv' /\ AgreeInv'
<1> DEFINE x == id[t]
<1>1. /\ at[t] = "insert" /\ at'[t] = "register" /\ x \in Ids
      /\ data' = data \cup {x} /\ meta' = meta \cup {x}
      /\ UNCHANGED <<stamped, ingested, id, victim, return, crossed>>
      /\ \A u \in Ingesters \ {t} : at'[u] = at[u]
  BY DEF Insert, Proceed, callVars, StoresInv, BronzeInv, BronzeTypes
<1>2. OrderInv'
  BY <1>1 DEF StoresInv, OrderInv, Evictions, Evicting
<1>3. ASSUME ~crossed PROVE /\ \A u \in Ingesters : Undisturbed(u)' /\ Gone(u)' /\ Fresh(u)'
                            /\ \A i \in Ids : Settled(i)' => Agree(i)'
  <2>1. /\ \A u \in Ingesters : Undisturbed(u) /\ Gone(u) /\ Fresh(u)
        /\ \A i \in Ids : Settled(i) => Agree(i)
    BY <1>3 DEF StoresInv, AgreeInv
  <2>2. \A u \in Ingesters : Undisturbed(u)'
    BY <1>1, <2>1 DEF Undisturbed, Renewing, Evicts, Evictions, Evicting
  <2>3. ASSUME NEW u \in Ingesters \ {t}, at[u] \in Evictions PROVE victim[u] # x
    BY <1>1, <2>1, <2>3 DEF Undisturbed, Renewing, Evicts
  <2>4. ASSUME NEW u \in Ingesters PROVE Gone(u)'
    BY <1>1, <2>1, <2>3 DEF Gone, Evictions, Evicting
  <2>5. ASSUME NEW u \in Ingesters \ {t}, at[u] \in {"insert", "register"} PROVE id[u] # x
    <3>1. Ingesting(t) /\ Ingesting(u)
      BY <1>1, <2>5 DEF Ingesting, Asking, Answered
    <3>2. QED
      BY <3>1 DEF StoresInv, BronzeInv, Apart
  <2>6. ASSUME NEW u \in Ingesters PROVE Fresh(u)'
    BY <1>1, <2>1, <2>5 DEF Fresh
  <2>7. ASSUME NEW i \in Ids, Settled(i)' PROVE Agree(i)'
    <3>1. i # x /\ Settled(i)
      BY <1>1, <2>7 DEF Settled, Evictions, Evicting
    <3>2. QED
      BY <1>1, <2>1, <3>1 DEF Agree
  <2>8. QED
    BY <2>2, <2>4, <2>6, <2>7
<1>4. QED
  BY <1>1, <1>2, <1>3 DEF AgreeInv

LEMMA RegisterAgrees ==
    ASSUME StoresInv, NEW t \in Ingesters, Register(t)
    PROVE  OrderInv' /\ AgreeInv'
<1> DEFINE x == id[t]
<1>1. /\ at[t] = "register" /\ at'[t] = "enforce" /\ x \in Ids
      /\ stamped' = stamped \cup {x} /\ ingested' = Append(ingested, x)
      /\ UNCHANGED <<data, meta, id, victim, return, crossed>>
      /\ \A u \in Ingesters \ {t} : at'[u] = at[u]
  BY DEF Register, Proceed, callVars, history, StoresInv, BronzeInv, BronzeTypes
<1>2. /\ ingested' \in Seq(Ids) /\ IsInjective(ingested')
      /\ ToSet(ingested') = ToSet(ingested) \cup {x}
  <2>1. ingested \in Seq(Ids) /\ IsInjective(ingested) /\ x \notin ToSet(ingested)
    BY <1>1 DEF StoresInv, OrderInv
  <2>2. QED
    BY <1>1, <2>1, AppendOnce
<1>3. ASSUME NEW u \in Ingesters \ {t}, at[u] \in {"insert", "register"} PROVE id[u] # x
  <2>1. Ingesting(t) /\ Ingesting(u)
    BY <1>1, <1>3 DEF Ingesting, Asking, Answered
  <2>2. QED
    BY <2>1 DEF StoresInv, BronzeInv, Apart
<1>4. OrderInv'
  <2>1. ASSUME NEW u \in Ingesters
        PROVE  /\ at'[u] \in {"insert", "register"} => id'[u] \notin ToSet(ingested')
               /\ at'[u] \in Evictions /\ return'[u] = "insert" => victim'[u] = id'[u]
    BY <1>1, <1>2, <1>3 DEF StoresInv, OrderInv, Evictions, Evicting
  <2>2. meta' \subseteq Ids /\ stamped' \subseteq Ids
    BY <1>1 DEF StoresInv, OrderInv
  <2>3. QED
    BY <1>2, <2>1, <2>2 DEF OrderInv
<1>5. ASSUME ~crossed PROVE /\ \A u \in Ingesters : Undisturbed(u)' /\ Gone(u)' /\ Fresh(u)'
                            /\ \A i \in Ids : Settled(i)' => Agree(i)'
  <2>1. /\ \A u \in Ingesters : Undisturbed(u) /\ Gone(u) /\ Fresh(u)
        /\ \A i \in Ids : Settled(i) => Agree(i)
    BY <1>5 DEF StoresInv, AgreeInv
  <2>2. \A u \in Ingesters : Undisturbed(u)'
    BY <1>1, <2>1 DEF Undisturbed, Renewing, Evicts, Evictions, Evicting
  <2>3. ASSUME NEW u \in Ingesters \ {t}, at[u] \in Evictions PROVE victim[u] # x
    BY <1>1, <2>1, <2>3 DEF Undisturbed, Renewing, Evicts
  <2>4. ASSUME NEW u \in Ingesters PROVE Gone(u)'
    BY <1>1, <2>1, <2>3 DEF Gone, Evictions, Evicting
  <2>5. ASSUME NEW u \in Ingesters PROVE Fresh(u)'
    BY <1>1, <1>3, <2>1 DEF Fresh
  <2>6. ASSUME NEW i \in Ids, Settled(i)' PROVE Agree(i)'
    <3>1. CASE i = x
      BY <1>1, <1>2, <2>1, <3>1 DEF Agree, Fresh
    <3>2. CASE i # x
      <4>1. Settled(i)
        BY <1>1, <2>6, <3>2 DEF Settled, Evictions, Evicting
      <4>2. Agree(i)
        BY <2>1, <4>1
      <4>3. QED
        BY <1>1, <1>2, <3>2, <4>2 DEF Agree
    <3>3. QED
      BY <3>1, <3>2
  <2>7. QED
    BY <2>2, <2>4, <2>5, <2>6
<1>6. QED
  BY <1>1, <1>4, <1>5 DEF AgreeInv

\* One of the first four steps of an eviction: it takes its victim out of one store.
LEMMA EvictAgrees ==
    ASSUME StoresInv, NEW t \in Ingesters,
           EvictData(t) \/ EvictMeta(t) \/ EvictStamp(t) \/ EvictCached(t)
    PROVE  OrderInv' /\ AgreeInv'
<1> DEFINE x == victim[t]
<1>1. /\ UNCHANGED <<ingested, id, victim, return, crossed>>
      /\ \A u \in Ingesters \ {t} : at'[u] = at[u]
      /\ data' \in {data, data \ {x}} /\ meta' \in {meta, meta \ {x}}
      /\ stamped' \in {stamped, stamped \ {x}}
      /\ \/ at[t] = "evictData" /\ at'[t] = "evictMeta" /\ x \notin data'
         \/ at[t] = "evictMeta" /\ at'[t] = "evictStamp" /\ x \notin meta'
         \/ at[t] = "evictStamp" /\ at'[t] = "evictCached" /\ x \notin stamped'
         \/ at[t] = "evictCached" /\ at'[t] = "evictOrder"
  BY DEF EvictData, EvictMeta, EvictStamp, EvictCached, Proceed, callVars, history,
         StoresInv, BronzeInv, BronzeTypes
<1>2. at[t] \in Evictions /\ at'[t] \in Evictions \ {"evictData"}
  BY <1>1 DEF Evictions, Evicting
<1>3. OrderInv'
  <2>1. meta' \subseteq Ids /\ stamped' \subseteq Ids
    BY <1>1 DEF StoresInv, OrderInv
  <2>2. ASSUME NEW u \in Ingesters
        PROVE  /\ at'[u] \in {"insert", "register"} => id'[u] \notin ToSet(ingested')
               /\ at'[u] \in Evictions /\ return'[u] = "insert" => victim'[u] = id'[u]
    BY <1>1, <1>2 DEF StoresInv, OrderInv
  <2>3. QED
    BY <1>1, <2>1, <2>2 DEF StoresInv, OrderInv
<1>4. ASSUME ~crossed PROVE /\ \A u \in Ingesters : Undisturbed(u)' /\ Gone(u)' /\ Fresh(u)'
                            /\ \A i \in Ids : Settled(i)' => Agree(i)'
  <2>1. /\ \A u \in Ingesters : Undisturbed(u) /\ Gone(u) /\ Fresh(u)
        /\ \A i \in Ids : Settled(i) => Agree(i)
    BY <1>4 DEF StoresInv, AgreeInv
  <2>2. ASSUME NEW u \in Ingesters PROVE (Renewing(u)' <=> Renewing(u)) /\ \A i : Evicts(u, i)' <=> Evicts(u, i)
    BY <1>1, <1>2 DEF Renewing, Evicts
  <2>3. \A u \in Ingesters : Undisturbed(u)'
    BY <1>1, <2>1, <2>2 DEF Undisturbed
  <2>4. ASSUME NEW u \in Ingesters PROVE Gone(u)'
    <3>1. Gone(u) /\ data' \subseteq data /\ meta' \subseteq meta /\ stamped' \subseteq stamped
      BY <1>1, <2>1
    <3>2. CASE u = t
      BY <1>1, <3>1, <3>2 DEF Gone
    <3>3. CASE u # t
      BY <1>1, <3>1, <3>3 DEF Gone
    <3>4. QED
      BY <3>2, <3>3
  <2>5. ASSUME NEW u \in Ingesters \ {t}, at[u] \in {"insert", "register"} PROVE id[u] # x
    BY <1>2, <2>1, <2>5 DEF Undisturbed, Renewing, Evicts
  <2>6. ASSUME NEW u \in Ingesters PROVE Fresh(u)'
    BY <1>1, <2>1, <2>5 DEF Fresh
  <2>7. ASSUME NEW i \in Ids, Settled(i)' PROVE Agree(i)'
    <3>1. i # x
      BY <1>1, <1>2, <2>7 DEF Settled
    <3>2. Settled(i)
      BY <1>1, <2>7, <3>1 DEF Settled
    <3>3. QED
      BY <1>1, <2>1, <3>1, <3>2 DEF Agree
  <2>8. QED
    BY <2>3, <2>4, <2>6, <2>7
<1>5. QED
  BY <1>1, <1>3, <1>4 DEF AgreeInv

LEMMA EvictOrderAgrees ==
    ASSUME StoresInv, NEW t \in Ingesters, EvictOrder(t)
    PROVE  OrderInv' /\ AgreeInv'
<1> DEFINE x == victim[t]
<1>1. /\ at[t] = "evictOrder" /\ at'[t] = return[t] /\ return[t] \in {"purge", "insert", "enforce"}
      /\ ingested' = RemoveFirst(ingested, x)
      /\ UNCHANGED <<data, meta, stamped, id, return, crossed>>
      /\ \A u \in Ingesters \ {t} : at'[u] = at[u] /\ victim'[u] = victim[u]
  BY DEF EvictOrder, Dropped, Proceed, history, StoresInv, BronzeInv, BronzeTypes
<1>2. /\ ingested' \in Seq(Ids) /\ IsInjective(ingested')
      /\ ToSet(ingested') = ToSet(ingested) \ {x}
  <2>1. ingested \in Seq(Ids) /\ IsInjective(ingested)
    BY DEF StoresInv, OrderInv
  <2>2. QED
    BY <1>1, <2>1, RemoveFirstShrinks, RemoveFirstOnce
<1>3. return[t] = "insert" => x = id[t]
  BY <1>1 DEF StoresInv, OrderInv, Evictions, Evicting
<1>4. at'[t] \notin Evictions \cup {"register"}
  BY <1>1 DEF Evictions, Evicting
<1>5. OrderInv'
  <2>1. meta' \subseteq Ids /\ stamped' \subseteq Ids
    BY <1>1 DEF StoresInv, OrderInv
  <2>2. ASSUME NEW u \in Ingesters
        PROVE  /\ at'[u] \in {"insert", "register"} => id'[u] \notin ToSet(ingested')
               /\ at'[u] \in Evictions /\ return'[u] = "insert" => victim'[u] = id'[u]
    <3>1. CASE u = t
      BY <1>1, <1>2, <1>3, <1>4, <3>1
    <3>2. CASE u # t
      BY <1>1, <1>2, <3>2 DEF StoresInv, OrderInv
    <3>3. QED
      BY <3>1, <3>2
  <2>3. QED
    BY <1>2, <2>1, <2>2 DEF OrderInv
<1>6. ASSUME ~crossed PROVE /\ \A u \in Ingesters : Undisturbed(u)' /\ Gone(u)' /\ Fresh(u)'
                            /\ \A i \in Ids : Settled(i)' => Agree(i)'
  <2>1. /\ \A u \in Ingesters : Undisturbed(u) /\ Gone(u) /\ Fresh(u)
        /\ \A i \in Ids : Settled(i) => Agree(i)
    BY <1>6 DEF StoresInv, AgreeInv
  <2>2. x \notin data \cup meta \cup stamped
    BY <1>1, <2>1 DEF Gone
  <2>3. ASSUME NEW u \in Ingesters
        PROVE  (Renewing(u)' => Renewing(u)) /\ \A i : Evicts(u, i)' => Evicts(u, i)
    BY <1>1, <1>4 DEF Renewing, Evicts, Evictions
  <2>4. \A u \in Ingesters : Undisturbed(u)'
    BY <1>1, <2>1, <2>3 DEF Undisturbed
  <2>5. ASSUME NEW u \in Ingesters PROVE Gone(u)' /\ Fresh(u)'
    <3>1. CASE u = t
      BY <1>1, <1>3, <1>4, <2>2, <3>1 DEF Gone, Fresh, Evictions, Evicting
    <3>2. CASE u # t
      BY <1>1, <2>1, <3>2 DEF Gone, Fresh
    <3>3. QED
      BY <3>1, <3>2
  <2>6. ASSUME NEW i \in Ids, Settled(i)' PROVE Agree(i)'
    <3>1. CASE i = x
      BY <1>1, <1>2, <2>2, <3>1 DEF Agree
    <3>2. CASE i # x
      <4>1. Settled(i)
        BY <1>1, <2>6, <3>2 DEF Settled
      <4>2. Agree(i)
        BY <2>1, <4>1
      <4>3. QED
        BY <1>1, <1>2, <3>2, <4>2 DEF Agree
    <3>3. QED
      BY <3>1, <3>2
  <2>7. QED
    BY <2>4, <2>5, <2>6
<1>7. QED
  BY <1>1, <1>5, <1>6 DEF AgreeInv

\* The expiry drops the head of the order: if it was in the stamps, the histories have crossed.
LEMMA OrphanAgrees ==
    ASSUME StoresInv, NEW t \in Ingesters, Orphan(t)
    PROVE  OrderInv' /\ AgreeInv'
<1>1. /\ UNCHANGED <<data, meta, stamped, return>> /\ at[t] = "orphan"
      /\ at'[t] \in {"idle", "purge"}
      /\ \A u \in Ingesters \ {t} : at'[u] = at[u] /\ id'[u] = id[u] /\ victim'[u] = victim[u]
  BY DEF Orphan, Finish, Proceed, StoresInv, BronzeInv, BronzeTypes
<1>2. CASE ingested = <<>>
  <2>1. UNCHANGED <<ingested, crossed>>
    BY <1>2 DEF Orphan
  <2>2. Aside(t)
    BY <1>1, <2>1 DEF Aside, OthersStay, Evictions, Evicting
  <2>3. QED
    BY <2>2, AsideKeeps
<1>3. CASE ingested # <<>>
  <2> DEFINE x == Head(ingested)
  <2>1. ingested' = Tail(ingested) /\ crossed' = (crossed \/ x \in stamped)
    BY <1>3 DEF Orphan
  <2>2. /\ ingested' \in Seq(Ids) /\ IsInjective(ingested')
        /\ ToSet(ingested') = ToSet(ingested) \ {x} /\ x \in ToSet(ingested)
    <3>1. ingested \in Seq(Ids) /\ IsInjective(ingested)
      BY DEF StoresInv, OrderInv
    <3>2. x \in ToSet(ingested)
      BY <1>3, <3>1 DEF ToSet
    <3>3. QED
      BY <1>3, <2>1, <3>1, <3>2, TailOnce
  <2>3. at'[t] \notin Evictions \cup {"insert", "register"} /\ at[t] \notin Evictions \cup {"insert", "register"}
    BY <1>1 DEF Evictions, Evicting
  <2>4. OrderInv'
    <3>1. ASSUME NEW u \in Ingesters
          PROVE  /\ at'[u] \in {"insert", "register"} => id'[u] \notin ToSet(ingested')
                 /\ at'[u] \in Evictions /\ return'[u] = "insert" => victim'[u] = id'[u]
      BY <1>1, <2>2, <2>3 DEF StoresInv, OrderInv
    <3>2. QED
      BY <1>1, <2>2, <3>1 DEF StoresInv, OrderInv
  <2>5. ASSUME ~crossed' PROVE /\ \A u \in Ingesters : Undisturbed(u)' /\ Gone(u)' /\ Fresh(u)'
                               /\ \A i \in Ids : Settled(i)' => Agree(i)'
    <3>1. /\ \A u \in Ingesters : Undisturbed(u) /\ Gone(u) /\ Fresh(u)
          /\ \A i \in Ids : Settled(i) => Agree(i)
          /\ x \notin stamped
      BY <2>1, <2>5 DEF StoresInv, AgreeInv
    <3>2. \A u \in Ingesters : Undisturbed(u)'
      BY <1>1, <2>3, <3>1 DEF Undisturbed, Renewing, Evicts
    <3>3. ASSUME NEW u \in Ingesters PROVE Gone(u)' /\ Fresh(u)'
      BY <1>1, <2>3, <3>1 DEF Gone, Fresh, Evictions, Evicting
    <3>4. ASSUME NEW i \in Ids, Settled(i)' PROVE Agree(i)'
      <4>1. Settled(i)
        BY <1>1, <2>3, <3>4 DEF Settled
      <4>2. Agree(i) /\ i # x
        BY <2>2, <3>1, <4>1 DEF Agree
      <4>3. QED
        BY <1>1, <2>2, <4>2 DEF Agree
    <3>5. QED
      BY <3>2, <3>3, <3>4
  <2>6. QED
    BY <2>4, <2>5 DEF AgreeInv
<1>4. QED
  BY <1>2, <1>3

LEMMA RestartAgrees == Restart => OrderInv' /\ AgreeInv'
<1> SUFFICES ASSUME Restart PROVE OrderInv' /\ AgreeInv'
  OBVIOUS
<1>1. /\ data' = {} /\ meta' = {} /\ stamped' = {} /\ ingested' = <<>>
      /\ \A u \in Ingesters : at'[u] = "idle"
  BY DEF Restart
<1>2. ToSet(<<>>) = {} /\ IsInjective(<<>>)
  BY DEF ToSet, IsInjective
<1>3. "idle" \notin Evictions \cup {"insert", "register"}
  BY DEF Evictions, Evicting
<1>4. OrderInv'
  BY <1>1, <1>2, <1>3 DEF OrderInv
<1>5. \A u \in Ingesters : Undisturbed(u)' /\ Gone(u)' /\ Fresh(u)'
  BY <1>1, <1>3 DEF Undisturbed, Renewing, Gone, Fresh, Evictions, Evicting
<1>6. \A i \in Ids : Agree(i)'
  BY <1>1, <1>2 DEF Agree
<1>7. QED
  BY <1>4, <1>5, <1>6 DEF AgreeInv

\* An eviction begins, of the oldest record or of the stale copy of what is ingested.
LEMMA CallEvictAside ==
    ASSUME StoresInv, NEW t \in Ingesters, NEW i, NEW label \in {"purge", "insert", "enforce"},
           at[t] \in {"purge", "head"}, CallEvict(t, i, label),
           UNCHANGED <<data, meta, stamped, ingested, id>>,
           label = "insert" => i = id[t], label # "insert" => i \in ToSet(ingested)
    PROVE  Aside(t)
<1>1. /\ at'[t] = "evictData" /\ victim'[t] = i /\ return'[t] = label
      /\ crossed' = (crossed \/ \E u \in Ingesters \ {t} : victim[u] = i /\ "insert" \in {label, return[u]})
      /\ OthersStay(t)
  BY DEF CallEvict, Proceed, OthersStay, StoresInv, BronzeInv, BronzeTypes
<1>2. ASSUME ~crossed' PROVE Undisturbed(t)' /\ \A u \in Ingesters \ {t} : Renewing(u) => id[u] # i
  <2>1. \A u \in Ingesters \ {t} : victim[u] = i => label # "insert" /\ return[u] # "insert"
    BY <1>1, <1>2
  <2>2. Undisturbed(t)'
    <3>1. Renewing(t)' => label = "insert"
      BY <1>1 DEF Renewing
    <3>2. QED
      BY <1>1, <2>1, <3>1 DEF Undisturbed, Evicts, OthersStay
  <2>3. ASSUME NEW u \in Ingesters \ {t}, Renewing(u), id[u] = i PROVE FALSE
    <3>1. CASE at[u] \in Evictions /\ return[u] = "insert"
      BY <2>1, <2>3, <3>1 DEF StoresInv, OrderInv
    <3>2. CASE at[u] \in {"insert", "register"}
      <4>1. label = "insert" /\ i = id[t]
        BY <2>3, <3>2 DEF StoresInv, OrderInv
      <4>2. Ingesting(u) /\ Ingesting(t)
        BY <3>2 DEF Ingesting, Asking, Answered
      <4>3. QED
        BY <2>3, <4>1, <4>2 DEF StoresInv, BronzeInv, Apart
    <3>3. QED
      BY <2>3, <3>1, <3>2 DEF Renewing
  <2>4. QED
    BY <2>2, <2>3
<1>3. at[t] \notin Evictions \cup {"insert", "register"}
  BY DEF Evictions, Evicting
<1>4. QED
  BY <1>1, <1>2, <1>3 DEF Aside

LEMMA AsideSteps ==
    ASSUME StoresInv, NEW t \in Ingesters,
           \/ \E expired \in BOOLEAN : Purge(t, expired)
           \/ Enforce(t) \/ EvictFirst(t) \/ Resolve(t) \/ Cache(t) \/ Persist(t)
           \/ \E found \in BOOLEAN : Look(t, found)
           \/ LookRaises(t) \/ Query(t) \/ QueryFails(t) \/ QueryEmpty(t) \/ EndGet(t)
           \/ \E i \in Ids : StartIngest(t, i) \/ StartGet(t, i)
    PROVE  Aside(t)
<1> USE DEF stores, memory, callVars, history, asked
<1>1. BronzeTypes /\ ingested \in Seq(Ids)
  BY DEF StoresInv, BronzeInv, OrderInv
<1>2. ingested # <<>> => Head(ingested) \in ToSet(ingested)
  BY <1>1 DEF ToSet
\* A caller moves on; what it asks for may change, what it evicts matters only if it does.
<1>3. ASSUME NEW l \in {"idle"} \cup Steps, Proceed(t, l),
             at[t] \notin Evictions \cup {"insert", "register"}, l \notin Evictions \cup {"insert", "register"},
             UNCHANGED <<data, meta, stamped, ingested, return, crossed>>,
             \A u \in Ingesters \ {t} : id'[u] = id[u] /\ victim'[u] = victim[u]
      PROVE  Aside(t)
  BY <1>1, <1>3 DEF Aside, OthersStay, Proceed, BronzeTypes
<1>4. CASE \E expired \in BOOLEAN : Purge(t, expired)
  <2>1. at[t] = "purge" /\ UNCHANGED <<data, meta, stamped, ingested, id>>
    BY <1>4 DEF Purge
  <2>2. \/ /\ victim' = [victim EXCEPT ![t] = Head(ingested)] /\ Proceed(t, "orphan")
           /\ UNCHANGED <<return, crossed>>
        \/ ingested # <<>> /\ CallEvict(t, Head(ingested), "purge")
        \/ CallEvict(t, id[t], "insert")
    BY <1>4 DEF Purge
  <2>3. CASE /\ victim' = [victim EXCEPT ![t] = Head(ingested)] /\ Proceed(t, "orphan")
             /\ UNCHANGED <<return, crossed>>
    BY <1>1, <1>3, <2>1, <2>3 DEF BronzeTypes, Steps, Evictions, Evicting
  <2>4. CASE ingested # <<>> /\ CallEvict(t, Head(ingested), "purge")
    BY <1>2, <2>1, <2>4, CallEvictAside
  <2>5. CASE CallEvict(t, id[t], "insert")
    BY <2>1, <2>5, CallEvictAside
  <2>6. QED
    BY <2>2, <2>3, <2>4, <2>5
<1>5. CASE EvictFirst(t)
  <2>1. at[t] = "head" /\ UNCHANGED <<data, meta, stamped, ingested>>
    BY <1>5 DEF EvictFirst
  <2>2. CASE ingested = <<>>
    BY <1>1, <1>3, <1>5, <2>1, <2>2 DEF EvictFirst, Finish, BronzeTypes, Steps, Evictions, Evicting
  <2>3. CASE ingested # <<>>
    <3>1. CallEvict(t, Head(ingested), "enforce") /\ UNCHANGED id
      BY <1>5, <2>3 DEF EvictFirst
    <3>2. QED
      BY <1>2, <2>1, <2>3, <3>1, CallEvictAside
  <2>4. QED
    BY <2>2, <2>3
<1>6. CASE Enforce(t) \/ Resolve(t) \/ Cache(t) \/ Persist(t)
  <2>1. /\ at[t] \in {"enforce", "resolve", "getResolve", "cache", "getCache", "persist"}
        /\ UNCHANGED <<data, meta, stamped, ingested, victim, return, crossed>>
    BY <1>6 DEF Enforce, Resolve, Cache, Persist
  <2>2. \E l \in {"head", "resolve", "cache", "persist", "getCache", "query", "found", "idle"} : Proceed(t, l)
    BY <1>6 DEF Enforce, Resolve, Cache, Persist, Finish, Tell
  <2>3. \A u \in Ingesters \ {t} : id'[u] = id[u]
    BY <1>1, <1>6 DEF Enforce, Resolve, Cache, Persist, Finish, BronzeTypes
  <2>4. QED
    BY <1>3, <2>1, <2>2, <2>3 DEF Steps, Evictions, Evicting
<1>7. CASE \/ \E found \in BOOLEAN : Look(t, found)
           \/ LookRaises(t) \/ Query(t) \/ QueryFails(t) \/ QueryEmpty(t) \/ EndGet(t)
  <2>1. /\ at[t] \in {"look", "query", "empty", "found", "missing"}
        /\ UNCHANGED <<data, meta, stamped, ingested, victim, return, crossed>>
    BY <1>7 DEF Look, LookRaises, Query, QueryFails, QueryEmpty, EndGet
  <2>2. \E l \in {"getResolve", "query", "idle", "found", "missing", "empty"} : Proceed(t, l)
    BY <1>7 DEF Look, LookRaises, Query, QueryFails, QueryEmpty, EndGet, Finish, Tell
  <2>3. \A u \in Ingesters \ {t} : id'[u] = id[u]
    BY <1>1, <1>7 DEF Look, LookRaises, Query, QueryFails, QueryEmpty, EndGet, Finish, BronzeTypes
  <2>4. QED
    BY <1>3, <2>1, <2>2, <2>3 DEF Steps, Evictions, Evicting
<1>8. CASE \E i \in Ids : StartIngest(t, i) \/ StartGet(t, i)
  <2>1. PICK l \in {"purge", "look"}, i \in Ids : Begin(t, i, l)
    BY <1>8 DEF StartIngest, StartGet
  <2>2. QED
    BY <1>1, <1>3, <2>1 DEF Begin, BronzeTypes, Steps, Evictions, Evicting
<1>9. QED
  BY <1>4, <1>5, <1>6, <1>7, <1>8

LEMMA StoresStep == StoresInv /\ [BronzeNext]_bronzeVars => StoresInv'
<1> SUFFICES ASSUME StoresInv, [BronzeNext]_bronzeVars PROVE OrderInv' /\ AgreeInv'
  BY BronzeNextStep DEF StoresInv, Step
<1>1. CASE UNCHANGED bronzeVars
  <2>1. UNCHANGED <<data, meta, stamped, ingested, at, id, victim, return, crossed>>
    BY <1>1 DEF bronzeVars, stores, memory, callVars, history
  <2>2. OrderInv'
    BY <2>1 DEF StoresInv, OrderInv
  <2>3. AgreeInv'
    BY <2>1 DEF StoresInv, AgreeInv, Undisturbed, Renewing, Evicts, Gone, Fresh, Settled, Agree
  <2>4. QED
    BY <2>2, <2>3
<1>2. ASSUME NEW t \in Ingesters, BronzeStep(t) PROVE OrderInv' /\ AgreeInv'
  <2>1. CASE Insert(t) \/ Register(t)
    BY <2>1, InsertAgrees, RegisterAgrees
  <2>2. CASE EvictData(t) \/ EvictMeta(t) \/ EvictStamp(t) \/ EvictCached(t)
    BY <2>2, EvictAgrees
  <2>3. CASE EvictOrder(t) \/ Orphan(t)
    BY <2>3, EvictOrderAgrees, OrphanAgrees
  <2>4. CASE \/ \E expired \in BOOLEAN : Purge(t, expired)
             \/ Enforce(t) \/ EvictFirst(t) \/ Resolve(t) \/ Cache(t) \/ Persist(t)
             \/ \E found \in BOOLEAN : Look(t, found)
             \/ LookRaises(t) \/ Query(t) \/ QueryFails(t) \/ QueryEmpty(t) \/ EndGet(t)
    BY <2>4, AsideSteps, AsideKeeps
  <2>5. QED
    BY <1>2, <2>1, <2>2, <2>3, <2>4 DEF BronzeStep
<1>3. ASSUME NEW t \in Ingesters, NEW i \in Ids, StartIngest(t, i) \/ StartGet(t, i)
      PROVE  OrderInv' /\ AgreeInv'
  BY <1>3, AsideSteps, AsideKeeps
<1>4. CASE Restart
  BY <1>4, RestartAgrees
<1>5. QED
  BY <1>1, <1>2, <1>3, <1>4 DEF BronzeNext

LEMMA StoresInit == BronzeInit => StoresInv
<1> SUFFICES ASSUME BronzeInit PROVE OrderInv /\ AgreeInv
  BY BronzeInitInv DEF StoresInv
<1>1. /\ data = {} /\ meta = {} /\ stamped = {} /\ ingested = <<>>
      /\ \A u \in Ingesters : at[u] = "idle"
  BY DEF BronzeInit
<1>2. ToSet(<<>>) = {} /\ IsInjective(<<>>)
  BY DEF ToSet, IsInjective
<1>3. "idle" \notin Evictions \cup {"insert", "register"}
  BY DEF Evictions, Evicting
<1>4. OrderInv
  BY <1>1, <1>2, <1>3 DEF OrderInv
<1>5. \A u \in Ingesters : Undisturbed(u) /\ Gone(u) /\ Fresh(u)
  BY <1>1, <1>3 DEF Undisturbed, Renewing, Gone, Fresh, Evictions, Evicting
<1>6. \A i \in Ids : Agree(i)
  BY <1>1, <1>2 DEF Agree
<1>7. QED
  BY <1>4, <1>5, <1>6 DEF AgreeInv

\* What the order and the stores hold at every step of any number of ingests and
\* evictions: how far an eviction is tells what is gone, how far an ingest is tells
\* what is there, and for every other identifier the stores agree.
THEOREM StoresInvariant == BronzeSpec => []StoresInv
<1>1. BronzeInit => StoresInv
  BY StoresInit
<1>2. StoresInv /\ [BronzeNext]_bronzeVars => StoresInv'
  BY StoresStep
<1>3. QED
  BY <1>1, <1>2, PTL DEF BronzeSpec

\* Between calls the stores of ingest and _evict_record hold the same records, each
\* once in the order of ingestion, for any number of callers and any capacity, unless
\* a record was ingested again while it was evicted or the expiry dropped the wrong one.
THEOREM StoresKeepAgreeing == BronzeSpec => []StoresAgree
<1>1. StoresInv => StoresAgree
  <2> SUFFICES ASSUME StoresInv, NoCalls, ~crossed
               PROVE  /\ data = meta /\ data = stamped
                      /\ data = ToSet(ingested) /\ IsInjective(ingested)
    BY DEF StoresAgree
  <2>1. /\ data \subseteq Ids /\ meta \subseteq Ids /\ stamped \subseteq Ids
        /\ ToSet(ingested) \subseteq Ids /\ IsInjective(ingested)
    BY DEF StoresInv, BronzeInv, BronzeTypes, OrderInv, ToSet
  <2>2. ASSUME NEW i \in Ids PROVE Settled(i)
    BY DEF NoCalls, Settled, Evictions, Evicting
  <2>3. \A i \in Ids : Agree(i)
    BY <2>2 DEF StoresInv, AgreeInv
  <2>4. QED
    BY <2>1, <2>3 DEF Agree
<1>2. QED
  BY <1>1, StoresInvariant, PTL

-----------------------------------------------------------------------------
(* An ingest by itself: whatever earlier calls have left in the order, its own *)
(* record stays the last one, and only the first is ever evicted for room.     *)

MakingRoom(t) == at[t] \in Evictions /\ return[t] = "enforce"

Own(t) ==
    /\ at[t] = "register" => id[t] \in data \cap meta
    /\ at[t] \in {"enforce", "head", "resolve", "cache"} \/ MakingRoom(t) =>
          id[t] \in data \cap meta /\ ingested # <<>> /\ Last(ingested) = id[t]
    /\ at[t] = "head" => Len(ingested) > MaxRecords
    /\ MakingRoom(t) => victim[t] # id[t]

OwnInv ==
    /\ sole \in [Ingesters -> BOOLEAN]
    /\ \A t \in Ingesters : sole[t] => Own(t) /\ \A u \in Ingesters \ {t} : at[u] = "idle"

\* Where the own record is not in question.
LEMMA OwnElsewhere ==
    ASSUME NEW t \in Ingesters, at'[t] \notin {"register", "enforce", "head", "resolve", "cache"},
           at'[t] \in Evictions => return'[t] # "enforce"
    PROVE  Own(t)'
  BY DEF Own, MakingRoom

LEMMA OwnMoves ==
    ASSUME StoresInv, NEW t \in Ingesters, sole[t], Own(t), BronzeStep(t)
    PROVE  Own(t)'
<1> USE DEF stores, memory, callVars, history, asked
<1>1. BronzeTypes /\ ingested \in Seq(Ids) /\ IsInjective(ingested)
  BY DEF StoresInv, BronzeInv, OrderInv
<1>2. ASSUME NEW i, NEW label \in {"purge", "insert"}, CallEvict(t, i, label) PROVE Own(t)'
  <2>1. at'[t] = "evictData" /\ return'[t] = label
    BY <1>1, <1>2 DEF CallEvict, Proceed, BronzeTypes
  <2>2. QED
    BY <2>1, OwnElsewhere
<1>3. ASSUME NEW expired \in BOOLEAN, Purge(t, expired) PROVE Own(t)'
  <2>1. CASE Proceed(t, "orphan")
    <3>1. at'[t] = "orphan"
      BY <1>1, <2>1 DEF Proceed, BronzeTypes
    <3>2. QED
      BY <3>1, OwnElsewhere DEF Evictions, Evicting
  <2>2. QED
    BY <1>2, <1>3, <2>1 DEF Purge
<1>4. CASE Orphan(t) \/ Persist(t)
  <2>1. at'[t] \in {"idle", "purge"}
    BY <1>1, <1>4 DEF Orphan, Persist, Finish, Proceed, BronzeTypes
  <2>2. QED
    BY <2>1, OwnElsewhere DEF Evictions, Evicting
<1>5. CASE Insert(t)
  <2>1. at'[t] = "register" /\ id'[t] \in data' \cap meta'
    BY <1>1, <1>5 DEF Insert, Proceed, BronzeTypes
  <2>2. QED
    BY <2>1 DEF Own, MakingRoom, Evictions, Evicting
<1>6. CASE Register(t)
  <2>1. at[t] = "register" /\ at'[t] = "enforce" /\ UNCHANGED <<data, meta, id>>
    BY <1>1, <1>6 DEF Register, Proceed, BronzeTypes
  <2>2. id[t] \in Ids /\ id[t] \notin ToSet(ingested)
    BY <1>1, <2>1 DEF StoresInv, OrderInv, BronzeTypes
  <2>3. ingested' # <<>> /\ Last(ingested') = id[t]
    BY <1>1, <1>6, <2>2, AppendOnce DEF Register
  <2>4. QED
    BY <2>1, <2>3 DEF Own, MakingRoom, Evictions, Evicting
<1>7. CASE Enforce(t)
  <2>1. /\ at[t] = "enforce" /\ UNCHANGED <<data, meta, id, ingested>>
        /\ at'[t] \in {"head", "resolve"} /\ (at'[t] = "head" => Over)
    BY <1>1, <1>7 DEF Enforce, Proceed, BronzeTypes
  <2>2. QED
    BY <2>1 DEF Own, MakingRoom, Evictions, Evicting, Over
<1>8. CASE EvictFirst(t)
  <2>1. /\ at[t] = "head" /\ UNCHANGED <<data, meta, ingested>> /\ Len(ingested) > MaxRecords
        /\ id[t] \in data \cap meta /\ ingested # <<>> /\ Last(ingested) = id[t]
    BY <1>8 DEF EvictFirst, Own
  <2>2. /\ at'[t] = "evictData" /\ victim'[t] = Head(ingested) /\ return'[t] = "enforce"
        /\ UNCHANGED id
    BY <1>1, <1>8, <2>1 DEF EvictFirst, CallEvict, Proceed, BronzeTypes
  <2>3. Head(ingested) # Last(ingested)
    <3>1. /\ Head(ingested) = ingested[1] /\ DOMAIN ingested = 1..Len(ingested)
          /\ Len(ingested) \in Nat /\ Len(ingested) > 1
      BY <1>1, <2>1
    <3>2. ingested[1] # ingested[Len(ingested)]
      BY <1>1, <3>1 DEF IsInjective
    <3>3. QED
      BY <3>1, <3>2 DEF Last
  <2>4. QED
    BY <2>1, <2>2, <2>3 DEF Own, MakingRoom
<1>9. CASE Resolve(t) \/ Cache(t)
  <2>1. /\ UNCHANGED <<data, meta, id, ingested>>
        /\ \/ at[t] = "resolve" /\ at'[t] \in {"cache", "persist"}
           \/ at[t] # "resolve" /\ at'[t] \in {"persist", "found", "getCache", "query"}
    BY <1>1, <1>9 DEF Resolve, Cache, Tell, Proceed, BronzeTypes
  <2>2. QED
    BY <2>1 DEF Own, MakingRoom, Evictions, Evicting
<1>10. CASE EvictData(t) \/ EvictMeta(t) \/ EvictStamp(t) \/ EvictCached(t)
  <2>1. /\ at[t] \in Evictions /\ at'[t] \in Evictions /\ UNCHANGED <<id, victim, return, ingested>>
        /\ data' \in {data, data \ {victim[t]}} /\ meta' \in {meta, meta \ {victim[t]}}
    BY <1>1, <1>10
    DEF EvictData, EvictMeta, EvictStamp, EvictCached, Proceed, BronzeTypes, Evictions, Evicting
  <2>2. at'[t] \notin {"register", "enforce", "head", "resolve", "cache"}
    BY <2>1 DEF Evictions, Evicting
  <2>3. QED
    BY <2>1, <2>2 DEF Own, MakingRoom
<1>11. CASE EvictOrder(t)
  <2>1. /\ at[t] \in Evictions /\ at'[t] = return[t] /\ return[t] \in {"purge", "insert", "enforce"}
        /\ UNCHANGED <<data, meta, id>> /\ ingested' = RemoveFirst(ingested, victim[t])
    BY <1>1, <1>11 DEF EvictOrder, Dropped, Proceed, BronzeTypes, Evictions
  <2>2. at'[t] \notin Evictions \cup {"register", "head", "resolve", "cache"}
    BY <2>1 DEF Evictions, Evicting
  <2>3. CASE return[t] = "enforce"
    <3>1. /\ id[t] \in data \cap meta /\ ingested # <<>> /\ Last(ingested) = id[t]
          /\ victim[t] # id[t]
      BY <2>1, <2>3 DEF Own, MakingRoom
    <3>2. ingested' # <<>> /\ Last(ingested') = id[t]
      BY <1>1, <2>1, <3>1, RemoveFirstOnce
    <3>3. QED
      BY <2>1, <2>2, <3>1, <3>2 DEF Own, MakingRoom
  <2>4. CASE return[t] # "enforce"
    BY <2>1, <2>2, <2>4, OwnElsewhere
  <2>5. QED
    BY <2>3, <2>4
<1>12. CASE \/ \E found \in BOOLEAN : Look(t, found)
            \/ LookRaises(t) \/ Query(t) \/ QueryFails(t) \/ QueryEmpty(t) \/ EndGet(t)
  <2>1. at'[t] \in {"getResolve", "query", "idle", "found", "missing", "empty"}
    BY <1>1, <1>12
    DEF Look, LookRaises, Query, QueryFails, QueryEmpty, EndGet, Finish, Tell, Proceed, BronzeTypes
  <2>2. QED
    BY <2>1, OwnElsewhere DEF Evictions, Evicting
<1>13. QED
  BY <1>3, <1>4, <1>5, <1>6, <1>7, <1>8, <1>9, <1>10, <1>11, <1>12 DEF BronzeStep

LEMMA OwnStep == StoresInv /\ OwnInv /\ [BronzeNext]_bronzeVars => OwnInv'
<1> SUFFICES ASSUME StoresInv, OwnInv, [BronzeNext]_bronzeVars PROVE OwnInv'
  OBVIOUS
<1>1. BronzeTypes
  BY DEF StoresInv, BronzeInv
<1>2. CASE UNCHANGED bronzeVars
  <2>1. UNCHANGED <<data, meta, ingested, at, id, victim, return, sole>>
    BY <1>2 DEF bronzeVars, stores, memory, callVars, history
  <2>2. QED
    BY <2>1 DEF OwnInv, Own, MakingRoom
<1>3. ASSUME NEW t \in Ingesters, BronzeStep(t) PROVE OwnInv'
  <2>1. UNCHANGED sole /\ at[t] # "idle" /\ \A u \in Ingesters \ {t} : at'[u] = at[u]
    BY <1>1, <1>3
    DEF BronzeStep, Purge, Orphan, Insert, Register, Enforce, EvictFirst, Resolve, Cache, Persist,
        EvictData, EvictMeta, EvictStamp, EvictCached, EvictOrder, Look, LookRaises, Query, QueryFails,
        QueryEmpty, EndGet, CallEvict, Finish, Tell, Proceed, history, BronzeTypes
  <2>2. \A u \in Ingesters : sole[u] => u = t
    BY <2>1 DEF OwnInv
  <2>3. sole[t] => Own(t)'
    BY <1>3, OwnMoves DEF OwnInv
  <2>4. QED
    BY <2>1, <2>2, <2>3 DEF OwnInv
<1>4. ASSUME NEW t \in Ingesters, NEW i \in Ids, StartIngest(t, i) \/ StartGet(t, i) PROVE OwnInv'
  <2>1. PICK l \in {"purge", "look"} : Begin(t, i, l)
    BY <1>4 DEF StartIngest, StartGet
  <2>2. /\ at'[t] = l /\ \A u \in Ingesters \ {t} : at'[u] = at[u]
        /\ sole' = [u \in Ingesters |-> u = t /\ \A o \in Ingesters \ {t} : at[o] = "idle"]
    BY <1>1, <2>1 DEF Begin, Proceed, BronzeTypes
  <2>3. Own(t)'
    BY <2>2, OwnElsewhere DEF Evictions, Evicting
  <2>4. QED
    BY <2>2, <2>3 DEF OwnInv
<1>5. CASE Restart
  BY <1>5 DEF Restart, OwnInv
<1>6. QED
  BY <1>2, <1>3, <1>4, <1>5 DEF BronzeNext

\* The record an ingest reports is in memory when it returns, if nothing else ran
\* meanwhile: for any capacity, and whatever the calls before have left in the order.
THEOREM OwnRecordKept == BronzeSpec => []OwnRecordSurvives
<1>1. BronzeInit => OwnInv
  BY DEF BronzeInit, OwnInv
<1>2. StoresInv /\ OwnInv /\ [BronzeNext]_bronzeVars => OwnInv'
  BY OwnStep
<1>3. StoresInv /\ OwnInv => OwnRecordSurvives
  <2> SUFFICES ASSUME StoresInv, OwnInv, NEW t \in Ingesters, at[t] \in {"resolve", "cache"}, sole[t]
               PROVE  id[t] \in data \cap meta /\ Contains(ingested, id[t])
    BY DEF OwnRecordSurvives
  <2>1. id[t] \in data \cap meta /\ ingested # <<>> /\ ingested[Len(ingested)] = id[t]
    BY DEF OwnInv, Own, Last
  <2>2. ingested \in Seq(Ids) /\ Len(ingested) \in 1..Len(ingested)
    BY <2>1 DEF StoresInv, OrderInv
  <2>3. QED
    BY <2>1, <2>2 DEF Contains
<1>4. QED
  BY <1>1, <1>2, <1>3, StoresInvariant, PTL DEF BronzeSpec
=============================================================================
