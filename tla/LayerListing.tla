----------------------------- MODULE LayerListing -----------------------------
(***************************************************************************)
(* query_data of LocalStorageBackend over one layer, and the listing of    *)
(* the layer's metadata directory that each backend object keeps           *)
(* (_metadata_cache): the listing is valid while the directory's mtime is  *)
(* the one it was stored with, and store_data and delete_data edit it in   *)
(* place and re-key it with the directory's current mtime.                 *)
(*                                                                         *)
(* Files are shared by everyone; the cache belongs to a backend object, of *)
(* which every process has one.  A clock that ticks on every file change   *)
(* stands for mtimes, so no two changes share an mtime.  A metadata file   *)
(* that is being written is not seen half written.                         *)
(***************************************************************************)
EXTENDS Integers, FiniteSets

CONSTANTS
    Threads,    \* callers of the storage backend
    BackendOf,  \* [Threads -> the backend object each caller uses]
    Ids,        \* data identifiers
    MaxClock,   \* bound: file changes in one behaviour
    MaxQueries, \* bound: queries in one behaviour
    None        \* no listing, no identifier, nobody

Backends == {BackendOf[t] : t \in Threads}
Times == 0..MaxClock
Listings == [Ids -> Times]

ASSUME BoundsAssumption == MaxClock \in Nat /\ MaxQueries \in Nat
ASSUME NoneAssumption == None \notin Threads \cup Ids

\* Callers are processes, each with a backend object of its own.  Threads that share
\* an object overwrite each other's listing, which no property here is about.
ASSUME BackendAssumption == \A t, u \in Threads : BackendOf[t] = BackendOf[u] => t = u

VARIABLES
    meta,      \* [Ids -> mtime of the metadata file, 0 when there is none]
    data,      \* [Ids -> the data file is missing, half written or whole]
    loads,     \* [Ids -> the metadata file, if there is one, is valid]
    dirTime,   \* mtime of the metadata directory
    clock,     \* file changes so far
    cache,     \* [Backends -> cached listing, or None]
    pc,        \* [Threads -> next step of the operation it runs]
    id,        \* [Threads -> identifier it stores or deletes, or None]
    snap,      \* [Threads -> the cached listing it read, or None]
    seenDir,   \* [Threads -> the directory mtime it read]
    rest,      \* [Threads -> listed entries its query has still to process]
    found,     \* [Threads -> identifiers its query has materialised]
    count,     \* [Threads -> matches its query has counted]
    queries,   \* queries started so far
    author,    \* history: [Ids -> who stored the record last, or None]
    edited,    \* history: backends that have stored or deleted
    cut,       \* history: backends that kept a listing cut short by a deletion
    must       \* history: [Threads -> identifiers complete on disk during the
               \*   whole of its query so far; none once its listing was cut short]

files == <<meta, data, loads, dirTime, clock>>
locals == <<id, snap, seenDir>>
query == <<rest, found, count, queries>>
history == <<author, edited, cut, must>>
vars == <<files, cache, pc, locals, query, history>>

DataStates == {"none", "torn", "ok"}
PCs == {"idle", "writeData", "writeMeta", "readCache", "rekey", "unlinkMeta", "unlinkRest",
        "readForget", "forget", "lookup", "scan", "stat", "keep", "process"}

TypeOK ==
    /\ meta \in Listings
    /\ data \in [Ids -> DataStates]
    /\ loads \in [Ids -> BOOLEAN]
    /\ dirTime \in Times
    /\ clock \in Times
    /\ \A b \in Backends : cache[b] # None =>
          cache[b].time \in Times /\ cache[b].entries \in Listings
    /\ pc \in [Threads -> PCs]
    /\ id \in [Threads -> Ids \cup {None}]
    /\ seenDir \in [Threads -> Times]
    /\ rest \in [Threads -> Listings]
    /\ found \in [Threads -> SUBSET Ids]
    /\ count \in [Threads -> 0..Cardinality(Ids)]
    /\ queries \in 0..MaxQueries
    /\ author \in [Ids -> Threads \cup {None}]
    /\ edited \subseteq Backends
    /\ cut \subseteq Backends
    /\ must \in [Threads -> SUBSET Ids]

Empty == [i \in Ids |-> 0]

Init ==
    /\ meta = Empty
    /\ data = [i \in Ids |-> "none"]
    /\ loads = [i \in Ids |-> FALSE]
    /\ dirTime = 0
    /\ clock = 0
    /\ cache = [b \in Backends |-> None]
    /\ pc = [t \in Threads |-> "idle"]
    /\ id = [t \in Threads |-> None]
    /\ snap = [t \in Threads |-> None]
    /\ seenDir = [t \in Threads |-> 0]
    /\ rest = [t \in Threads |-> Empty]
    /\ found = [t \in Threads |-> {}]
    /\ count = [t \in Threads |-> 0]
    /\ queries = 0
    /\ author = [i \in Ids |-> None]
    /\ edited = {}
    /\ cut = {}
    /\ must = [t \in Threads |-> {}]

-----------------------------------------------------------------------------
(* Helpers *)

Goto(t, label) == pc' = [pc EXCEPT ![t] = label]

Listed(entries) == {i \in Ids : entries[i] # 0}

Complete == {i \in Ids : meta[i] # 0 /\ loads[i] /\ data[i] = "ok"}

\* The operation is over: the thread's local variables go out of scope.
Done(t) ==
    /\ Goto(t, "idle")
    /\ id' = [id EXCEPT ![t] = None]
    /\ snap' = [snap EXCEPT ![t] = None]
    /\ seenDir' = [seenDir EXCEPT ![t] = 0]

SetCache(b, listing) == cache' = [cache EXCEPT ![b] = listing]

\* History: the record i stops being complete, for every query in progress.
Disturb(i) == must' = [t \in Threads |-> must[t] \ {i}]

-----------------------------------------------------------------------------
(* store_data, as far as a listing can tell.  RecordStore has its steps. *)

\* The record's lock is held from here to the metadata: one store per record.
StartStore(t, i) ==
    /\ pc[t] = "idle"
    /\ \A u \in Threads : pc[u] \in {"writeData", "writeMeta"} => id[u] # i
    /\ clock < MaxClock
    /\ data' = [data EXCEPT ![i] = "torn"]
    /\ id' = [id EXCEPT ![t] = i]
    /\ Goto(t, "writeData")
    /\ Disturb(i)
    /\ UNCHANGED <<meta, loads, dirTime, clock, cache, snap, seenDir, query, author, edited, cut>>

\* The data is written, to a file that a deletion may have unlinked meanwhile.
WriteData(t) ==
    /\ pc[t] = "writeData"
    /\ data' = [data EXCEPT ![id[t]] = IF @ = "none" THEN "none" ELSE "ok"]
    /\ Goto(t, "writeMeta")
    /\ UNCHANGED <<meta, loads, dirTime, clock, cache, locals, query, history>>

\* The metadata file is written; only a new name changes the directory.
WriteMeta(t, valid) ==
    /\ pc[t] = "writeMeta"
    /\ clock < MaxClock
    /\ clock' = clock + 1
    /\ meta' = [meta EXCEPT ![id[t]] = clock']
    /\ loads' = [loads EXCEPT ![id[t]] = valid]
    /\ dirTime' = IF meta[id[t]] = 0 THEN clock' ELSE dirTime
    /\ UNCHANGED data

StoreWrites(t) ==
    /\ WriteMeta(t, TRUE)
    /\ Goto(t, "readCache")
    /\ author' = [author EXCEPT ![id[t]] = t]
    /\ edited' = edited \cup {BackendOf[t]}
    /\ UNCHANGED <<cache, locals, query, cut, must>>

\* store_data raises before the data or the metadata is whole: it returns
\* False with the half-written file in place and leaves the listing alone.
StoreFails(t) ==
    /\ \/ pc[t] \in {"writeData", "writeMeta"} /\ UNCHANGED <<files, must>>
       \/ WriteMeta(t, FALSE) /\ Disturb(id[t])
    /\ Done(t)
    /\ UNCHANGED <<cache, query, author, edited, cut>>

\* _update_metadata_cache_on_write: the cached listing, then the directory's
\* mtime.  (Reading the cache commutes with everybody's file changes.)
ReadCache(t) ==
    /\ pc[t] = "readCache"
    /\ IF cache[BackendOf[t]] = None
          THEN Done(t)
          ELSE /\ snap' = [snap EXCEPT ![t] = cache[BackendOf[t]]]
               /\ seenDir' = [seenDir EXCEPT ![t] = dirTime]
               /\ Goto(t, "rekey")
               /\ UNCHANGED id
    /\ UNCHANGED <<files, cache, query, history>>

\* Mutant of Rekey: the listing gets the new mtime and not the new entry.
RekeyOnly(t) ==
    /\ pc[t] = "rekey"
    /\ SetCache(BackendOf[t], [time |-> seenDir[t], entries |-> snap[t].entries])
    /\ Done(t)
    /\ UNCHANGED <<files, query, history>>

\* The file's own mtime, then the listing is edited and re-keyed; when the
\* file is gone already, stat raises OSError and the listing is dropped.
Rekey(t) ==
    /\ pc[t] = "rekey"
    /\ SetCache(BackendOf[t],
          IF meta[id[t]] = 0
             THEN None
             ELSE [time    |-> seenDir[t],
                   entries |-> [snap[t].entries EXCEPT ![id[t]] = meta[id[t]]]])
    /\ Done(t)
    /\ UNCHANGED <<files, query, history>>

-----------------------------------------------------------------------------
(* delete_data *)

\* The data file goes first, if it is there; so does one that a failed store has
\* left without metadata.
StartDelete(t, i) ==
    /\ pc[t] = "idle"
    /\ data[i] # "none" \/ meta[i] # 0
    /\ clock < MaxClock
    /\ data' = [data EXCEPT ![i] = "none"]
    /\ id' = [id EXCEPT ![t] = i]
    /\ Goto(t, IF data[i] = "none" THEN "unlinkRest" ELSE "unlinkMeta")
    /\ Disturb(i)
    /\ UNCHANGED <<meta, loads, dirTime, clock, cache, snap, seenDir, query, author, edited, cut>>

\* Then the metadata file.  When neither was there the listing is left alone.
UnlinkMeta(t) ==
    /\ pc[t] \in {"unlinkMeta", "unlinkRest"}
    /\ IF meta[id[t]] = 0
          THEN UNCHANGED <<meta, dirTime, clock>>
          ELSE /\ clock < MaxClock
               /\ clock' = clock + 1
               /\ dirTime' = clock'
               /\ meta' = [meta EXCEPT ![id[t]] = 0]
    /\ IF pc[t] = "unlinkRest" /\ meta[id[t]] = 0
          THEN Done(t) /\ UNCHANGED edited
          ELSE /\ Goto(t, "readForget")
               /\ edited' = edited \cup {BackendOf[t]}
               /\ UNCHANGED locals
    /\ Disturb(id[t])
    /\ UNCHANGED <<data, loads, cache, query, author, cut>>

\* _remove_metadata_cache_entry: without a listing nothing happens, and a
\* listing that would become empty is dropped.
ReadForget(t) ==
    LET cached == cache[BackendOf[t]]
        left == IF cached = None THEN {} ELSE Listed(cached.entries) \ {id[t]}
    IN  /\ pc[t] = "readForget"
        /\ IF left = {}
              THEN /\ SetCache(BackendOf[t], None)
                   /\ Done(t)
              ELSE /\ snap' = [snap EXCEPT ![t] = cached]
                   /\ seenDir' = [seenDir EXCEPT ![t] = dirTime]
                   /\ Goto(t, "forget")
                   /\ UNCHANGED <<cache, id>>
        /\ UNCHANGED <<files, query, history>>

Forget(t) ==
    /\ pc[t] = "forget"
    /\ SetCache(BackendOf[t],
          [time |-> seenDir[t], entries |-> [snap[t].entries EXCEPT ![id[t]] = 0]])
    /\ Done(t)
    /\ UNCHANGED <<files, query, history>>

-----------------------------------------------------------------------------
(* query_data, without filters, offset and limit *)

\* _get_metadata_listing begins by reading the directory's mtime.
StartQuery(t) ==
    /\ pc[t] = "idle"
    /\ queries < MaxQueries
    /\ queries' = queries + 1
    /\ seenDir' = [seenDir EXCEPT ![t] = dirTime]
    /\ found' = [found EXCEPT ![t] = {}]
    /\ count' = [count EXCEPT ![t] = 0]
    /\ must' = [must EXCEPT ![t] = Complete]
    /\ Goto(t, "lookup")
    /\ UNCHANGED <<files, cache, id, snap, rest, author, edited, cut>>

\* Mutant of Lookup: a cached listing is good for ever.
LookupAnyTime(t) ==
    LET cached == cache[BackendOf[t]]
    IN  /\ pc[t] = "lookup"
        /\ IF cached # None
              THEN rest' = [rest EXCEPT ![t] = cached.entries] /\ Goto(t, "process")
              ELSE Goto(t, "scan") /\ UNCHANGED rest
        /\ UNCHANGED <<files, cache, locals, found, count, queries, history>>

Lookup(t) ==
    LET cached == cache[BackendOf[t]]
    IN  /\ pc[t] = "lookup"
        /\ IF cached # None /\ cached.time = seenDir[t]
              THEN rest' = [rest EXCEPT ![t] = cached.entries] /\ Goto(t, "process")
              ELSE Goto(t, "scan") /\ UNCHANGED rest
        /\ UNCHANGED <<files, cache, locals, found, count, queries, history>>

\* _fast_scan_metadata_dir: scandir reads the names ...
Scan(t) ==
    /\ pc[t] = "scan"
    /\ rest' = [rest EXCEPT ![t] = meta]
    /\ Goto(t, "stat")
    /\ UNCHANGED <<files, cache, locals, found, count, queries, history>>

\* ... and each file is asked for its mtime.  At a file that has been deleted
\* meanwhile stat raises OSError, and the entries collected so far are the list.
Stat(t) ==
    LET named == Listed(rest[t])
        gone == {i \in named : meta[i] = 0}
    IN  /\ pc[t] = "stat"
        /\ \E kept \in IF gone = {} THEN {named} ELSE SUBSET (named \ gone) :
               rest' = [rest EXCEPT ![t] = [i \in Ids |-> IF i \in kept THEN meta[i] ELSE 0]]
        /\ IF gone = {}
              THEN UNCHANGED <<cut, must>>
              ELSE /\ cut' = cut \cup {BackendOf[t]}
                   /\ must' = [must EXCEPT ![t] = {}]
        /\ Goto(t, "keep")
        /\ UNCHANGED <<files, cache, locals, found, count, queries, author, edited>>

Keep(t) ==
    /\ pc[t] = "keep"
    /\ SetCache(BackendOf[t], [time |-> seenDir[t], entries |-> rest[t]])
    /\ Goto(t, "process")
    /\ UNCHANGED <<files, locals, query, history>>

\* One listed entry, the most recent first: metadata that does not load is
\* skipped, missing data is counted, and data that does not parse raises
\* through the loop, so that the whole query answers with nothing.
Process(t) ==
    \E i \in Listed(rest[t]) :
        /\ pc[t] = "process"
        /\ \A j \in Listed(rest[t]) : rest[t][j] <= rest[t][i]
        /\ LET valid == meta[i] # 0 /\ loads[i]
           IN  IF valid /\ data[i] = "torn"
                  THEN /\ found' = [found EXCEPT ![t] = {}]
                       /\ count' = [count EXCEPT ![t] = 0]
                       /\ rest' = [rest EXCEPT ![t] = Empty]
                       /\ must' = [must EXCEPT ![t] = {}]
                       /\ Done(t)
                  ELSE /\ rest' = [rest EXCEPT ![t][i] = 0]
                       /\ count' = [count EXCEPT ![t] = IF valid THEN @ + 1 ELSE @]
                       /\ found' = [found EXCEPT ![t] =
                                       IF valid /\ data[i] = "ok" THEN @ \cup {i} ELSE @]
                       /\ UNCHANGED <<pc, locals, must>>
        /\ UNCHANGED <<files, cache, queries, author, edited, cut>>

Answering(t) == pc[t] = "process" /\ Listed(rest[t]) = {}

\* The result is returned, and kept nowhere else.
Answer(t) ==
    /\ Answering(t)
    /\ Done(t)
    /\ found' = [found EXCEPT ![t] = {}]
    /\ count' = [count EXCEPT ![t] = 0]
    /\ must' = [must EXCEPT ![t] = {}]
    /\ UNCHANGED <<files, cache, rest, queries, author, edited, cut>>

-----------------------------------------------------------------------------

Next ==
    \E t \in Threads :
        \/ \E i \in Ids : StartStore(t, i) \/ StartDelete(t, i)
        \/ WriteData(t) \/ StoreWrites(t) \/ StoreFails(t) \/ ReadCache(t) \/ Rekey(t)
        \/ UnlinkMeta(t) \/ ReadForget(t) \/ Forget(t)
        \/ StartQuery(t) \/ Lookup(t) \/ Scan(t) \/ Stat(t) \/ Keep(t)
        \/ Process(t) \/ Answer(t)

Spec == Init /\ [][Next]_vars

-----------------------------------------------------------------------------
(* Properties *)

\* What _get_metadata_listing says of its cache: a listing keyed with the
\* directory's present mtime lists what is in the directory.
CachedListingIsCurrent ==
    \A b \in Backends : cache[b] # None /\ cache[b].time = dirTime =>
        Listed(cache[b].entries) = Listed(meta)

\* What the fallback comment of _fast_scan_metadata_dir says: the list is empty
\* or complete, where complete means every file that is as old as the mtime the
\* directory had when the query began, and therefore there since.
ScanIsAllOrNothing ==
    \A t \in Threads : pc[t] = "keep" /\ Listed(rest[t]) # {} =>
        {i \in Ids : meta[i] \in 1..seenDir[t]} \subseteq Listed(rest[t])

\* A query that runs to its end returns every complete record that its own
\* caller was the last to store, whatever other processes do to the layer, as
\* long as its backend has not kept a listing that a deletion cut short: a
\* later store would re-key that one as current.
ReadsOwnRecords ==
    \A t \in Threads : Answering(t) /\ BackendOf[t] \notin cut =>
        {i \in must[t] : author[i] = t} \subseteq found[t]

\* A backend that has only read never re-keyed its listing, so its queries miss
\* nothing that was on disk throughout, whoever wrote it; a deletion during the
\* scan spoils one query and no later one.
ReaderSeesEverything ==
    \A t \in Threads : Answering(t) /\ BackendOf[t] \notin edited =>
        must[t] \subseteq found[t]
=============================================================================
