# A verification project for importobot

importobot converts test cases exported from Zephyr, TestRail, Xray and TestLink
(JSON) into Robot Framework suites. Around that conversion sits a small data
platform: clients that fetch from the test managers' APIs, an ingestion service,
a "medallion" store with a bronze layer and a local file backend, format
detection, and caches. Converting one text is sequential processing. What can
go wrong without a test noticing is in the parts that keep state between calls or
share it: files that several processes use without transactions, retry loops with a
circuit breaker, pagination against servers that do as they like, locks that are
released between a check and its use, caches whose structures have to agree, lists
that are changed while positions taken from them are still in use.

This project models those parts in TLA+, checks them with TLC on small instances,
and proves the most important properties for all instances with TLAPS. Paths below
are relative to `src/src/importobot/`.

- [Running it](#running-it)
- [Inventory](#inventory-of-the-system)
- [Modules](#modules)
- [Runs](#runs-what-they-check-and-show)
- [Proofs](#proofs)
- [Disagreements between the code and its documentation](#disagreements-between-the-code-and-its-documentation)
- [Abstractions](#abstractions-in-one-place)
- [Not modelled](#not-modelled)

## Running it

    tlc -workers 2 -config file_access.cfg FileAccess          # likewise the other cfgs
    tlapm StorageProofs.tla                                    # likewise the other ...Proofs modules

`PROJECT.json` lists the runs with their modules and expected outcome, the mutants that
show each property can fail, the source lines every definition stands for, the hazards,
and the theorems.

## Inventory of the system

For each part: its state, its operations, what is hard about it, and what makes it
correct.

### Local record store: `medallion/storage/local.py`

*State*: on disk, per layer, `data/<id>.json`, `metadata/<id>.json` and
`locks/<id>.lock`; in memory, per backend object, `_metadata_cache`: for each layer
the metadata directory's mtime and the listing (file, mtime) it was taken with.

*Operations*: `store_data` (under a per-record file lock: write data, write
metadata, update the listing cache), `retrieve_data`, `delete_data`,
`cleanup_old_data` (all without the lock), `query_data` (through the listing),
`list_data_ids`, `get_storage_info`, `backup_layer`, `restore_layer`.

*Interaction*: the bronze layer and the ingestion service call it, from the threads
of `ingest_batch` as well; several processes may share a base path.

*Hard*: every access is a system call of its own, files are rewritten in place, a
process can die between any two steps, the lock is a file that is itself unlinked,
the listing cache is keyed by a directory mtime that other processes change, and a
restore moves directories that a constructor makes anew.

*Correct when*: stores of a record exclude each other; a store or delete that
overlapped no other leaves both files of one version; a retrieval never combines two
versions; a cleanup deletes what it judged; nobody waits for ever; a query misses no
record that was there all along; what a restore replaces stays on disk until the backup
is in its place. **Modelled**: `FileLock`, `RecordStore`, `LayerListing`, `LayerRestore`.

### API clients: `integrations/clients/`

*State* (`base.py`): `_circuit_failure_count`, `_circuit_last_failure_time`,
`_circuit_open`; 3 retries, threshold 5, half-open timeout 60 s. Per `fetch_all`: the
offset or cursor and the known total. Zephyr: the discovered pattern, authentication
and page size.

*Operations*: `_request` (rate limiter, breaker check, retry loop, 429 handling, HTTP
errors with an optional error handler, exceptions), `fetch_all` of Jira/Xray (by count),
TestRail and TestLink (by next link or cursor), Zephyr (directly or by keys and details,
past `_request`).

*Hard*: the breaker is consulted before a request, counted inside the retry loop and
once more after it, and half-open is not a state but the cleared flag; errors turned
into empty payloads or swallowed look like last pages; servers cap page sizes and may
report no total, or a page's count for one.

*Correct when*: nothing is sent while the circuit is open; an open circuit can become
half-open; a probe settles the circuit; a fetch that returns has every item; every
fetch ends. **Modelled**: `ApiClient`, `ApiFetch`, `ZephyrFetch`.

### Rate limiters: `utils/rate_limiter.py`, `services/security_gateway.py`

*State*: a deque of the times of granted permits and a lock each. *Operations*: `acquire`
(check under the lock, sleep outside it, append under the lock again), `reset`;
`try_acquire` (clock read before the lock, a deque with a maximum of its own, backoff).
*Hard*: the check is stale after the sleep, the reading is stale under the lock. *Correct
when*: no more permits than the budget in any window; no permit is forgotten; every caller
gets in; an admission or refusal is right but for the delay of the reading.
**Modelled**: `RateLimiter`, `SecurityRateLimiter`.

### Caches: `caching/lru_cache.py`, `services/data_ingestion_service.py`, `medallion/bronze/detection_cache.py`

*State*: the LRU cache's ordered entries, collision chains by hash, byte count, heap of
expiry times with a mapping from hash to key; the file content cache's ordered dictionary
with a byte count; the detection cache's results and stamps. *Operations*: get, set,
delete, clear, cleanup, eviction; `get_cached_content`, `cache_content`; lookup and storing
of results. *Hard*: structures that must agree after every operation, lazy deletion in the
heap; counting and storing are separate steps; a file is read before its mtime is asked for;
threads use them without a lock. *Correct when*: bounds hold, the byte count is the sum of
the entries, what expired goes, a cached file is the file, a result has its stamp.
**Modelled**: `LRUCache`, `FileContentCache`, `FormatDetection`.

### Bronze layer: `medallion/bronze_layer.py`

*State*: `_data_store`, `_metadata_store`, `_lineage_store`, `_in_memory_timestamps`,
`_ingestion_order`, `_record_cache`, and the backend. *Operations*: `ingest` (expire, replace,
store, register, make room, cache the record, persist), `get_bronze_records` with a
fall-back to the backend; `ingest_batch` of the ingestion service calls it on a pool of four
threads. *Hard*: the structures change one after the other without a lock; a failed store is
ignored; the process may die between memory and disk. *Correct when*: the stores hold the same
identifiers, capacity is respected, nothing evicted stays cached, a stored record is found by
whoever asks for it, every call returns. **Modelled**: `BronzeLayer`, with the abstract
specification `RecordCatalog`.

### Format detection: `medallion/bronze/format_detector.py`

*State*: the results (above) and a circuit breaker with its own lock. *Operations*:
`detect_format`. *Hard*: four ways to clear the breaker, overlapping detections. *Correct
when*: the circuit is closed exactly while too few failures came in a row; nothing is raised.
**Modelled**: `FormatDetection`. The scoring is a floating-point function of one document.

### Process-wide holders: `utils/resource_manager.py`, `telemetry.py`, `context.py`

*State*: active operations and their start times; the telemetry client behind a lock; contexts
by thread with a registry. *Hard*: test and use without a lock, operations finished twice,
threads that die, share or replace their context. *Correct when*: every slot comes back;
everybody has the same client; the registry has the live threads' contexts and only those.
**Modelled**: `ResourceManager`, `ApplicationContext`.

### Blueprint templates: `core/templates/blueprints/registry.py`

*State*: per process the registry of templates, the knowledge base, keyword library, resource
imports and suite settings; on disk a cache of analyses shared by all processes. *Operations*:
`configure_template_sources` (clear, then file by file: check, load from the cache or read and
learn, store in the cache, register), the getters. *Hard*: a refusal leaves its directory
early; the cache is trusted by mtime and size and written through one temporary name. *Correct
when*: a configuration is a function of the files. **Modelled**: `BlueprintRegistry`.

### Conversion engine: `core/engine.py`, `core/keyword_generator.py`, `core/multi_command_parser.py`, `core/pattern_matcher.py`, `core/keywords/generators/`

*State*: the keyword generator's library context; the cache of intents, which belongs to the
class and so to every engine of the process. *Operations*: `convert`: templates first, else find
the libraries of the document, generate a test case per test and one or several keywords per
step (by intent, by suggestion where a step is ambiguous, or by structured test data), find the
libraries again in what was generated. *Hard*: libraries and intents come out of overlapping
tables of regular expressions; a keyword's library is chosen before the imports are known, and
conflicts between web and mobile libraries are resolved twice, from different texts; a document
that is refused in the middle leaves the context behind. *Correct when*: a document always comes
to the same suite; a library chosen from the context is imported. **Modelled**:
`IntentPatterns`, `StepConversion`; wording and arguments of keywords are abstracted.

### Parsers and context analysis: `core/parsers.py`, `core/schema_parser.py`, `core/context_analyzer.py` and the like

Functions of one document that find tests, steps and fields, or comment on them. Not modelled.

### Command line and conversion of files: `__main__.py`, `cli/handlers.py`, `core/converter.py`, `utils/file_operations.py`

*State*: the files. *Operations*: convert one, several, matching or all files of a directory;
apply suggestions, save, back up, convert; fetch and save, and go on with any of these: with
the payload as the input, or with the files that `--files` or `--directory` name. *Hard*:
several outputs, of which any may fail; outputs of equal names; a command that dies. *Correct
when*: the exit status tells what the outputs are. **Modelled**: `CommandLine`, where a
conversion is one function of the content.

### Suggestions: `core/suggestions/`

*State*: a deep copy of the test file and the list of changes. *Operations*: `apply_suggestions`,
which runs six improvers over every test case, each on what the ones before it have left.
*Hard*: steps are inserted into lists whose positions are in use, found again by equality, and
the result is given to the engine again; the wording of a keyword comes last, adds a parameter
when parameters have been collected, and is written over a command in `test_data`. *Correct
when*: a script keeps the commands that no wording replaces, a comparison stands behind the steps
it compares and is made once, every change is reported.
**Modelled**: `SuggestionEngine`.

### Test generation: `utils/test_generation/`

*State*: the write queue of a generator; the files. *Operations*: `generate_test_suite`: share
tests out over categories, make and number them, write them in batches. *Hard*: rounding; what
a suite that raised leaves in the queue. *Correct when*: the suite has as many tests as its
counts say, each with a number and a file of its own. **Modelled**: `TestGeneration`.


## Modules

    FileLock ─── RecordStore ─── MCRecordStore ───────┐
    FileContentCache ─── MCFileContentCache ──────────┴─ FileAccess

    ApiClient ─── ApiFetch ─── MCApiFetch ────────────┐
    RateLimiter ─── MCRateLimiter ────────────────────┼─ CallsThatEnd
    RecordCatalog <·· BronzeLayer ────────────────────┘

    LayerListing ─── MCLayerListing ──────────────────┐
    ApplicationContext ───────────────────────────────┼─ SharedState
    BlueprintRegistry ─── MCBlueprintRegistry ────────┘

    SecurityRateLimiter, LayerRestore, LRUCache, ─────┐
    FormatDetection, ResourceManager, ZephyrFetch     │
    CommandLine ─── MCCommandLine ────────────────────┼─ ProcessServices
    TestGeneration ─── MCTestGeneration ──────────────┤
    SuggestionEngine ─── MCSuggestionEngine ──────────┤
    IntentPatterns ─── StepConversion ─── MCStepConversion ┘

Lines are EXTENDS, the dotted arrow is a refinement (INSTANCE ... WITH).

**FileLock** is the context manager `_exclusive_file_lock` (local.py:38-65) on Unix.
`stage[p]` is where a caller stands in it, `fd[p]` the inode it has open, `lockPath`
the inode the lock path names, `owner` the flock of each inode. Opening, the flock,
the release, the unlink, an exception in the body and the death of the process are
one action each. Keeping path and inode apart is the point: the file is unlinked after
the release, so a waiter can hold an inode nobody else will ever open. `renewed` is a
history variable: some lock file was created while an unlinked one was open.

**RecordStore** extends FileLock: the two files of one record, and the four operations
that processes run on it, one file access per step. `Partial` stands for whatever
`json.load` refuses. Writing in place is modelled as `open("w")` truncating and a later
step writing; when another writer wrote in between, the outcome is either text or a
mixture, and a file that was unlinked after it was opened receives the text where nobody
sees it (`linked`). `committed`, `spoiled` and `sole` are history variables: what the
last undisturbed mutation left, whether mutations overlapped or stopped midway since, and
whether an operation in progress has been disturbed. A process's death ends its
operation, and the next operation under its name is a restarted process.

**LayerListing** models `query_data` and the listing cache over several records. A
record is reduced to its metadata file's mtime, whether that file is valid, and whether
the data is missing, torn or whole. The steps follow the cache's code: read the cached
listing and the directory's mtime, edit, re-key (`ReadCache`, `Rekey`, `ReadForget`,
`Forget`), and for a query: read the mtime, look the listing up, scandir, stat each
file, keep the listing, process the entries newest first.

**LayerRestore** models backup and restore on directories: a directory is the version of
each record in it, and possibly a whole directory that `shutil.move` put inside it. A copy
may fail after any part of it, and so may a move, where `shutil.move` copies what it cannot
rename (`PartlyMoved`); the constructor of the next process, or of another one, makes the
layer's directory anew.

**ApiClient** is `BaseAPIClient._request` with the breaker. An attempt's answers are
success, 429, another HTTP error (suppressed by the error handler or not), an exception,
and an exception whose text mentions a circuit breaker, which base.py:315 takes for its
own. **ApiFetch** composes it with the pagination loops; the server has a fixed number of
items, a page cap of its own and may or may not report a total; all three are chosen in
`Init`. **ZephyrFetch** is Zephyr's `fetch_all`: patterns and authentications are tried in
turn, page sizes too, then pages are read directly, or keys and the details of each batch.

**RateLimiter** is `acquire` and `reset` with time in ticks relative to now.
**SecurityRateLimiter** is one bucket of the gateway's limiter; `reading` is the age of what
a caller has read from the clock before it got the lock.

**FileContentCache** is the cache of the ingestion service together with
`_read_file_content`, its only user: look an entry up, compare its mtime with the file's,
touch or evict it, else open and read the file, ask for its mtime, make room, insert,
count. Dictionary and byte count change in different steps (`Pop` and `Settle`, `Charge`
and `Insert` and `Add`). A content is the version that made it and an mtime identifies a
version; `SizeOf` gives a version's size. `raced`, `contended` and `overlapped` are history
variables, explained with the properties they occur in.

**LRUCache** is one thread's view of the LRU cache, each public method a step with all the
methods it calls; the structures are the fields of one record, and the methods operators from
such a record to the next.

**BronzeLayer**: `_evict_record` is five steps, one per structure (`EvictData` to `EvictOrder`),
with a return label, as it is called for expiry, for replacement and for capacity. `Purge` and
`Orphan` are the iterations of `_purge_expired_records`; whether a record has expired is free.
`Enforce` and `EvictFirst` are the test and the body of the capacity loop, between which
another thread may empty the order (IndexError). A record is built in `Resolve` and cached in
`Cache`, by an ingest or by a query. `Persist` stores it, which may fail or die midway;
`Restart` is a new process with what was persisted. `crossed`, `outrun`, `sole`, `sure` and
`there` are history variables.

**RecordCatalog** is the abstract specification BronzeLayer implements: records that are
absent, volatile or durable, and requests answered by them. Nothing in it speaks of stores,
orders, capacities or files. The refinement mapping (`Layer` in BronzeLayer) takes a record
for durable while the backend has it, for volatile while only `_data_store` has it, and a
request for open from the lookup in memory to the answer.

**FormatDetection** is `detect_format` on threads, one operation on a dictionary or on the
breaker a step. **ResourceManager** and **ApplicationContext** are on threads as well; in the
latter threads also end, and their `threading.local` goes with them.

**BlueprintRegistry** has a program per process, which configures file by file, over template
files that are edited and cache files that are shared. What is learnt from a content is one
`Fact`, so that `learned` is the sequence of facts the registries are built from.

**CommandLine** runs commands one after another. A command is a `Job`: where it stands, the files
it still has to convert, its output, and what it does after a fetch. `Conversions` are the jobs
of the command line, and `Fetch` sends any of them through the server first; `own` is the file
the present command has written in order to convert it, `made` what each output was made from.
**TestGeneration** makes suites with one generator. **SuggestionEngine** applies the engine to
a file, and again to its results: `ImproveTest` composes `Named`, `WithSteps`,
`WithParameters`, `WithComparisons` and `Reworded`, the improvers in their order. `Reworded` writes
test data (`Converted`, `Asserted`, `Logged`) after `WithParameters` has collected what is used.

**IntentPatterns** has the tables of `PatternMatcher` and `LibraryDetector`: a text is a sequence
of words and an expression a sequence of sets of words (`Matches`); `IntentOf` is `detect_intent`,
`LibrariesIn` the detection of libraries with the scored choice between SeleniumLibrary and
AppiumLibrary. **StepConversion** is the engine that uses them. A step has the words of its
description, the names and the other words of its test data, and the words of its expected
result; a keyword is the libraries that have it and the words of its line that a detection may
see. `Convert` starts a document (template, no tests, or a suite) and sets the library context;
`GenerateMultiple`, `GenerateCredentials` and `GenerateSingle` make the keywords of the next step;
`Abandon` is the refusal of an SQL statement, which ends the conversion; `Finish` finds the
imports. `Remember` is the cache of intents with its limit and its clearing.

The imports of this model were compared with the program's on several hundred generated
documents, without a difference; what the tables say is the program's text, shortened where
one expression contains another.

In the modules with threads a step runs between two points where CPython with its global lock
(3.10 and later) may switch threads: calls, function entries and backward jumps.

Two more refinements are between layers of the same code: RecordStore's operations implement
`FileLock`'s specification `LockSpec`, and ApiFetch implements `ApiClient`'s specification
`ApiSpec`. All three refinements are proved (below), so what is shown of the lock or the client alone holds of
everything built on it.

**FileAccess**, **CallsThatEnd**, **SharedState** and **ProcessServices** put components side
by side that share no state: one variable, set in the initial state, names the component that
runs, and the others keep one initial state for ever. Every behaviour of a component is a
behaviour of the sum with the others at rest, and no other behaviours exist; so a property
that speaks of one component's variables holds of the sum exactly if it holds of the
component, fairness included, which is stated under the same variable. It is not a claim
about components that interact. The components are grouped by what is asked of them.

Operators headed "Mutant of" are not part of any specification. Each is the operator
below it with one plausible mistake, and `PROJECT.json` says which property the mistake
must break. The type invariants (`TypeOK`, `...TypeOK`) are not among the properties of the
runs; those of the record store and of the fetch are proved, the other proof modules state and
prove the types they need, and all were checked by TLC while the modules were written.

## Runs: what they check and show

| run | components | result | states, time |
|---|---|---|---|
| `file_access` | record store, file content cache | passes | 0.4 million, 130 s |
| `calls_that_end` | fetch and client, rate limiter, bronze layer | passes | 0.3 million, 130 s |
| `shared_state` | listing, contexts, blueprints | passes | 2.1 million up to symmetry, 115 s |
| `process_services` | the ten of ProcessServices | passes | 0.87 million, 130 s |
| `lock_exclusion` | record store | violated, as expected | |
| `listing_current`, `scan_fallback` | listing | violated, as expected | |
| `breaker_threshold` | fetch and client | violated, as expected | |
| `rate_budget` | rate limiter, for sleepers only (`SleepersSpec`) | violated, as expected | |
| `blueprint_settings` | blueprints | violated, as expected | |
| `requested_total` | test generation | violated, as expected | |
| `comparison_commands` | suggestions | violated, as expected | |

**Record store** (2 processes, 3 inodes, 3 operations). `StoresSerialisedUntilRenewed`: two
stores write together only after a lock file was created beside an unlinked one in use.
`RecordIntact`: a store or delete that overlapped no other leaves both files at its own version,
even after earlier ones failed, died or collided, so a record heals with the next undisturbed
store. `RetrieveReturnsCommitted`: a retrieval that overlapped nothing, on a record that is
intact, returns both halves of the last store, and None only for an absent record.
`CleanupRemovesWhatItJudged`: an undisturbed cleanup deletes the data of the version it
judged. `OperationsEnd`: no store that failed, process that died or lock file left
behind blocks anybody. The conditions in these properties are what the code needs its
callers to respect, since only stores take the lock: the hypotheses say exactly how far
the code is safe. Two processes are enough for every pairwise overlap, and the
third operation is the one that shows what an earlier overlap or crash left behind. The
lock's failure needs two processes and three stores. Three inodes are one more than two
processes and the path can occupy, so a new lock file can always be created. The proofs
remove these bounds for all the safety properties.

**File content cache** (2 threads, 2 files, 2 bytes, 4 versions of 1 to 3 bytes, 3 reads).
`HitIsFresh`: a hit returns a content the file had during the read, as long as no file was
changed between a read that filled the cache and the stat that dated it (`raced`).
`BudgetIsKept`: between reads the count is the sum of the entries, however expiry, eviction
and reads of other files interleave, until two threads have read one file at the same time
(`contended`); and the cache is within its budget, except after two overlapping insertions, and
then the next insertion alone restores it. `ReadEnds`: the loop
that makes room ends. Each condition is needed: without any of them TLC finds a counterexample
within the same bounds. The sizes make a version that fills the cache alone, two that fit
together, and one that never fits; a third read is the one that suffers from what two did.

**Fetch and client** (3 retries and threshold 5 as in the code, up to 3 items, 3 fetches).
`NoAttemptWhileOpen`: the loop stops in the middle when its own failure opens the circuit.
`OpenIsJustified`: an open circuit has counted its threshold and knows when, so that half-open
can come. `ProbeSettlesBreaker`: between requests a full count goes with an open circuit,
except after an exception that was mistaken for the breaker's own. `FetchIsComplete`: a
`fetch_all` that returns has delivered every item, unless an error was suppressed. `FetchEnds`:
it returns or raises, unless an attempt is never answered: the loops themselves stop. Three
items and page caps from 1 to 3 give zero, one and several pages, full and short last pages,
and a total that is or is not a multiple of the cap. Three fetches let the breaker open,
reject, and be probed.

**Rate limiter** (2 threads, 2 permits, window of 3 ticks, 6 timestamps).
`InBudgetUntilContended`: the budget holds until somebody enters `acquire` while another caller
sleeps, or in the very tick in which the oldest permit is one window old. `NothingForgotten`:
the permits that still count are the end of the deque, in order, and what stands before them is
older than the window, although sleepers append out of turn: pruning from the left is enough. `AcquireEnds`: every caller gets its permit: not
checking the budget again is what buys this, as the mutant shows. The smallest budget that is
not one; a window long enough that permits of different ages coexist.

**Bronze layer** (2 threads, 2 records, capacity 1, expiry on, 3 calls). `StoresAgree`: between
calls data, metadata, timestamps and order hold the same records, each once, for all
interleavings but two kinds (`crossed`): a record ingested again while another thread evicts it,
and an expiry that finds the oldest record without a timestamp and drops whatever is oldest by
then. Either parts the stores for good. `CapacityIsKept`: even then the order stays within its
capacity between calls. `RecordCacheFollows`: no evicted record stays in the record cache,
unless it was evicted while it was being cached (`outrun`). `OwnRecordSurvives`: an ingest that
runs alone has its record in memory when it returns, whatever state earlier calls left behind.
`CallEnds`: every call returns or raises. `ImplementsCatalog`: memory, capacity, expiry and
backend together lose a stored record only when storing it again fails or dies, and a query
finds a record that was stored throughout, unless the backend cannot be read. Capacity 1 with
two records makes every second ingest evict; three calls are two overlapping ones on top of
what another left.

**Listing** (2 processes with a backend each, 2 records, 3 file changes, 2 queries).
`ReadsOwnRecords`: a query that runs to its end returns every complete record its own caller was
the last to store, whatever other processes do, unless the backend has kept a listing that a
deletion cut short. `ReaderSeesEverything`: a backend that never stored or deleted misses
nothing that was on disk throughout the query. "Complete throughout" is the history variable
`must`: a deletion or rewrite during the query removes the record from it. Three file changes
give each scenario of the two disagreements below room (a store before a listing, a foreign
change after it, a re-keying change); two queries give one that takes the listing and one that
uses it. With four file changes about 11 million states were explored without a violation
before that exploration was stopped; it was not exhausted.

**Contexts** (2 threads, 2 contexts). `ClientIsShared`: whoever asked while nobody reset got a
client, and all who asked the holder the same, however many first calls met. `RegistryFollows`:
the registry has the context of every live thread that is not in the middle of changing it, and
nothing of threads that have cleared theirs. Two threads race for one client and share a
context; a third adds no new pair.

**Blueprints** (2 programs, a directory of a template and a helper, the template again under
two names, a resource, a limit of 3 files, 1 edit, 2 configurations). `ConfigurationRepeats`: a
configuration during which nothing was edited comes to the same registries as any other of the
same files, whatever is in the disk cache, whoever writes it at the same time or died over it,
and registers no template that was refused. The edits reach every kind of refusal; two
configurations are one that fills the cache and one that uses it.

**Security limiter** (2 callers, 2 calls in 3 ticks, queues of 1 and 2, readings up to a tick
old). `SecurityVerdicts`: an admission is right for an interval shortened, a refusal for one
lengthened, by the longest delay between reading and lock, if the queue can hold the maximum.

**Backup and restore** (2 records, 2 versions, 2 restores). `OriginalSurvives`: what a restore
replaces is on disk until the backup stands in its place, wherever the restore fails or dies.
`RestoreReturnsSnapshot`: a restore brings back what the last backup saved, and only that if
the backup went into an empty place. The second restore is the one that clears what the first
left behind.

**LRU cache** (3 keys, 2 hashes, 2 entries, 2 bytes, values of up to 3, ttl of 2 ticks). `LRUAgrees`: chains, mapping,
order and bytes agree after every call, and a cleanup removes what has expired, but for entries
whose hash an earlier entry took along. Two keys collide, a third does not, and
every limit is reached by two of three.

**Detection** (2 threads, 2 documents, 1 result, circuit of 2 failures). `ResultsAgree`: results
and stamps agree but for entries taken away under another thread; only such a call raises.
`CircuitFollowsFailures`: the circuit is closed exactly while fewer failures than the threshold
came in a row. One result makes every second detection evict.

**Resource manager** (3 workers, 2 operations, 3 starts). `SlotsReturn`: all slots have come back
when nobody works, although a timed-out operation is finished twice, unless "with manager" blocks
overlapped; until then the slots in use are those of the operations.

**Zephyr** (3 items, page sizes 1 and 2, any page cap and total, 2 strategies, 2 fetches).
`ZephyrDelivers`: exactly what a fetch that ended without an error has delivered, for direct
reads and for reads by keys, for servers that cap pages and items without keys.

**Command line** (2 files of one stem, 2 commands, 2 edits). `ExitTellsOutputs`: after success
every output holds what was converted for it last, whole, and a payload fetched as the input, or
a file with suggestions, was converted as it stands on disk and nothing else was; after a
failure every output is as it was or made whole, but for the one being written. Files are named
to a command from the user's and the payload; all others are reached through their directory.
That of two inputs with one stem the last one keeps the output, and that a conversion stops at
the `.meta.json` a fetch has left, is what the code does and no violation.

**Test generation** (up to 4 categories, shares of 1 and 4, totals of 1, 2 and 4, batches of 2, 2
suites). `SuiteIsWhole`: a suite that returns has a file and a number for every test counted, and
as many as were asked for unless fewer tests than categories were.

**Suggestions** (all scripts of up to four steps out of five kinds, and of up to three out of
twelve with conversions, messages and assertions, numbered or not, and other layouts; applied up
to three times). `SuggestionsKeepTests`: the result is the test file still, however often it is
improved: steps and commands in their order, comparisons behind what they compare and made once,
under numbers of their own, parameters defined once, and every change reported. Two things it
does not promise, as the code does not keep them: a command under `test_data`, or one that is
the action itself, is overwritten by the wording of a keyword (`Overwritten`;
builtin_analyzer.py:461-469, 574-583), and the parameter `value` that a conversion is given when
its data name no value is undefined until the next application (`UncollectedValue`).

**Conversion** (33 documents: every kind of step in every form it has, web and mobile steps mixed
in either order, steps shared between documents, refusals at the first or second step; 2
documents per engine, each as often as it likes; an intent cache of 2 entries that is cleared at
2). `ConversionRepeats`: a document comes to the same suite whenever it is converted, whatever
was converted or given up before. `ChosenLibraryIsImported`: a verification whose library was
chosen by the context is of a library the suite imports, for documents whose titles do not
speak of mobile apps: titles are only seen by the second detection (engine.py:96), which may
then take SeleniumLibrary away again. One earlier document is all that the context can remember,
and with a cache of 2 every step meets a full, a cleared and an empty one. (With the default
limits, 512 and 1024, pattern_matcher.py:650 never clears the cache: it just stops to grow.)

**Fairness.** Record store: weak fairness of each process's steps: a thread in the
middle of an operation keeps being scheduled and flock returns once the inode is free.
Starting, failing and dying are not fair. Weak fairness suffices although an
inode may be taken again and again, because the number of operations is bounded; the
run therefore shows the absence of deadlock and abandonment, not of starvation under
endless stores, which flock does not promise. Fetch: weak fairness of the client's own steps
(the next page's request, giving up, raising). The server owes nothing: the session's `get` and
`post` are called without a timeout (base.py:404), an attempt may wait for ever, and
`FetchEnds` allows exactly that. Which answer comes is free. Rate limiter: weak fairness of the
clock and of each thread whose sleep is over. Calls of `acquire` are free. File content cache
and bronze layer: weak fairness of each thread's steps inside a call: a thread in the middle of
a call keeps being scheduled, and takes no lock it could wait for. The other components have no
liveness property. Deadlock is not checked (`CHECK_DEADLOCK FALSE`): the instances stop when
their bounded operations are used up.

## Proofs

TLAPS proves the following for every value of the constants, from the named assumptions
on constants only. They say that the values which stand for "none" differ from all others
(`NoProc`, `NoInode`, `Absent`, `Partial`, `Missing`, `Null`, `NoOperation`, `NoId`,
`NoStamp`, `ClosedCircuit`, `None`), that bounds and thresholds are natural numbers, positive
where the code's defaults are, that the threads of ResourceManager and ApplicationContext,
the files of a user and the keys of the LRU cache are finitely many, that there are more
client objects than can be referenced at a time (`ClientsAssumption`), which is what it takes
to make a new one, that no two processes share a backend object (`BackendAssumption`), and
that the files the commands write themselves (improved, payload, meta) have names of their
own (`CommandAssumption`). `BlueprintAssumption` says what template sources are made of.
`GenerationAssumption` says that there are at most four categories, which is what
`CategoryEnum` has, and that a request is a dictionary with positive shares, as the code
checks them; the limit of four is essential (below).

One module holds the theorems of several components: what they are about is named in it, part
by part. **CommonLemmas** has the lemmas that several parts use: sets that gain or lose an
element, removals from sequences whose elements occur once, least and greatest elements, and
sums of sizes (a size is a block of places, so that a sum over a set is a cardinality). Where a
proof wants an induction, it takes the least counterexample instead (`Least`), which is first-order.

### StorageProofs: FileLock and RecordStore

`LockOwnership` (`OwnerHasFileOpen` is invariant): a caller runs the body exactly while it
owns the flock of the file it has open. `LockExclusion`: `ExclusiveUntilRenewed`. Mutual
exclusion itself is not invariant (see below). The inductive invariant adds that, until a lock
file is renewed, every open file is the one at the path. Two bodies would then own the flock of
the same inode.

`RecordImplementsLock`: every step of RecordStore is a step of the lock or leaves it alone, so
the lock's theorems carry over. `StoreInvariant`: the inductive invariant `StoreInv` ties the
program counter to the stage of the lock, and, under the hypothesis that nothing disturbed,
states the content of both files at each step of each operation. From it `RecordTypes`,
`RecordIntactAlways`, `CleanupSafe`, `RetrieveSafe` (an action property) and `StoresSerialised`,
the record store's properties that are not liveness. The strengthening is needed because the
properties speak of the moments when nobody mutates, and say nothing of the middle of an operation.

### StorageProofs: FileContentCache and FormatDetection

`FreshInvariant` relates a content that a thread has read to the mtime it asked for afterwards,
and `HitsAreFresh` (`HitIsFresh`) follows. `BudgetInvariant` counts bytes while evictions and
insertions are under way: an inserted content that is not counted, a popped one that is not
subtracted. From it `CountIsRight` (`BudgetIsKept`).

`CircuitInvariant` and `CircuitAgrees` (`CircuitFollowsFailures`), for any number of threads,
threshold and reset time. `ResultsInvariant` follows a result through `Removes` and the
insertion, and `ResultsKeepAgreeing` (`ResultsAgree`) is what it says when no call is running.

### LayerProofs: LayerRestore and LayerListing

`RestoreInvariant` says where the directory that is being replaced is at each step of
`restore_layer`, and that a backup keeps what it reported as copied; `RestoreKeepsOriginal`
(`OriginalSurvives`) and `RestoreIsFaithful` (`RestoreReturnsSnapshot`) follow, for any set of
records. The strengthening is needed because a failed or interrupted restore leaves directories
for the next call to find.

`ListingInvariant` judges a cached listing by two standards. While its backend has only read, it
is complete for the mtime it is keyed with. Once the backend has edited, it may be stale under a
present key, but has every record its caller was the last to store, unless a deletion cut it
short. The rest says what a process has in hand while it edits, re-keys or scans.
`OwnRecordsAreRead` (`ReadsOwnRecords`) and `ReadersSeeAll` (`ReaderSeesEverything`) follow.

### ApiProofs: ApiClient, ApiFetch, RateLimiter and ZephyrFetch

`BreakerInvariant` for the client alone, over any number of retries and any threshold: types,
`NoAttemptWhileOpen`, `OpenIsJustified`, `ProbeSettlesBreaker`. `FetchImplementsClient` carries
it to `fetch_all`: `FetchesRespectBreaker`, `FetchesJustifyOpen`, `FetchesSettleBreaker`.
`FetchInvariant` adds what a fetch knows (the total when the server reports it; where it stands
in the request), and from it `FetchTypes` and `FetchCompleteness` follow, for any number of
items and any page cap.

`LimiterInvariant`: what was granted within the window, oldest first, is what the deque holds
after some first timestamps that are older (`PermitsRemembered`, which is `NothingForgotten`),
and until a check could have been misled, at most one caller sleeps and the deque is within the
budget less the sleeper's permit, or one beyond it with a head that will have left the window by
the time the sleeper wakes up. From this `BudgetUntilContended` (`InBudgetUntilContended`).

`ZephyrInvariant`: what has been delivered is a function of where the fetch stands, by cases on
what discovery found (read directly, by keys with pages smaller than asked for, by keys with full pages).
`ZephyrFetchDelivers` (`ZephyrDelivers`).

### BronzeLayerProofs

`LayerImplementsCatalog` is the refinement: under the mapping `Layer` the initial states are
initial states of RecordCatalog, and every step of a call, a restart and an eviction is a step
of the catalog or a stutter. It rests on `BronzeInvariant`, as the mapping alone does not say
why a query may answer: `Knows` ties the history of a query to the stores, and `Apart` says
that two threads never ingest one identifier at a time, so that what is being stored is known by
identifier. `CacheFollows` (`RecordCacheFollows`) adds `Caching`, who may still hold a record
that has left the stores, namely a thread that is about to take it from the cache too.
`CapacityHolds` (`CapacityIsKept`) rests on `CapacityInv`: an order that is longer than the
capacity has a thread that will test it. `StoresInvariant` says, identifier by identifier, which
thread accounts for a store that another lacks, and from it `StoresKeepAgreeing`
(`StoresAgree`); `OwnRecordKept` (`OwnRecordSurvives`) rests on it and on `BronzeInvariant`.

### ServiceProofs: LRUCache, ApplicationContext, ResourceManager and SecurityRateLimiter

`LRUInvariant` links the dictionary, the chains and the mapping key by key, and states the byte
count while no value has changed its size. For a key that alone has its hash, and was new to the
heap, it adds that every heap entry of the hash is as old as the key's, so that the cleanup finds it
when it expires. `CacheAgrees` (`LRUAgrees`) follows, for any keys, hashes, bounds and times.
Removals keep the invariant by one lemma (`DeletedGood`) and entries by another (`AddedGood`);
between them `set` has a key in its chain that is not in its dictionary, which the
invariant's second argument allows for.

`ContextInvariant`: what the holder's lock guards, and what a call that no reset overlapped has
seen and finds still. From it `OneClient` (`ClientIsShared`). Beside it an invariant of the
registry alone, from which `RegistryAgrees` (`RegistryFollows`) follows.

`ResourceInvariant` relates the count of slots to the operations that hold one and to those
still to be finished, of which there are never fewer; this is why a count that is taken down
twice comes back to zero in the end. `SlotsAreReturned` (`SlotsReturn`).

`SecurityInvariant` pairs the queue and the history of admissions from their ends: an event is
as old as the reading it was decided by, so older than its admission by the longest delay at
most. Events out of order only stop the popleft loop early; a popped one was outside the
interval of a reading, hence its admission outside the interval less the delay, unless the queue
is shorter than the budget. `VerdictsHold` (`SecurityVerdicts`) counts the admissions by the events
that are left.

### ConversionProofs: StepConversion and CommandLine

`ConversionInvariant`: a running conversion stands on the course of its document, a sequence of
(steps left, lines, keywords) in which each element is a function of the one before and of the
libraries of the document; every ended one came to what the end of its course says. Two courses of a
document agree, so `ConversionIsFunction` (`ConversionRepeats`) holds although the engine keeps
its library context and its intents from one document to the next.

`CommandInvariant`: at most the output being written is unsettled; a command that is to convert
the payload it fetched, or the suggestions it wrote, converts that file alone; and what follows
a fetch has the files it is to work on. `ExitIsTrue` (`ExitTellsOutputs`) follows.

### GenerationProofs: BlueprintRegistry and TestGeneration

`BlueprintInvariant`, for any number of programs, sources, edits and any limit of files. The
template files alone make a path of places (entry, position, counts, what has been learned), in
which each place is a function of the one before (`Path`); a configuration during which nobody
edits stands on it (`OnPath`), and one that has ended came to what the path concludes. Two paths
over the same files agree, and so `ConfigurationIsFunction` (`ConfigurationRepeats`) holds.
Since the path does not mention the cache, the work is in showing that the cache makes
no difference. An inode of a cache file belongs to one template (`DiskRight`), though
its writers share a temporary name and may write into a file that another has renamed already.
What is in it, if it is whole, is a fact that was read after the stat it is filed under
(`blobs[i].stat <= blobs[i].fact.stat`), and of the present content if that stat is the present
one (`Genuine`). A hit is of the stat just taken, hence of the content that a read would find,
whoever wrote the cache file, and whenever.

`GenerationInvariant`, for any requests, totals, sizes of a batch and numbers of suites: every
test that is on disk or still queued has a number below the next one and none has another's,
each category that is done has as many tests as it is said to have, and in the present
one the tests made and the tests left, summed over the scenario types, are its count. A write
that fails breaks this for its suite only (`lost`). What a suite that raised left in the queue
is stale: the next one drops or rewrites it with its first test, and the invariant says that it
is there only while no test had to be made. `SuitesAreWhole` (`SuiteIsWhole`) follows.
That the counts add up rests on `Fair`: a distribution sums to the total and only its first
count may be negative, and only when fewer tests than categories were asked for. The lemmas about
`Scaled`, `Absolute` and `Weighted` prove it with arithmetic on the shares rounded down. It
depends on there being no more than four categories: with five, three tests of the shares
1, 1, 1, 1 and 8 are scaled to 1, 1, 1, 1 and 2, which the adjustment makes 1, 1, 1, 1 and -1, and a
negative count behind positive ones takes the numbering back (`SkipCategory`). Whoever adds a
category should look at `process_absolute_distribution` again.

### Only model-checked

The liveness properties (`OperationsEnd`, `FetchEnds`, `AcquireEnds`, `ReadEnds`, `CallEnds`),
which TLAPS cannot prove. `SuggestionsKeepTests`: the improvers are folds over steps and
commands, and what a fold computes for every input needs an induction over data; and the property
is about the scripts the run enumerates, as there are inputs (a step outside the script that equals an
improved one) for which a comparison is made of a step with itself. `ChosenLibraryIsImported`
is about the words of the given documents and not true of all.


## Disagreements between the code and its documentation

Each has a run of its own whose expected result is a violation.

1. **The lock does not exclude** (`lock_exclusion`, local.py:63). The lock file is unlinked
   after the release. P1 stores; P2 opens the file and waits; P1 releases and unlinks;
   P2 gets the flock of the unlinked inode; P1 or anyone else starts a store, creates a new
   file and locks it. Both write the record.
2. **A stale listing is re-keyed as current** (`listing_current`, local.py:307, 327). A
   store or delete edits the cached listing and stores it under the directory's present
   mtime, without asking whether the listing was current before. A change by another
   process in between is then hidden until the directory changes again.
3. **A scan that meets a deleted file returns a part** (`scan_fallback`, local.py:263). The
   comment says the fall-back is an empty list. The entries collected before the failing
   stat are returned and cached as the whole directory.
4. **The circuit opens early** (`breaker_threshold`, base.py:333). Four HTTP errors in one
   request count five, since giving up counts once more; and a request that met only 429
   counts although 429 is documented not to.
5. **The rate budget is exceeded** (`rate_budget`, rate_limiter.py:44). Threads that sleep
   for the same expiring permit all take it. `SleepersSpec` shows that this alone suffices:
   there sleepers wake up in time, nobody calls `reset`, and nobody enters `acquire` in the tick
   in which the oldest permit is one window old and line 32 lets calls pass unchecked, which is
   the other way to exceed the budget.
6. **Suite settings are not cached** (`blueprint_settings`, registry.py:898). The disk cache
   keeps a template's patterns, keywords and imports; its suite settings are learnt only when
   the template is read from its source. The second invocation goes without.
7. **More tests than asked for** (`requested_total`, distributions.py:64). Every category gets
   at least one test and the excess is taken from the largest, which may become negative and
   is then skipped.
8. **Commands of different groups are compared** (`comparison_commands`,
   comparison_analyzer.py:216). The groups of comparable commands are merged by position
   before they are paired.

Noted, without a run of its own:

- base.py:236 tests `if response:`, and a `requests` response with an error status is false,
  so the server's Retry-After is never honoured for a 429, against base.py:62. Waiting times
  are abstracted.
- A file rewritten between the read and the stat (data_ingestion_service.py:754, 143) is
  cached with its old content under its new mtime and served until it changes again.
- Two concurrent reads of one file make the byte count of the cache drift. Too high by the
  size of a content, it makes `while ... _evict_oldest()` (line 150) run for ever on an empty
  cache. And `move_to_end` (127) raises KeyError when the entry was evicted since its lookup.
- A record that falls out of `_ingestion_order` (bronze_layer.py:275, 290) is never evicted: the
  in-memory stores then exceed the capacity that line 261 says is ensured. With one thread
  this does not happen.
- `get_bronze_records` asks the backend only if memory has no match (482): one match in memory
  hides the persisted ones. `_collect_persisted_records` (561) hands the limit to the backend's
  query before it applies its own filter once more, and identifies records by an identifier it
  computes anew.
- A template that cannot be decoded (registry.py:333, UnicodeDecodeError is no OSError) ends the
  whole configuration, with `enabled` left False. A refused file ends its directory, and what
  its directory had counted before is forgotten (165), so that `enabled` may be False although
  templates are registered.
- Inputs of equal stem overwrite each other's output (converter.py:225), and the `.meta.json` of
  a fetch (handlers.py:364) stands where the next directory conversion finds it and stops at it.
- Parameters in another field than `parameters` raise KeyError as soon as one is missing
  (parameter_analyzer.py:162), which fails the whole file.
- wiki/User-Guide.md:74 promises automatic imports of libraries. "read until" and "write" make
  SSHLibrary keywords and import nothing; "login with key" imports SeleniumLibrary only; a mobile
  test that enters a user name calls `SeleniumLibrary.Input Text` and imports AppiumLibrary
  (web_keywords.py:69, which chooses from the step's own words). Conversely the detection reads
  generated lines and comments: a default path "remote.txt" imports SSHLibrary, the comment
  "Alternative keywords" with a placeholder `value` imports RedisLibrary.
- Structured test data that has no statement, endpoint, file or pair of commands makes no keyword
  at all: the step is dropped (multi_command_parser.py:143). "perform" contains "form" (56).
- An SQL statement without a label is cut after one character (database_keywords.py:21).
- An LRU entry whose hash lost its heap mapping (lru_cache.py:448) is removed by no cleanup;
  `get` still removes it when it is asked for.

## Abstractions, in one place

- Unix only: the msvcrt branch of the lock is not modelled. `LOCK_UN` and the close that
  follows it are one step; nothing between them can fail or be observed, as nobody shares
  the file description.
- A file's content is a version, `Partial` or `Absent`. Reading a file (open, `json.load`)
  is one step, as is the writing of a small document after the truncation.
- `store_data` also stamps and formats metadata; the content is opaque here. Identifiers
  are assumed to map to different file names.
- In LayerListing the clock counts file changes, so no two changes share an mtime; on a
  file system with a coarse mtime more listings pass for current. The metadata file is
  written in one step, data in two. Two stores of one record do not overlap there, as their
  lock has it until it is renewed (`lock_exclusion`). Filters, offset and limit are left out: pure
  functions of the list. Each process has a backend object of its own. `BackendOf` lets
  threads share one, whose unlocked cache then loses entries.
- In ApiClient the lengths of waits, headers and the rate limiter's wait are left out; time
  is "the last failure is recent or past the half-open timeout". A client serves one
  request at a time, as its only users do.
- In ApiFetch and ZephyrFetch the server's items do not change during a fetch, and the link
  style's server gives a next link exactly while items remain.
- In RateLimiter time is in ticks and never set back. The code reads `time.time()`, a wall
  clock, so this is an assumption (the model of the breaker, whose clock is the same, does
  without it: `ClockSetBack`). A thread sleeps at least the ticks asked for and is scheduled
  at any time after.
- In FileContentCache a file's mtime tells every two versions apart, an open and read is one
  step, and `_cache_hits` and the telemetry are left out.
- In BronzeLayer no two threads ingest the same identifier at the same time: it is a hash of
  content, source and time of ingestion. Validation and metrics are left out, since they touch
  none of the stores; storing is one step that succeeds, fails or dies (RecordStore has its
  steps). A query is for one record: the records of one query are resolved independently.
  Metadata and lineage are one store, as no reader tells them apart.
- In LRUCache the tolerance of expiry, at most 15% of the ttl, is less than a tick, and hashes
  collide for keys of equal text, as `str(key)` is what is hashed.
- In ApplicationContext leaving a context (context.py:87, 88: the client of the context, then the
  thread's own) is one step.
- In FormatDetection whether the scoring succeeds is free; the normalisation cache and the
  minimal detection time are left out.
- In BlueprintRegistry the checks of a file before it is read are one step with its stat, and
  every two contents have different stats.
- In CommandLine the conversion is a function of the content and fails on some contents;
  messages are left out. In StepConversion words with endings an expression leaves open are one
  word, and arguments that repeat the step's comments are left out of a line.
- In SuggestionEngine a text is the features the improvers look for, a command has no options,
  and an action stands under "step". Test data are in `testData`, in `test_data`, or absent, with
  the action as the command; an action is worded by at most one of the three keywords.

## Not modelled

- `medallion/silver_layer.py`, `gold_layer.py`: placeholders that raise
  `NotImplementedError` or return empty results.
- `medallion/bronze/` scoring and classifiers: floating-point functions of one document, for
  which a model checker has no question to ask.
- `core/` parsers, `context_analyzer.py`, field and schema tables, rendering: functions of one
  text without state. What the keyword generators write into arguments is left out as well.
- `services/performance_cache.py`, `utils/string_cache.py`: front ends of
  `functools.lru_cache` and of the LRU cache.
- `utils/` validation, secrets and credential handling, `config.py`: checks and formatting of
  single values. `api/`: re-exports. `scripts/`: demonstrations and benchmarks.
- Of modelled parts: LayerListing's filters and paging; threads that share a backend object;
  metadata and results of `ingest_file`; the gateway's sanitisation; the resource manager's
  checks of memory and disk; telemetry's rate limit of events.
