--------------------------- MODULE FileContentCache ---------------------------
(***************************************************************************)
(* FileContentCache of services/data_ingestion_service.py and its only     *)
(* user, _read_file_content: the threads of ingest_batch read files        *)
(* through one cache, an OrderedDict with a count of its bytes and no      *)
(* lock, while other programs rewrite and remove the files.                *)
(*                                                                         *)
(* A step runs from one point where the interpreter may switch threads (a  *)
(* call or a loop iteration) to the next.  A content is the version of the *)
(* write that made it, and an mtime tells every two versions apart.        *)
(***************************************************************************)
EXTENDS Integers, Sequences, FiniteSets, SequencesExt

CONSTANTS
    Readers,     \* threads
    Files,
    SizeOf,      \* [version -> size of its content]
    MaxBytes,    \* _max_size_bytes
    FirstDisk,   \* [Files -> version each file has at first]
    MaxVersion,  \* bound: versions of all files; a removal uses one up
    MaxReads,    \* bound: reads
    None         \* no entry, no file

FileVersions == 1..MaxVersion
Entries == [content : FileVersions, mtime : FileVersions]

ASSUME SizeAssumption ==
    /\ MaxBytes \in Nat \ {0}
    /\ MaxVersion \in Nat /\ MaxReads \in Nat
    /\ SizeOf \in [FileVersions -> Nat]
ASSUME FileAssumption ==
    /\ FirstDisk \in [Files -> FileVersions]
    /\ None \notin Int \cup Files \cup Entries

VARIABLES
    disk,       \* [Files -> the version at the path, 0 when it is missing]
    newest,     \* versions so far
    entries,    \* _cache: [Files -> entry, or None]
    order,      \* order of _cache, least recently used first
    bytes,      \* _current_size_bytes
    step,       \* [Readers -> next step of its read]
    file,       \* [Readers -> file it reads, or None]
    entry,      \* [Readers -> the entry it has looked up, or None]
    content,    \* [Readers -> the version it has read from disk, or 0]
    mtime,      \* [Readers -> mtime it is going to store, or 0]
    owed,       \* [Readers -> size of the entry it has popped and not subtracted]
    reads,      \* reads so far
    seen,       \* history: [Readers -> versions of its file during its read]
    raced,      \* history: a file changed after it was read and before its stat
    collided,   \* history: two threads have read one file at the same time
    overlapped  \* history: the last check of the budget missed another insertion

store == <<entries, order, bytes>>
locals == <<file, entry, content, mtime, owed>>
external == <<disk, newest>>
fileHistory == <<seen, raced, collided, overlapped>>
fileVars == <<external, store, step, locals, reads, fileHistory>>

ReadSteps == {"idle", "stat", "touch", "evict", "settle", "open", "statNew", "charge",
        "fit", "settleFit", "insert", "add"}

FileTypeOK ==
    /\ disk \in [Files -> 0..MaxVersion]
    /\ newest \in FileVersions
    /\ entries \in [Files -> Entries \cup {None}]
    /\ IsInjective(order) /\ ToSet(order) = {f \in Files : entries[f] # None}
    /\ bytes \in Int
    /\ step \in [Readers -> ReadSteps]
    /\ file \in [Readers -> Files \cup {None}]
    /\ entry \in [Readers -> Entries \cup {None}]
    /\ content \in [Readers -> 0..MaxVersion]
    /\ mtime \in [Readers -> 0..MaxVersion]
    /\ owed \in [Readers -> Nat]
    /\ reads \in 0..MaxReads
    /\ seen \in [Readers -> SUBSET (0..MaxVersion)]
    /\ raced \in BOOLEAN /\ collided \in BOOLEAN /\ overlapped \in BOOLEAN

FileInit ==
    /\ disk = FirstDisk
    /\ newest = CHOOSE v \in FileVersions : \A f \in Files : FirstDisk[f] <= v
    /\ entries = [f \in Files |-> None]
    /\ order = <<>>
    /\ bytes = 0
    /\ step = [t \in Readers |-> "idle"]
    /\ file = [t \in Readers |-> None]
    /\ entry = [t \in Readers |-> None]
    /\ content = [t \in Readers |-> 0]
    /\ mtime = [t \in Readers |-> 0]
    /\ owed = [t \in Readers |-> 0]
    /\ reads = 0
    /\ seen = [t \in Readers |-> {}]
    /\ raced = FALSE
    /\ collided = FALSE
    /\ overlapped = FALSE

-----------------------------------------------------------------------------
(* Helpers *)

Proceed(t, label) == step' = [step EXCEPT ![t] = label]

EntrySize(e) == IF e = None THEN 0 ELSE SizeOf[e.content]

\* _read_file_content returns or raises.
FinishRead(t) ==
    /\ Proceed(t, "idle")
    /\ file' = [file EXCEPT ![t] = None]
    /\ entry' = [entry EXCEPT ![t] = None]
    /\ content' = [content EXCEPT ![t] = 0]
    /\ mtime' = [mtime EXCEPT ![t] = 0]
    /\ seen' = [seen EXCEPT ![t] = {}]
    /\ UNCHANGED <<owed, raced, collided, overlapped>>

\* An entry leaves the OrderedDict; its size is subtracted in the next step.
Pop(t, f) ==
    /\ entries' = [entries EXCEPT ![f] = None]
    /\ order' = RemoveFirst(order, f)
    /\ owed' = [owed EXCEPT ![t] = EntrySize(entries[f])]
    /\ UNCHANGED bytes

-----------------------------------------------------------------------------
(* get_cached_content *)

\* The entry is looked up; with a ttl it may have expired.
StartRead(t, f, expired) ==
    /\ step[t] = "idle"
    /\ reads < MaxReads
    /\ reads' = reads + 1
    /\ file' = [file EXCEPT ![t] = f]
    /\ entry' = [entry EXCEPT ![t] = entries[f]]
    /\ IF entries[f] = None
          THEN ~expired /\ Proceed(t, "open")
          ELSE Proceed(t, IF expired THEN "evict" ELSE "stat")
    /\ seen' = [seen EXCEPT ![t] = {disk[f]}]
    /\ collided' = (collided \/ \E u \in Readers : file[u] = f)
    /\ UNCHANGED <<external, store, content, mtime, owed, raced, overlapped>>

\* Mutant of Stat: a file that exists counts as unchanged.
StatExists(t) ==
    /\ step[t] = "stat"
    /\ Proceed(t, IF disk[file[t]] # 0 THEN "touch" ELSE "evict")
    /\ UNCHANGED <<external, store, locals, reads, fileHistory>>

\* The file's mtime, against the entry's; OSError when the file is missing.
Stat(t) ==
    /\ step[t] = "stat"
    /\ Proceed(t, IF disk[file[t]] = entry[t].mtime THEN "touch" ELSE "evict")
    /\ UNCHANGED <<external, store, locals, reads, fileHistory>>

\* A hit: move_to_end, which raises KeyError when the key is gone by now.
Touch(t) ==
    /\ step[t] = "touch"
    /\ order' = IF Contains(order, file[t])
                   THEN Append(RemoveFirst(order, file[t]), file[t])
                   ELSE order
    /\ FinishRead(t)
    /\ UNCHANGED <<external, entries, bytes, reads>>

\* Mutant of Evict: the entry goes and its bytes stay.
EvictUncounted(t) ==
    /\ step[t] = "evict"
    /\ Pop(t, file[t])
    /\ Proceed(t, "open")
    /\ UNCHANGED <<external, file, entry, content, mtime, reads, fileHistory>>

\* _evict_key pops whatever has the key by now.
Evict(t) ==
    /\ step[t] = "evict"
    /\ Pop(t, file[t])
    /\ Proceed(t, "settle")
    /\ UNCHANGED <<external, file, entry, content, mtime, reads, fileHistory>>

\* ... and subtracts the size of what it popped.
Settle(t) ==
    /\ step[t] \in {"settle", "settleFit"}
    /\ bytes' = bytes - owed[t]
    /\ owed' = [owed EXCEPT ![t] = 0]
    /\ Proceed(t, IF step[t] = "settle" THEN "open" ELSE "fit")
    /\ UNCHANGED <<external, entries, order, file, entry, content, mtime, reads, fileHistory>>

-----------------------------------------------------------------------------
(* _read_file_content after a miss, and cache_content *)

\* open and read.  A missing file raises.
Open(t) ==
    /\ step[t] = "open"
    /\ IF disk[file[t]] = 0
          THEN FinishRead(t)
          ELSE /\ content' = [content EXCEPT ![t] = disk[file[t]]]
               /\ Proceed(t, "statNew")
               /\ UNCHANGED <<file, entry, mtime, owed, fileHistory>>
    /\ UNCHANGED <<external, store, reads>>

\* A content larger than the cache, or a file that is gone, is not cached.
StatNew(t) ==
    /\ step[t] = "statNew"
    /\ IF SizeOf[content[t]] > MaxBytes \/ disk[file[t]] = 0
          THEN FinishRead(t)
          ELSE /\ mtime' = [mtime EXCEPT ![t] = disk[file[t]]]
               /\ Proceed(t, "charge")
               /\ UNCHANGED <<file, entry, content, owed, fileHistory>>
    /\ UNCHANGED <<external, store, reads>>

\* The size of an entry about to be replaced is subtracted; the entry stays.
Charge(t) ==
    /\ step[t] = "charge"
    /\ bytes' = bytes - EntrySize(entries[file[t]])
    /\ Proceed(t, "fit")
    /\ UNCHANGED <<external, entries, order, locals, reads, fileHistory>>

\* Does the new content fit?
Fits(t) == bytes + SizeOf[content[t]] <= MaxBytes

\* The while loop is over.
Fit(t) ==
    /\ step[t] = "fit"
    /\ Fits(t)
    /\ Proceed(t, "insert")
    /\ overlapped' = \E u \in Readers \ {t} : step[u] \in {"insert", "add"}
    /\ UNCHANGED <<external, store, locals, reads, seen, raced, collided>>

\* Mutant of EvictOldest: its bytes are forgotten.
EvictOldestUncounted(t) ==
    /\ step[t] = "fit"
    /\ ~Fits(t)
    /\ order # <<>>
    /\ entries' = [entries EXCEPT ![Head(order)] = None]
    /\ order' = Tail(order)
    /\ UNCHANGED <<external, bytes, step, locals, reads, fileHistory>>

\* The loop's body.  With an empty cache it changes nothing, for ever.
EvictOldest(t) ==
    /\ step[t] = "fit"
    /\ ~Fits(t)
    /\ order # <<>>
    /\ Pop(t, Head(order))
    /\ Proceed(t, "settleFit")
    /\ UNCHANGED <<external, file, entry, content, mtime, reads, fileHistory>>

\* The entry is stored and moved to the end ...
InsertEntry(t) ==
    /\ step[t] = "insert"
    /\ entries' = [entries EXCEPT
                      ![file[t]] = [content |-> content[t], mtime |-> mtime[t]]]
    /\ order' = Append(RemoveFirst(order, file[t]), file[t])
    /\ Proceed(t, "add")
    /\ UNCHANGED <<external, bytes, locals, reads, fileHistory>>

\* ... and counted.
Add(t) ==
    /\ step[t] = "add"
    /\ bytes' = bytes + SizeOf[content[t]]
    /\ FinishRead(t)
    /\ UNCHANGED <<external, entries, order, reads>>

-----------------------------------------------------------------------------
(* Other programs *)

Change(f, version) ==
    /\ disk' = [disk EXCEPT ![f] = version]
    /\ seen' = [t \in Readers |-> IF file[t] = f THEN seen[t] \cup {version} ELSE seen[t]]
    /\ raced' = (raced \/ \E t \in Readers : file[t] = f /\ step[t] = "statNew")
    /\ UNCHANGED <<store, step, locals, reads, collided, overlapped>>

\* A new version, or none.
Rewrite(f) ==
    /\ newest < MaxVersion
    /\ newest' = newest + 1
    /\ Change(f, newest')

Unlink(f) ==
    /\ disk[f] # 0
    /\ newest < MaxVersion
    /\ newest' = newest + 1
    /\ Change(f, 0)

-----------------------------------------------------------------------------

ReadStep(t) ==
    \/ Stat(t) \/ Touch(t) \/ Evict(t) \/ Settle(t)
    \/ Open(t) \/ StatNew(t) \/ Charge(t) \/ Fit(t) \/ EvictOldest(t) \/ InsertEntry(t) \/ Add(t)

FileNext ==
    \/ \E t \in Readers : ReadStep(t)
    \/ \E t \in Readers, f \in Files, expired \in BOOLEAN : StartRead(t, f, expired)
    \/ \E f \in Files : Rewrite(f) \/ Unlink(f)

FileSpec == FileInit /\ [][FileNext]_fileVars

\* A thread that reads keeps being scheduled.
FileFairSpec == FileSpec /\ \A t \in Readers : WF_fileVars(ReadStep(t))

-----------------------------------------------------------------------------
(* Properties *)

AtRest == \A t \in Readers : step[t] = "idle"

\* get_cached_content returns the content of an unchanged file: a content the
\* file had during the read, as long as no file was changed between the read
\* that filled the cache and the stat that dated it.
HitIsFresh ==
    ~raced => \A t \in Readers : step[t] = "touch" => entry[t].content \in seen[t]

\* The bytes of the cached contents: for each its file and its place.
CachedBytes == UNION {{f} \X (1..EntrySize(entries[f])) : f \in Files}

\* Between reads the byte count is the sum of what is cached, however evictions,
\* expiry and reads of other files interleave (it drifts for good once two threads
\* have read one file at the same time), and the cache is within its budget, unless
\* the last two insertions overlapped: the next insertion alone brings it back.
BudgetIsKept ==
    AtRest /\ ~collided =>
        /\ bytes = Cardinality(CachedBytes)
        /\ ~overlapped => bytes <= MaxBytes

\* Every read ends: the loop that makes room stops before the cache is empty,
\* as long as the bytes are counted right.
ReadEnds == \A t \in Readers : step[t] # "idle" ~> step[t] = "idle" \/ collided
=============================================================================
