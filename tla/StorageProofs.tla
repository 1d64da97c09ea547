----------------------------- MODULE StorageProofs -----------------------------
(***************************************************************************)
(* Theorems about what threads and processes keep in common: two caches,   *)
(* the results of FormatDetection, with its circuit breaker, for every     *)
(* number of threads and documents, every size of the cache, every         *)
(* threshold and every reset time, and FileContentCache for every number   *)
(* of threads, files, versions and sizes; and the local record store,      *)
(* FileLock for every set of processes and inodes, and RecordStore, whose  *)
(* steps are steps of its lock or leave the lock alone, for every set of   *)
(* processes and every bound.                                              *)
(***************************************************************************)
EXTENDS RecordStore, FormatDetection, FileContentCache, CommonLemmas

-----------------------------------------------------------------------------
(***************************************************************************)
(* FileContentCache                                                        *)
(*                                                                         *)
(* A content is as old as its mtime says unless the file was changed       *)
(* between the two, which makes a hit fresh.  The count of bytes is judged *)
(* while evictions and insertions are under way: it is what the entries    *)
(* have, less what a thread has inserted and not added, and more what      *)
(* others have popped and not subtracted.                                  *)
(***************************************************************************)

\* A read that goes to the file, from the content read to the entry counted.
Loading == {"charge", "fit", "settleFit", "insert", "add"}

\* Where the thread can be sure that its file has no entry.
BeforeEntry == {"settle", "open", "statNew", "charge", "fit", "settleFit", "insert"}

FileTypes ==
    /\ disk \in [Files -> 0..MaxVersion]
    /\ entries \in [Files -> Entries \cup {None}]
    /\ order \in Seq(Files)
    /\ bytes \in Int
    /\ step \in [Readers -> ReadSteps]
    /\ file \in [Readers -> Files \cup {None}]
    /\ entry \in [Readers -> Entries \cup {None}]
    /\ content \in [Readers -> 0..MaxVersion]
    /\ mtime \in [Readers -> 0..MaxVersion]
    /\ owed \in [Readers -> Nat]
    /\ seen \in [Readers -> SUBSET (0..MaxVersion)]

\* What a thread has in its hands at each step.
Carries(t) ==
    /\ file[t] = None <=> step[t] = "idle"
    /\ step[t] \in {"stat", "touch", "evict"} => entry[t] \in Entries
    /\ step[t] \in Loading \cup {"statNew"} => content[t] \in FileVersions
    /\ step[t] \in Loading => mtime[t] \in FileVersions
    /\ step[t] \notin {"settle", "settleFit"} => owed[t] = 0

Dates(e) == e # None => e.content = e.mtime

\* What it knows of the versions of its file.
Knows(t) ==
    /\ step[t] # "idle" => disk[file[t]] \in seen[t]
    /\ ~raced =>
          /\ Dates(entry[t])
          /\ step[t] = "statNew" => content[t] = disk[file[t]]
          /\ step[t] \in Loading => content[t] = mtime[t]
          /\ step[t] = "touch" => entry[t].content \in seen[t]

EntriesDated == ~raced => \A f \in Files : Dates(entries[f])

FreshInv == FileTypes /\ EntriesDated /\ \A t \in Readers : Carries(t) /\ Knows(t)

Cached == [f \in Files |-> EntrySize(entries[f])]
Pending == [t \in Readers |-> IF step[t] = "add" THEN SizeOf[content[t]] ELSE 0]

Counted ==
    /\ IsFiniteSet(Places(Files, Cached))
    /\ IsFiniteSet(Places(Readers, Pending))
    /\ IsFiniteSet(Places(Readers, owed))
    /\ bytes + Cardinality(Places(Readers, Pending))
          = Cardinality(Places(Files, Cached)) + Cardinality(Places(Readers, owed))

\* As long as no two threads have read one file at a time.
NotCollided ==
    /\ \A t, u \in Readers : file[t] = file[u] /\ file[t] # None => t = u
    /\ \A t \in Readers : step[t] \in BeforeEntry => entries[file[t]] = None
    /\ Counted

\* As long as the last check of the budget saw every insertion.
NotOverlapped ==
    /\ bytes <= MaxBytes
    /\ \A t, u \in Readers : {step[t], step[u]} \subseteq {"insert", "add"} => t = u
    /\ \A t \in Readers :
          step[t] \in {"insert", "add"} => bytes + SizeOf[content[t]] <= MaxBytes

BudgetInv ==
    /\ FreshInv
    /\ ~collided => NotCollided
    /\ ~overlapped => NotOverlapped

USE SizeAssumption, FileAssumption

-----------------------------------------------------------------------------
(* Fresh hits *)

\* What the step of another thread leaves alone.
Same(u) ==
    /\ step'[u] = step[u] /\ file'[u] = file[u] /\ entry'[u] = entry[u]
    /\ content'[u] = content[u] /\ mtime'[u] = mtime[u] /\ owed'[u] = owed[u]
    /\ seen'[u] = seen[u]

\* A step of one thread's read, as the others see it.
Alone(t) == disk' = disk /\ raced' = raced /\ \A u \in Readers \ {t} : Same(u)

LEMMA FreshStep ==
    ASSUME FreshInv, NEW t \in Readers, Alone(t), FileTypes', EntriesDated',
           Carries(t)', Knows(t)'
    PROVE  FreshInv'
<1>1. ASSUME NEW u \in Readers, u # t PROVE Carries(u)' /\ Knows(u)'
  <2>1. Carries(u) /\ Knows(u) /\ Same(u) /\ disk' = disk /\ raced' = raced
    BY <1>1 DEF FreshInv, Alone
  <2>2. Carries(u)'
    BY <2>1 DEF Carries, Same
  <2>3. Knows(u)'
    BY <2>1 DEF Knows, Same, Dates
  <2>4. QED
    BY <2>2, <2>3
<1>2. QED
  BY <1>1 DEF FreshInv

\* A read that returns or raises leaves nothing behind.
LEMMA FinishReadFresh ==
    ASSUME FreshInv, NEW t \in Readers, FinishRead(t), owed[t] = 0,
           entries' = entries, disk' = disk, order' \in Seq(Files), bytes' \in Int
    PROVE  FreshInv'
<1> USE DEF FinishRead, Proceed
<1>1. FileTypes /\ EntriesDated
  BY DEF FreshInv
<1>2. FileTypes'
  BY <1>1 DEF FileTypes, ReadSteps
<1>3. Alone(t)
  BY <1>1 DEF Alone, Same, FileTypes
<1>4. step'[t] = "idle" /\ file'[t] = None /\ entry'[t] = None /\ owed'[t] = 0
  BY <1>1 DEF FileTypes
<1>5. Carries(t)' /\ Knows(t)' /\ EntriesDated'
  BY <1>1, <1>4 DEF Carries, Knows, Dates, EntriesDated, Loading
<1>6. QED
  BY <1>2, <1>3, <1>5, FreshStep

LEMMA StartReadFresh ==
    ASSUME FreshInv, NEW t \in Readers, NEW f \in Files, NEW expired \in BOOLEAN,
           StartRead(t, f, expired)
    PROVE  FreshInv' /\ Alone(t)
<1> USE DEF StartRead, Proceed, external, store
<1>1. FileTypes /\ EntriesDated /\ Carries(t)
  BY DEF FreshInv
<1>2. FileTypes'
  <2>1. {disk[f]} \in SUBSET (0..MaxVersion)
    BY <1>1 DEF FileTypes
  <2>2. seen' \in [Readers -> SUBSET (0..MaxVersion)]
    BY <1>1, <2>1 DEF FileTypes
  <2>3. step' \in [Readers -> ReadSteps]
    BY <1>1 DEF FileTypes, ReadSteps
  <2>4. QED
    BY <1>1, <2>2, <2>3 DEF FileTypes
<1>3. Alone(t)
  BY <1>1 DEF Alone, Same, FileTypes
<1>4. /\ step'[t] \in {"open", "evict", "stat"} /\ file'[t] = f /\ entry'[t] = entries[f]
      /\ step'[t] \in {"evict", "stat"} => entries[f] # None
      /\ owed'[t] = owed[t] /\ seen'[t] = {disk[f]} /\ f # None /\ step[t] = "idle"
  BY <1>1 DEF FileTypes
<1>5. Carries(t)'
  BY <1>1, <1>4 DEF Carries, FileTypes, Loading
<1>6. Knows(t)' /\ EntriesDated'
  BY <1>1, <1>4 DEF Knows, EntriesDated, Dates, FileTypes, Loading
<1>7. QED
  BY <1>2, <1>3, <1>5, <1>6, FreshStep

\* A stat that finds the mtime of the entry finds the version of its content.
LEMMA StatFresh ==
    ASSUME FreshInv, NEW t \in Readers, Stat(t)
    PROVE  FreshInv' /\ Alone(t)
<1> USE DEF Stat, Proceed, external, store, locals, fileHistory
<1>1. FileTypes /\ EntriesDated /\ Carries(t) /\ Knows(t)
  BY DEF FreshInv
<1>2. FileTypes'
  BY <1>1 DEF FileTypes, ReadSteps
<1>3. Alone(t)
  BY <1>1 DEF Alone, Same, FileTypes
<1>4. /\ step'[t] \in {"touch", "evict"}
      /\ step'[t] = "touch" => disk[file[t]] = entry[t].mtime
  BY <1>1 DEF FileTypes
<1>5. entry[t] \in Entries /\ entry[t] # None
  BY <1>1 DEF Carries
<1>6. Carries(t)'
  BY <1>1, <1>4, <1>5 DEF Carries, Loading
<1>7. Knows(t)' /\ EntriesDated'
  BY <1>1, <1>4, <1>5 DEF Knows, EntriesDated, Dates, Loading
<1>8. QED
  BY <1>2, <1>3, <1>6, <1>7, FreshStep

LEMMA TouchFresh ==
    ASSUME FreshInv, NEW t \in Readers, Touch(t)
    PROVE  FreshInv' /\ Alone(t)
<1> USE DEF Touch, external
<1>1. FileTypes /\ Carries(t)
  BY DEF FreshInv
<1>2. order' \in Seq(Files)
  <2>1. CASE Contains(order, file[t])
    <3>1. RemoveFirst(order, file[t]) \in Seq(Files)
      BY <1>1, RemoveFirstElements DEF FileTypes
    <3>2. file[t] \in Files
      BY <1>1 DEF FileTypes, Carries
    <3>3. QED
      BY <2>1, <3>1, <3>2
  <2>2. QED
    BY <1>1, <2>1 DEF FileTypes
<1>3. owed[t] = 0 /\ bytes' \in Int /\ FinishRead(t)
  BY <1>1 DEF Carries, FileTypes
<1>4. FreshInv'
  BY <1>2, <1>3, FinishReadFresh
<1>5. Alone(t)
  BY <1>1, <1>3 DEF Alone, Same, FileTypes, FinishRead, Proceed
<1>6. QED
  BY <1>4, <1>5

\* An entry that is popped takes no date with it.
LEMMA PopFresh ==
    ASSUME FreshInv, NEW t \in Readers, NEW f \in Files, NEW label, Pop(t, f), Proceed(t, label),
           \/ step[t] = "evict" /\ label = "settle"
           \/ step[t] = "fit" /\ label = "settleFit",
           UNCHANGED <<external, file, entry, content, mtime, reads, fileHistory>>
    PROVE  FreshInv' /\ Alone(t)
<1> USE DEF Pop, Proceed, external, fileHistory
<1>1. FileTypes /\ EntriesDated /\ Carries(t) /\ Knows(t)
  BY DEF FreshInv
<1>2. order' \in Seq(Files)
  BY <1>1, RemoveFirstElements DEF FileTypes
<1>3. EntrySize(entries[f]) \in Nat
  BY <1>1 DEF FileTypes, EntrySize, Entries
<1>4. FileTypes'
  BY <1>1, <1>2, <1>3 DEF FileTypes, ReadSteps
<1>5. Alone(t)
  BY <1>1 DEF Alone, Same, FileTypes
<1>6. step'[t] = label
  BY <1>1 DEF FileTypes
<1>7. Carries(t)'
  BY <1>1, <1>6 DEF Carries, Loading
<1>8. Knows(t)'
  BY <1>1, <1>6 DEF Knows, Dates, Loading
<1>9. EntriesDated'
  BY <1>1 DEF EntriesDated, Dates, FileTypes
<1>10. QED
  BY <1>4, <1>5, <1>7, <1>8, <1>9, FreshStep

LEMMA EvictFresh ==
    ASSUME FreshInv, NEW t \in Readers, Evict(t)
    PROVE  FreshInv' /\ Alone(t)
<1>1. file[t] \in Files
  BY DEF FreshInv, FileTypes, Carries, Evict
<1>2. PICK f \in Files : f = file[t]
  BY <1>1
<1>3. step[t] = "evict" /\ Pop(t, f) /\ Proceed(t, "settle")
  BY <1>2 DEF Evict
<1>4. UNCHANGED <<external, file, entry, content, mtime, reads, fileHistory>>
  BY DEF Evict
<1>5. QED
  BY <1>2, <1>3, <1>4, PopFresh

LEMMA EvictOldestFresh ==
    ASSUME FreshInv, NEW t \in Readers, EvictOldest(t)
    PROVE  FreshInv' /\ Alone(t)
<1>1. order \in Seq(Files) /\ order # <<>>
  BY DEF FreshInv, FileTypes, EvictOldest
<1>2. PICK f \in Files : f = Head(order)
  BY <1>1
<1>3. step[t] = "fit" /\ Pop(t, f) /\ Proceed(t, "settleFit")
  BY <1>2 DEF EvictOldest
<1>4. UNCHANGED <<external, file, entry, content, mtime, reads, fileHistory>>
  BY DEF EvictOldest
<1>5. QED
  BY <1>2, <1>3, <1>4, PopFresh

LEMMA SettleFresh ==
    ASSUME FreshInv, NEW t \in Readers, Settle(t)
    PROVE  FreshInv' /\ Alone(t)
<1> USE DEF Settle, Proceed, external, fileHistory
<1>1. FileTypes /\ EntriesDated /\ Carries(t) /\ Knows(t)
  BY DEF FreshInv
<1>2. FileTypes'
  BY <1>1 DEF FileTypes, ReadSteps
<1>3. Alone(t)
  BY <1>1 DEF Alone, Same, FileTypes
<1>4. step'[t] \in {"open", "fit"} /\ (step'[t] = "fit" => step[t] = "settleFit") /\ owed'[t] = 0
  BY <1>1 DEF FileTypes
<1>5. Carries(t)'
  BY <1>1, <1>4 DEF Carries, Loading
<1>6. Knows(t)' /\ EntriesDated'
  BY <1>1, <1>4 DEF Knows, EntriesDated, Dates, Loading
<1>7. QED
  BY <1>2, <1>3, <1>5, <1>6, FreshStep

LEMMA OpenFresh ==
    ASSUME FreshInv, NEW t \in Readers, Open(t)
    PROVE  FreshInv' /\ Alone(t)
<1> USE DEF external, store
<1>1. FileTypes /\ EntriesDated /\ Carries(t) /\ Knows(t)
  BY DEF FreshInv
<1>2. CASE disk[file[t]] = 0
  <2>1. FinishRead(t) /\ owed[t] = 0 /\ entries' = entries /\ disk' = disk
    BY <1>1, <1>2 DEF Open, Carries
  <2>2. order' \in Seq(Files) /\ bytes' \in Int
    BY <1>1, <1>2 DEF Open, FileTypes
  <2>3. FreshInv'
    BY <2>1, <2>2, FinishReadFresh
  <2>4. Alone(t)
    BY <1>1, <2>1 DEF Alone, Same, FileTypes, FinishRead, Proceed
  <2>5. QED
    BY <2>3, <2>4
<1>3. CASE disk[file[t]] # 0
  <2> USE DEF Open, Proceed, fileHistory
  <2>1. file[t] \in Files /\ disk[file[t]] \in FileVersions /\ disk[file[t]] \in 0..MaxVersion
    BY <1>1, <1>3 DEF FileTypes, Carries, FileVersions
  <2>2. FileTypes'
    <3>1. content' \in [Readers -> 0..MaxVersion]
      BY <1>1, <1>3, <2>1 DEF FileTypes
    <3>2. QED
      BY <1>1, <1>3, <3>1 DEF FileTypes, ReadSteps
  <2>3. Alone(t)
    BY <1>1, <1>3 DEF Alone, Same, FileTypes
  <2>4. step'[t] = "statNew" /\ content'[t] = disk[file[t]]
    BY <1>1, <1>3 DEF FileTypes
  <2>5. Carries(t)'
    BY <1>1, <1>3, <2>1, <2>4 DEF Carries, Loading
  <2>6. Knows(t)' /\ EntriesDated'
    BY <1>1, <1>3, <2>4 DEF Knows, EntriesDated, Dates, Loading
  <2>7. QED
    BY <2>2, <2>3, <2>5, <2>6, FreshStep
<1>4. QED
  BY <1>2, <1>3

\* The stat dates the content it was read with, unless the file has changed since.
LEMMA StatNewFresh ==
    ASSUME FreshInv, NEW t \in Readers, StatNew(t)
    PROVE  FreshInv' /\ Alone(t)
<1> USE DEF external, store
<1>1. FileTypes /\ EntriesDated /\ Carries(t) /\ Knows(t)
  BY DEF FreshInv
<1>2. CASE SizeOf[content[t]] > MaxBytes \/ disk[file[t]] = 0
  <2>1. FinishRead(t) /\ owed[t] = 0 /\ entries' = entries /\ disk' = disk
    BY <1>1, <1>2 DEF StatNew, Carries
  <2>2. order' \in Seq(Files) /\ bytes' \in Int
    BY <1>1, <1>2 DEF StatNew, FileTypes
  <2>3. FreshInv'
    BY <2>1, <2>2, FinishReadFresh
  <2>4. Alone(t)
    BY <1>1, <2>1 DEF Alone, Same, FileTypes, FinishRead, Proceed
  <2>5. QED
    BY <2>3, <2>4
<1>3. CASE ~(SizeOf[content[t]] > MaxBytes \/ disk[file[t]] = 0)
  <2> USE DEF StatNew, Proceed, fileHistory
  <2>1. file[t] \in Files /\ disk[file[t]] \in FileVersions /\ disk[file[t]] \in 0..MaxVersion
    BY <1>1, <1>3 DEF FileTypes, Carries, FileVersions
  <2>2. FileTypes'
    <3>1. mtime' \in [Readers -> 0..MaxVersion]
      BY <1>1, <1>3, <2>1 DEF FileTypes
    <3>2. QED
      BY <1>1, <1>3, <3>1 DEF FileTypes, ReadSteps
  <2>3. Alone(t)
    BY <1>1, <1>3 DEF Alone, Same, FileTypes
  <2>4. step'[t] = "charge" /\ mtime'[t] = disk[file[t]] /\ content' = content
    BY <1>1, <1>3 DEF FileTypes
  <2>5. Carries(t)'
    BY <1>1, <1>3, <2>1, <2>4 DEF Carries, Loading
  <2>6. Knows(t)' /\ EntriesDated'
    BY <1>1, <1>3, <2>4 DEF Knows, EntriesDated, Dates, Loading
  <2>7. QED
    BY <2>2, <2>3, <2>5, <2>6, FreshStep
<1>4. QED
  BY <1>2, <1>3

LEMMA SizesAreNumbers ==
    ASSUME FileTypes
    PROVE  /\ \A f \in Files : EntrySize(entries[f]) \in Nat
           /\ \A v \in FileVersions : SizeOf[v] \in Nat
  BY DEF FileTypes, EntrySize, Entries

LEMMA ChargeFresh ==
    ASSUME FreshInv, NEW t \in Readers, Charge(t)
    PROVE  FreshInv' /\ Alone(t)
<1> USE DEF Charge, Proceed, external, locals, fileHistory
<1>1. FileTypes /\ EntriesDated /\ Carries(t) /\ Knows(t)
  BY DEF FreshInv
<1>2. bytes' \in Int
  <2>1. file[t] \in Files /\ bytes \in Int
    BY <1>1 DEF FileTypes, Carries
  <2>2. EntrySize(entries[file[t]]) \in Nat
    BY <1>1, <2>1, SizesAreNumbers
  <2>3. QED
    BY <2>1, <2>2
<1>3. FileTypes'
  BY <1>1, <1>2 DEF FileTypes, ReadSteps
<1>4. Alone(t) /\ step'[t] = "fit"
  BY <1>1 DEF Alone, Same, FileTypes
<1>5. Carries(t)'
  BY <1>1, <1>4 DEF Carries, Loading
<1>6. Knows(t)' /\ EntriesDated'
  BY <1>1, <1>4 DEF Knows, EntriesDated, Dates, Loading
<1>7. QED
  BY <1>3, <1>4, <1>5, <1>6, FreshStep

LEMMA FitFresh ==
    ASSUME FreshInv, NEW t \in Readers, Fit(t)
    PROVE  FreshInv' /\ Alone(t)
<1> USE DEF Fit, Proceed, external, store, locals
<1>1. FileTypes /\ EntriesDated /\ Carries(t) /\ Knows(t)
  BY DEF FreshInv
<1>2. FileTypes'
  BY <1>1 DEF FileTypes, ReadSteps
<1>3. Alone(t) /\ step'[t] = "insert"
  BY <1>1 DEF Alone, Same, FileTypes
<1>4. Carries(t)'
  BY <1>1, <1>3 DEF Carries, Loading
<1>5. Knows(t)' /\ EntriesDated'
  BY <1>1, <1>3 DEF Knows, EntriesDated, Dates, Loading
<1>6. QED
  BY <1>2, <1>3, <1>4, <1>5, FreshStep

LEMMA InsertEntryFresh ==
    ASSUME FreshInv, NEW t \in Readers, InsertEntry(t)
    PROVE  FreshInv' /\ Alone(t)
<1> USE DEF InsertEntry, Proceed, external, locals, fileHistory
<1>1. FileTypes /\ EntriesDated /\ Carries(t) /\ Knows(t)
  BY DEF FreshInv
<1>2. file[t] \in Files /\ content[t] \in FileVersions /\ mtime[t] \in FileVersions
  BY <1>1 DEF FileTypes, Carries, Loading
<1>3. [content |-> content[t], mtime |-> mtime[t]] \in Entries
  BY <1>2 DEF Entries
<1>4. order' \in Seq(Files)
  <2>1. RemoveFirst(order, file[t]) \in Seq(Files)
    BY <1>1, RemoveFirstElements DEF FileTypes
  <2>2. QED
    BY <1>2, <2>1
<1>5. FileTypes'
  BY <1>1, <1>3, <1>4 DEF FileTypes, ReadSteps
<1>6. Alone(t) /\ step'[t] = "add"
  BY <1>1 DEF Alone, Same, FileTypes
<1>7. Carries(t)'
  BY <1>1, <1>6 DEF Carries, Loading
<1>8. Knows(t)'
  BY <1>1, <1>6 DEF Knows, Dates, Loading
<1>9. EntriesDated'
  <2>1. SUFFICES ASSUME ~raced, NEW f \in Files PROVE Dates(entries'[f])
    BY DEF EntriesDated, Dates
  <2>2. CASE f = file[t]
    <3>1. entries'[f] = [content |-> content[t], mtime |-> mtime[t]] /\ content[t] = mtime[t]
      BY <1>1, <1>2, <2>1, <2>2 DEF FileTypes, Knows, Loading
    <3>2. QED
      BY <3>1 DEF Dates
  <2>3. CASE f # file[t]
    BY <1>1, <2>1, <2>3 DEF EntriesDated, FileTypes
  <2>4. QED
    BY <2>2, <2>3
<1>10. QED
  BY <1>5, <1>6, <1>7, <1>8, <1>9, FreshStep

LEMMA AddFresh ==
    ASSUME FreshInv, NEW t \in Readers, Add(t)
    PROVE  FreshInv' /\ Alone(t)
<1> USE DEF Add, external
<1>1. FileTypes /\ Carries(t)
  BY DEF FreshInv
<1>2. bytes' \in Int
  BY <1>1, SizesAreNumbers DEF FileTypes, Carries, Loading
<1>3. order' \in Seq(Files) /\ owed[t] = 0 /\ FinishRead(t) /\ entries' = entries /\ disk' = disk
  BY <1>1 DEF FileTypes, Carries
<1>4. FreshInv'
  BY <1>2, <1>3, FinishReadFresh
<1>5. Alone(t)
  BY <1>1, <1>3 DEF Alone, Same, FileTypes, FinishRead, Proceed
<1>6. QED
  BY <1>4, <1>5

\* A change of a file is seen by whoever reads it, and upsets no date but of a
\* content that has been read and not dated yet.
LEMMA ChangeFresh ==
    ASSUME FreshInv, NEW f \in Files, NEW version \in 0..MaxVersion, Change(f, version)
    PROVE  FreshInv'
<1> USE DEF Change, store, locals
<1>1. FileTypes /\ EntriesDated
  BY DEF FreshInv
<1>2. FileTypes'
  <2>1. disk' \in [Files -> 0..MaxVersion]
    BY <1>1 DEF FileTypes
  <2>2. seen' \in [Readers -> SUBSET (0..MaxVersion)]
    <3>1. \A t \in Readers : (IF file[t] = f THEN seen[t] \cup {version} ELSE seen[t])
                                \in SUBSET (0..MaxVersion)
      BY <1>1 DEF FileTypes
    <3>2. QED
      BY <3>1
  <2>3. QED
    BY <1>1, <2>1, <2>2 DEF FileTypes
<1>3. EntriesDated'
  BY <1>1 DEF EntriesDated, Dates
<1>4. ASSUME NEW t \in Readers PROVE Carries(t)' /\ Knows(t)'
  <2>1. Carries(t) /\ Knows(t)
    BY DEF FreshInv
  <2>2. Carries(t)'
    BY <2>1 DEF Carries
  <2>3. /\ step[t] # "idle" => disk'[file[t]] = IF file[t] = f THEN version ELSE disk[file[t]]
        /\ seen'[t] = IF file[t] = f THEN seen[t] \cup {version} ELSE seen[t]
        /\ step[t] = "statNew" /\ file[t] = f => raced'
        /\ ~raced' => ~raced
    <3>1. CASE file[t] = f
      BY <1>1, <3>1 DEF FileTypes
    <3>2. CASE file[t] # f
      BY <1>1, <2>1, <3>2 DEF FileTypes, Carries
    <3>3. QED
      BY <3>1, <3>2
  <2>4. Knows(t)'
    BY <2>1, <2>3 DEF Knows, Dates
  <2>5. QED
    BY <2>2, <2>4
<1>5. QED
  BY <1>2, <1>3, <1>4 DEF FreshInv

LEMMA FileInitFresh == FileInit => FreshInv
<1> SUFFICES ASSUME FileInit PROVE FreshInv
  OBVIOUS
<1>1. FileTypes
  BY DEF FileInit, FileTypes, FileVersions, ReadSteps
<1>2. EntriesDated
  BY DEF FileInit, EntriesDated, Dates
<1>3. \A t \in Readers : Carries(t) /\ Knows(t)
  BY DEF FileInit, Carries, Knows, Dates, Loading
<1>4. QED
  BY <1>1, <1>2, <1>3 DEF FreshInv

\* The steps of a thread are its own; the steps of other programs are not theirs.
LEMMA StepFresh ==
    ASSUME FreshInv, NEW t \in Readers,
           ReadStep(t) \/ \E f \in Files, expired \in BOOLEAN : StartRead(t, f, expired)
    PROVE  FreshInv' /\ Alone(t)
  BY StatFresh, TouchFresh, EvictFresh, SettleFresh, OpenFresh, StatNewFresh, ChargeFresh,
     FitFresh, EvictOldestFresh, InsertEntryFresh, AddFresh, StartReadFresh DEF ReadStep

NewestIsNumber == Files # {} => newest \in Nat

LEMMA OtherProgramsFresh ==
    ASSUME FreshInv, NewestIsNumber, NEW f \in Files, Rewrite(f) \/ Unlink(f)
    PROVE  /\ FreshInv' /\ NewestIsNumber'
           /\ UNCHANGED <<store, step, locals, reads, collided, overlapped>>
<1>1. newest \in Nat
  BY DEF NewestIsNumber
<1>2. PICK version \in 0..MaxVersion : Change(f, version)
  BY <1>1 DEF Rewrite, Unlink
<1>3. FreshInv'
  BY <1>2, ChangeFresh
<1>4. newest' \in Nat
  BY <1>1 DEF Rewrite, Unlink
<1>5. QED
  BY <1>2, <1>3, <1>4 DEF Change, NewestIsNumber

LEMMA FileInitNewest == FileInit => NewestIsNumber
<1> SUFFICES ASSUME FileInit, Files # {} PROVE newest \in Nat
  BY DEF NewestIsNumber
<1> DEFINE T == {FirstDisk[f] : f \in Files}
<1>1. T \subseteq Nat /\ T # {} /\ T \subseteq FileVersions /\ \A v \in T : v <= MaxVersion
  BY DEF FileVersions
<1>2. \E m \in T : \A v \in T : v <= m
  <2> HIDE DEF T
  <2>1. QED
    BY <1>1, MaxIn
<1>3. \E v \in FileVersions : \A f \in Files : FirstDisk[f] <= v
  BY <1>1, <1>2
<1>4. newest \in FileVersions
  BY <1>3 DEF FileInit
<1>5. QED
  BY <1>4 DEF FileVersions

FilesInv == FreshInv /\ NewestIsNumber

LEMMA NewestStays ==
    ASSUME NEW t \in Readers,
           ReadStep(t) \/ \E f \in Files, expired \in BOOLEAN : StartRead(t, f, expired)
    PROVE  newest' = newest
  BY DEF ReadStep, StartRead, Stat, Touch, Evict, Settle, Open, StatNew, Charge, Fit,
     EvictOldest, InsertEntry, Add, external

\* The inductive invariant of the versions a thread may be given.
THEOREM FreshInvariant == FileSpec => []FilesInv
<1>1. FileInit => FilesInv
  BY FileInitFresh, FileInitNewest DEF FilesInv
<1>2. ASSUME FilesInv, [FileNext]_fileVars PROVE FilesInv'
  <2>1. CASE UNCHANGED fileVars
    BY <1>2, <2>1 DEF fileVars, external, store, locals, fileHistory, FilesInv, NewestIsNumber,
       FreshInv, FileTypes, EntriesDated, Carries, Knows, Dates
  <2>2. ASSUME NEW t \in Readers,
               ReadStep(t) \/ \E f \in Files, expired \in BOOLEAN : StartRead(t, f, expired)
        PROVE  FilesInv'
    BY <1>2, <2>2, NewestStays, StepFresh DEF FilesInv, NewestIsNumber
  <2>3. ASSUME NEW f \in Files, Rewrite(f) \/ Unlink(f) PROVE FilesInv'
    BY <1>2, <2>3, OtherProgramsFresh DEF FilesInv
  <2>4. QED
    BY <1>2, <2>1, <2>2, <2>3 DEF FileNext
<1>3. QED
  BY <1>1, <1>2, PTL DEF FileSpec

\* get_cached_content returns a content that the file had while it was asked for,
\* unless a file was changed between the read that filled the cache and the stat
\* that dated it.
THEOREM HitsAreFresh == FileSpec => []HitIsFresh
<1>1. FilesInv => HitIsFresh
  BY DEF FilesInv, FreshInv, Knows, HitIsFresh
<1>2. QED
  BY <1>1, FreshInvariant, PTL

-----------------------------------------------------------------------------
(* The budget *)

\* A step of one thread, by what it does to the files' entries and to the count.
LEMMA BudgetStep ==
    ASSUME BudgetInv, NEW t \in Readers, Alone(t), FreshInv',
           ~collided' => ~collided,
           ~collided' => \A u \in Readers \ {t} : file'[t] # None => file[u] # file'[t],
           ~collided' => \A u \in Readers :
                step'[u] \in BeforeEntry => entries'[file'[u]] = None,
           ~collided' => Counted',
           ~overlapped' => NotOverlapped'
    PROVE  BudgetInv'
<1>1. ASSUME ~collided' PROVE NotCollided'
  <2>1. NotCollided /\ ~collided
    BY <1>1 DEF BudgetInv
  <2>2. \A u \in Readers \ {t} : file'[u] = file[u]
    BY DEF Alone, Same
  <2>3. \A u, v \in Readers : file'[u] = file'[v] /\ file'[u] # None => u = v
    <3>1. SUFFICES ASSUME NEW u \in Readers, NEW v \in Readers,
                          file'[u] = file'[v], file'[u] # None, u # v
                   PROVE  FALSE
      OBVIOUS
    <3>2. CASE u = t
      BY <1>1, <2>2, <3>1, <3>2
    <3>3. CASE v = t
      BY <1>1, <2>2, <3>1, <3>3
    <3>4. CASE u # t /\ v # t
      BY <2>1, <2>2, <3>1, <3>4 DEF NotCollided
    <3>5. QED
      BY <3>2, <3>3, <3>4
  <2>4. QED
    BY <1>1, <2>3 DEF NotCollided
<1>2. QED
  BY <1>1 DEF BudgetInv

\* What another thread was sure of, as long as no entry is added but for t's own file.
LEMMA EntriesAbsent ==
    ASSUME BudgetInv, FreshInv, NEW t \in Readers, Alone(t), ~collided,
           \A f \in Files : f # file[t] /\ entries[f] = None => entries'[f] = None
    PROVE  \A u \in Readers \ {t} : step'[u] \in BeforeEntry => entries'[file'[u]] = None
<1> SUFFICES ASSUME NEW u \in Readers \ {t}, step'[u] \in BeforeEntry
             PROVE  entries'[file'[u]] = None
  OBVIOUS
<1>1. NotCollided /\ Same(u) /\ Carries(u) /\ FileTypes
  BY DEF BudgetInv, FreshInv, Alone
<1>2. step[u] \in BeforeEntry /\ step[u] # "idle" /\ file'[u] = file[u]
  BY <1>1 DEF Same, BeforeEntry
<1>3. file[u] \in Files /\ entries[file[u]] = None /\ file[u] # file[t]
  BY <1>1, <1>2 DEF Carries, FileTypes, NotCollided
<1>4. QED
  BY <1>2, <1>3

\* A step that leaves the entries, the count and what is still to be settled alone.
LEMMA CountStays ==
    ASSUME Counted, FreshInv, NEW t \in Readers, Alone(t),
           entries' = entries, bytes' = bytes, owed' = owed,
           step[t] # "add", step'[t] # "add"
    PROVE  Counted'
<1>1. FileTypes /\ \A u \in Readers \ {t} : Same(u)
  BY DEF FreshInv, Alone
<1>2. Cached' = Cached
  BY DEF Cached, EntrySize
<1>3. \A u \in Readers : Pending'[u] = Pending[u]
  <2>1. \A u \in Readers : /\ Pending[u] = IF step[u] = "add" THEN SizeOf[content[u]] ELSE 0
                           /\ Pending'[u] = IF step'[u] = "add" THEN SizeOf[content'[u]] ELSE 0
    BY DEF Pending
  <2>2. QED
    BY <1>1, <2>1 DEF Same
<1>4. PICK old, new : old = Pending /\ new = Pending'
  OBVIOUS
<1>5. Places(Readers, Pending') = Places(Readers, Pending)
  <2>1. Places(Readers, new) = Places(Readers, old)
    BY <1>3, <1>4, PlacesSame
  <2>2. QED
    BY <1>4, <2>1
<1>6. Places(Readers, Pending)' = Places(Readers, Pending)
  BY <1>5 DEF Places
<1>7. /\ Places(Files, Cached)' = Places(Files, Cached)
      /\ Places(Readers, owed)' = Places(Readers, owed)
  BY <1>2 DEF Places
<1>8. QED
  BY <1>6, <1>7 DEF Counted

\* A step that leaves the entries alone and adds nothing to the count.
LEMMA QuietStep ==
    ASSUME BudgetInv, NEW t \in Readers, Alone(t), FreshInv',
           entries' = entries, owed' = owed, bytes' <= bytes, overlapped' = overlapped,
           ~collided' => bytes' = bytes /\ ~collided,
           {step[t], step'[t]} \cap {"insert", "add"} = {},
           ~collided' /\ step'[t] \in BeforeEntry => entries[file'[t]] = None,
           ~collided' => \A u \in Readers \ {t} : file'[t] # None => file[u] # file'[t]
    PROVE  BudgetInv'
<1>0. FreshInv /\ bytes \in Int /\ bytes' \in Int
  BY DEF BudgetInv, FreshInv, FileTypes
<1>1. ASSUME ~collided', NEW u \in Readers, step'[u] \in BeforeEntry
      PROVE  entries'[file'[u]] = None
  <2>1. CASE u = t
    BY <1>1, <2>1
  <2>2. CASE u # t
    BY <1>0, <1>1, <2>2, EntriesAbsent
  <2>3. QED
    BY <2>1, <2>2
<1>2. ASSUME ~collided' PROVE Counted'
  <2>1. step[t] # "add" /\ step'[t] # "add"
    OBVIOUS
  <2>2. Counted
    BY <1>2 DEF BudgetInv, NotCollided
  <2>3. QED
    BY <1>0, <1>2, <2>1, <2>2, CountStays
<1>3. ASSUME ~overlapped' PROVE NotOverlapped'
  <2>1. NotOverlapped
    BY <1>3 DEF BudgetInv
  <2>2. \A u \in Readers \ {t} : step'[u] = step[u] /\ content'[u] = content[u]
    BY DEF Alone, Same
  <2>3. bytes' <= MaxBytes
    BY <1>0, <2>1 DEF NotOverlapped
  <2>4. ASSUME NEW u \in Readers, step'[u] \in {"insert", "add"}
        PROVE  bytes' + SizeOf[content'[u]] <= MaxBytes
    <3>1. u # t /\ step[u] \in {"insert", "add"} /\ content'[u] = content[u]
      BY <2>2, <2>4
    <3>2. bytes + SizeOf[content[u]] <= MaxBytes
      BY <2>1, <3>1 DEF NotOverlapped
    <3>3. content[u] \in FileVersions
      BY <1>0, <3>1 DEF FreshInv, Carries, Loading
    <3>4. SizeOf[content[u]] \in Nat
      BY <3>3
    <3>5. QED
      BY <1>0, <3>1, <3>2, <3>4
  <2>5. \A u, v \in Readers : {step'[u], step'[v]} \subseteq {"insert", "add"} => u = v
    <3>1. SUFFICES ASSUME NEW u \in Readers, NEW v \in Readers,
                          step'[u] \in {"insert", "add"}, step'[v] \in {"insert", "add"}
                   PROVE  u = v
      OBVIOUS
    <3>2. u # t /\ v # t
      BY <3>1
    <3>3. {step[u], step[v]} \subseteq {"insert", "add"}
      BY <2>2, <3>1, <3>2
    <3>4. QED
      BY <2>1, <3>3 DEF NotOverlapped
  <2>6. QED
    BY <2>3, <2>4, <2>5 DEF NotOverlapped
<1>4. QED
  BY <1>1, <1>2, <1>3, BudgetStep

\* What t alone reads, and whether its file has an entry.
LEMMA OwnFile ==
    ASSUME BudgetInv, NEW t \in Readers, step[t] # "idle"
    PROVE  /\ file[t] \in Files /\ file[t] # None
           /\ ~collided => \A u \in Readers \ {t} : file[u] # file[t]
           /\ ~collided /\ step[t] \in BeforeEntry => entries[file[t]] = None
<1>1. file[t] \in Files /\ file[t] # None
  BY DEF BudgetInv, FreshInv, Carries, FileTypes
<1>2. QED
  BY <1>1 DEF BudgetInv, NotCollided

LEMMA StartReadBudget ==
    ASSUME BudgetInv, NEW t \in Readers, NEW f \in Files, NEW expired \in BOOLEAN,
           StartRead(t, f, expired)
    PROVE  BudgetInv'
<1>1. FreshInv' /\ Alone(t) /\ FreshInv
  BY StartReadFresh DEF BudgetInv
<1>2. /\ entries' = entries /\ owed' = owed /\ bytes' = bytes /\ overlapped' = overlapped
      /\ step[t] = "idle" /\ collided' = (collided \/ \E u \in Readers : file[u] = f)
  BY DEF StartRead, store
<1>3. file'[t] = f /\ step'[t] \in {"open", "stat", "evict"} /\ (step'[t] = "open" => entries[f] = None)
  BY <1>1 DEF StartRead, FreshInv, FileTypes, Proceed
<1>4. bytes' <= bytes
  BY <1>1, <1>2 DEF FreshInv, FileTypes
<1>5. {step[t], step'[t]} \cap {"insert", "add"} = {}
  BY <1>2, <1>3
<1>6. ~collided' /\ step'[t] \in BeforeEntry => entries[file'[t]] = None
  BY <1>3 DEF BeforeEntry
<1>7. ~collided' => \A u \in Readers \ {t} : file'[t] # None => file[u] # file'[t]
  BY <1>2, <1>3
<1>8. QED
  BY <1>1, <1>2, <1>4, <1>5, <1>6, <1>7, QuietStep

\* A read's step that leaves the entries and the count alone.
LEMMA QuietRead ==
    ASSUME BudgetInv, NEW t \in Readers, Alone(t), FreshInv', step[t] # "idle",
           entries' = entries, owed' = owed, bytes' = bytes,
           overlapped' = overlapped, collided' = collided,
           {step[t], step'[t]} \cap {"insert", "add"} = {},
           step'[t] \in BeforeEntry => step[t] \in BeforeEntry,
           file'[t] = None \/ file'[t] = file[t], step'[t] \in BeforeEntry => file'[t] = file[t]
    PROVE  BudgetInv'
<1>1. bytes' <= bytes
  BY DEF BudgetInv, FreshInv, FileTypes
<1>2. ~collided' => \A u \in Readers \ {t} : file'[t] # None => file[u] # file'[t]
  BY OwnFile
<1>3. ~collided' /\ step'[t] \in BeforeEntry => entries[file'[t]] = None
  BY OwnFile
<1>4. QED
  BY <1>1, <1>2, <1>3, QuietStep

LEMMA StatBudget == ASSUME BudgetInv, NEW t \in Readers, Stat(t) PROVE BudgetInv'
<1>1. FreshInv' /\ Alone(t) /\ FileTypes
  BY StatFresh DEF BudgetInv, FreshInv
<1>2. /\ step[t] = "stat" /\ step'[t] \in {"touch", "evict"}
      /\ file' = file /\ entries' = entries /\ owed' = owed /\ bytes' = bytes
      /\ overlapped' = overlapped /\ collided' = collided
  BY <1>1 DEF Stat, Proceed, FileTypes, store, locals, fileHistory
<1>3. QED
  BY <1>1, <1>2, QuietRead DEF BeforeEntry

LEMMA FinishReadBudget ==
    ASSUME BudgetInv, NEW t \in Readers, FinishRead(t), FreshInv', Alone(t), entries' = entries,
           bytes' = bytes, step[t] \in {"touch", "open", "statNew"}
    PROVE  BudgetInv'
<1>1. /\ step'[t] = "idle" /\ file'[t] = None /\ owed' = owed
      /\ overlapped' = overlapped /\ collided' = collided
  BY DEF FinishRead, Proceed, BudgetInv, FreshInv, FileTypes
<1>2. QED
  BY <1>1, QuietRead DEF BeforeEntry

LEMMA TouchBudget == ASSUME BudgetInv, NEW t \in Readers, Touch(t) PROVE BudgetInv'
<1>1. FreshInv' /\ Alone(t)
  BY TouchFresh DEF BudgetInv
<1>2. FinishRead(t) /\ entries' = entries /\ bytes' = bytes /\ step[t] = "touch"
  BY DEF Touch
<1>3. QED
  BY <1>1, <1>2, FinishReadBudget

LEMMA OpenBudget == ASSUME BudgetInv, NEW t \in Readers, Open(t) PROVE BudgetInv'
<1>1. FreshInv' /\ Alone(t) /\ FileTypes
  BY OpenFresh DEF BudgetInv, FreshInv
<1>2. entries' = entries /\ bytes' = bytes /\ step[t] = "open"
  BY DEF Open, store
<1>3. CASE FinishRead(t)
  BY <1>1, <1>2, <1>3, FinishReadBudget
<1>4. CASE ~FinishRead(t)
  <2>1. /\ step'[t] = "statNew" /\ file' = file /\ owed' = owed
        /\ overlapped' = overlapped /\ collided' = collided
    BY <1>1, <1>4 DEF Open, Proceed, FileTypes, fileHistory
  <2>2. QED
    BY <1>1, <1>2, <2>1, QuietRead DEF BeforeEntry
<1>5. QED
  BY <1>3, <1>4

LEMMA StatNewBudget == ASSUME BudgetInv, NEW t \in Readers, StatNew(t) PROVE BudgetInv'
<1>1. FreshInv' /\ Alone(t) /\ FileTypes
  BY StatNewFresh DEF BudgetInv, FreshInv
<1>2. entries' = entries /\ bytes' = bytes /\ step[t] = "statNew"
  BY DEF StatNew, store
<1>3. CASE FinishRead(t)
  BY <1>1, <1>2, <1>3, FinishReadBudget
<1>4. CASE ~FinishRead(t)
  <2>1. /\ step'[t] = "charge" /\ file' = file /\ owed' = owed
        /\ overlapped' = overlapped /\ collided' = collided
    BY <1>1, <1>4 DEF StatNew, Proceed, FileTypes, fileHistory
  <2>2. QED
    BY <1>1, <1>2, <2>1, QuietRead DEF BeforeEntry
<1>5. QED
  BY <1>3, <1>4

\* Nothing is charged for an entry that is not there.
LEMMA ChargeBudget == ASSUME BudgetInv, NEW t \in Readers, Charge(t) PROVE BudgetInv'
<1>1. FreshInv' /\ Alone(t) /\ FileTypes
  BY ChargeFresh DEF BudgetInv, FreshInv
<1>2. /\ step[t] = "charge" /\ step'[t] = "fit" /\ file' = file /\ entries' = entries /\ owed' = owed
      /\ overlapped' = overlapped /\ collided' = collided
      /\ bytes' = bytes - EntrySize(entries[file[t]])
  BY <1>1 DEF Charge, Proceed, FileTypes, locals, fileHistory
<1>3. /\ file[t] \in Files
      /\ ~collided => \A u \in Readers \ {t} : file[u] # file[t]
      /\ ~collided => entries[file[t]] = None
  BY <1>2, OwnFile DEF BeforeEntry
<1>4. EntrySize(entries[file[t]]) \in Nat /\ bytes \in Int
  BY <1>1, <1>3, SizesAreNumbers DEF FileTypes
<1>5. bytes' <= bytes /\ (~collided' => bytes' = bytes /\ ~collided)
  BY <1>2, <1>3, <1>4 DEF EntrySize
<1>6. QED
  BY <1>1, <1>2, <1>3, <1>5, QuietStep

\* Bytes that a step moves between the entries, those popped and those to be added.
LEMMA CountMoves ==
    ASSUME Counted, FreshInv, FreshInv', NEW t \in Readers, Alone(t), NEW f \in Files,
           \A g \in Files \ {f} : entries'[g] = entries[g],
           bytes' + Pending'[t] - EntrySize(entries[f])' - owed'[t]
              = bytes + Pending[t] - EntrySize(entries[f]) - owed[t]
    PROVE  Counted'
<1>1. FileTypes /\ FileTypes' /\ \A u \in Readers \ {t} : Same(u)
  BY DEF FreshInv, Alone
<1>2. PICK cached, cachedNew, pending, pendingNew, debt, debtNew :
          /\ cached = Cached /\ cachedNew = Cached' /\ pending = Pending /\ pendingNew = Pending'
          /\ debt = owed /\ debtNew = owed'
  OBVIOUS
<1>3. /\ cached[f] = EntrySize(entries[f]) /\ cachedNew[f] = EntrySize(entries[f])'
      /\ \A g \in Files \ {f} : cachedNew[g] = cached[g]
  BY <1>2 DEF Cached, EntrySize
<1>4. cached[f] \in Nat /\ cachedNew[f] \in Nat
  <2>1. EntrySize(entries[f]) \in Nat
    BY <1>1, SizesAreNumbers
  <2>2. EntrySize(entries[f])' \in Nat
    BY <1>1 DEF FileTypes, EntrySize, Entries
  <2>3. QED
    BY <1>3, <2>1, <2>2
<1>5. \A u \in Readers \ {t} : pendingNew[u] = pending[u] /\ debtNew[u] = debt[u]
  BY <1>1, <1>2 DEF Pending, Same
<1>6. debt[t] \in Nat /\ debtNew[t] \in Nat
  BY <1>1, <1>2 DEF FileTypes
<1>7. pending[t] \in Nat /\ pendingNew[t] \in Nat
  <2>1. pending[t] \in Nat
    BY <1>2 DEF Pending, FreshInv, Carries, Loading
  <2>2. pendingNew[t] \in Nat
    BY <1>2 DEF Pending, FreshInv, Carries, Loading
  <2>3. QED
    BY <2>1, <2>2
<1>8. /\ IsFiniteSet(Places(Files, cached)) /\ IsFiniteSet(Places(Readers, pending))
      /\ IsFiniteSet(Places(Readers, debt))
      /\ bytes + Cardinality(Places(Readers, pending))
            = Cardinality(Places(Files, cached)) + Cardinality(Places(Readers, debt))
  BY <1>2 DEF Counted
<1>9. /\ IsFiniteSet(Places(Files, cachedNew))
      /\ Cardinality(Places(Files, cachedNew))
            = Cardinality(Places(Files, cached)) - cached[f] + cachedNew[f]
      /\ Cardinality(Places(Files, cachedNew)) \in Nat /\ Cardinality(Places(Files, cached)) \in Nat
  BY <1>3, <1>4, <1>8, PlacesChange
<1>10. /\ IsFiniteSet(Places(Readers, pendingNew))
       /\ Cardinality(Places(Readers, pendingNew))
             = Cardinality(Places(Readers, pending)) - pending[t] + pendingNew[t]
       /\ Cardinality(Places(Readers, pendingNew)) \in Nat
       /\ Cardinality(Places(Readers, pending)) \in Nat
  BY <1>5, <1>7, <1>8, PlacesChange
<1>11. /\ IsFiniteSet(Places(Readers, debtNew))
       /\ Cardinality(Places(Readers, debtNew))
             = Cardinality(Places(Readers, debt)) - debt[t] + debtNew[t]
       /\ Cardinality(Places(Readers, debtNew)) \in Nat /\ Cardinality(Places(Readers, debt)) \in Nat
  BY <1>5, <1>6, <1>8, PlacesChange
<1>12. bytes' + Cardinality(Places(Readers, pendingNew))
          = Cardinality(Places(Files, cachedNew)) + Cardinality(Places(Readers, debtNew))
  <2>1. bytes' + pendingNew[t] - cachedNew[f] - debtNew[t]
           = bytes + pending[t] - cached[f] - debt[t]
    BY <1>2, <1>3
  <2>2. bytes \in Int /\ bytes' \in Int
    BY <1>1 DEF FileTypes
  <2>3. QED
    BY <1>4, <1>6, <1>7, <1>8, <1>9, <1>10, <1>11, <2>1, <2>2
<1>13. /\ Places(Files, Cached)' = Places(Files, cachedNew)
       /\ Places(Readers, Pending)' = Places(Readers, pendingNew)
       /\ Places(Readers, owed)' = Places(Readers, debtNew)
  BY <1>2 DEF Places
<1>14. QED
  BY <1>9, <1>10, <1>11, <1>12, <1>13 DEF Counted

\* What is popped is owed: the count is right, and does not grow.
LEMMA PopBudget ==
    ASSUME BudgetInv, NEW t \in Readers, NEW f \in Files, NEW label, Pop(t, f), Proceed(t, label),
           \/ step[t] = "evict" /\ label = "settle" /\ f = file[t]
           \/ step[t] = "fit" /\ label = "settleFit",
           UNCHANGED <<external, file, entry, content, mtime, reads, fileHistory>>
    PROVE  BudgetInv'
<1>1. FreshInv' /\ Alone(t) /\ FreshInv /\ FileTypes
  BY PopFresh DEF BudgetInv, FreshInv
<1>2. /\ step'[t] = label /\ label \in {"settle", "settleFit"} /\ step[t] \in {"evict", "fit"}
      /\ owed[t] = 0 /\ owed'[t] = EntrySize(entries[f]) /\ bytes' = bytes /\ file' = file
      /\ entries'[f] = None /\ \A g \in Files \ {f} : entries'[g] = entries[g]
      /\ overlapped' = overlapped /\ collided' = collided
  BY <1>1 DEF FreshInv, Carries, FileTypes, Pop, Proceed, fileHistory
<1>3. file[t] \in Files /\ (~collided => \A u \in Readers \ {t} : file[u] # file[t])
  BY <1>2, OwnFile
<1>4. \A g \in Files : entries[g] = None => entries'[g] = None
  BY <1>2
<1>5. ASSUME ~collided', NEW u \in Readers, step'[u] \in BeforeEntry
      PROVE  entries'[file'[u]] = None
  <2>1. CASE u = t
    <3>1. CASE step[t] = "evict"
      BY <1>2, <2>1, <3>1
    <3>2. CASE step[t] = "fit"
      <4>1. entries[file[t]] = None
        BY <1>2, <1>5, <3>2, OwnFile DEF BeforeEntry
      <4>2. QED
        BY <1>2, <1>3, <1>4, <2>1, <4>1
    <3>3. QED
      BY <1>2, <3>1, <3>2
  <2>2. CASE u # t
    BY <1>1, <1>2, <1>4, <1>5, <2>2, EntriesAbsent
  <2>3. QED
    BY <2>1, <2>2
<1>6. ASSUME ~collided' PROVE Counted'
  <2>1. EntrySize(entries[f]) \in Nat /\ EntrySize(entries[f])' = 0
    BY <1>1, <1>2, SizesAreNumbers DEF EntrySize
  <2>2. Pending[t] = 0 /\ Pending'[t] = 0
    BY <1>2 DEF Pending
  <2>3. bytes \in Int
    BY <1>1 DEF FileTypes
  <2>4. bytes' + Pending'[t] - EntrySize(entries[f])' - owed'[t]
           = bytes + Pending[t] - EntrySize(entries[f]) - owed[t]
    BY <1>2, <2>1, <2>2, <2>3
  <2>5. Counted
    BY <1>2, <1>6 DEF BudgetInv, NotCollided
  <2>6. QED
    BY <1>1, <1>2, <2>4, <2>5, CountMoves
<1>7. ASSUME ~overlapped' PROVE NotOverlapped'
  <2>1. NotOverlapped
    BY <1>2, <1>7 DEF BudgetInv
  <2>2. content' = content /\ \A u \in Readers \ {t} : step'[u] = step[u]
    BY <1>1 DEF Alone, Same
  <2>3. \A u \in Readers : step'[u] \in {"insert", "add"} => step[u] \in {"insert", "add"}
    BY <1>2, <2>2
  <2>4. QED
    BY <1>2, <2>1, <2>2, <2>3 DEF NotOverlapped
<1>8. QED
  BY <1>1, <1>2, <1>3, <1>5, <1>6, <1>7, BudgetStep

LEMMA EvictBudget == ASSUME BudgetInv, NEW t \in Readers, Evict(t) PROVE BudgetInv'
<1>1. file[t] \in Files
  BY DEF BudgetInv, FreshInv, FileTypes, Carries, Evict
<1>2. PICK f \in Files : f = file[t]
  BY <1>1
<1>3. step[t] = "evict" /\ Pop(t, f) /\ Proceed(t, "settle")
  BY <1>2 DEF Evict
<1>4. UNCHANGED <<external, file, entry, content, mtime, reads, fileHistory>>
  BY DEF Evict
<1>5. QED
  BY <1>2, <1>3, <1>4, PopBudget

LEMMA EvictOldestBudget == ASSUME BudgetInv, NEW t \in Readers, EvictOldest(t) PROVE BudgetInv'
<1>1. order \in Seq(Files) /\ order # <<>>
  BY DEF BudgetInv, FreshInv, FileTypes, EvictOldest
<1>2. PICK f \in Files : f = Head(order)
  BY <1>1
<1>3. step[t] = "fit" /\ Pop(t, f) /\ Proceed(t, "settleFit")
  BY <1>2 DEF EvictOldest
<1>4. UNCHANGED <<external, file, entry, content, mtime, reads, fileHistory>>
  BY DEF EvictOldest
<1>5. QED
  BY <1>2, <1>3, <1>4, PopBudget

LEMMA SettleBudget == ASSUME BudgetInv, NEW t \in Readers, Settle(t) PROVE BudgetInv'
<1>1. FreshInv' /\ Alone(t) /\ FreshInv /\ FileTypes
  BY SettleFresh DEF BudgetInv, FreshInv
<1>2. /\ step[t] \in {"settle", "settleFit"} /\ step'[t] \in {"open", "fit"}
      /\ owed[t] \in Nat /\ owed'[t] = 0 /\ bytes' = bytes - owed[t] /\ bytes \in Int
      /\ file' = file /\ entries' = entries /\ content' = content
      /\ overlapped' = overlapped /\ collided' = collided
  BY <1>1 DEF FileTypes, Settle, Proceed, fileHistory
<1>3. file[t] \in Files /\ (~collided => \A u \in Readers \ {t} : file[u] # file[t])
  BY <1>2, OwnFile
<1>4. ASSUME ~collided', NEW u \in Readers, step'[u] \in BeforeEntry
      PROVE  entries'[file'[u]] = None
  <2>1. CASE u = t
    BY <1>2, <1>4, <2>1, OwnFile DEF BeforeEntry
  <2>2. CASE u # t
    BY <1>1, <1>2, <1>4, <2>2, EntriesAbsent
  <2>3. QED
    BY <2>1, <2>2
<1>5. ASSUME ~collided' PROVE Counted'
  <2>1. PICK f \in Files : f = file[t]
    BY <1>3
  <2>2. EntrySize(entries[f])' = EntrySize(entries[f]) /\ EntrySize(entries[f]) \in Nat
    BY <1>1, <1>2, SizesAreNumbers DEF EntrySize
  <2>3. Pending[t] = 0 /\ Pending'[t] = 0
    BY <1>2 DEF Pending
  <2>4. bytes' + Pending'[t] - EntrySize(entries[f])' - owed'[t]
           = bytes + Pending[t] - EntrySize(entries[f]) - owed[t]
    BY <1>2, <2>2, <2>3
  <2>5. Counted /\ \A g \in Files \ {f} : entries'[g] = entries[g]
    BY <1>2, <1>5 DEF BudgetInv, NotCollided
  <2>6. QED
    BY <1>1, <2>4, <2>5, CountMoves
<1>6. ASSUME ~overlapped' PROVE NotOverlapped'
  <2>1. NotOverlapped
    BY <1>2, <1>6 DEF BudgetInv
  <2>2. \A u \in Readers \ {t} : step'[u] = step[u]
    BY <1>1 DEF Alone, Same
  <2>3. \A u \in Readers : step'[u] \in {"insert", "add"} => step[u] \in {"insert", "add"}
    BY <1>2, <2>2
  <2>4. bytes' <= bytes /\ bytes' \in Int
    BY <1>2
  <2>5. bytes' <= MaxBytes
    BY <1>2, <2>1, <2>4 DEF NotOverlapped
  <2>6. ASSUME NEW u \in Readers, step'[u] \in {"insert", "add"}
        PROVE  bytes' + SizeOf[content'[u]] <= MaxBytes
    <3>1. step[u] \in {"insert", "add"}
      BY <2>3, <2>6
    <3>2. bytes + SizeOf[content[u]] <= MaxBytes
      BY <2>1, <3>1 DEF NotOverlapped
    <3>3. SizeOf[content[u]] \in Nat
      BY <1>1, <3>1, SizesAreNumbers DEF FreshInv, Carries, Loading
    <3>4. QED
      BY <1>2, <2>4, <3>2, <3>3
  <2>7. QED
    BY <2>1, <2>3, <2>5, <2>6 DEF NotOverlapped
<1>7. QED
  BY <1>1, <1>2, <1>3, <1>4, <1>5, <1>6, BudgetStep

\* The check of the budget.
LEMMA FitBudget == ASSUME BudgetInv, NEW t \in Readers, Fit(t) PROVE BudgetInv'
<1>1. FreshInv' /\ Alone(t) /\ FreshInv /\ FileTypes
  BY FitFresh DEF BudgetInv, FreshInv
<1>2. /\ step[t] = "fit" /\ step'[t] = "insert" /\ owed' = owed /\ bytes' = bytes
      /\ file' = file /\ entries' = entries /\ content' = content /\ collided' = collided
      /\ overlapped' = \E u \in Readers \ {t} : step[u] \in {"insert", "add"}
      /\ bytes + SizeOf[content[t]] <= MaxBytes
  BY <1>1 DEF FileTypes, Fit, Fits, Proceed, store, locals, external
<1>3. ~collided => \A u \in Readers \ {t} : file[u] # file[t]
  BY <1>2, OwnFile
<1>4. ASSUME ~collided', NEW u \in Readers, step'[u] \in BeforeEntry
      PROVE  entries'[file'[u]] = None
  <2>1. CASE u = t
    BY <1>2, <1>4, <2>1, OwnFile DEF BeforeEntry
  <2>2. CASE u # t
    BY <1>1, <1>2, <1>4, <2>2, EntriesAbsent
  <2>3. QED
    BY <2>1, <2>2
<1>5. ASSUME ~collided' PROVE Counted'
  <2>1. Counted
    BY <1>2, <1>5 DEF BudgetInv, NotCollided
  <2>2. QED
    BY <1>1, <1>2, <2>1, CountStays
<1>6. ASSUME ~overlapped' PROVE NotOverlapped'
  <2>1. \A u \in Readers \ {t} : step'[u] \notin {"insert", "add"}
    BY <1>1, <1>2, <1>6 DEF Alone, Same
  <2>2. SizeOf[content[t]] \in Nat /\ bytes \in Int
    BY <1>1, <1>2, SizesAreNumbers DEF FileTypes, FreshInv, Carries, Loading
  <2>3. bytes' <= MaxBytes
    BY <1>2, <2>2
  <2>4. QED
    BY <1>2, <2>1, <2>3 DEF NotOverlapped
<1>7. QED
  BY <1>1, <1>2, <1>3, <1>4, <1>5, <1>6, BudgetStep

\* A new entry is in the files' bytes, and pending until it is counted.
LEMMA InsertEntryBudget == ASSUME BudgetInv, NEW t \in Readers, InsertEntry(t) PROVE BudgetInv'
<1>1. FreshInv' /\ Alone(t) /\ FreshInv /\ FileTypes
  BY InsertEntryFresh DEF BudgetInv, FreshInv
<1>2. /\ step[t] = "insert" /\ step'[t] = "add" /\ owed' = owed /\ bytes' = bytes
      /\ file' = file /\ content' = content
      /\ overlapped' = overlapped /\ collided' = collided
  BY <1>1 DEF FileTypes, InsertEntry, Proceed, locals, fileHistory
<1>3. /\ file[t] \in Files /\ (~collided => \A u \in Readers \ {t} : file[u] # file[t])
      /\ ~collided => entries[file[t]] = None
  BY <1>2, OwnFile DEF BeforeEntry
<1>4. PICK f \in Files : f = file[t]
  BY <1>3
<1>5. /\ entries'[f] = [content |-> content[t], mtime |-> mtime[t]] /\ entries'[f] # None
      /\ entries'[f].content = content[t]
      /\ \A g \in Files \ {f} : entries'[g] = entries[g]
  <2>1. entries'[f] = [content |-> content[t], mtime |-> mtime[t]]
    BY <1>1, <1>4 DEF InsertEntry, FileTypes
  <2>2. entries'[f] \in Entries
    BY <1>1, <1>2, <2>1 DEF FreshInv, Carries, Loading, Entries
  <2>3. \A g \in Files \ {f} : entries'[g] = entries[g]
    BY <1>1, <1>4 DEF InsertEntry, FileTypes
  <2>4. QED
    BY <2>1, <2>2, <2>3
<1>6. ASSUME ~collided', NEW u \in Readers, step'[u] \in BeforeEntry
      PROVE  entries'[file'[u]] = None
  <2>1. u # t
    BY <1>2, <1>6 DEF BeforeEntry
  <2>2. QED
    BY <1>1, <1>2, <1>4, <1>5, <1>6, <2>1, EntriesAbsent
<1>7. ASSUME ~collided' PROVE Counted'
  <2>1. EntrySize(entries[f]) = 0 /\ EntrySize(entries[f])' = SizeOf[content[t]]
    BY <1>2, <1>3, <1>4, <1>5, <1>7 DEF EntrySize
  <2>2. Pending[t] = 0 /\ Pending'[t] = SizeOf[content[t]]
    BY <1>2 DEF Pending
  <2>3. bytes \in Int /\ SizeOf[content[t]] \in Nat /\ owed[t] \in Nat /\ owed'[t] = owed[t]
    BY <1>1, <1>2, SizesAreNumbers DEF FileTypes, FreshInv, Carries, Loading
  <2>4. bytes' + Pending'[t] - EntrySize(entries[f])' - owed'[t]
           = bytes + Pending[t] - EntrySize(entries[f]) - owed[t]
    BY <1>2, <2>1, <2>2, <2>3
  <2>5. Counted
    BY <1>2, <1>7 DEF BudgetInv, NotCollided
  <2>6. QED
    BY <1>1, <1>5, <2>4, <2>5, CountMoves
<1>8. ASSUME ~overlapped' PROVE NotOverlapped'
  <2>1. NotOverlapped
    BY <1>2, <1>8 DEF BudgetInv
  <2>2. \A u \in Readers \ {t} : step'[u] = step[u]
    BY <1>1 DEF Alone, Same
  <2>3. \A u \in Readers : step'[u] \in {"insert", "add"} => step[u] \in {"insert", "add"}
    BY <1>2, <2>2
  <2>4. QED
    BY <1>2, <2>1, <2>3 DEF NotOverlapped
<1>9. QED
  BY <1>1, <1>2, <1>3, <1>6, <1>7, <1>8, BudgetStep

\* ... which it is now, within the budget.
LEMMA AddBudget == ASSUME BudgetInv, NEW t \in Readers, Add(t) PROVE BudgetInv'
<1>1. FreshInv' /\ Alone(t) /\ FreshInv /\ FileTypes
  BY AddFresh DEF BudgetInv, FreshInv
<1>2. /\ step[t] = "add" /\ step'[t] = "idle" /\ file'[t] = None /\ owed' = owed
      /\ bytes' = bytes + SizeOf[content[t]] /\ entries' = entries
      /\ overlapped' = overlapped /\ collided' = collided
  BY <1>1 DEF FileTypes, Add, FinishRead, Proceed
<1>3. bytes \in Int /\ SizeOf[content[t]] \in Nat /\ file[t] \in Files
  BY <1>1, <1>2, SizesAreNumbers, OwnFile DEF FileTypes, FreshInv, Carries, Loading
<1>4. ASSUME ~collided', NEW u \in Readers, step'[u] \in BeforeEntry
      PROVE  entries'[file'[u]] = None
  <2>1. u # t
    BY <1>2, <1>4 DEF BeforeEntry
  <2>2. QED
    BY <1>1, <1>2, <1>4, <2>1, EntriesAbsent
<1>5. ASSUME ~collided' PROVE Counted'
  <2>1. PICK f \in Files : f = file[t]
    BY <1>3
  <2>2. EntrySize(entries[f])' = EntrySize(entries[f]) /\ EntrySize(entries[f]) \in Nat
    BY <1>1, <1>2, SizesAreNumbers DEF EntrySize
  <2>3. Pending[t] = SizeOf[content[t]] /\ Pending'[t] = 0 /\ owed[t] \in Nat
    BY <1>1, <1>2 DEF Pending, FileTypes
  <2>4. bytes' + Pending'[t] - EntrySize(entries[f])' - owed'[t]
           = bytes + Pending[t] - EntrySize(entries[f]) - owed[t]
    BY <1>2, <1>3, <2>2, <2>3
  <2>5. Counted /\ \A g \in Files \ {f} : entries'[g] = entries[g]
    BY <1>2, <1>5 DEF BudgetInv, NotCollided
  <2>6. QED
    BY <1>1, <2>4, <2>5, CountMoves
<1>6. ASSUME ~overlapped' PROVE NotOverlapped'
  <2>1. NotOverlapped
    BY <1>2, <1>6 DEF BudgetInv
  <2>2. \A u \in Readers : step'[u] \notin {"insert", "add"}
    <3>1. SUFFICES ASSUME NEW u \in Readers, step'[u] \in {"insert", "add"} PROVE FALSE
      OBVIOUS
    <3>2. u # t /\ step[u] \in {"insert", "add"}
      BY <1>1, <1>2, <3>1 DEF Alone, Same
    <3>3. {step[u], step[t]} \subseteq {"insert", "add"}
      BY <1>2, <3>2
    <3>4. QED
      BY <2>1, <3>2, <3>3 DEF NotOverlapped
  <2>3. bytes' <= MaxBytes
    BY <1>2, <2>1 DEF NotOverlapped
  <2>4. QED
    BY <2>2, <2>3 DEF NotOverlapped
<1>7. QED
  BY <1>1, <1>2, <1>4, <1>5, <1>6, BudgetStep

LEMMA FileInitBudget == FileInit => BudgetInv
<1> SUFFICES ASSUME FileInit PROVE BudgetInv
  OBVIOUS
<1>1. FreshInv
  BY FileInitFresh
<1>2. Places(Files, Cached) = {} /\ Places(Readers, Pending) = {} /\ Places(Readers, owed) = {}
  <2>1. PICK cached, pending, debt : cached = Cached /\ pending = Pending /\ debt = owed
    OBVIOUS
  <2>2. /\ \A f \in Files : cached[f] = 0
        /\ \A t \in Readers : pending[t] = 0 /\ debt[t] = 0
    BY <2>1 DEF FileInit, Cached, Pending, EntrySize
  <2>3. Places(Files, cached) = {} /\ Places(Readers, pending) = {} /\ Places(Readers, debt) = {}
    BY <2>2, NoPlaces
  <2>4. QED
    BY <2>1, <2>3
<1>3. Counted
  BY <1>2, FS_EmptySet DEF Counted, FileInit
<1>4. NotCollided
  BY <1>3 DEF FileInit, NotCollided, BeforeEntry
<1>5. NotOverlapped
  BY DEF FileInit, NotOverlapped
<1>6. QED
  BY <1>1, <1>4, <1>5 DEF BudgetInv

CacheInv == BudgetInv /\ NewestIsNumber

\* The inductive invariant of the count of bytes.
THEOREM BudgetInvariant == FileSpec => []CacheInv
<1>1. FileInit => CacheInv
  BY FileInitBudget, FileInitNewest DEF CacheInv
<1>2. ASSUME CacheInv, [FileNext]_fileVars PROVE CacheInv'
  <2>1. ASSUME UNCHANGED <<store, step, locals, reads, collided, overlapped>>, FreshInv'
        PROVE  BudgetInv'
    BY <1>2, <2>1 DEF store, locals, CacheInv, BudgetInv, NotCollided, NotOverlapped, Counted,
       Places, Cached, Pending, EntrySize
  <2>2. CASE UNCHANGED fileVars
    <3>1. FreshInv' /\ NewestIsNumber'
      BY <1>2, <2>2 DEF fileVars, external, store, locals, fileHistory, CacheInv, BudgetInv,
         NewestIsNumber, FreshInv, FileTypes, EntriesDated, Carries, Knows, Dates
    <3>2. QED
      BY <2>1, <2>2, <3>1 DEF fileVars, fileHistory, CacheInv
  <2>3. ASSUME NEW t \in Readers, ReadStep(t) PROVE CacheInv'
    BY <1>2, <2>3, NewestStays, StatBudget, TouchBudget, EvictBudget, SettleBudget, OpenBudget,
       StatNewBudget, ChargeBudget, FitBudget, EvictOldestBudget, InsertEntryBudget, AddBudget
       DEF ReadStep, CacheInv, NewestIsNumber
  <2>4. ASSUME NEW t \in Readers, NEW f \in Files, NEW expired \in BOOLEAN, StartRead(t, f, expired)
        PROVE  CacheInv'
    BY <1>2, <2>4, NewestStays, StartReadBudget DEF CacheInv, NewestIsNumber
  <2>5. ASSUME NEW f \in Files, Rewrite(f) \/ Unlink(f) PROVE CacheInv'
    BY <1>2, <2>1, <2>5, OtherProgramsFresh DEF CacheInv, BudgetInv
  <2>6. QED
    BY <1>2, <2>2, <2>3, <2>4, <2>5 DEF FileNext
<1>3. QED
  BY <1>1, <1>2, PTL DEF FileSpec

\* Between reads, if no two threads have read one file at a time, the byte count is
\* that of the cached contents; and it is within the budget, unless the last two
\* insertions overlapped.
THEOREM CountIsRight == FileSpec => []BudgetIsKept
<1>1. ASSUME BudgetInv, AtRest, ~collided
      PROVE  bytes = Cardinality(CachedBytes) /\ (~overlapped => bytes <= MaxBytes)
  <2>1. Counted /\ FileTypes /\ \A t \in Readers : step[t] = "idle" /\ owed[t] = 0
    BY <1>1 DEF BudgetInv, NotCollided, FreshInv, Carries, AtRest
  <2>2. PICK pending, debt : pending = Pending /\ debt = owed
    OBVIOUS
  <2>3. \A t \in Readers : pending[t] = 0 /\ debt[t] = 0
    BY <2>1, <2>2 DEF Pending
  <2>4. Places(Readers, pending) = {} /\ Places(Readers, debt) = {}
    BY <2>3, NoPlaces
  <2>5. Places(Files, Cached) = CachedBytes
    BY DEF Places, Cached, CachedBytes
  <2>6. IsFiniteSet(CachedBytes) /\ bytes + Cardinality({}) = Cardinality(CachedBytes) + Cardinality({})
    BY <2>1, <2>2, <2>4, <2>5 DEF Counted
  <2>7. Cardinality({}) = 0 /\ Cardinality(CachedBytes) \in Nat /\ bytes \in Int
    BY <2>1, <2>6, FS_EmptySet, FS_CardinalityType DEF FileTypes
  <2>8. bytes = Cardinality(CachedBytes)
    BY <2>6, <2>7
  <2>9. QED
    BY <1>1, <2>8 DEF BudgetInv, NotOverlapped
<1>2. CacheInv => BudgetIsKept
  BY <1>1 DEF CacheInv, BudgetIsKept
<1>3. QED
  BY <1>2, BudgetInvariant, PTL

-----------------------------------------------------------------------------
(***************************************************************************)
(* FormatDetection                                                         *)
(*                                                                         *)
(* The breaker is the pair of fields under the detector's lock.  Whether   *)
(* it is closed says how the count stands only because no time that is     *)
(* left to an open circuit is mistaken for the closed one, which is what   *)
(* the types add.                                                          *)
(***************************************************************************)

CircuitTypes ==
    /\ circuit \in 0..ResetTime \cup {ClosedCircuit}
    /\ failures \in 0..FailureLimit

CircuitInv == CircuitTypes /\ CircuitFollowsFailures

USE DetectionAssumption

LEMMA CircuitInit == DetectionInit => CircuitInv
  BY DEF DetectionInit, CircuitInv, CircuitTypes, CircuitFollowsFailures

\* An open circuit keeps a time to wait; it is closed by PassGate alone, when that
\* has run out.
LEMMA CircuitTick == CircuitInv /\ DetectionTick => CircuitInv'
<1> SUFFICES ASSUME CircuitInv, DetectionTick PROVE CircuitInv'
  OBVIOUS
<1>1. CASE circuit \in {0, ClosedCircuit}
  BY <1>1 DEF DetectionTick, CircuitInv, CircuitTypes, CircuitFollowsFailures
<1>2. CASE circuit \notin {0, ClosedCircuit}
  <2>1. circuit' \in 0..ResetTime /\ failures' = failures
    BY <1>2 DEF DetectionTick, CircuitInv, CircuitTypes
  <2>2. QED
    BY <1>2, <2>1 DEF CircuitInv, CircuitTypes, CircuitFollowsFailures
<1>3. QED
  BY <1>1, <1>2

LEMMA CircuitStep == CircuitInv /\ [DetectionNext]_detectionVars => CircuitInv'
<1> SUFFICES ASSUME CircuitInv, [DetectionNext]_detectionVars PROVE CircuitInv'
  OBVIOUS
<1> USE DEF CircuitInv, CircuitTypes, CircuitFollowsFailures
<1>1. CASE UNCHANGED <<circuit, failures>>
  BY <1>1
<1>2. ASSUME NEW t \in Threads, PassGate(t) PROVE CircuitInv'
  BY <1>2 DEF PassGate
<1>3. ASSUME NEW t \in Threads, ResetCircuit(t) PROVE CircuitInv'
  BY <1>3 DEF ResetCircuit
<1>4. ASSUME NEW t \in Threads, DetectionFails(t) PROVE CircuitInv'
  <2>1. CASE failures + 1 >= FailureLimit
    BY <1>4, <2>1 DEF DetectionFails
  <2>2. CASE failures + 1 < FailureLimit
    BY <1>4, <2>2 DEF DetectionFails
  <2>3. QED
    BY <2>1, <2>2
<1>5. ASSUME NEW t \in Threads, NEW d \in Given, LookUp(t, d) PROVE UNCHANGED <<circuit, failures>>
  BY <1>5 DEF LookUp
<1>6. ASSUME NEW t \in Threads,
             \/ DropStamp(t) \/ MoveToEnd(t) \/ StampHit(t) \/ ReturnHit(t) \/ ReturnUnknown(t)
             \/ StoreResult(t) \/ StampNew(t) \/ Trim(t) \/ DropOldStamp(t) \/ CallerGoesOn(t)
      PROVE  UNCHANGED <<circuit, failures>>
  BY <1>6 DEF DropStamp, MoveToEnd, StampHit, ReturnHit, ReturnUnknown, StoreResult, StampNew,
              Trim, DropOldStamp, CallerGoesOn
<1>7. CASE UNCHANGED detectionVars
  BY <1>7 DEF detectionVars
<1>8. CASE DetectionTick
  BY <1>8, CircuitTick
<1>9. QED
  BY <1>1, <1>2, <1>3, <1>4, <1>5, <1>6, <1>7, <1>8 DEF DetectionNext

\* The circuit breaker of the format detector keeps its fields in range and in
\* step, however detections, hits and failures of its threads overlap.
THEOREM CircuitInvariant == DetectionSpec => []CircuitInv
<1>1. DetectionInit => CircuitInv
  BY CircuitInit
<1>2. CircuitInv /\ [DetectionNext]_detectionVars => CircuitInv'
  BY CircuitStep
<1>3. QED
  BY <1>1, <1>2, PTL DEF DetectionSpec

\* detect_format refuses to work exactly from the failure that reaches the
\* threshold until a call finds the reset time elapsed or another one succeeds.
THEOREM CircuitAgrees == DetectionSpec => []CircuitFollowsFailures
<1>1. CircuitInv => CircuitFollowsFailures
  BY DEF CircuitInv
<1>2. QED
  BY <1>1, CircuitInvariant, PTL

-----------------------------------------------------------------------------
(* The results.  A document whose entry has never been taken away under        *)
(* another thread is used or removed by what its threads say: whoever uses its *)
(* entry finds it, and whoever removes its stamp is alone with it.             *)

Stops == {"rest", "touch", "stamp", "return", "unstamp", "gate", "detect", "stampNew", "trim",
          "unstampOld", "settle", "reset", "raised"}
CallRecord == [at : Stops, doc : Given \cup {NoDocument}, key : Documents \cup {NoDocument}]

Storing == {t \in Threads : call[t].at \in {"stampNew", "trim"}}

ResultTypes ==
    /\ results \in Seq(Documents) /\ IsInjective(results)
    /\ DOMAIN stamps = Documents
    /\ \A d \in Documents : stamps[d] \in Nat \cup {NoStamp}
    /\ call \in [Threads -> CallRecord]
    /\ \A t \in Threads :
          /\ Using(t) \subseteq Documents /\ Removing(t) \subseteq Documents
          /\ ~At(t, "rest") => Doc(t) \in Given
          /\ At(t, "detect") => Doc(t) \in Documents \cup {LargeDocument}

ResultStands(d) ==
    /\ \A t \in Threads :
          /\ d \in Using(t) => d \in Results /\ \A u \in Threads : d \notin Removing(u)
          /\ d \in Removing(t) => d \notin Results /\ \A u \in Threads \ {t} : d \notin Removing(u)
          /\ At(t, "return") /\ Doc(t) = d => stamps[d] # NoStamp
    /\ (\A t \in Threads : d \notin Using(t) \cup Removing(t)) => (stamps[d] # NoStamp <=> d \in Results)

ResultsStand == \A d \in Documents \ crossed : ResultStands(d)

Room == IsFiniteSet(Storing) /\ Len(results) <= MaxResults + Cardinality(Storing)

Raised == \A t \in Threads : At(t, "raised") => Doc(t) \in crossed

ResultsInv == ResultTypes /\ ResultsStand /\ Room /\ Raised

\* One thread moves.
MovesTo(t, where, d, k) == call' = [call EXCEPT ![t] = [at |-> where, doc |-> d, key |-> k]]

LEMMA GoesMoves ==
    ASSUME ResultTypes, NEW t \in Threads, NEW where, Goes(t, where)
    PROVE  MovesTo(t, where, Doc(t), call[t].key)
<1>1. call[t] = [at |-> call[t].at, doc |-> call[t].doc, key |-> call[t].key]
  BY DEF ResultTypes, CallRecord
<1>2. [call[t] EXCEPT !.at = where] = [at |-> where, doc |-> call[t].doc, key |-> call[t].key]
  BY <1>1
<1>3. QED
  BY <1>2 DEF Goes, MovesTo, Doc

LEMMA Moved ==
    ASSUME ResultTypes, NEW t \in Threads, NEW where \in Stops, NEW d \in Given \cup {NoDocument},
           NEW k \in Documents \cup {NoDocument}, MovesTo(t, where, d, k)
    PROVE  /\ call' \in [Threads -> CallRecord]
           /\ call'[t] = [at |-> where, doc |-> d, key |-> k]
           /\ \A u \in Threads \ {t} : call'[u] = call[u]
<1>1. [at |-> where, doc |-> d, key |-> k] \in CallRecord
  BY DEF CallRecord
<1>2. QED
  BY <1>1 DEF ResultTypes, MovesTo

\* What a thread uses and removes where it has come, and what the others do.
LEMMA UsesThere ==
    ASSUME NEW t \in Threads, NEW where, NEW d, NEW k, call'[t] = [at |-> where, doc |-> d, key |-> k]
    PROVE  /\ call'[t].at = where /\ call'[t].doc = d /\ call'[t].key = k
           /\ Using(t)' = IF where \in {"touch", "stamp", "return", "stampNew"} THEN {d} ELSE {}
           /\ Removing(t)' = IF where \in {"unstamp", "unstampOld"} THEN {k} ELSE {}
  BY DEF Using, Removing, At, Doc

LEMMA UsesOthers ==
    ASSUME NEW u \in Threads, call'[u] = call[u]
    PROVE  Using(u)' = Using(u) /\ Removing(u)' = Removing(u)
  BY DEF Using, Removing, At, Doc

\* The types after a step, which say what a thread may use and remove.
LEMMA MovedTypes ==
    ASSUME ResultTypes, NEW t \in Threads, NEW where \in Stops, NEW d \in Given \cup {NoDocument},
           NEW k \in Documents \cup {NoDocument}, MovesTo(t, where, d, k),
           where \in {"touch", "stamp", "return", "stampNew"} => d \in Documents,
           where \in {"unstamp", "unstampOld"} => k \in Documents,
           where # "rest" => d \in Given, where = "detect" => d \in Documents \cup {LargeDocument},
           results' \in Seq(Documents), IsInjective(results'),
           DOMAIN stamps' = Documents, \A e \in Documents : stamps'[e] \in Nat \cup {NoStamp}
    PROVE  ResultTypes'
<1>1. /\ call' \in [Threads -> CallRecord]
      /\ call'[t] = [at |-> where, doc |-> d, key |-> k]
      /\ \A u \in Threads \ {t} : call'[u] = call[u]
  BY Moved
<1>2. ASSUME NEW u \in Threads
      PROVE  /\ Using(u)' \subseteq Documents /\ Removing(u)' \subseteq Documents
             /\ ~At(u, "rest")' => Doc(u)' \in Given
             /\ At(u, "detect")' => Doc(u)' \in Documents \cup {LargeDocument}
  <2>1. CASE u = t
    BY <1>1, <2>1 DEF Using, Removing, At, Doc
  <2>2. CASE u # t
    BY <1>1, <2>2, UsesOthers DEF ResultTypes, At, Doc
  <2>3. QED
    BY <2>1, <2>2
<1>3. QED
  BY <1>1, <1>2 DEF ResultTypes

\* A document to which the step does nothing.
LEMMA EntryKept ==
    ASSUME NEW d \in Documents, ResultStands(d), NEW t \in Threads,
           \A u \in Threads \ {t} : call'[u] = call[u],
           d \in Using(t)' <=> d \in Using(t), d \in Removing(t)' <=> d \in Removing(t),
           (At(t, "return") /\ Doc(t) = d)' => (At(t, "return") /\ Doc(t) = d) \/ stamps'[d] # NoStamp,
           d \in Results' <=> d \in Results, stamps'[d] # NoStamp <=> stamps[d] # NoStamp
    PROVE  ResultStands(d)'
<1>1. \A u \in Threads : (d \in Using(u)' <=> d \in Using(u)) /\ (d \in Removing(u)' <=> d \in Removing(u))
  BY UsesOthers
<1>2. \A u \in Threads : (At(u, "return") /\ Doc(u) = d)' => stamps'[d] # NoStamp
  BY DEF ResultStands, At, Doc
<1>3. QED
  BY <1>1, <1>2 DEF ResultStands

\* The room for what is being stored, when one thread moves.
LEMMA RoomMoves ==
    ASSUME ResultTypes, ResultTypes', Room, NEW t \in Threads,
           \A u \in Threads \ {t} : call'[u] = call[u],
           \/ t \in Storing' /\ t \notin Storing /\ Len(results') <= Len(results) + 1
           \/ (t \in Storing' <=> t \in Storing) /\ Len(results') <= Len(results)
           \/ t \notin Storing' /\ (Len(results') <= Len(results) - 1 \/ Len(results') <= MaxResults)
    PROVE  Room'
<1>1. /\ t \in Storing' => Storing' = Storing \cup {t}
      /\ t \notin Storing' => Storing' = Storing \ {t}
  BY DEF Storing
<1>2. IsFiniteSet(Storing) /\ IsFiniteSet(Storing')
  <2>1. IsFiniteSet(Storing)
    BY DEF Room
  <2>2. IsFiniteSet(Storing \cup {t}) /\ IsFiniteSet(Storing \ {t})
    BY <2>1, FS_AddElement, FS_RemoveElement
  <2>3. QED
    BY <1>1, <2>1, <2>2
<1>3. Cardinality(Storing) \in Nat /\ Cardinality(Storing') \in Nat
  BY <1>2, FS_CardinalityType
<1>4. /\ t \in Storing' /\ t \notin Storing => Cardinality(Storing') = Cardinality(Storing) + 1
      /\ t \notin Storing' /\ t \in Storing => Cardinality(Storing') = Cardinality(Storing) - 1
      /\ (t \in Storing' <=> t \in Storing) => Cardinality(Storing') = Cardinality(Storing)
  <2>1. /\ t \notin Storing => Cardinality(Storing \cup {t}) = Cardinality(Storing) + 1
        /\ t \in Storing => Cardinality(Storing \ {t}) = Cardinality(Storing) - 1
        /\ t \in Storing => Storing \cup {t} = Storing
        /\ t \notin Storing => Storing \ {t} = Storing
    BY <1>2, OneElement
  <2>2. QED
    BY <1>1, <2>1
<1>5. Len(results) \in Nat /\ Len(results') \in Nat
  BY DEF ResultTypes
<1>6. Len(results') <= MaxResults + Cardinality(Storing')
  <2>1. Len(results) <= MaxResults + Cardinality(Storing) /\ MaxResults \in Nat
    BY DEF Room
  <2>2. CASE t \in Storing' /\ t \notin Storing /\ Len(results') <= Len(results) + 1
    BY <1>3, <1>4, <1>5, <2>1, <2>2
  <2>3. CASE (t \in Storing' <=> t \in Storing) /\ Len(results') <= Len(results)
    BY <1>3, <1>4, <1>5, <2>1, <2>3
  <2>4. CASE t \notin Storing' /\ Len(results') <= Len(results) - 1
    BY <1>3, <1>4, <1>5, <2>1, <2>4
  <2>5. CASE Len(results') <= MaxResults
    BY <1>3, <1>5, <2>1, <2>5
  <2>6. QED
    BY <2>2, <2>3, <2>4, <2>5
<1>7. QED
  BY <1>2, <1>6 DEF Room

\* The entry of e is there after the step, and nobody is removing it.
LEMMA EntryUsed ==
    ASSUME NEW e \in Documents, ResultStands(e), NEW t \in Threads,
           \A u \in Threads \ {t} : call'[u] = call[u] /\ e \notin Removing(u),
           e \notin Removing(t)', e \in Results',
           stamps[e] # NoStamp => stamps'[e] # NoStamp,
           e \notin Using(t)' \/ At(t, "return")' => stamps'[e] # NoStamp
    PROVE  ResultStands(e)'
<1>1. \A u \in Threads : e \notin Removing(u)'
  BY UsesOthers
<1>2. \A u \in Threads : (At(u, "return") /\ Doc(u) = e)' => stamps'[e] # NoStamp
  BY DEF ResultStands, At, Doc
<1>3. QED
  BY <1>1, <1>2 DEF ResultStands

\* It is taken out, and nobody else uses or removes it.
LEMMA EntryRemoved ==
    ASSUME NEW e \in Documents, NEW t \in Threads,
           \A u \in Threads \ {t} : call'[u] = call[u] /\ e \notin Using(u) \cup Removing(u),
           e \notin Using(t)', e \notin Results',
           e \in Removing(t)' \/ stamps'[e] = NoStamp
    PROVE  ResultStands(e)'
<1>1. \A u \in Threads \ {t} : e \notin Using(u)' \cup Removing(u)'
  BY UsesOthers
<1>2. \A u \in Threads : (At(u, "return") /\ Doc(u) = e)' => e \in Using(u)'
  BY DEF At, Doc, Using
<1>3. QED
  BY <1>1, <1>2 DEF ResultStands

\* A step of one thread that matters to one document, or to none.
LEMMA StepOn ==
    ASSUME ResultsInv, NEW t \in Threads, NEW where \in Stops, NEW d \in Given \cup {NoDocument},
           NEW k \in Documents \cup {NoDocument}, MovesTo(t, where, d, k), NEW e,
           where \in {"touch", "stamp", "return", "stampNew"} => d \in Documents,
           where \in {"unstamp", "unstampOld"} => k \in Documents,
           where # "rest" => d \in Given, where = "detect" => d \in Documents \cup {LargeDocument},
           results' \in Seq(Documents), IsInjective(results'),
           DOMAIN stamps' = Documents, \A x \in Documents : stamps'[x] \in Nat \cup {NoStamp},
           \A x \in Documents \ {e} :
              /\ x \in Using(t)' <=> x \in Using(t)
              /\ x \in Removing(t)' <=> x \in Removing(t)
              /\ x \in Results' <=> x \in Results
              /\ stamps'[x] # NoStamp <=> stamps[x] # NoStamp,
           where = "return" => d = e,
           crossed \subseteq crossed', e \in Documents \ crossed' => ResultStands(e)',
           \/ t \in Storing' /\ t \notin Storing /\ Len(results') <= Len(results) + 1
           \/ (t \in Storing' <=> t \in Storing) /\ Len(results') <= Len(results)
           \/ t \notin Storing' /\ (Len(results') <= Len(results) - 1 \/ Len(results') <= MaxResults),
           where = "raised" => d \in crossed'
    PROVE  ResultsInv'
<1>1. ResultTypes
  BY DEF ResultsInv
<1>2. /\ call'[t] = [at |-> where, doc |-> d, key |-> k]
      /\ \A u \in Threads \ {t} : call'[u] = call[u]
  BY <1>1, Moved
<1>3. ResultTypes'
  BY <1>1, MovedTypes
<1>4. Room'
  BY <1>1, <1>2, <1>3, RoomMoves DEF ResultsInv
<1>5. ASSUME NEW x \in Documents \ crossed' PROVE ResultStands(x)'
  <2>1. CASE x # e
    <3>1. ResultStands(x)
      BY DEF ResultsInv, ResultsStand
    <3>2. ~(At(t, "return") /\ Doc(t) = x)'
      BY <1>2, <2>1 DEF At, Doc
    <3>3. QED
      BY <1>2, <2>1, <3>1, <3>2, EntryKept
  <2>2. QED
    BY <2>1
<1>6. Raised'
  <2>1. ASSUME NEW u \in Threads, At(u, "raised")' PROVE Doc(u)' \in crossed'
    <3>1. CASE u = t
      BY <1>2, <2>1, <3>1 DEF At, Doc
    <3>2. CASE u # t
      BY <1>2, <2>1, <3>2 DEF At, Doc, ResultsInv, Raised
    <3>3. QED
      BY <3>1, <3>2
  <2>2. QED
    BY <2>1 DEF Raised
<1>7. QED
  BY <1>3, <1>4, <1>5, <1>6 DEF ResultsInv, ResultsStand

\* A step that matters to none.
LEMMA PlainStep ==
    ASSUME ResultsInv, NEW t \in Threads, NEW where \in Stops, NEW d \in Given \cup {NoDocument},
           NEW k \in Documents \cup {NoDocument}, MovesTo(t, where, d, k),
           where \notin {"touch", "return", "unstamp", "unstampOld", "raised"},
           Using(t) = IF where \in {"stamp", "stampNew"} THEN {d} ELSE {}, Removing(t) = {},
           where # "rest" => d \in Given, where = "detect" => d \in Documents \cup {LargeDocument},
           UNCHANGED <<stamps, crossed>>, Results' = Results,
           results' \in Seq(Documents), IsInjective(results'), Len(results') <= Len(results),
           \/ where \in {"stampNew", "trim"} <=> t \in Storing
           \/ where \notin {"stampNew", "trim"} /\ Len(results') <= MaxResults
    PROVE  ResultsInv'
<1>1. ResultTypes
  BY DEF ResultsInv
<1>2. call'[t] = [at |-> where, doc |-> d, key |-> k]
  BY <1>1, Moved
<1>3. Using(t)' = Using(t) /\ Removing(t)' = Removing(t)
  BY <1>2, UsesThere
<1>4. t \in Storing' <=> where \in {"stampNew", "trim"}
  BY <1>2 DEF Storing
<1>5. where \in {"touch", "stamp", "return", "stampNew"} => d \in Documents
  BY <1>1 DEF ResultTypes
<1>6. /\ DOMAIN stamps' = Documents /\ \A x \in Documents : stamps'[x] \in Nat \cup {NoStamp}
      /\ NoDocument \notin Documents
  BY <1>1 DEF ResultTypes
<1>7. \A x \in Documents \ {NoDocument} :
         /\ x \in Using(t)' <=> x \in Using(t)
         /\ x \in Removing(t)' <=> x \in Removing(t)
         /\ x \in Results' <=> x \in Results
         /\ stamps'[x] # NoStamp <=> stamps[x] # NoStamp
  BY <1>3
<1>8. QED
  BY <1>4, <1>5, <1>6, <1>7, StepOn

LEMMA CircuitSteps ==
    ASSUME ResultsInv, NEW t \in Threads,
           \/ PassGate(t) \/ ReturnUnknown(t) \/ ResetCircuit(t) \/ DetectionFails(t)
           \/ CallerGoesOn(t)
    PROVE  ResultsInv'
<1>1. ResultTypes
  BY DEF ResultsInv
<1>2. /\ UNCHANGED <<results, stamps, crossed>>
      /\ call[t].at \in {"gate", "reset", "settle", "detect", "raised"}
  BY DEF PassGate, ReturnUnknown, ResetCircuit, DetectionFails, CallerGoesOn, At
<1>3. Using(t) = {} /\ Removing(t) = {} /\ t \notin Storing
  BY <1>2 DEF Using, Removing, At, Storing
<1>4. /\ results' \in Seq(Documents) /\ IsInjective(results') /\ Len(results') <= Len(results)
      /\ Results' = Results
  BY <1>1, <1>2 DEF ResultTypes, Results
<1>5. CASE call' = [call EXCEPT ![t] = NoCall]
  <2>1. MovesTo(t, "rest", NoDocument, NoDocument) /\ "rest" \in Stops
    BY <1>5 DEF MovesTo, NoCall, Stops
  <2>2. QED
    BY <1>2, <1>3, <1>4, <2>1, PlainStep
<1>6. CASE PassGate(t)
  <2>1. PICK where \in {"reset", "detect"} :
           Goes(t, where) /\ (where = "detect" => Doc(t) # EmptyDocument) /\ call[t].at = "gate"
    BY <1>6 DEF PassGate, At
  <2>2. where \in Stops /\ Doc(t) \in Given \cup {NoDocument} /\ call[t].key \in Documents \cup {NoDocument}
    BY <1>1 DEF Stops, ResultTypes, CallRecord, Doc
  <2>3. MovesTo(t, where, Doc(t), call[t].key)
    BY <1>1, <2>1, GoesMoves
  <2>4. Doc(t) \in Given /\ (where = "detect" => Doc(t) \in Documents \cup {LargeDocument})
    BY <1>1, <2>1 DEF ResultTypes, At, Given
  <2>5. QED
    BY <1>2, <1>3, <1>4, <2>1, <2>2, <2>3, <2>4, PlainStep
<1>7. QED
  BY <1>5, <1>6 DEF PassGate, ReturnUnknown, ResetCircuit, DetectionFails, CallerGoesOn

\* What the history tells of a document that is not in it.
LEMMA AloneWith ==
    ASSUME NEW t \in Threads, NEW e
    PROVE  /\ Removes(t, e) => /\ crossed \subseteq crossed'
                               /\ e \notin crossed' => \A u \in Threads \ {t} : e \notin Using(u) \cup Removing(u)
           /\ Uses(t, e) => /\ crossed \subseteq crossed'
                            /\ e \notin crossed' => \A u \in Threads \ {t} : e \notin Removing(u)
  BY DEF Removes, Uses

\* Where a call of detect_format goes first.
LEMMA LookUpMoves ==
    ASSUME NEW t \in Threads, NEW d \in Given, LookUp(t, d)
    PROVE  LET stale == d \in Results /\ stamps[d] # NoStamp /\ stamps[d] > ResultTTL
           IN  /\ d \notin Results => MovesTo(t, "gate", d, NoDocument) /\ UNCHANGED <<results, crossed>>
               /\ d \in Results /\ ~stale =>
                     MovesTo(t, "touch", d, NoDocument) /\ UNCHANGED <<results, crossed>>
               /\ stale => /\ MovesTo(t, "unstamp", d, d)
                           /\ results' = RemoveFirst(results, d) /\ Removes(t, d)
  BY DEF LookUp, MovesTo

LEMMA LookUpStep ==
    ASSUME ResultsInv, NEW t \in Threads, NEW d \in Given, LookUp(t, d)
    PROVE  ResultsInv'
<1> DEFINE stale == d \in Results /\ stamps[d] # NoStamp /\ stamps[d] > ResultTTL
<1>1. ResultTypes /\ At(t, "rest") /\ UNCHANGED stamps
  BY DEF ResultsInv, LookUp
<1>2. Using(t) = {} /\ Removing(t) = {} /\ t \notin Storing
  BY <1>1 DEF Using, Removing, At, Storing
<1>3. /\ results \in Seq(Documents) /\ IsInjective(results) /\ Len(results) \in Nat
      /\ DOMAIN stamps = Documents /\ \A x \in Documents : stamps[x] \in Nat \cup {NoStamp}
  BY <1>1 DEF ResultTypes
<1>4. {"gate", "unstamp", "touch"} \subseteq Stops /\ d \in Given \cup {NoDocument}
  BY DEF Stops
<1>5. CASE d \notin Results
  <2>1. MovesTo(t, "gate", d, NoDocument) /\ UNCHANGED <<results, crossed>>
    BY <1>5, LookUpMoves
  <2>2. Results' = Results
    BY <2>1 DEF Results
  <2>3. QED
    BY <1>1, <1>2, <1>3, <1>4, <2>1, <2>2, PlainStep
<1>6. CASE d \in Results /\ ~stale
  <2>1. MovesTo(t, "touch", d, NoDocument) /\ UNCHANGED <<results, crossed>>
    BY <1>6, LookUpMoves
  <2>2. Results' = Results /\ d \in Documents
    BY <1>3, <1>6, <2>1 DEF Results, ToSet
  <2>3. /\ call'[t] = [at |-> "touch", doc |-> d, key |-> NoDocument]
        /\ \A u \in Threads \ {t} : call'[u] = call[u]
    BY <1>1, <1>4, <2>1, Moved
  <2>4. Using(t)' = {d} /\ Removing(t)' = {} /\ t \notin Storing' /\ ~At(t, "return")'
    BY <2>3, UsesThere DEF Storing, At
  <2>5. d \notin crossed' => ResultStands(d)'
    <3>1. SUFFICES ASSUME d \notin crossed PROVE ResultStands(d)'
      BY <2>1
    <3>2. ResultStands(d)
      BY <2>2, <3>1 DEF ResultsInv, ResultsStand
    <3>3. \A u \in Threads : d \notin Removing(u)
      BY <1>6, <3>2 DEF ResultStands
    <3>4. QED
      BY <1>1, <1>6, <2>2, <2>3, <2>4, <3>2, <3>3, EntryUsed
  <2>6. \A x \in Documents \ {d} :
           /\ x \in Using(t)' <=> x \in Using(t)
           /\ x \in Removing(t)' <=> x \in Removing(t)
           /\ x \in Results' <=> x \in Results
           /\ stamps'[x] # NoStamp <=> stamps[x] # NoStamp
    BY <1>1, <1>2, <2>2, <2>4
  <2>7. QED
    BY SMTT(30), <1>1, <1>2, <1>3, <1>4, <2>1, <2>2, <2>4, <2>5, <2>6, StepOn
<1>7. CASE stale
  <2>1. MovesTo(t, "unstamp", d, d) /\ results' = RemoveFirst(results, d) /\ Removes(t, d)
    BY <1>7, LookUpMoves
  <2>2. /\ results' \in Seq(Documents) /\ IsInjective(results') /\ Len(results') <= Len(results)
        /\ Results' = Results \ {d} /\ d \in Documents
    <3>1. d \in Documents
      BY <1>3, <1>7 DEF Results, ToSet
    <3>2. QED
      BY <1>3, <2>1, <3>1, RemoveFirstShrinks, RemoveFirstOnce DEF Results
  <2>3. /\ call'[t] = [at |-> "unstamp", doc |-> d, key |-> d]
        /\ \A u \in Threads \ {t} : call'[u] = call[u]
    BY <1>1, <1>4, <2>1, <2>2, Moved
  <2>4. Using(t)' = {} /\ Removing(t)' = {d} /\ t \notin Storing'
    BY <2>3, UsesThere DEF Storing
  <2>5. crossed \subseteq crossed' /\ (d \notin crossed' => ResultStands(d)')
    <3>1. /\ crossed \subseteq crossed'
          /\ d \notin crossed' => \A u \in Threads \ {t} : d \notin Using(u) \cup Removing(u)
      BY <2>1, AloneWith
    <3>2. QED
      BY <2>2, <2>3, <2>4, <3>1, EntryRemoved
  <2>6. \A x \in Documents \ {d} :
           /\ x \in Using(t)' <=> x \in Using(t)
           /\ x \in Removing(t)' <=> x \in Removing(t)
           /\ x \in Results' <=> x \in Results
           /\ stamps'[x] # NoStamp <=> stamps[x] # NoStamp
    BY <1>1, <1>2, <2>2, <2>4
  <2>7. QED
    BY <1>1, <1>2, <1>3, <1>4, <2>1, <2>2, <2>4, <2>5, <2>6, StepOn
<1>8. QED
  BY <1>5, <1>6, <1>7

\* The two removals of a stamp.
LEMMA DropStampStep ==
    ASSUME ResultsInv, NEW t \in Threads, DropStamp(t) \/ DropOldStamp(t)
    PROVE  ResultsInv'
<1>0. PICK e : e = call[t].key
  OBVIOUS
<1>1. ResultTypes /\ UNCHANGED results /\ Removes(t, e) /\ stamps' = [stamps EXCEPT ![e] = NoStamp]
  BY <1>0 DEF ResultsInv, DropStamp, DropOldStamp
<1>2. PICK where \in {"gate", "settle"} :
         /\ call' = [call EXCEPT ![t].at = where, ![t].key = NoDocument]
         /\ call[t].at \in {"unstamp", "unstampOld"}
  BY DEF DropStamp, DropOldStamp, At
<1>3. MovesTo(t, where, Doc(t), NoDocument)
  <2>1. call[t] = [at |-> call[t].at, doc |-> call[t].doc, key |-> call[t].key]
    BY <1>1 DEF ResultTypes, CallRecord
  <2>2. [[call[t] EXCEPT !.at = where] EXCEPT !.key = NoDocument]
           = [at |-> where, doc |-> call[t].doc, key |-> NoDocument]
    <3>1. [call[t] EXCEPT !.at = where] = [at |-> where, doc |-> call[t].doc, key |-> call[t].key]
      BY <2>1
    <3>2. [[at |-> where, doc |-> call[t].doc, key |-> call[t].key] EXCEPT !.key = NoDocument]
             = [at |-> where, doc |-> call[t].doc, key |-> NoDocument]
      OBVIOUS
    <3>3. QED
      BY <3>1, <3>2
  <2>3. call' = [call EXCEPT ![t] = [[call[t] EXCEPT !.at = where] EXCEPT !.key = NoDocument]]
    BY <1>1, <1>2 DEF ResultTypes
  <2>4. QED
    BY <2>2, <2>3 DEF MovesTo, Doc
<1>4. /\ where \in Stops /\ Doc(t) \in Given /\ e \in Documents
      /\ Using(t) = {} /\ Removing(t) = {e} /\ t \notin Storing
  BY <1>0, <1>1, <1>2 DEF ResultTypes, Stops, At, Using, Removing, Storing
<1>5. /\ results \in Seq(Documents) /\ IsInjective(results) /\ Len(results) \in Nat /\ Results' = Results
      /\ DOMAIN stamps' = Documents /\ \A x \in Documents : stamps'[x] \in Nat \cup {NoStamp}
      /\ stamps'[e] = NoStamp /\ \A x \in Documents \ {e} : stamps'[x] = stamps[x]
  BY <1>1, <1>4 DEF ResultTypes, Results
<1>6. /\ call'[t] = [at |-> where, doc |-> Doc(t), key |-> NoDocument]
      /\ \A u \in Threads \ {t} : call'[u] = call[u]
  BY <1>1, <1>3, <1>4, Moved
<1>7. Using(t)' = {} /\ Removing(t)' = {} /\ t \notin Storing'
  BY <1>6, UsesThere DEF Storing
<1>8. crossed \subseteq crossed' /\ (e \notin crossed' => ResultStands(e)')
  <2>1. /\ crossed \subseteq crossed'
        /\ e \notin crossed' => \A u \in Threads \ {t} : e \notin Using(u) \cup Removing(u)
    BY <1>1, AloneWith
  <2>2. e \notin crossed' => e \notin Results
    BY <1>4, <2>1 DEF ResultsInv, ResultsStand, ResultStands
  <2>3. e \notin crossed' =>
           /\ \A u \in Threads \ {t} : call'[u] = call[u] /\ e \notin Using(u) \cup Removing(u)
           /\ e \notin Using(t)' /\ e \notin Results'
    BY <1>5, <1>6, <1>7, <2>1, <2>2
  <2>4. QED
    BY <1>4, <1>5, <2>1, <2>3, EntryRemoved
<1>9. \A x \in Documents \ {e} :
         /\ x \in Using(t)' <=> x \in Using(t)
         /\ x \in Removing(t)' <=> x \in Removing(t)
         /\ x \in Results' <=> x \in Results
         /\ stamps'[x] # NoStamp <=> stamps[x] # NoStamp
  BY <1>4, <1>5, <1>7
<1>10. QED
  BY <1>1, <1>3, <1>4, <1>5, <1>7, <1>8, <1>9, StepOn

\* A step of a thread that keeps what it was asked about.
LEMMA Asked ==
    ASSUME ResultTypes, NEW t \in Threads, ~At(t, "rest")
    PROVE  \E d \in Given, k \in Documents \cup {NoDocument} : d = Doc(t) /\ k = call[t].key
  BY DEF ResultTypes, CallRecord, Doc

\* The steps that find the entry of their document.
LEMMA HitSteps ==
    ASSUME ResultsInv, NEW t \in Threads, MoveToEnd(t) \/ StampHit(t) \/ ReturnHit(t)
    PROVE  ResultsInv'
<1>1. ResultTypes /\ call[t].at \in {"touch", "stamp", "return"} /\ ~At(t, "rest")
  BY DEF ResultsInv, MoveToEnd, StampHit, ReturnHit, At
<1>2. PICK d \in Given, k \in Documents \cup {NoDocument} : d = Doc(t) /\ k = call[t].key
  BY <1>1, Asked
<1>3. /\ Using(t) = {d} /\ Removing(t) = {} /\ t \notin Storing /\ d \in Documents
      /\ results \in Seq(Documents) /\ IsInjective(results) /\ Len(results) \in Nat
      /\ DOMAIN stamps = Documents /\ \A x \in Documents : stamps[x] \in Nat \cup {NoStamp}
  BY <1>1, <1>2 DEF ResultTypes, Using, Removing, At, Storing
<1>4. d \notin crossed => ResultStands(d) /\ d \in Results /\ \A u \in Threads : d \notin Removing(u)
  BY <1>3 DEF ResultsInv, ResultsStand, ResultStands
<1>5. {"stamp", "return", "reset", "raised"} \subseteq Stops /\ NoDocument \notin Documents
  BY DEF Stops
\* An entry that is gone.
<1>6. CASE Goes(t, "raised") /\ d \notin Results /\ UNCHANGED <<results, stamps, crossed>>
  <2>1. MovesTo(t, "raised", d, k)
    BY <1>1, <1>2, <1>6, GoesMoves
  <2>2. call'[t] = [at |-> "raised", doc |-> d, key |-> k]
    BY <1>1, <1>5, <2>1, Moved
  <2>3. Using(t)' = {} /\ Removing(t)' = {} /\ t \notin Storing'
    BY <2>2, UsesThere DEF Storing
  <2>4. d \in crossed /\ Results' = Results
    BY <1>4, <1>6 DEF Results
  <2>5. \A x \in Documents \ {d} :
           /\ x \in Using(t)' <=> x \in Using(t)
           /\ x \in Removing(t)' <=> x \in Removing(t)
           /\ x \in Results' <=> x \in Results
           /\ stamps'[x] # NoStamp <=> stamps[x] # NoStamp
    BY <1>3, <1>6, <2>3, <2>4
  <2>6. QED
    BY SMTT(30), <1>3, <1>5, <1>6, <2>1, <2>3, <2>4, <2>5, StepOn
<1>7. CASE MoveToEnd(t) /\ d \in Results
  <2>1. /\ Goes(t, "stamp") /\ results' = Append(RemoveFirst(results, d), d)
        /\ UNCHANGED <<stamps, crossed>>
    BY <1>2, <1>7 DEF MoveToEnd
  <2>2. MovesTo(t, "stamp", d, k)
    BY <1>1, <1>2, <2>1, GoesMoves
  <2>3. /\ RemoveFirst(results, d) \in Seq(Documents) /\ IsInjective(RemoveFirst(results, d))
        /\ ToSet(RemoveFirst(results, d)) = ToSet(results) \ {d}
        /\ Len(RemoveFirst(results, d)) = Len(results) - 1
    <3>1. \E j \in 1..Len(results) : results[j] = d
      BY <1>3, <1>7 DEF Results, ToSet
    <3>2. Len(RemoveFirst(results, d)) = Len(results) - 1
      BY <1>3, <3>1, RemoveFirstElements
    <3>3. QED
      BY <1>3, <3>2, RemoveFirstShrinks, RemoveFirstOnce
  <2>4. /\ results' \in Seq(Documents) /\ IsInjective(results')
        /\ ToSet(results') = ToSet(results) /\ Len(results') <= Len(results)
    <3>1. /\ Append(RemoveFirst(results, d), d) \in Seq(Documents)
          /\ IsInjective(Append(RemoveFirst(results, d), d))
          /\ ToSet(Append(RemoveFirst(results, d), d)) = (ToSet(results) \ {d}) \cup {d}
      BY <1>3, <2>3, AppendOnce
    <3>2. Len(Append(RemoveFirst(results, d), d)) = Len(results)
      BY <1>3, <2>3
    <3>3. QED
      BY <1>3, <1>7, <2>1, <3>1, <3>2 DEF Results
  <2>5. Results' = Results
    BY <2>4 DEF Results
  <2>6. QED
    BY <1>3, <1>5, <2>1, <2>2, <2>4, <2>5, PlainStep
\* An entry that is stamped or returned.
<1>8. ASSUME NEW where \in {"return", "reset"}, Goes(t, where), UNCHANGED results,
             crossed \subseteq crossed', d \notin crossed' => \A u \in Threads \ {t} : d \notin Removing(u),
             stamps' \in {stamps, [stamps EXCEPT ![d] = 0]},
             d \notin crossed' => stamps'[d] # NoStamp
      PROVE  ResultsInv'
  <2>1. MovesTo(t, where, d, k) /\ where \in Stops
    BY <1>1, <1>2, <1>5, <1>8, GoesMoves
  <2>2. /\ call'[t] = [at |-> where, doc |-> d, key |-> k]
        /\ \A u \in Threads \ {t} : call'[u] = call[u]
    BY <1>1, <2>1, Moved
  <2>3. /\ Using(t)' = IF where = "return" THEN {d} ELSE {}
        /\ Removing(t)' = {} /\ t \notin Storing'
    BY <2>2, UsesThere DEF Storing
  <2>4. /\ Results' = Results
        /\ DOMAIN stamps' = Documents /\ \A x \in Documents : stamps'[x] \in Nat \cup {NoStamp}
        /\ \A x \in Documents \ {d} : stamps'[x] = stamps[x]
    BY <1>3, <1>8 DEF Results
  <2>5. d \notin crossed' => ResultStands(d)'
    BY <1>3, <1>4, <1>8, <2>2, <2>3, <2>4, EntryUsed
  <2>6. \A x \in Documents \ {d} :
           /\ x \in Using(t)' <=> x \in Using(t)
           /\ x \in Removing(t)' <=> x \in Removing(t)
           /\ x \in Results' <=> x \in Results
           /\ stamps'[x] # NoStamp <=> stamps[x] # NoStamp
    BY <1>3, <2>3, <2>4
  <2>7. QED
    BY <1>3, <1>8, <2>1, <2>3, <2>4, <2>5, <2>6, StepOn
<1>9. CASE StampHit(t)
  <2>1. stamps' = [stamps EXCEPT ![d] = 0] /\ Uses(t, d) /\ Goes(t, "return") /\ UNCHANGED results
    BY <1>2, <1>9 DEF StampHit
  <2>2. stamps'[d] = 0 /\ 0 # NoStamp
    BY <1>3, <2>1
  <2>3. QED
    BY <1>8, <2>1, <2>2, AloneWith
<1>10. CASE ReturnHit(t) /\ d \in Results
  <2>1. Goes(t, "reset") /\ UNCHANGED <<results, stamps, crossed>> /\ At(t, "return")
    BY <1>2, <1>10 DEF ReturnHit
  <2>2. d \notin crossed' => stamps'[d] # NoStamp
    BY <1>2, <1>4, <2>1 DEF ResultStands
  <2>3. QED
    BY <1>4, <1>8, <2>1, <2>2
<1>11. QED
  BY <1>2, <1>6, <1>7, <1>9, <1>10 DEF MoveToEnd, ReturnHit

\* The steps that store a result.
LEMMA StoreSteps ==
    ASSUME ResultsInv, NEW t \in Threads, StoreResult(t) \/ StampNew(t)
    PROVE  ResultsInv'
<1>1. ResultTypes /\ call[t].at \in {"detect", "stampNew"} /\ ~At(t, "rest")
  BY DEF ResultsInv, StoreResult, StampNew, At
<1>2. PICK d \in Given, k \in Documents \cup {NoDocument} : d = Doc(t) /\ k = call[t].key
  BY <1>1, Asked
<1>3. /\ Removing(t) = {}
      /\ results \in Seq(Documents) /\ IsInjective(results) /\ Len(results) \in Nat
      /\ DOMAIN stamps = Documents /\ \A x \in Documents : stamps[x] \in Nat \cup {NoStamp}
  BY <1>1 DEF ResultTypes, Removing, At
<1>4. {"settle", "stampNew", "trim"} \subseteq Stops
  BY DEF Stops
<1>5. CASE StoreResult(t) /\ d = LargeDocument
  <2>1. Goes(t, "settle") /\ UNCHANGED <<results, stamps, crossed>> /\ call[t].at = "detect"
    BY <1>2, <1>5 DEF StoreResult, At
  <2>2. MovesTo(t, "settle", d, k) /\ Using(t) = {} /\ t \notin Storing /\ Results' = Results
    BY <1>1, <1>2, <2>1, GoesMoves DEF Using, Storing, Results
  <2>3. QED
    BY <1>3, <1>4, <2>1, <2>2, PlainStep
<1>6. CASE StoreResult(t) /\ d # LargeDocument
  <2>1. /\ Goes(t, "stampNew") /\ Uses(t, d) /\ UNCHANGED stamps /\ call[t].at = "detect"
        /\ results' = IF d \in Results THEN results ELSE Append(results, d)
    BY <1>2, <1>6 DEF StoreResult, At
  <2>2. MovesTo(t, "stampNew", d, k) /\ d \in Documents /\ Using(t) = {} /\ t \notin Storing
    BY <1>1, <1>2, <1>6, <2>1, GoesMoves DEF ResultTypes, At, Using, Storing
  <2>3. /\ results' \in Seq(Documents) /\ IsInjective(results')
        /\ ToSet(results') = ToSet(results) \cup {d} /\ Len(results') <= Len(results) + 1
    <3>1. CASE d \in Results
      BY <1>3, <2>1, <3>1 DEF Results
    <3>2. CASE d \notin Results
      <4>1. Len(Append(results, d)) = Len(results) + 1
        BY <1>3
      <4>2. QED
        BY <1>3, <2>1, <2>2, <3>2, <4>1, AppendOnce DEF Results
    <3>3. QED
      BY <3>1, <3>2
  <2>4. /\ call'[t] = [at |-> "stampNew", doc |-> d, key |-> k]
        /\ \A u \in Threads \ {t} : call'[u] = call[u]
    BY <1>1, <1>4, <2>2, Moved
  <2>5. Using(t)' = {d} /\ Removing(t)' = {} /\ t \in Storing' /\ ~At(t, "return")'
    BY <2>4, UsesThere DEF Storing, At
  <2>6. Results' = Results \cup {d}
    BY <2>3 DEF Results
  <2>7. crossed \subseteq crossed' /\ (d \notin crossed' => \A u \in Threads \ {t} : d \notin Removing(u))
    BY <2>1, AloneWith
  <2>8. d \notin crossed' => ResultStands(d)'
    <3>1. d \notin crossed' => ResultStands(d)
      BY <2>2, <2>7 DEF ResultsInv, ResultsStand
    <3>2. QED
      BY <2>1, <2>2, <2>4, <2>5, <2>6, <2>7, <3>1, EntryUsed
  <2>9. \A x \in Documents \ {d} :
           /\ x \in Using(t)' <=> x \in Using(t)
           /\ x \in Removing(t)' <=> x \in Removing(t)
           /\ x \in Results' <=> x \in Results
           /\ stamps'[x] # NoStamp <=> stamps[x] # NoStamp
    BY <1>3, <2>1, <2>2, <2>5, <2>6
  <2>10. QED
    BY <1>3, <1>4, <2>1, <2>2, <2>3, <2>5, <2>7, <2>8, <2>9, StepOn
<1>7. CASE StampNew(t)
  <2>1. /\ Goes(t, "trim") /\ Uses(t, d) /\ stamps' = [stamps EXCEPT ![d] = 0]
        /\ UNCHANGED results /\ call[t].at = "stampNew"
    BY <1>2, <1>7 DEF StampNew, At
  <2>2. MovesTo(t, "trim", d, k) /\ Using(t) = {d} /\ d \in Documents /\ t \in Storing
    BY <1>1, <1>2, <2>1, GoesMoves DEF ResultTypes, Using, Storing
  <2>3. /\ call'[t] = [at |-> "trim", doc |-> d, key |-> k]
        /\ \A u \in Threads \ {t} : call'[u] = call[u]
    BY <1>1, <1>4, <2>2, Moved
  <2>4. Using(t)' = {} /\ Removing(t)' = {} /\ t \in Storing'
    BY <2>3, UsesThere DEF Storing
  <2>5. /\ Results' = Results /\ stamps'[d] = 0 /\ 0 # NoStamp
        /\ DOMAIN stamps' = Documents /\ \A x \in Documents : stamps'[x] \in Nat \cup {NoStamp}
        /\ \A x \in Documents \ {d} : stamps'[x] = stamps[x]
    BY <1>3, <2>1, <2>2 DEF Results
  <2>6. crossed \subseteq crossed' /\ (d \notin crossed' => \A u \in Threads \ {t} : d \notin Removing(u))
    BY <2>1, AloneWith
  <2>7. d \notin crossed' => ResultStands(d)'
    <3>1. d \notin crossed' => ResultStands(d) /\ d \in Results
      BY <2>2, <2>6 DEF ResultsInv, ResultsStand, ResultStands
    <3>2. QED
      BY <2>2, <2>3, <2>4, <2>5, <2>6, <3>1, EntryUsed
  <2>8. \A x \in Documents \ {d} :
           /\ x \in Using(t)' <=> x \in Using(t)
           /\ x \in Removing(t)' <=> x \in Removing(t)
           /\ x \in Results' <=> x \in Results
           /\ stamps'[x] # NoStamp <=> stamps[x] # NoStamp
    BY <1>3, <2>2, <2>4, <2>5
  <2>9. QED
    BY SMTT(30), <1>3, <1>4, <2>1, <2>2, <2>4, <2>5, <2>6, <2>7, <2>8, StepOn
<1>8. QED
  BY <1>5, <1>6, <1>7

LEMMA TrimStep ==
    ASSUME ResultsInv, NEW t \in Threads, Trim(t)
    PROVE  ResultsInv'
<1>1. ResultTypes /\ call[t].at = "trim" /\ ~At(t, "rest") /\ UNCHANGED stamps
  BY DEF ResultsInv, Trim, At
<1>2. PICK d \in Given, k \in Documents \cup {NoDocument} : d = Doc(t) /\ k = call[t].key
  BY <1>1, Asked
<1>3. /\ Using(t) = {} /\ Removing(t) = {} /\ t \in Storing
      /\ results \in Seq(Documents) /\ IsInjective(results) /\ Len(results) \in Nat
      /\ DOMAIN stamps = Documents /\ \A x \in Documents : stamps[x] \in Nat \cup {NoStamp}
  BY <1>1 DEF ResultTypes, Using, Removing, At, Storing
<1>4. {"settle", "unstampOld"} \subseteq Stops
  BY DEF Stops
<1>5. CASE ~(Len(results) > MaxResults)
  <2>1. Goes(t, "settle") /\ UNCHANGED <<results, crossed>>
    BY <1>5 DEF Trim
  <2>2. MovesTo(t, "settle", d, k) /\ Results' = Results /\ Len(results') <= MaxResults
    BY <1>1, <1>2, <1>3, <1>5, <2>1, GoesMoves DEF Results
  <2>3. QED
    BY <1>1, <1>3, <1>4, <2>1, <2>2, PlainStep
<1>6. CASE Len(results) > MaxResults
  <2>1. /\ call' = [call EXCEPT ![t].at = "unstampOld", ![t].key = Head(results)]
        /\ results' = Tail(results) /\ Removes(t, Head(results)) /\ results # <<>>
    <3>1. /\ call' = [call EXCEPT ![t].at = "unstampOld", ![t].key = Head(results)]
          /\ results' = Tail(results) /\ Removes(t, Head(results))
      BY <1>6 DEF Trim
    <3>2. Len(results) > 0
      BY <1>3, <1>6, DetectionAssumption
    <3>3. results # <<>>
      BY <3>2
    <3>4. QED
      BY <3>1, <3>3
  <2>2. PICK e \in Documents : e = Head(results)
    BY <1>3, <2>1
  <2>3. MovesTo(t, "unstampOld", d, e)
    <3>1. call[t] = [at |-> call[t].at, doc |-> d, key |-> call[t].key]
      BY <1>1, <1>2 DEF ResultTypes, CallRecord, Doc
    <3>2. [call[t] EXCEPT !.at = "unstampOld"] = [at |-> "unstampOld", doc |-> d, key |-> call[t].key]
      BY <3>1
    <3>3. [[at |-> "unstampOld", doc |-> d, key |-> call[t].key] EXCEPT !.key = e]
             = [at |-> "unstampOld", doc |-> d, key |-> e]
      OBVIOUS
    <3>4. call' = [call EXCEPT ![t] = [[call[t] EXCEPT !.at = "unstampOld"] EXCEPT !.key = e]]
      BY <1>1, <2>1, <2>2 DEF ResultTypes
    <3>5. QED
      BY <3>2, <3>3, <3>4 DEF MovesTo
  <2>4. /\ results' \in Seq(Documents) /\ IsInjective(results')
        /\ Results' = Results \ {e} /\ Len(results') <= Len(results) - 1
    <3>1. Len(Tail(results)) = Len(results) - 1
      BY <1>3, <2>1
    <3>2. QED
      BY <1>3, <2>1, <2>2, <3>1, TailOnce DEF Results
  <2>5. /\ call'[t] = [at |-> "unstampOld", doc |-> d, key |-> e]
        /\ \A u \in Threads \ {t} : call'[u] = call[u]
    BY <1>1, <1>4, <2>3, Moved
  <2>6. Using(t)' = {} /\ Removing(t)' = {e} /\ t \notin Storing'
    BY <2>5, UsesThere DEF Storing
  <2>7. crossed \subseteq crossed' /\ (e \notin crossed' => ResultStands(e)')
    <3>1. /\ crossed \subseteq crossed'
          /\ e \notin crossed' => \A u \in Threads \ {t} : e \notin Using(u) \cup Removing(u)
      BY <2>1, <2>2, AloneWith
    <3>2. QED
      BY <2>4, <2>5, <2>6, <3>1, EntryRemoved
  <2>8. \A x \in Documents \ {e} :
           /\ x \in Using(t)' <=> x \in Using(t)
           /\ x \in Removing(t)' <=> x \in Removing(t)
           /\ x \in Results' <=> x \in Results
           /\ stamps'[x] # NoStamp <=> stamps[x] # NoStamp
    BY <1>1, <1>3, <2>4, <2>6
  <2>9. QED
    BY <1>1, <1>3, <1>4, <2>3, <2>4, <2>6, <2>7, <2>8, StepOn
<1>7. QED
  BY <1>5, <1>6

\* Time passes: the stamps there are grow older.
LEMMA ResultsTick == ResultsInv /\ DetectionTick => ResultsInv'
<1> SUFFICES ASSUME ResultsInv, DetectionTick PROVE ResultsInv'
  OBVIOUS
<1>1. /\ UNCHANGED <<results, call, crossed>> /\ DOMAIN stamps' = Documents
      /\ \A d \in Documents : stamps'[d] = IF stamps[d] \in 0..ResultTTL THEN stamps[d] + 1 ELSE stamps[d]
  BY DEF DetectionTick
<1>2. \A d \in Documents : stamps'[d] \in Nat \cup {NoStamp} /\ (stamps'[d] # NoStamp <=> stamps[d] # NoStamp)
  <2>1. ASSUME NEW d \in Documents
        PROVE  stamps'[d] \in Nat \cup {NoStamp} /\ (stamps'[d] # NoStamp <=> stamps[d] # NoStamp)
    <3>1. PICK old, new : old = stamps[d] /\ new = stamps'[d]
      OBVIOUS
    <3>2. old \in Nat \cup {NoStamp} /\ new = IF old \in 0..ResultTTL THEN old + 1 ELSE old
      BY <1>1, <3>1 DEF ResultsInv, ResultTypes
    <3>3. NoStamp \notin Nat
      BY DetectionAssumption
    <3>4. new \in Nat \cup {NoStamp} /\ (new # NoStamp <=> old # NoStamp)
      BY ONLY <3>2, <3>3
    <3>5. QED
      BY <3>1, <3>4
  <2>2. QED
    BY <2>1
<1>3. ResultTypes'
  BY <1>1, <1>2 DEF ResultsInv, ResultTypes, Using, Removing, At, Doc
<1>4. \A d \in Documents : ResultStands(d) => ResultStands(d)'
  BY <1>1, <1>2 DEF ResultStands, Using, Removing, At, Doc, Results
<1>5. Room' /\ Raised'
  BY <1>1 DEF ResultsInv, Room, Raised, Storing, At, Doc
<1>6. QED
  BY <1>1, <1>3, <1>4, <1>5 DEF ResultsInv, ResultsStand

LEMMA ResultsStep == ResultsInv /\ [DetectionNext]_detectionVars => ResultsInv'
<1> SUFFICES ASSUME ResultsInv, [DetectionNext]_detectionVars PROVE ResultsInv'
  OBVIOUS
<1>1. ASSUME NEW t \in Threads, NEW d \in Given, LookUp(t, d) PROVE ResultsInv'
  BY <1>1, LookUpStep
<1>2. ASSUME NEW t \in Threads,
             \/ DropStamp(t) \/ MoveToEnd(t) \/ StampHit(t) \/ ReturnHit(t)
             \/ StoreResult(t) \/ StampNew(t) \/ Trim(t) \/ DropOldStamp(t)
      PROVE  ResultsInv'
  BY <1>2, DropStampStep, HitSteps, StoreSteps, TrimStep
<1>3. ASSUME NEW t \in Threads,
             \/ PassGate(t) \/ ReturnUnknown(t) \/ ResetCircuit(t) \/ DetectionFails(t)
             \/ CallerGoesOn(t)
      PROVE  ResultsInv'
  BY <1>3, CircuitSteps
<1>4. CASE UNCHANGED detectionVars
  <2>1. UNCHANGED <<results, stamps, call, crossed>>
    BY <1>4 DEF detectionVars
  <2>2. ResultTypes' /\ Room' /\ Raised'
    BY <2>1 DEF ResultsInv, ResultTypes, Room, Raised, Storing, Using, Removing, At, Doc
  <2>3. \A d \in Documents : ResultStands(d) => ResultStands(d)'
    BY <2>1 DEF ResultStands, Using, Removing, At, Doc, Results
  <2>4. QED
    BY <2>1, <2>2, <2>3 DEF ResultsInv, ResultsStand
<1>5. CASE DetectionTick
  BY <1>5, ResultsTick
<1>6. QED
  BY <1>1, <1>2, <1>3, <1>4, <1>5 DEF DetectionNext

LEMMA ResultsInit == DetectionInit => ResultsInv
<1> SUFFICES ASSUME DetectionInit PROVE ResultsInv
  OBVIOUS
<1>1. /\ results = <<>> /\ \A d \in Documents : stamps[d] = NoStamp
      /\ DOMAIN stamps = Documents /\ call = [t \in Threads |-> NoCall] /\ NoCall \in CallRecord
  BY DEF DetectionInit, NoCall, CallRecord, Stops
<1>2. \A t \in Threads : /\ Using(t) = {} /\ Removing(t) = {} /\ At(t, "rest")
                         /\ ~At(t, "return") /\ ~At(t, "detect") /\ ~At(t, "raised")
  BY <1>1 DEF Using, Removing, At, NoCall
<1>3. results \in Seq(Documents) /\ IsInjective(results) /\ Results = {} /\ Len(results) = 0
  BY <1>1 DEF IsInjective, Results, ToSet
<1>4. ResultTypes
  BY <1>1, <1>2, <1>3 DEF ResultTypes
<1>5. ResultsStand
  BY <1>1, <1>2, <1>3 DEF ResultsStand, ResultStands
<1>6. Storing = {}
  BY <1>1 DEF Storing, NoCall
<1>7. Room
  BY <1>3, <1>6, FS_EmptySet DEF Room
<1>8. QED
  BY <1>2, <1>4, <1>5, <1>7 DEF ResultsInv, Raised

\* What the threads of a detector may rely on in its two dictionaries, for any number
\* of threads, documents and results: while its entry has not been removed under
\* another thread, who uses it finds it and who removes its stamp is alone with it.
THEOREM ResultsInvariant == DetectionSpec => []ResultsInv
<1>1. DetectionInit => ResultsInv
  BY ResultsInit
<1>2. ResultsInv /\ [DetectionNext]_detectionVars => ResultsInv'
  BY ResultsStep
<1>3. QED
  BY <1>1, <1>2, PTL DEF DetectionSpec

\* A result is stamped exactly while it is cached, the cache exceeds its capacity by
\* no more than the results being stored, and detect_format raises only for a document
\* whose entry was taken away under a hit: for any number of threads without a lock.
THEOREM ResultsKeepAgreeing == DetectionSpec => []ResultsAgree
<1>1. ResultsInv => ResultsAgree
  BY DEF ResultsInv, ResultsStand, ResultStands, Room, Raised, Storing, ResultsAgree
<1>2. QED
  BY <1>1, ResultsInvariant, PTL

-----------------------------------------------------------------------------
(***************************************************************************)
(* FileLock                                                                *)
(*                                                                         *)
(* LockInv ties the three views of the lock together: the kernel's owner   *)
(* of an inode, the file each process has open, and where the process is   *)
(* in the context manager.  It is inductive; what the flock guarantees and *)
(* what it does not (exclusion among holders of different inodes) follows. *)
(***************************************************************************)

\* A process has a file open exactly while it waits for or holds the lock.
OpenWhileInside ==
    \A p \in Procs : fd[p] # NoInode <=> stage[p] \in {"opened", "held"}

\* Before a renewal every open lock file is the one at the path, if any.
OneFileUntilRenewed ==
    ~renewed => \A p \in Procs : fd[p] # NoInode =>
                    /\ lockPath # NoInode => fd[p] = lockPath
                    /\ \A q \in Procs : fd[q] # NoInode => fd[p] = fd[q]

LockInv == LockTypeOK /\ OpenWhileInside /\ OwnerHasFileOpen /\ OneFileUntilRenewed

USE NoProcAssumption, NoInodeAssumption

\* Before anyone opens the lock file nobody owns anything.
LEMMA LockInitInv == LockInit => LockInv
  BY DEF LockInit, LockInv, LockTypeOK, OpenWhileInside, OwnerHasFileOpen,
         OneFileUntilRenewed, Holds, Stages

\* Closing a file drops the flock of its owner and of nobody else, whatever
\* stage outside the lock the process moves to.
LEMMA CloseFileInv ==
    ASSUME LockInv, NEW p \in Procs, NEW s \in {"out", "released"},
           CloseFile(p), stage' = [stage EXCEPT ![p] = s], UNCHANGED <<lockPath, renewed>>
    PROVE  LockInv'
<1>1. LockTypeOK'
  BY DEF LockInv, LockTypeOK, CloseFile, Stages
<1>2. OpenWhileInside'
  BY DEF LockInv, LockTypeOK, OpenWhileInside, CloseFile
<1>3. OwnerHasFileOpen'
  <2>1. ASSUME NEW q \in Procs, Holds(q)'
        PROVE  (owner[fd[q]] = q)'
    BY <2>1 DEF LockInv, LockTypeOK, OpenWhileInside, OwnerHasFileOpen, CloseFile, Holds
  <2>2. ASSUME NEW i \in Inodes, (owner[i] # NoProc)'
        PROVE  (Holds(owner[i]) /\ fd[owner[i]] = i)'
    BY <2>2 DEF LockInv, LockTypeOK, OwnerHasFileOpen, CloseFile, Holds
  <2>3. QED
    BY <2>1, <2>2 DEF OwnerHasFileOpen
<1>4. OneFileUntilRenewed'
  BY DEF LockInv, LockTypeOK, OneFileUntilRenewed, CloseFile
<1>5. QED
  BY <1>1, <1>2, <1>3, <1>4 DEF LockInv

\* Every step of the context manager keeps the views of the lock together.
LEMMA LockNextInv == LockInv /\ [LockNext]_lockVars => LockInv'
<1> SUFFICES ASSUME LockInv, [LockNext]_lockVars
             PROVE  LockInv'
  OBVIOUS
<1>1. ASSUME NEW p \in Procs, OpenLock(p)
      PROVE  LockInv'
  <2>1. /\ LockTypeOK' /\ OpenWhileInside' /\ OwnerHasFileOpen'
    BY <1>1 DEF LockInv, LockTypeOK, OpenWhileInside, OwnerHasFileOpen, OpenLock, Holds, Stages
  <2>2. OneFileUntilRenewed'
    <3>1. /\ lockPath' \in Inodes
          /\ fd' = [fd EXCEPT ![p] = lockPath']
          /\ lockPath # NoInode => lockPath' = lockPath
      BY <1>1 DEF LockInv, LockTypeOK, OpenLock
    <3>2. ~renewed' => ~renewed /\ (lockPath = NoInode => \A q \in Procs : fd[q] = NoInode)
      BY <1>1 DEF LockInv, LockTypeOK, OpenLock
    <3>3. ASSUME ~renewed', NEW q \in Procs, fd'[q] # NoInode
          PROVE  fd'[q] = lockPath'
      BY <3>1, <3>2, <3>3 DEF LockInv, LockTypeOK, OneFileUntilRenewed
    <3>4. QED
      BY <3>3 DEF OneFileUntilRenewed
  <2>3. QED
    BY <2>1, <2>2 DEF LockInv
<1>2. ASSUME NEW p \in Procs, TakeLock(p)
      PROVE  LockInv'
  <2>1. fd[p] \in Inodes
    BY <1>2 DEF LockInv, LockTypeOK, OpenWhileInside, TakeLock
  <2>2. QED
    BY <1>2, <2>1 DEF LockInv, LockTypeOK, OpenWhileInside, OwnerHasFileOpen,
                      OneFileUntilRenewed, TakeLock, Holds, Stages
<1>3. ASSUME NEW p \in Procs, ReleaseLock(p)
      PROVE  LockInv'
  BY <1>3, CloseFileInv DEF ReleaseLock
<1>4. ASSUME NEW p \in Procs, UnlinkLock(p)
      PROVE  LockInv'
  BY <1>4 DEF LockInv, LockTypeOK, OpenWhileInside, OwnerHasFileOpen,
              OneFileUntilRenewed, UnlinkLock, Holds, Stages
<1>5. ASSUME NEW p \in Procs, AbortLock(p)
      PROVE  LockInv'
  BY <1>5, CloseFileInv DEF AbortLock
<1>6. ASSUME NEW p \in Procs, CrashLock(p)
      PROVE  LockInv'
  BY <1>6, CloseFileInv DEF CrashLock
<1>7. CASE UNCHANGED lockVars
  BY <1>7 DEF LockInv, LockTypeOK, OpenWhileInside, OwnerHasFileOpen,
              OneFileUntilRenewed, Holds, lockVars
<1>8. QED
  BY <1>1, <1>2, <1>3, <1>4, <1>5, <1>6, <1>7 DEF LockNext

\* The owner of an inode's flock is in the body and has that inode open, and a
\* process in the body owns the flock it took: no exit of the context manager
\* and no crash leaves an flock behind.
THEOREM LockOwnership == LockSpec => [](LockTypeOK /\ OwnerHasFileOpen)
<1>1. LockInv => LockTypeOK /\ OwnerHasFileOpen
  BY DEF LockInv
<1>2. QED
  BY LockInitInv, LockNextInv, <1>1, PTL DEF LockSpec

\* Two holders have their flocks on different inodes; before a renewal all
\* open lock files are one inode.
LEMMA InvExcludes == LockInv => ExclusiveUntilRenewed
<1> SUFFICES ASSUME LockInv, ~renewed, NEW p \in Procs, NEW q \in Procs, Holds(p), Holds(q)
             PROVE  p = q
  BY DEF ExclusiveUntilRenewed, MutualExclusion
<1>1. fd[p] = fd[q]
  BY DEF LockInv, OpenWhileInside, OneFileUntilRenewed, Holds
<1>2. QED
  BY <1>1 DEF LockInv, OwnerHasFileOpen

\* The lock is exclusive up to the first renewal, for any number of processes
\* and any pattern of failures and crashes.
THEOREM LockExclusion == LockSpec => []ExclusiveUntilRenewed
  BY LockInitInv, LockNextInv, InvExcludes, PTL DEF LockSpec

-----------------------------------------------------------------------------
(***************************************************************************)
(* RecordStore                                                             *)
(*                                                                         *)
(* The lock's invariant carries over; StageOfPC places each operation in   *)
(* the context manager.  RecordInv then says what the two files hold at    *)
(* each point of a mutation nobody interferes with, which makes            *)
(* RecordIntact inductive.                                                 *)
(***************************************************************************)

USE MaxOpsAssumption, ContentAssumption

\* Where in the lock's context manager an operation at a label is.
StageOf(label) ==
    CASE label = "lock"                         -> "opened"
      [] label \in StoreBody \cup {"release"}   -> "held"
      [] label = "unlink"                       -> "released"
      [] OTHER                                  -> "out"

StageOfPC == \A p \in Procs : stage[p] = StageOf(pc[p])

\* A mutation that nothing overlapped: what the files hold at each label.
SoleContents(p) ==
    /\ pc[p] \in {"dumpData", "dumpMeta"} => linked[p]
    /\ pc[p] = "dumpData" => dataFile = Partial
    /\ pc[p] \in {"openMeta", "dumpMeta"} => dataFile = arg[p]
    /\ pc[p] = "dumpMeta" => metaFile = Partial
    /\ pc[p] = "unlinkData" => dataFile # Absent
    /\ pc[p] \in {"seeMeta", "unlinkMeta"} => dataFile = Absent

\* The record before its mutator has changed anything.
Untouched == dataFile = committed /\ metaFile = committed

Unmutated == \A q \in Procs : ~Mutating(q)

\* The history variable sole means what its name says.
SoleInv ==
    \A p \in Procs :
        /\ Mutating(p) /\ sole[p] => ~OthersMutate(p) /\ SoleContents(p)
        /\ Mutating(p) /\ ~sole[p] => spoiled

\* An intact record, and what a cleanup read of it.
IntactInv ==
    /\ ~spoiled /\ Unmutated => Untouched
    /\ \A p \in Procs :
          /\ ~spoiled /\ pc[p] \in {"openData", "seeData", "unlinkData"} => Untouched
          /\ ~spoiled /\ pc[p] \in {"seeData", "unlinkData"} /\ arg[p] \in Versions
                => arg[p] = metaFile

\* A retrieval that nothing disturbed.
ReadInv ==
    \A p \in Procs :
        pc[p] \in ReadPCs /\ sole[p] =>
            /\ ~spoiled /\ Unmutated
            /\ pc[p] \in {"needMeta", "loadData", "loadMeta"} => committed # Absent
            /\ pc[p] = "loadMeta" => arg[p] = committed

RecordInv == SoleInv /\ IntactInv /\ ReadInv

StoreInv == TypeOK /\ StageOfPC /\ RecordInv

-----------------------------------------------------------------------------
(* The record's steps and its lock *)

\* A record's behaviours are behaviours of its lock.
LEMMA StepsOfLock == [Next]_vars => [LockNext]_lockVars
  BY DEF Next, Step, StoreStep, DeleteStep, RetrieveStep, LockNext, vars,
         StartStore, EnterStore, OpenData, DumpData, OpenMeta, DumpMeta, LeaveStore,
         FinishStore, StoreFails, StartDelete, StartCleanup, SeeData, UnlinkData,
         SeeMeta, UnlinkMeta, StartRetrieve, NeedData, NeedMeta, LoadData, LoadMeta,
         Crash

\* The record store implements its lock's specification.
THEOREM RecordImplementsLock == Spec => LockSpec
<1>1. Init => LockInit
  BY DEF Init
<1>2. QED
  BY <1>1, StepsOfLock, PTL DEF Spec, LockSpec

-----------------------------------------------------------------------------
(* Types and stages *)

\* Every file content, argument and label stays in its set.
LEMMA TypeStep == TypeOK /\ [Next]_vars => TypeOK'
<1> SUFFICES ASSUME TypeOK, [Next]_vars
             PROVE  TypeOK'
  OBVIOUS
<1> USE DEF TypeOK, LockTypeOK, Stages, PCs, StorePCs, DeletePCs, ReadPCs, Contents,
            Versions, Goto, history
<1>1. ASSUME NEW p \in Procs, StoreStep(p) \/ StoreFails(p) \/ StartStore(p)
      PROVE  TypeOK'
  <2>1. CASE StartStore(p)
    BY <2>1 DEF StartStore, Start, OpenLock
  <2>2. CASE EnterStore(p)
    BY <2>2 DEF EnterStore, TakeLock, BeginMutation
  <2>3. CASE OpenData(p) \/ OpenMeta(p)
    BY ZenonT(60), <2>3 DEF OpenData, OpenMeta, lockVars
  <2>4. CASE DumpData(p)
    BY <2>4 DEF DumpData, AfterDump, lockVars
  <2>5. CASE DumpMeta(p)
    BY <2>5 DEF DumpMeta, AfterDump, EndMutation, lockVars
  <2>6. CASE LeaveStore(p)
    BY <2>6 DEF LeaveStore, ReleaseLock, CloseFile
  <2>7. CASE FinishStore(p)
    BY <2>7 DEF FinishStore, UnlinkLock
  <2>8. CASE StoreFails(p)
    BY <2>8 DEF StoreFails, AbortLock, CloseFile
  <2>9. QED
    BY <1>1, <2>1, <2>2, <2>3, <2>4, <2>5, <2>6, <2>7, <2>8 DEF StoreStep
<1>2. ASSUME NEW p \in Procs, DeleteStep(p) \/ StartDelete(p) \/ StartCleanup(p)
      PROVE  TypeOK'
  <2>1. CASE StartDelete(p)
    BY <2>1 DEF StartDelete, Start, BeginMutation, lockVars
  <2>2. CASE StartCleanup(p)
    BY <2>2 DEF StartCleanup, Start, BeginMutation, lockVars
  <2>3. CASE SeeData(p)
    BY <2>3 DEF SeeData, lockVars
  <2>4. CASE UnlinkData(p)
    BY <2>4 DEF UnlinkData, Unlinked, lockVars
  <2>5. CASE SeeMeta(p)
    BY <2>5 DEF SeeMeta, EndMutation, lockVars
  <2>6. CASE UnlinkMeta(p)
    BY <2>6 DEF UnlinkMeta, Unlinked, EndMutation, lockVars
  <2>7. QED
    BY <1>2, <2>1, <2>2, <2>3, <2>4, <2>5, <2>6 DEF DeleteStep
<1>3. ASSUME NEW p \in Procs, RetrieveStep(p) \/ StartRetrieve(p)
      PROVE  TypeOK'
  <2>1. CASE StartRetrieve(p)
    BY <2>1 DEF StartRetrieve, Start, lockVars
  <2>2. CASE NeedData(p) \/ NeedMeta(p)
    BY <2>2 DEF NeedData, NeedMeta, Return, lockVars
  <2>3. CASE LoadData(p)
    BY <2>3 DEF LoadData, Return, lockVars
  <2>4. CASE LoadMeta(p)
    BY <2>4 DEF LoadMeta, Return, lockVars
  <2>5. QED
    BY <1>3, <2>1, <2>2, <2>3, <2>4 DEF RetrieveStep
<1>4. ASSUME NEW p \in Procs, Crash(p)
      PROVE  TypeOK'
  BY <1>4 DEF Crash, CrashLock, CloseFile, lockVars
<1>5. CASE UNCHANGED vars
  BY <1>5 DEF vars, lockVars
<1>6. QED
  BY <1>1, <1>2, <1>3, <1>4, <1>5 DEF Next, Step

\* An operation's label and its place in the context manager move together.
LEMMA StageStep == TypeOK /\ StageOfPC /\ [Next]_vars => StageOfPC'
<1> SUFFICES ASSUME TypeOK, StageOfPC, [Next]_vars
             PROVE  StageOfPC'
  OBVIOUS
<1> USE DEF TypeOK, LockTypeOK, StageOfPC, StageOf, StoreBody, PCs, StorePCs, DeletePCs,
            ReadPCs, Goto
<1>1. ASSUME NEW p \in Procs, StoreStep(p) \/ StoreFails(p) \/ StartStore(p)
      PROVE  StageOfPC'
  BY <1>1 DEF StoreStep, StartStore, EnterStore, OpenData, DumpData, OpenMeta, DumpMeta,
              LeaveStore, FinishStore, StoreFails, OpenLock, TakeLock, ReleaseLock,
              UnlinkLock, AbortLock, lockVars
<1>2. ASSUME NEW p \in Procs, DeleteStep(p) \/ StartDelete(p) \/ StartCleanup(p)
      PROVE  StageOfPC'
  BY <1>2 DEF DeleteStep, StartDelete, StartCleanup, Start, SeeData, UnlinkData, SeeMeta,
              UnlinkMeta, lockVars
<1>3. ASSUME NEW p \in Procs, RetrieveStep(p) \/ StartRetrieve(p)
      PROVE  StageOfPC'
  BY <1>3 DEF RetrieveStep, StartRetrieve, Start, NeedData, NeedMeta, LoadData, LoadMeta,
              Return, lockVars
<1>4. ASSUME NEW p \in Procs, Crash(p)
      PROVE  StageOfPC'
  BY <1>4 DEF Crash, CrashLock, lockVars
<1>5. CASE UNCHANGED vars
  BY <1>5 DEF vars, lockVars
<1>6. QED
  BY <1>1, <1>2, <1>3, <1>4, <1>5 DEF Next, Step

-----------------------------------------------------------------------------
(* The record's contents *)

\* Each step keeps what is known of the two files: a step of the mutator moves
\* SoleContents on, a new mutator revokes "sole", everything else is a frame.
LEMMA RecordStep == TypeOK /\ RecordInv /\ [Next]_vars => RecordInv'
<1> SUFFICES ASSUME TypeOK, RecordInv, [Next]_vars
             PROVE  RecordInv'
  OBVIOUS
<1> USE DEF TypeOK, RecordInv, SoleInv, IntactInv, ReadInv, SoleContents, Untouched, Unmutated, Mutating,
            OthersMutate, Goto, history, StoreBody, DeletePCs, ReadPCs, PCs, StorePCs, Contents, Versions
<1>1. ASSUME NEW p \in Procs, StartStore(p)
      PROVE  RecordInv'
  BY <1>1 DEF StartStore, Start, OpenLock
<1>2. ASSUME NEW p \in Procs, EnterStore(p)
      PROVE  RecordInv'
  BY ZenonT(60), <1>2 DEF EnterStore, TakeLock, BeginMutation
<1>3. ASSUME NEW p \in Procs, OpenData(p)
      PROVE  RecordInv'
  BY <1>3 DEF OpenData, lockVars
<1>4. ASSUME NEW p \in Procs, DumpData(p)
      PROVE  RecordInv'
  BY <1>4 DEF DumpData, AfterDump, lockVars
<1>5. ASSUME NEW p \in Procs, OpenMeta(p)
      PROVE  RecordInv'
  BY <1>5 DEF OpenMeta, lockVars
<1>6. ASSUME NEW p \in Procs, DumpMeta(p)
      PROVE  RecordInv'
  BY <1>6 DEF DumpMeta, AfterDump, EndMutation, lockVars
<1>7. ASSUME NEW p \in Procs, LeaveStore(p)
      PROVE  RecordInv'
  BY <1>7 DEF LeaveStore, ReleaseLock
<1>8. ASSUME NEW p \in Procs, FinishStore(p)
      PROVE  RecordInv'
  BY <1>8 DEF FinishStore, UnlinkLock
<1>9. ASSUME NEW p \in Procs, StoreFails(p)
      PROVE  RecordInv'
  BY <1>9 DEF StoreFails, AbortLock, Midway
<1>10. ASSUME NEW p \in Procs, StartDelete(p)
      PROVE  RecordInv'
  <2>1. SoleInv'
    BY ZenonT(60), <1>10 DEF StartDelete, Start, BeginMutation
  <2>2. IntactInv'
    BY <1>10 DEF StartDelete, Start, BeginMutation
  <2>3. ReadInv'
    BY <1>10 DEF StartDelete, Start, BeginMutation
  <2>4. QED
    BY <2>1, <2>2, <2>3
<1>11. ASSUME NEW p \in Procs, StartCleanup(p)
      PROVE  RecordInv'
  BY ZenonT(60), <1>11 DEF StartCleanup, Start, BeginMutation
<1>12. ASSUME NEW p \in Procs, SeeData(p)
      PROVE  RecordInv'
  BY <1>12 DEF SeeData
<1>13. ASSUME NEW p \in Procs, UnlinkData(p)
      PROVE  RecordInv'
  BY <1>13 DEF UnlinkData, Unlinked
<1>14. ASSUME NEW p \in Procs, SeeMeta(p)
      PROVE  RecordInv'
  BY <1>14 DEF SeeMeta, EndMutation
<1>15. ASSUME NEW p \in Procs, UnlinkMeta(p)
      PROVE  RecordInv'
  BY <1>15 DEF UnlinkMeta, Unlinked, EndMutation
<1>16. ASSUME NEW p \in Procs, StartRetrieve(p)
      PROVE  RecordInv'
  <2>1. SoleInv'
    BY <1>16 DEF StartRetrieve, Start
  <2>2. IntactInv'
    BY <1>16 DEF StartRetrieve, Start
  <2>3. ReadInv'
    BY ZenonT(60), <1>16 DEF StartRetrieve, Start
  <2>4. QED
    BY <2>1, <2>2, <2>3
<1>17. ASSUME NEW p \in Procs, NeedData(p)
      PROVE  RecordInv'
  BY <1>17 DEF NeedData, Return
<1>18. ASSUME NEW p \in Procs, NeedMeta(p)
      PROVE  RecordInv'
  BY <1>18 DEF NeedMeta, Return
<1>19. ASSUME NEW p \in Procs, LoadData(p)
      PROVE  RecordInv'
  BY <1>19 DEF LoadData, Return
<1>20. ASSUME NEW p \in Procs, LoadMeta(p)
      PROVE  RecordInv'
  BY <1>20 DEF LoadMeta, Return
<1>21. ASSUME NEW p \in Procs, Crash(p)
      PROVE  RecordInv'
  BY <1>21 DEF Crash, Midway
<1>22. CASE UNCHANGED vars
  BY <1>22 DEF vars
<1>23. QED
  BY <1>1, <1>2, <1>3, <1>4, <1>5, <1>6, <1>7, <1>8, <1>9, <1>10, <1>11, <1>12, <1>13,
     <1>14, <1>15, <1>16, <1>17, <1>18, <1>19, <1>20, <1>21, <1>22
  DEF Next, Step, StoreStep, DeleteStep, RetrieveStep

\* The initial record is absent and intact.
LEMMA StoreInitInv == Init => StoreInv
<1> SUFFICES ASSUME Init
             PROVE  StoreInv
  OBVIOUS
<1>1. TypeOK
  <2>1. LockTypeOK
    BY LockInitInv DEF Init, LockInv
  <2>2. ops \in 0..MaxOps
    BY DEF Init
  <2>3. QED
    BY <2>1, <2>2 DEF Init, TypeOK, PCs, StorePCs, DeletePCs, ReadPCs, Contents
<1>2. StageOfPC
  BY DEF Init, LockInit, StageOfPC, StageOf, StoreBody
<1>3. RecordInv
  BY DEF Init, RecordInv, SoleInv, IntactInv, ReadInv, Untouched, Mutating, StoreBody,
         DeletePCs, ReadPCs
<1>4. QED
  BY <1>1, <1>2, <1>3 DEF StoreInv

\* The inductive invariant of the record and its lock.
THEOREM StoreInvariant == Spec => []StoreInv
<1>1. StoreInv /\ [Next]_vars => StoreInv'
  BY TypeStep, StageStep, RecordStep DEF StoreInv
<1>2. QED
  BY StoreInitInv, <1>1, PTL DEF Spec

-----------------------------------------------------------------------------
(* Theorems *)

\* The two files, the locks and the operations always have the values the
\* model gives them; in particular no retrieval returns an unreadable half.
THEOREM RecordTypes == Spec => []TypeOK
<1>1. StoreInv => TypeOK
  BY DEF StoreInv
<1>2. QED
  BY StoreInvariant, <1>1, PTL

\* For any number of processes, a store or delete that nothing overlapped is
\* atomic and durable up to the next one.
THEOREM RecordIntactAlways == Spec => []RecordIntact
<1>1. StoreInv => RecordIntact
  BY DEF StoreInv, RecordInv, IntactInv, RecordIntact, Unmutated, Untouched
<1>2. QED
  BY StoreInvariant, <1>1, PTL

\* A retention cleanup that no store overlapped deletes what it judged.
THEOREM CleanupSafe == Spec => []CleanupRemovesWhatItJudged
<1>1. StoreInv => CleanupRemovesWhatItJudged
  BY DEF StoreInv, RecordInv, IntactInv, Untouched, CleanupRemovesWhatItJudged
<1>2. QED
  BY StoreInvariant, <1>1, PTL

\* An undisturbed retrieval returns the last store, both halves of it.
THEOREM RetrieveSafe == Spec => RetrieveReturnsCommitted
<1> DEFINE Returned(p) ==
             RetrieveStep(p) /\ pc'[p] = "idle" /\ sole[p]
                 => result'[p] = IF committed = Absent THEN Absent
                                                      ELSE <<committed, committed>>
<1>1. ASSUME StoreInv, NEW p \in Procs
      PROVE  Returned(p)
  <2> SUFFICES ASSUME RetrieveStep(p), pc'[p] = "idle", sole[p]
               PROVE  result'[p] = IF committed = Absent THEN Absent
                                                        ELSE <<committed, committed>>
    OBVIOUS
  <2> USE DEF Return, Goto
  <2>1. pc[p] \in ReadPCs
    BY DEF RetrieveStep, NeedData, NeedMeta, LoadData, LoadMeta, ReadPCs
  <2>2. dataFile = committed /\ metaFile = committed
    BY <1>1, <2>1 DEF StoreInv, RecordInv, ReadInv, IntactInv, Untouched
  <2>3. CASE NeedData(p) \/ NeedMeta(p)
    BY <1>1, <2>2, <2>3 DEF NeedData, NeedMeta, StoreInv, TypeOK
  <2>4. CASE LoadData(p)
    BY <1>1, <2>1, <2>2, <2>4 DEF LoadData, StoreInv, TypeOK, RecordInv, ReadInv
  <2>5. CASE LoadMeta(p)
    BY <1>1, <2>1, <2>2, <2>5 DEF LoadMeta, StoreInv, TypeOK, RecordInv, ReadInv
  <2>6. QED
    BY <2>3, <2>4, <2>5 DEF RetrieveStep
<1>2. StoreInv => \A p \in Procs : Returned(p)
  BY <1>1
<1>3. QED
  BY StoreInvariant, <1>2, PTL DEF RetrieveReturnsCommitted

\* Two stores write together only after a renewal of the lock file: the lock's
\* theorem, carried over to the record by its place in the context manager.
THEOREM StoresSerialised == Spec => []StoresSerialisedUntilRenewed
<1>1. StoreInv /\ ExclusiveUntilRenewed => StoresSerialisedUntilRenewed
  BY DEF StoreInv, StageOfPC, StageOf, StoreBody, ExclusiveUntilRenewed, MutualExclusion,
         Holds, StoresSerialisedUntilRenewed
<1>2. QED
  BY StoreInvariant, RecordImplementsLock, LockExclusion, <1>1, PTL
================================================================================
