------------------------------ MODULE RecordStore ------------------------------
(***************************************************************************)
(* One record of LocalStorageBackend (medallion/storage/local.py): its     *)
(* data file, its metadata file and its lock file, and the operations that *)
(* processes sharing the base path run on it: store_data (under the lock), *)
(* delete_data, cleanup_old_data and retrieve_data (without it).  Each     *)
(* file access is a step of its own; a process may die between any two.    *)
(*                                                                         *)
(* A file's content is Absent, Partial (truncated or half written, so that *)
(* json.load fails) or the version of the store that wrote it.             *)
(***************************************************************************)
EXTENDS FileLock

CONSTANTS
    MaxOps,    \* bound: operations started in one behaviour
    Absent,    \* the file does not exist, or retrieve_data returned None
    Partial    \* the file exists and is not valid JSON

Versions == 1..MaxOps
Contents == Versions \cup {Absent, Partial}

ASSUME MaxOpsAssumption == MaxOps \in Nat \ {0}
ASSUME ContentAssumption ==
    /\ Absent # Partial
    /\ Absent \notin Int
    /\ Partial \notin Int

VARIABLES
    dataFile,   \* content of data/<id>.json
    metaFile,   \* content of metadata/<id>.json
    pc,         \* [Procs -> the next step of the operation it runs]
    arg,        \* [Procs -> version it stores, or version it has read]
    linked,     \* [Procs -> the file it has open for writing is still the one at its path]
    result,     \* [Procs -> what its last retrieve_data returned]
    ops,        \* operations started so far
    committed,  \* history: what the last completed store or delete left
    spoiled,    \* history: a mutator overlapped another or stopped midway
    sole        \* [Procs -> history: nothing mutated since its operation began]

history == <<committed, spoiled, sole>>
vars == <<lockVars, dataFile, metaFile, pc, arg, linked, result, ops, history>>

StorePCs == {"lock", "openData", "dumpData", "openMeta", "dumpMeta", "release", "unlink"}
DeletePCs == {"seeData", "unlinkData", "seeMeta", "unlinkMeta"}
ReadPCs == {"needData", "needMeta", "loadData", "loadMeta"}
StoreBody == {"openData", "dumpData", "openMeta", "dumpMeta"}
PCs == {"idle"} \cup StorePCs \cup DeletePCs \cup ReadPCs

TypeOK ==
    /\ LockTypeOK
    /\ dataFile \in Contents
    /\ metaFile \in Contents
    /\ pc \in [Procs -> PCs]
    /\ arg \in [Procs -> Versions \cup {Absent}]
    /\ \A p \in Procs : pc[p] \in StorePCs \cup {"loadMeta"} => arg[p] \in Versions
    /\ linked \in [Procs -> BOOLEAN]
    /\ result \in [Procs -> (Versions \X Versions) \cup {Absent}]
    /\ ops \in 0..MaxOps
    /\ committed \in Versions \cup {Absent}
    /\ spoiled \in BOOLEAN
    /\ sole \in [Procs -> BOOLEAN]

Init ==
    /\ LockInit
    /\ dataFile = Absent
    /\ metaFile = Absent
    /\ pc = [p \in Procs |-> "idle"]
    /\ arg = [p \in Procs |-> Absent]
    /\ linked = [p \in Procs |-> FALSE]
    /\ result = [p \in Procs |-> Absent]
    /\ ops = 0
    /\ committed = Absent
    /\ spoiled = FALSE
    /\ sole = [p \in Procs |-> FALSE]

-----------------------------------------------------------------------------
(* Helpers *)

Goto(p, label) == pc' = [pc EXCEPT ![p] = label]

\* p is between the first and the last file access that may change the record.
Mutating(p) == pc[p] \in StoreBody \cup DeletePCs

\* p has changed one of the two files and not the other.
Midway(p) == pc[p] \in {"dumpData", "openMeta", "dumpMeta", "seeMeta", "unlinkMeta"}

OthersMutate(p) == \E q \in Procs \ {p} : Mutating(q)

\* History: p starts to mutate; every operation in progress is disturbed.
BeginMutation(p) ==
    /\ sole' = [q \in Procs |-> q = p /\ ~OthersMutate(p)]
    /\ spoiled' = (spoiled \/ OthersMutate(p))
    /\ UNCHANGED committed

\* History: p has made its last change, which leaves c in both files if
\* nothing else mutated the record since p began.
EndMutation(p, c) ==
    /\ committed' = c
    /\ spoiled' = (spoiled /\ ~sole[p])
    /\ UNCHANGED sole

\* What a file with content c holds after p writes and closes it: open("w")
\* truncated it earlier, and another writer may have written it since, in
\* which case the longer text shows through the shorter one.  A file that was
\* unlinked meanwhile receives the text instead of the one at the path.
AfterDump(p, c) ==
    CASE ~linked[p]                  -> {c}
      [] linked[p] /\ c = Partial    -> {arg[p]}
      [] linked[p] /\ c # Partial    -> {arg[p], Partial}

\* The writers at "label" lose the file they have open when it is unlinked.
Unlinked(label) == linked' = [q \in Procs |-> linked[q] /\ pc[q] # label]

Start(p) ==
    /\ pc[p] = "idle"
    /\ ops < MaxOps
    /\ ops' = ops + 1

-----------------------------------------------------------------------------
(* store_data *)

StartStore(p) ==
    /\ Start(p)
    /\ OpenLock(p)
    /\ arg' = [arg EXCEPT ![p] = ops + 1]
    /\ Goto(p, "lock")
    /\ UNCHANGED <<dataFile, metaFile, linked, result, history>>

EnterStore(p) ==
    /\ pc[p] = "lock"
    /\ TakeLock(p)
    /\ Goto(p, "openData")
    /\ BeginMutation(p)
    /\ UNCHANGED <<dataFile, metaFile, arg, linked, result, ops>>

\* open(data_file, "w"): creates the file or truncates it.
OpenData(p) ==
    /\ pc[p] = "openData"
    /\ dataFile' = Partial
    /\ linked' = [linked EXCEPT ![p] = TRUE]
    /\ Goto(p, "dumpData")
    /\ UNCHANGED <<lockVars, metaFile, arg, result, ops, history>>

DumpData(p) ==
    /\ pc[p] = "dumpData"
    /\ dataFile' \in AfterDump(p, dataFile)
    /\ Goto(p, "openMeta")
    /\ UNCHANGED <<lockVars, metaFile, arg, linked, result, ops, history>>

\* Mutant of OpenMeta: metadata is written for new records only.
OpenNewMeta(p) ==
    /\ pc[p] = "openMeta"
    /\ IF metaFile = Absent
          THEN /\ metaFile' = Partial
               /\ linked' = [linked EXCEPT ![p] = TRUE]
               /\ Goto(p, "dumpMeta")
               /\ UNCHANGED history
          ELSE /\ Goto(p, "release")
               /\ EndMutation(p, arg[p])
               /\ UNCHANGED <<metaFile, linked>>
    /\ UNCHANGED <<lockVars, dataFile, arg, result, ops>>

OpenMeta(p) ==
    /\ pc[p] = "openMeta"
    /\ metaFile' = Partial
    /\ linked' = [linked EXCEPT ![p] = TRUE]
    /\ Goto(p, "dumpMeta")
    /\ UNCHANGED <<lockVars, dataFile, arg, result, ops, history>>

DumpMeta(p) ==
    /\ pc[p] = "dumpMeta"
    /\ metaFile' \in AfterDump(p, metaFile)
    /\ Goto(p, "release")
    /\ EndMutation(p, arg[p])
    /\ UNCHANGED <<lockVars, dataFile, arg, linked, result, ops>>

LeaveStore(p) ==
    /\ pc[p] = "release"
    /\ ReleaseLock(p)
    /\ Goto(p, "unlink")
    /\ UNCHANGED <<dataFile, metaFile, arg, linked, result, ops, history>>

FinishStore(p) ==
    /\ pc[p] = "unlink"
    /\ UnlinkLock(p)
    /\ Goto(p, "idle")
    /\ UNCHANGED <<dataFile, metaFile, arg, linked, result, ops, history>>

\* open or json.dump raises (disk full, a value that is not serialisable):
\* what was written stays, the lock is dropped, store_data returns False.
StoreFails(p) ==
    /\ pc[p] \in StoreBody
    /\ AbortLock(p)
    /\ Goto(p, "idle")
    /\ spoiled' = (spoiled \/ Midway(p))
    /\ UNCHANGED <<dataFile, metaFile, arg, linked, result, ops, committed, sole>>

-----------------------------------------------------------------------------
(* delete_data and the retention cleanup that calls it *)

StartDelete(p) ==
    /\ Start(p)
    /\ arg' = [arg EXCEPT ![p] = Absent]
    /\ Goto(p, "seeData")
    /\ BeginMutation(p)
    /\ UNCHANGED <<lockVars, dataFile, metaFile, linked, result>>

\* _cleanup_metadata_file: a record whose metadata loads may be older than the
\* cutoff; then it is deleted by identifier.  (Otherwise nothing happens.)
StartCleanup(p) ==
    /\ Start(p)
    /\ metaFile \in Versions
    /\ arg' = [arg EXCEPT ![p] = metaFile]
    /\ Goto(p, "seeData")
    /\ BeginMutation(p)
    /\ UNCHANGED <<lockVars, dataFile, metaFile, linked, result>>

SeeData(p) ==
    /\ pc[p] = "seeData"
    /\ Goto(p, IF dataFile = Absent THEN "seeMeta" ELSE "unlinkData")
    /\ UNCHANGED <<lockVars, dataFile, metaFile, arg, linked, result, ops, history>>

\* data_file.unlink(); when somebody else removed it after the test, the
\* FileNotFoundError ends the operation before it looks at the metadata.
UnlinkData(p) ==
    /\ pc[p] = "unlinkData"
    /\ dataFile' = Absent
    /\ Unlinked("dumpData")
    /\ Goto(p, IF dataFile = Absent THEN "idle" ELSE "seeMeta")
    /\ UNCHANGED <<lockVars, metaFile, arg, result, ops, history>>

\* Mutant of SeeMeta: delete_data stops after the data file.
ForgetMeta(p) ==
    /\ pc[p] = "seeMeta"
    /\ Goto(p, "idle")
    /\ EndMutation(p, Absent)
    /\ UNCHANGED <<lockVars, dataFile, metaFile, arg, linked, result, ops>>

SeeMeta(p) ==
    /\ pc[p] = "seeMeta"
    /\ IF metaFile = Absent
          THEN Goto(p, "idle") /\ EndMutation(p, Absent)
          ELSE Goto(p, "unlinkMeta") /\ UNCHANGED history
    /\ UNCHANGED <<lockVars, dataFile, metaFile, arg, linked, result, ops>>

UnlinkMeta(p) ==
    /\ pc[p] = "unlinkMeta"
    /\ metaFile' = Absent
    /\ Unlinked("dumpMeta")
    /\ Goto(p, "idle")
    /\ EndMutation(p, Absent)
    /\ UNCHANGED <<lockVars, dataFile, arg, result, ops>>

-----------------------------------------------------------------------------
(* retrieve_data *)

Return(p, value) ==
    /\ result' = [result EXCEPT ![p] = value]
    /\ Goto(p, "idle")

StartRetrieve(p) ==
    /\ Start(p)
    /\ Goto(p, "needData")
    /\ sole' = [sole EXCEPT ![p] = ~spoiled /\ ~OthersMutate(p)]
    /\ UNCHANGED <<lockVars, dataFile, metaFile, arg, linked, result, committed, spoiled>>

\* data_file.exists(), then metadata_file.exists().
NeedData(p) ==
    /\ pc[p] = "needData"
    /\ IF dataFile = Absent
          THEN Return(p, Absent)
          ELSE Goto(p, "needMeta") /\ UNCHANGED result
    /\ UNCHANGED <<lockVars, dataFile, metaFile, arg, linked, ops, history>>

NeedMeta(p) ==
    /\ pc[p] = "needMeta"
    /\ IF metaFile = Absent
          THEN Return(p, Absent)
          ELSE Goto(p, "loadData") /\ UNCHANGED result
    /\ UNCHANGED <<lockVars, dataFile, metaFile, arg, linked, ops, history>>

\* open and json.load; any exception becomes "not found".
LoadData(p) ==
    /\ pc[p] = "loadData"
    /\ IF dataFile \in Versions
          THEN /\ arg' = [arg EXCEPT ![p] = dataFile]
               /\ Goto(p, "loadMeta")
               /\ UNCHANGED result
          ELSE Return(p, Absent) /\ UNCHANGED arg
    /\ UNCHANGED <<lockVars, dataFile, metaFile, linked, ops, history>>

LoadMeta(p) ==
    /\ pc[p] = "loadMeta"
    /\ Return(p, IF metaFile \in Versions THEN <<arg[p], metaFile>> ELSE Absent)
    /\ UNCHANGED <<lockVars, dataFile, metaFile, arg, linked, ops, history>>

-----------------------------------------------------------------------------
(* The process dies; the next operation of its name is a restarted process. *)

Crash(p) ==
    /\ pc[p] # "idle"
    /\ IF stage[p] = "out" THEN UNCHANGED lockVars ELSE CrashLock(p)
    /\ Goto(p, "idle")
    /\ spoiled' = (spoiled \/ Midway(p))
    /\ UNCHANGED <<dataFile, metaFile, arg, linked, result, ops, committed, sole>>

-----------------------------------------------------------------------------

StoreStep(p) ==
    \/ EnterStore(p) \/ OpenData(p) \/ DumpData(p) \/ OpenMeta(p) \/ DumpMeta(p)
    \/ LeaveStore(p) \/ FinishStore(p)

DeleteStep(p) == SeeData(p) \/ UnlinkData(p) \/ SeeMeta(p) \/ UnlinkMeta(p)

RetrieveStep(p) == NeedData(p) \/ NeedMeta(p) \/ LoadData(p) \/ LoadMeta(p)

Step(p) == StoreStep(p) \/ DeleteStep(p) \/ RetrieveStep(p)

Next ==
    \E p \in Procs :
        \/ StartStore(p) \/ StartDelete(p) \/ StartCleanup(p) \/ StartRetrieve(p)
        \/ Step(p)
        \/ StoreFails(p)
        \/ Crash(p)

Spec == Init /\ [][Next]_vars

\* A started operation keeps running: threads are scheduled, and a blocked
\* flock returns once the inode is free.  Starting, failing and dying are not
\* obligations.
FairSpec == Spec /\ \A p \in Procs : WF_vars(Step(p))

-----------------------------------------------------------------------------
(* Properties *)

\* Two stores write the record's files together only after the lock file was
\* created anew beside an unlinked one that somebody still had open.
StoresSerialisedUntilRenewed ==
    ~renewed => \A p, q \in Procs :
                    pc[p] \in StoreBody /\ pc[q] \in StoreBody => p = q

\* A store or delete that overlapped no other one is atomic: once nobody is
\* mutating the record, both files hold exactly what the last one left, even
\* after earlier stores failed, died or collided.  The lock serialises
\* stores only, so this is what two unlocked deletes or a store beside a
\* delete lose.
RecordIntact ==
    ~spoiled /\ (\A q \in Procs : ~Mutating(q))
        => dataFile = committed /\ metaFile = committed

\* retrieve_data takes no lock.  A retrieval that began on an intact record
\* and overlapped no store or delete returns both halves of the last store,
\* and None only when the record had been deleted or never stored.
RetrieveReturnsCommitted ==
    [][\A p \in Procs :
          RetrieveStep(p) /\ pc'[p] = "idle" /\ sole[p]
              => result'[p] = IF committed = Absent THEN Absent
                                                   ELSE <<committed, committed>>]_vars

\* cleanup_old_data judges the metadata and then deletes by identifier: unless
\* a store began in between, the data it removes is of the record it judged.
CleanupRemovesWhatItJudged ==
    \A p \in Procs :
        pc[p] = "unlinkData" /\ arg[p] \in Versions /\ sole[p] /\ ~spoiled
            => dataFile = arg[p]

\* No operation waits for ever: a store that failed, a process that died in
\* the locked region and a lock file left behind block nobody.
OperationsEnd == \A p \in Procs : pc[p] # "idle" ~> pc[p] = "idle"
=============================================================================
