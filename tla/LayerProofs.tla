------------------------------ MODULE LayerProofs ------------------------------
(***************************************************************************)
(* Theorems about a layer's directory: about LayerRestore for every set of *)
(* records, any number of versions and any number of restores, and about   *)
(* LayerListing for every number of processes, records, file changes and   *)
(* queries.                                                                *)
(***************************************************************************)
EXTENDS LayerRestore, LayerListing, TLAPS

-----------------------------------------------------------------------------
(***************************************************************************)
(* LayerRestore                                                            *)
(*                                                                         *)
(* RestoreInv says, for each step of restore_layer, where the directory it *)
(* set out to replace is at that step, and that whoever starts a restore   *)
(* finds the layer's directory.  SnapshotInv says that a backup keeps what *)
(* it reported as copied.                                                  *)
(***************************************************************************)

\* The layer has its directory until it is moved to restore_temp, where it stays for
\* as long as there is no other, and nothing is at risk once the copy stands.
WhereDirectoriesAre ==
    /\ doing \in {"clear", "move", "discard"} => layerDir # Missing
    /\ doing \in {"clear", "copy", "undo", "discard"} => tempDir # Missing
    /\ doing = "idle" /\ layerDir = Missing => tempDir # Missing
    /\ doing \in {"clear", "move", "copy"} => backup # Missing

WhereOriginalIs ==
    /\ doing \in {"clear", "move"} => before = layerDir.files
    /\ doing \in {"copy", "undo"} => before = tempDir.files
    /\ doing = "idle" /\ layerDir = Missing => before = tempDir.files
    /\ doing = "discard" => before = Missing

RestoreInv == RestoreTypeOK /\ WhereDirectoriesAre /\ WhereOriginalIs /\ OriginalSurvives

\* The backup has the files of the last snapshot, and no others if it was made afresh.
SnapshotInv ==
    snapshot # Missing =>
        /\ backup # Missing
        /\ \A r \in Held(snapshot.files) : backup.files[r] = snapshot.files[r]
        /\ snapshot.fresh => backup.files = snapshot.files

USE RestoreAssumption, MissingAssumption

\* Directories are what the helpers make them.
LEMMA NoFilesType == NoFiles \in Files /\ Dir(NoFiles) \in Dirs /\ Dir(NoFiles).files = NoFiles
  BY DEF NoFiles, Files, Dir, Dirs

LEMMA CopyIntoType ==
    ASSUME NEW src \in Dirs, NEW dst \in Dirs, NEW copied \in SUBSET Records
    PROVE  /\ CopyInto(src, dst, copied) \in Dirs
           /\ \A r \in Records : CopyInto(src, dst, copied).files[r] =
                 IF r \in copied THEN src.files[r] ELSE dst.files[r]
<1>1. [r \in Records |-> IF r \in copied THEN src.files[r] ELSE dst.files[r]] \in Files
  BY DEF Files, Dirs
<1>2. (IF src.inner # Missing THEN src.inner ELSE dst.inner) \in Files \cup {Missing}
  BY DEF Dirs
<1>3. QED
  BY <1>1, <1>2 DEF CopyInto, Dirs

LEMMA RemainsType ==
    ASSUME NEW dir \in Dirs, NEW left \in SUBSET Records
    PROVE  Remains(dir, left) \in Dirs
<1>1. [r \in Records |-> IF r \in left THEN dir.files[r] ELSE Missing] \in Files
  BY DEF Files, Dirs
<1>2. QED
  BY <1>1 DEF Remains, Dirs

LEMMA PartlyMovedType ==
    ASSUME NEW dir \in Dirs, NEW part \in PartlyMoved(dir)
    PROVE  /\ part.from \in Dirs /\ part.to \in Dirs
           /\ part.from = dir \/ part.to = dir
<1>1. CASE \E copied \in SUBSET Records :
              part = [from |-> dir, to |-> CopyInto(dir, Dir(NoFiles), copied)]
  BY <1>1, NoFilesType, CopyIntoType
<1>2. CASE \E left \in SUBSET Records : part = [from |-> Remains(dir, left), to |-> dir]
  BY <1>2, RemainsType
<1>3. QED
  BY <1>1, <1>2 DEF PartlyMoved

\* A backup copied whole into an empty place is the original.
LEMMA WholeCopy ==
    ASSUME NEW src \in Dirs
    PROVE  CopyInto(src, Dir(NoFiles), Held(src.files)).files = src.files
<1>1. src.files \in Files
  BY DEF Dirs
<1>2. \A r \in Records : r \notin Held(src.files) => src.files[r] = Missing
  BY DEF Held
<1>3. CopyInto(src, Dir(NoFiles), Held(src.files)).files =
        [r \in Records |-> IF r \in Held(src.files) THEN src.files[r] ELSE Missing]
  BY DEF CopyInto, Dir, NoFiles
<1>4. QED
  BY <1>1, <1>2, <1>3 DEF Files

-----------------------------------------------------------------------------
LEMMA RestoreInitInv == RestoreInit => RestoreInv /\ SnapshotInv
<1> SUFFICES ASSUME RestoreInit PROVE RestoreInv /\ SnapshotInv
  OBVIOUS
<1>1. RestoreTypeOK
  BY NoFilesType DEF RestoreInit, RestoreTypeOK
<1>2. QED
  BY <1>1, NoFilesType DEF RestoreInit, RestoreInv, WhereDirectoriesAre, WhereOriginalIs,
     OriginalSurvives, SnapshotInv

\* Writing and removing records change the files of the layer and no directory.
LEMMA WriteInv == ASSUME RestoreInv, NEW r \in Records, Write(r) \/ DeleteRecord(r) PROVE RestoreInv'
<1>1. layerDir \in Dirs /\ layerDir # Missing /\ doing = "idle"
  BY DEF RestoreInv, RestoreTypeOK, WhereDirectoriesAre, Write, DeleteRecord
<1>2. PICK v \in 1..MaxVersions \cup {Missing} : layerDir' = [layerDir EXCEPT !.files[r] = v]
  BY <1>1 DEF Write, DeleteRecord, RestoreInv, RestoreTypeOK
<1>3. layerDir' \in Dirs /\ layerDir'.inner = layerDir.inner
  BY <1>1, <1>2 DEF Dirs, Files
<1>4. written' \in 0..MaxVersions /\ before' \in {before, Missing}
  BY DEF Write, DeleteRecord, RestoreInv, RestoreTypeOK
<1>5. RestoreTypeOK'
  BY <1>3, <1>4 DEF Write, DeleteRecord, RestoreInv, RestoreTypeOK
<1>6. before' # Missing => before = before' /\ before # layerDir.files
  BY DEF Write, DeleteRecord
<1>7. OriginalSurvives'
  BY <1>1, <1>3, <1>4, <1>6 DEF Write, DeleteRecord, RestoreInv, OriginalSurvives
<1>8. QED
  BY <1>1, <1>3, <1>5, <1>7 DEF Write, DeleteRecord, RestoreInv, WhereDirectoriesAre, WhereOriginalIs

LEMMA BackupInv == ASSUME RestoreInv, NEW copied \in SUBSET Records, Backup(copied) PROVE RestoreInv'
<1>1. layerDir \in Dirs
  BY DEF RestoreInv, RestoreTypeOK, WhereDirectoriesAre, Backup
<1>2. (IF backup = Missing THEN Dir(NoFiles) ELSE backup) \in Dirs
  BY NoFilesType DEF RestoreInv, RestoreTypeOK
<1>3. backup' \in Dirs
  BY <1>1, <1>2, CopyIntoType DEF Backup
<1>4. snapshot' \in [files : Files, fresh : BOOLEAN] \cup {Missing}
  BY <1>1 DEF Backup, Dirs
<1>5. QED
  BY <1>3, <1>4 DEF Backup, RestoreInv, RestoreTypeOK, WhereDirectoriesAre, WhereOriginalIs,
     OriginalSurvives

\* Up to the copy the layer's directory is only moved, never changed.
LEMMA MoveInv ==
    ASSUME RestoreInv, StartRestore \/ ClearTemp \/ MoveAway \/ MoveFails PROVE RestoreInv'
<1>1. ASSUME StartRestore PROVE RestoreInv'
  <2>1. layerDir \in Dirs \cup {Missing} /\ (layerDir = Missing => tempDir # Missing)
    BY <1>1 DEF RestoreInv, RestoreTypeOK, WhereDirectoriesAre, StartRestore
  <2>2. RestoreTypeOK'
    BY <1>1, <2>1 DEF StartRestore, RestoreInv, RestoreTypeOK, dirs, Dirs
  <2>3. QED
    BY <1>1, <2>1, <2>2 DEF StartRestore, RestoreInv, WhereDirectoriesAre, WhereOriginalIs,
       OriginalSurvives, dirs
<1>2. ASSUME ClearTemp PROVE RestoreInv'
  <2>1. doing = "clear" /\ doing' \in {"move", "idle"} /\ tempDir \in Dirs
    BY <1>2 DEF RestoreInv, RestoreTypeOK, WhereDirectoriesAre, ClearTemp, TurnTo
  <2>2. tempDir' \in Dirs \cup {Missing}
    BY <1>2, <2>1, RemainsType DEF ClearTemp
  <2>3. RestoreTypeOK'
    BY <1>2, <2>1, <2>2 DEF ClearTemp, RestoreInv, RestoreTypeOK
  <2>4. QED
    BY <1>2, <2>1, <2>3 DEF ClearTemp, RestoreInv, WhereDirectoriesAre, WhereOriginalIs,
       OriginalSurvives
<1>3. ASSUME MoveAway PROVE RestoreInv'
  BY <1>3 DEF MoveAway, TurnTo, RestoreInv, RestoreTypeOK, WhereDirectoriesAre, WhereOriginalIs,
     OriginalSurvives
<1>4. ASSUME MoveFails PROVE RestoreInv'
  <2>1. layerDir \in Dirs /\ before = layerDir.files
    BY <1>4 DEF MoveFails, RestoreInv, RestoreTypeOK, WhereDirectoriesAre, WhereOriginalIs
  <2>2. /\ layerDir' \in Dirs /\ tempDir' \in Dirs \cup {Missing}
        /\ layerDir' = layerDir \/ tempDir' = layerDir
    BY <1>4, <2>1, PartlyMovedType DEF MoveFails, RestoreInv, RestoreTypeOK
  <2>3. RestoreTypeOK'
    BY <1>4, <2>2 DEF MoveFails, RestoreInv, RestoreTypeOK
  <2>4. QED
    BY <1>4, <2>1, <2>2, <2>3 DEF MoveFails, RestoreInv, WhereDirectoriesAre, WhereOriginalIs,
       OriginalSurvives
<1>5. QED
  BY <1>1, <1>2, <1>3, <1>4

\* The copy, its failure, and what undoes or settles it.
LEMMA CopyInv == ASSUME RestoreInv, CopyAll \/ CopyFails PROVE RestoreInv'
<1> DEFINE Copied(c) == CopyInto(backup, Dir(NoFiles), c)
<1>1. ASSUME backup \in Dirs, NEW c \in SUBSET Records PROVE Copied(c) \in Dirs
  BY <1>1, NoFilesType, CopyIntoType
<1>2. ASSUME CopyAll, backup \in Dirs PROVE RestoreInv'
  <2>1. layerDir' \in Dirs
    BY <1>1, <1>2 DEF CopyAll, Held
  <2>2. QED
    BY <1>2, <2>1 DEF CopyAll, TurnTo, RestoreInv, RestoreTypeOK, WhereDirectoriesAre,
       WhereOriginalIs, OriginalSurvives
<1>3. ASSUME CopyFails, backup \in Dirs PROVE RestoreInv'
  <2>1. layerDir' \in Dirs \/ layerDir' = layerDir
    BY <1>1, <1>3 DEF CopyFails, Held
  <2>2. tempDir # Missing /\ before = tempDir.files
    BY <1>3 DEF CopyFails, TurnTo, RestoreInv, WhereDirectoriesAre, WhereOriginalIs
  <2>3. QED
    BY <1>3, <2>1, <2>2 DEF CopyFails, TurnTo, RestoreInv, RestoreTypeOK, WhereDirectoriesAre,
       WhereOriginalIs, OriginalSurvives
<1>4. QED
  BY <1>2, <1>3 DEF CopyAll, CopyFails, TurnTo, RestoreInv, RestoreTypeOK, WhereDirectoriesAre

LEMMA SettleInv ==
    ASSUME RestoreInv, Undo \/ UndoFails \/ Discard \/ Die \/ Construct PROVE RestoreInv'
<1>1. ASSUME Undo PROVE RestoreInv'
  <2>1. tempDir \in Dirs /\ before = tempDir.files
    BY <1>1 DEF Undo, TurnTo, RestoreInv, RestoreTypeOK, WhereDirectoriesAre, WhereOriginalIs
  <2>2. /\ layerDir' \in Dirs
        /\ tempDir' = Missing => before \in {layerDir'.files, layerDir'.inner}
        /\ tempDir' \in {tempDir, Missing}
    BY <1>1, <2>1 DEF Undo, RestoreInv, RestoreTypeOK, Dirs
  <2>3. RestoreTypeOK'
    BY <1>1, <2>1, <2>2 DEF Undo, TurnTo, RestoreInv, RestoreTypeOK
  <2>4. QED
    BY <1>1, <2>1, <2>2, <2>3 DEF Undo, TurnTo, RestoreInv, WhereDirectoriesAre, WhereOriginalIs,
       OriginalSurvives
<1>2. ASSUME Discard PROVE RestoreInv'
  <2>1. layerDir \in Dirs /\ before = Missing
    BY <1>2 DEF Discard, TurnTo, RestoreInv, RestoreTypeOK, WhereDirectoriesAre, WhereOriginalIs
  <2>2. tempDir' \in Dirs \cup {Missing}
    BY <1>2, RemainsType DEF Discard, TurnTo, RestoreInv, RestoreTypeOK, WhereDirectoriesAre
  <2>3. QED
    BY <1>2, <2>1, <2>2 DEF Discard, TurnTo, RestoreInv, RestoreTypeOK, WhereDirectoriesAre,
       WhereOriginalIs, OriginalSurvives
<1>3. ASSUME Die PROVE RestoreInv'
  BY <1>3 DEF Die, dirs, RestoreInv, RestoreTypeOK, WhereDirectoriesAre, WhereOriginalIs,
     OriginalSurvives
<1>4. ASSUME Construct PROVE RestoreInv'
  <2>1. layerDir' \in Dirs /\ (layerDir # Missing => layerDir' = layerDir)
    BY <1>4, NoFilesType DEF Construct, RestoreInv, RestoreTypeOK
  <2>2. QED
    BY <1>4, <2>1 DEF Construct, RestoreInv, RestoreTypeOK, WhereDirectoriesAre,
       WhereOriginalIs, OriginalSurvives
<1>5. ASSUME UndoFails PROVE RestoreInv'
  <2>1. tempDir \in Dirs /\ before = tempDir.files
    BY <1>5 DEF UndoFails, RestoreInv, RestoreTypeOK, WhereDirectoriesAre, WhereOriginalIs
  <2>2. ASSUME NEW part \in PartlyMoved(tempDir), tempDir' = part.from,
               \/ layerDir = Missing /\ layerDir' = part.to
               \/ /\ layerDir # Missing /\ layerDir.inner = Missing
                  /\ layerDir' = [layerDir EXCEPT !.inner = part.to.files]
        PROVE  RestoreInv'
    <3>1. part.from \in Dirs /\ part.to \in Dirs /\ (part.from = tempDir \/ part.to = tempDir)
      BY <2>1, <2>2, PartlyMovedType
    <3>2. layerDir' \in Dirs /\ (part.from = tempDir \/ before \in {layerDir'.files, layerDir'.inner})
      BY <2>1, <2>2, <3>1 DEF RestoreInv, RestoreTypeOK, Dirs
    <3>3. RestoreTypeOK'
      BY <1>5, <2>2, <3>1, <3>2 DEF UndoFails, RestoreInv, RestoreTypeOK
    <3>4. QED
      BY <1>5, <2>1, <2>2, <3>1, <3>2, <3>3 DEF UndoFails, RestoreInv, WhereDirectoriesAre,
         WhereOriginalIs, OriginalSurvives
  <2>3. ASSUME UNCHANGED <<layerDir, tempDir>> PROVE RestoreInv'
    BY <1>5, <2>1, <2>3 DEF UndoFails, RestoreInv, RestoreTypeOK, WhereDirectoriesAre,
       WhereOriginalIs, OriginalSurvives
  <2>4. QED
    BY <1>5, <2>2, <2>3 DEF UndoFails
<1>6. QED
  BY <1>1, <1>2, <1>3, <1>4, <1>5

LEMMA RestoreStepInv == RestoreInv /\ [RestoreNext]_restoreVars => RestoreInv'
<1> SUFFICES ASSUME RestoreInv, [RestoreNext]_restoreVars PROVE RestoreInv'
  OBVIOUS
<1>1. CASE UNCHANGED restoreVars
  BY <1>1 DEF restoreVars, dirs, RestoreInv, RestoreTypeOK, WhereDirectoriesAre,
     WhereOriginalIs, OriginalSurvives
<1>2. CASE RestoreNext
  BY <1>2, WriteInv, BackupInv, MoveInv, CopyInv, SettleInv DEF RestoreNext
<1>3. QED
  BY <1>1, <1>2

\* Only a backup touches the backup.
LEMMA SnapshotStepInv == RestoreInv /\ SnapshotInv /\ [RestoreNext]_restoreVars => SnapshotInv'
<1> SUFFICES ASSUME RestoreInv, SnapshotInv, [RestoreNext]_restoreVars PROVE SnapshotInv'
  OBVIOUS
<1>1. CASE UNCHANGED <<backup, snapshot>>
  BY <1>1 DEF SnapshotInv
<1>2. ASSUME NEW copied \in SUBSET Records, Backup(copied), snapshot' # Missing
      PROVE  SnapshotInv'
  <2>1. layerDir \in Dirs
    BY <1>2 DEF Backup, RestoreInv, RestoreTypeOK
  <2>2. /\ copied = Held(layerDir.files)
        /\ snapshot' = [files |-> layerDir.files, fresh |-> backup = Missing]
    BY <1>2 DEF Backup
  <2>3. (IF backup = Missing THEN Dir(NoFiles) ELSE backup) \in Dirs
    BY NoFilesType DEF RestoreInv, RestoreTypeOK
  <2>4. backup' = CopyInto(layerDir, IF backup = Missing THEN Dir(NoFiles) ELSE backup, copied)
    BY <1>2 DEF Backup
  <2>5. backup' \in Dirs /\ \A r \in Held(layerDir.files) : backup'.files[r] = layerDir.files[r]
    BY <2>1, <2>2, <2>3, <2>4, CopyIntoType DEF Held
  <2>6. backup = Missing => backup'.files = layerDir.files
    BY <2>1, <2>2, <2>4, WholeCopy
  <2>7. QED
    BY <2>2, <2>5, <2>6 DEF SnapshotInv
<1>3. QED
  BY <1>1, <1>2 DEF RestoreNext, restoreVars, dirs, Write, DeleteRecord, Backup, StartRestore, ClearTemp,
     MoveAway, MoveFails, CopyAll, CopyFails, Undo, UndoFails, Discard, Die, Construct, SnapshotInv

-----------------------------------------------------------------------------
\* What a restore and a crash in it leave of the layer and its copies, at every step.
THEOREM RestoreInvariant == RestoreSpec => [](RestoreInv /\ SnapshotInv)
<1>1. RestoreInit => RestoreInv /\ SnapshotInv
  BY RestoreInitInv
<1>2. RestoreInv /\ SnapshotInv /\ [RestoreNext]_restoreVars => (RestoreInv /\ SnapshotInv)'
  BY RestoreStepInv, SnapshotStepInv
<1>3. QED
  BY <1>1, <1>2, PTL DEF RestoreSpec

\* restore_layer never loses what it set out to replace (local.py:673), whatever the
\* number of records, wherever it fails or dies.
THEOREM RestoreKeepsOriginal == RestoreSpec => []OriginalSurvives
<1>1. RestoreInv /\ SnapshotInv => OriginalSurvives
  BY DEF RestoreInv
<1>2. QED
  BY <1>1, RestoreInvariant, PTL

\* A restore that copies the backup brings back the layer of the last good backup.
THEOREM RestoreIsFaithful == RestoreSpec => RestoreReturnsSnapshot
<1>1. ASSUME RestoreInv, SnapshotInv, CopyAll, snapshot # Missing
      PROVE  /\ \A r \in Held(snapshot.files) : layerDir'.files[r] = snapshot.files[r]
             /\ snapshot.fresh => layerDir'.files = snapshot.files
  <2>1. backup \in Dirs
    BY <1>1 DEF SnapshotInv, RestoreInv, RestoreTypeOK
  <2>2. layerDir'.files = backup.files
    BY <1>1, <2>1, WholeCopy DEF CopyAll
  <2>3. QED
    BY <1>1, <2>2 DEF SnapshotInv
<1>2. RestoreInv /\ SnapshotInv => RestoreTypeOK
  BY DEF RestoreInv
<1>3. QED
  BY <1>1, RestoreInvariant, PTL DEF RestoreSpec, RestoreReturnsSnapshot

-----------------------------------------------------------------------------
(***************************************************************************)
(* LayerListing                                                            *)
(*                                                                         *)
(* What a query finds for certain, although the listing it goes by may be  *)
(* stale.                                                                  *)
(*                                                                         *)
(* A listing is judged by two standards.  While a backend has only read,   *)
(* its listing is complete for the mtime it is keyed with.  Once it has    *)
(* stored or deleted it may have re-keyed a stale listing as current; what *)
(* it still has is every record its caller was the last to store.          *)
(***************************************************************************)

Cached(t) == cache[BackendOf[t]]
Edited(t) == BackendOf[t] \in edited
Cut(t) == BackendOf[t] \in cut

\* Records that t was the last to store, and that were not deleted or spoilt since.
Own(t) == {i \in Ids : author[i] = t /\ meta[i] # 0 /\ loads[i]}

\* The record of t's store, while the listing has still to be told of it.
Telling(t) == IF pc[t] \in {"readCache", "rekey"} THEN {id[t]} ELSE {}

ListingTypes ==
    /\ meta \in [Ids -> Nat] /\ loads \in [Ids -> BOOLEAN] /\ data \in [Ids -> DataStates]
    /\ author \in [Ids -> Threads \cup {None}]
    /\ dirTime \in Nat /\ clock \in Nat /\ dirTime <= clock
    /\ cache = [b \in Backends |-> cache[b]]
    /\ pc \in [Threads -> PCs]
    /\ id \in [Threads -> Ids \cup {None}]
    /\ snap = [t \in Threads |-> snap[t]]
    /\ seenDir \in [Threads -> Nat]
    /\ rest \in [Threads -> [Ids -> Nat]]
    /\ found \in [Threads -> SUBSET Ids]
    /\ must \in [Threads -> SUBSET Ids]
    /\ edited \subseteq Backends /\ cut \subseteq Backends
    /\ \A t \in Threads :
          pc[t] \in {"writeData", "writeMeta", "readCache", "rekey",
                     "unlinkMeta", "unlinkRest", "readForget", "forget"} => id[t] \in Ids

CacheInv(t) ==
    Cached(t) # None =>
        /\ Cached(t).time \in Nat /\ Cached(t).time <= dirTime
        /\ Cached(t).entries \in [Ids -> Nat]
        /\ ~Edited(t) /\ Cached(t).time = dirTime =>
              Listed(meta) \subseteq Listed(Cached(t).entries)
        /\ ~Cut(t) => Own(t) \ Telling(t) \subseteq Listed(Cached(t).entries)

EditInv(t) ==
    /\ pc[t] \in {"readCache", "rekey", "readForget", "forget"} => Edited(t)
    /\ pc[t] \in {"rekey", "forget"} => snap[t] = Cached(t) /\ snap[t] # None
    /\ pc[t] \in {"readForget", "forget"} => id[t] \notin Own(t)
    /\ seenDir[t] <= dirTime

QueryInv(t) ==
    /\ pc[t] = "lookup" /\ ~Edited(t) /\ Cached(t) # None /\ Cached(t).time = seenDir[t] =>
          must[t] \subseteq Listed(Cached(t).entries)
    /\ pc[t] = "stat" =>
          /\ must[t] \cup Own(t) \subseteq Listed(rest[t])
          /\ seenDir[t] = dirTime => Listed(rest[t]) = Listed(meta)
    /\ pc[t] = "keep" =>
          /\ must[t] \subseteq Listed(rest[t])
          /\ ~Cut(t) => Own(t) \subseteq Listed(rest[t])
          /\ seenDir[t] = dirTime => Listed(meta) \subseteq Listed(rest[t])
    /\ pc[t] = "process" =>
          /\ ~Edited(t) => must[t] \subseteq Listed(rest[t]) \cup found[t]
          /\ ~Cut(t) => must[t] \cap Own(t) \subseteq Listed(rest[t]) \cup found[t]

\* What a query must find is complete on disk at this moment.
MustInv == \A t \in Threads : must[t] \subseteq Complete

ListingInv ==
    /\ ListingTypes /\ MustInv
    /\ \A t \in Threads : CacheInv(t) /\ EditInv(t) /\ QueryInv(t)

USE NoneAssumption, BackendAssumption

-----------------------------------------------------------------------------
(* What a step of one process leaves to another *)

\* The process u has not moved, and its listing is its own.
Still(u) ==
    /\ Cached(u)' = Cached(u)
    /\ pc'[u] = pc[u] /\ id'[u] = id[u] /\ snap'[u] = snap[u] /\ seenDir'[u] = seenDir[u]
    /\ rest'[u] = rest[u] /\ found'[u] = found[u]
    /\ must'[u] \subseteq must[u]
    /\ Own(u)' \subseteq Own(u)

\* Whatever changes the names in the directory changes its mtime.
FilesMove ==
    /\ dirTime <= dirTime'
    /\ dirTime' = dirTime => Listed(meta') = Listed(meta)
    /\ edited \subseteq edited' /\ cut \subseteq cut'

LEMMA StillInv ==
    ASSUME ListingInv, ListingTypes', FilesMove, NEW u \in Threads, Still(u)
    PROVE  CacheInv(u)' /\ EditInv(u)' /\ QueryInv(u)'
<1> USE DEF Still, FilesMove
<1>1. CacheInv(u) /\ EditInv(u) /\ QueryInv(u)
  BY DEF ListingInv
<1>2. dirTime \in Nat /\ dirTime' \in Nat /\ seenDir[u] \in Nat
  BY DEF ListingInv, ListingTypes
<1>3. Edited(u) => Edited(u)'
  BY DEF Edited
<1>4. Cut(u) => Cut(u)'
  BY DEF Cut
<1>5. Telling(u)' = Telling(u)
  BY DEF Telling
<1>6. CacheInv(u)'
  BY <1>1, <1>2, <1>3, <1>4, <1>5 DEF CacheInv
<1>7. EditInv(u)'
  BY <1>1, <1>2, <1>3 DEF EditInv
<1>8. QueryInv(u)'
  BY <1>1, <1>2, <1>3, <1>4 DEF QueryInv, EditInv
<1>9. QED
  BY <1>6, <1>7, <1>8

\* A step of t: it is enough to look at t, if the others are still.
LEMMA StepOf ==
    ASSUME ListingInv, NEW t \in Threads,
           ListingTypes', MustInv', FilesMove, \A u \in Threads \ {t} : Still(u),
           CacheInv(t)', EditInv(t)', QueryInv(t)'
    PROVE  ListingInv'
<1>1. ASSUME NEW u \in Threads PROVE CacheInv(u)' /\ EditInv(u)' /\ QueryInv(u)'
  <2>1. CASE u = t
    BY <2>1
  <2>2. CASE u # t
    BY <2>2, StillInv
  <2>3. QED
    BY <2>1, <2>2
<1>2. QED
  BY <1>1 DEF ListingInv

\* One backend's listing is changed.
LEMMA OtherListings ==
    ASSUME ListingTypes, NEW t \in Threads, NEW l, SetCache(BackendOf[t], l)
    PROVE  /\ cache' = [b \in Backends |-> cache'[b]]
           /\ Cached(t)' = l
           /\ \A u \in Threads \ {t} : Cached(u)' = Cached(u)
  BY DEF SetCache, ListingTypes, Cached, Backends

-----------------------------------------------------------------------------
(* The steps *)

LEMMA ListingInit == Init => ListingInv
  BY DEF Init, ListingInv, ListingTypes, MustInv, CacheInv, EditInv, QueryInv, Cached, Backends,
         Empty, PCs, DataStates, Complete, Own, Listed

LEMMA StartStoreInv ==
    ASSUME ListingInv, NEW t \in Threads, NEW i \in Ids, StartStore(t, i)
    PROVE  ListingInv'
<1> USE DEF StartStore, query
<1>1. ListingTypes'
  BY DEF ListingInv, ListingTypes, Goto, Disturb, PCs, DataStates
<1>2. MustInv'
  BY DEF ListingInv, ListingTypes, MustInv, Complete, Disturb
<1>3. \A u \in Threads : Own(u)' = Own(u) /\ Cached(u)' = Cached(u)
  BY DEF Own, Cached
<1>4. FilesMove
  BY DEF FilesMove, ListingInv, ListingTypes
<1>5. \A u \in Threads \ {t} : Still(u)
  BY <1>3 DEF Still, ListingInv, ListingTypes, Goto, Disturb
<1>6. CacheInv(t)' /\ EditInv(t)' /\ QueryInv(t)'
  <2>1. pc'[t] = "writeData" /\ pc[t] = "idle" /\ seenDir' = seenDir
    BY DEF Goto, ListingInv, ListingTypes
  <2>2. CacheInv(t) /\ EditInv(t)
    BY DEF ListingInv
  <2>3. QED
    BY <1>3, <2>1, <2>2 DEF CacheInv, EditInv, QueryInv, Telling, Edited, Cut
<1>7. QED
  BY <1>1, <1>2, <1>4, <1>5, <1>6, StepOf

LEMMA WriteDataInv ==
    ASSUME ListingInv, NEW t \in Threads, WriteData(t)
    PROVE  ListingInv'
<1> USE DEF WriteData, locals, query, history
<1>1. ListingTypes'
  BY DEF ListingInv, ListingTypes, Goto, PCs, DataStates
<1>2. MustInv'
  BY DEF ListingInv, ListingTypes, MustInv, Complete
<1>3. \A u \in Threads : Own(u)' = Own(u) /\ Cached(u)' = Cached(u)
  BY DEF Own, Cached
<1>4. FilesMove
  BY DEF FilesMove, ListingInv, ListingTypes
<1>5. \A u \in Threads \ {t} : Still(u)
  BY <1>3 DEF Still, ListingInv, ListingTypes, Goto
<1>6. CacheInv(t)' /\ EditInv(t)' /\ QueryInv(t)'
  <2>1. pc'[t] = "writeMeta" /\ pc[t] = "writeData"
    BY DEF Goto, ListingInv, ListingTypes
  <2>2. CacheInv(t) /\ EditInv(t)
    BY DEF ListingInv
  <2>3. QED
    BY <1>3, <2>1, <2>2 DEF CacheInv, EditInv, QueryInv, Telling, Edited, Cut
<1>7. QED
  BY <1>1, <1>2, <1>4, <1>5, <1>6, StepOf

\* A metadata file that is written anew is a change of the directory.
MetaWritten(i, valid) ==
    /\ i \in Ids
    /\ meta' \in [Ids -> Nat] /\ loads' \in [Ids -> BOOLEAN] /\ data' = data
    /\ dirTime' \in Nat /\ clock' \in Nat /\ dirTime' <= clock' /\ dirTime <= dirTime'
    /\ dirTime' = dirTime => Listed(meta') = Listed(meta)
    /\ \A j \in Ids : j # i => meta'[j] = meta[j] /\ loads'[j] = loads[j]
    /\ meta'[i] # 0 /\ loads'[i] = valid

LEMMA WritesMeta ==
    ASSUME ListingTypes, NEW t \in Threads, NEW valid \in BOOLEAN, WriteMeta(t, valid)
    PROVE  MetaWritten(id[t], valid)
<1>1. id[t] \in Ids
  BY DEF WriteMeta, ListingTypes
<1>2. clock' = clock + 1 /\ clock' \in Nat /\ clock' # 0 /\ dirTime <= clock'
  BY DEF WriteMeta, ListingTypes
<1>3. dirTime' \in Nat /\ dirTime' <= clock' /\ dirTime <= dirTime'
  BY <1>2 DEF WriteMeta, ListingTypes
<1>4. meta' = [meta EXCEPT ![id[t]] = clock'] /\ loads' = [loads EXCEPT ![id[t]] = valid]
  BY DEF WriteMeta
<1>5. dirTime' = dirTime => Listed(meta') = Listed(meta)
  <2>1. CASE meta[id[t]] = 0
    <3>1. dirTime' # dirTime
      BY <1>2, <2>1 DEF WriteMeta, ListingTypes
    <3>2. QED
      BY <3>1
  <2>2. CASE meta[id[t]] # 0
    BY <1>1, <1>2, <1>4, <2>2 DEF Listed, ListingTypes
  <2>3. QED
    BY <2>1, <2>2
<1>6. QED
  BY <1>1, <1>2, <1>3, <1>4, <1>5 DEF MetaWritten, WriteMeta, ListingTypes

LEMMA StoreWritesInv ==
    ASSUME ListingInv, NEW t \in Threads, StoreWrites(t)
    PROVE  ListingInv'
<1> USE DEF StoreWrites, locals, query
<1>0. ListingTypes /\ WriteMeta(t, TRUE) /\ pc[t] = "writeMeta"
  BY DEF ListingInv, WriteMeta
<1>w. MetaWritten(id[t], TRUE)
  BY <1>0, WritesMeta
<1>1. ListingTypes'
  <2>1. pc' \in [Threads -> PCs] /\ author' \in [Ids -> Threads \cup {None}]
    BY <1>0 DEF Goto, PCs, ListingTypes
  <2>2. edited' \subseteq Backends
    BY <1>0 DEF Backends, ListingTypes
  <2>3. \A u \in Threads : pc'[u] = pc[u] \/ u = t
    BY <1>0 DEF Goto, ListingTypes
  <2>4. QED
    BY <1>0, <1>w, <2>1, <2>2, <2>3 DEF ListingTypes, MetaWritten
<1>2. MustInv'
  <2>1. MustInv
    BY DEF ListingInv
  <2>2. QED
    BY <1>0, <1>w, <2>1 DEF MustInv, Complete, MetaWritten
<1>3. \A u \in Threads : Cached(u)' = Cached(u)
  BY DEF Cached
<1>4. FilesMove
  BY <1>0, <1>w DEF FilesMove, MetaWritten
<1>5. \A u \in Threads \ {t} : Own(u)' \subseteq Own(u)
  BY <1>0, <1>w DEF Own, ListingTypes, MetaWritten
<1>6. \A u \in Threads \ {t} : Still(u)
  BY <1>0, <1>3, <1>5 DEF Still, ListingTypes, Goto
<1>7. CacheInv(t)' /\ EditInv(t)' /\ QueryInv(t)'
  <2>1. pc'[t] = "readCache"
    BY <1>0 DEF Goto, ListingTypes
  <2>2. CacheInv(t) /\ EditInv(t) /\ seenDir[t] \in Nat /\ dirTime \in Nat
    BY DEF ListingInv, ListingTypes
  <2>3. Edited(t)' /\ Cut(t)' = Cut(t)
    BY DEF Edited, Cut
  <2>4. Own(t)' \ {id[t]} \subseteq Own(t)
    BY <1>0, <1>w DEF Own, ListingTypes, MetaWritten
  <2>5. dirTime <= dirTime' /\ dirTime' \in Nat
    BY <1>0, <1>w DEF MetaWritten
  <2>6. CacheInv(t)'
    BY <1>0, <1>3, <2>1, <2>2, <2>3, <2>4, <2>5 DEF CacheInv, Telling
  <2>7. QED
    BY <1>0, <2>1, <2>2, <2>3, <2>5, <2>6 DEF EditInv, QueryInv
<1>8. QED
  BY <1>1, <1>2, <1>4, <1>6, <1>7, StepOf

\* The operation is over: the listing and the files are as they are.
LEMMA DoneTypes ==
    ASSUME ListingTypes, NEW t \in Threads, Done(t)
    PROVE  /\ pc' \in [Threads -> PCs] /\ pc'[t] = "idle"
           /\ id' \in [Threads -> Ids \cup {None}]
           /\ snap' = [u \in Threads |-> snap'[u]]
           /\ seenDir' \in [Threads -> Nat] /\ seenDir'[t] = 0
           /\ \A u \in Threads \ {t} : /\ pc'[u] = pc[u] /\ id'[u] = id[u]
                                       /\ snap'[u] = snap[u] /\ seenDir'[u] = seenDir[u]
  BY DEF ListingTypes, Done, Goto, PCs

LEMMA StoreFailsInv ==
    ASSUME ListingInv, NEW t \in Threads, StoreFails(t)
    PROVE  ListingInv'
<1> USE DEF StoreFails, query
<1>0. ListingTypes /\ Done(t) /\ pc[t] \in {"writeData", "writeMeta"}
  BY DEF ListingInv, WriteMeta
<1>1. /\ meta' \in [Ids -> Nat] /\ loads' \in [Ids -> BOOLEAN] /\ data' = data
      /\ dirTime' \in Nat /\ clock' \in Nat /\ dirTime' <= clock'
      /\ \A u \in Threads : must'[u] \subseteq must[u] /\ Own(u)' \subseteq Own(u)
      /\ must' \in [Threads -> SUBSET Ids] /\ MustInv'
      /\ FilesMove
  <2>1. CASE UNCHANGED <<files, must>>
    BY <1>0, <2>1 DEF files, FilesMove, ListingInv, ListingTypes, Own, MustInv, Complete
  <2>2. CASE WriteMeta(t, FALSE) /\ Disturb(id[t])
    <3>1. must' = [u \in Threads |-> must[u] \ {id[t]}]
      BY <2>2 DEF Disturb
    <3>2. MetaWritten(id[t], FALSE)
      BY <1>0, <2>2, WritesMeta
    <3>3. MustInv'
      <4>1. MustInv
        BY DEF ListingInv
      <4>2. QED
        BY <1>0, <3>1, <3>2, <4>1 DEF MustInv, Complete, MetaWritten, ListingTypes
    <3>4. \A u \in Threads : Own(u)' \subseteq Own(u)
      BY <1>0, <3>2 DEF Own, MetaWritten
    <3>5. QED
      BY <1>0, <3>1, <3>2, <3>3, <3>4 DEF MetaWritten, FilesMove, ListingTypes
  <2>3. QED
    BY <2>1, <2>2
<1>2. ListingTypes'
  BY <1>0, <1>1, DoneTypes DEF ListingTypes
<1>3. \A u \in Threads : Cached(u)' = Cached(u)
  BY DEF Cached
<1>4. \A u \in Threads \ {t} : Still(u)
  BY <1>0, <1>1, <1>3, DoneTypes DEF Still
<1>5. CacheInv(t)' /\ EditInv(t)' /\ QueryInv(t)'
  <2>1. pc'[t] = "idle" /\ seenDir'[t] = 0 /\ CacheInv(t) /\ dirTime \in Nat
    BY <1>0, DoneTypes DEF ListingInv, ListingTypes
  <2>2. CacheInv(t)'
    BY <1>0, <1>1, <1>3, <2>1 DEF CacheInv, Telling, Edited, Cut, FilesMove
  <2>3. QED
    BY <1>1, <2>1, <2>2 DEF EditInv, QueryInv
<1>6. QED
  BY <1>1, <1>2, <1>4, <1>5, StepOf

\* Steps that touch no file and no history.
LEMMA FilesStay ==
    ASSUME ListingInv, UNCHANGED <<files, author, edited, cut>>
    PROVE  /\ FilesMove /\ Complete' = Complete
           /\ \A u \in Threads : Own(u)' = Own(u) /\ Edited(u)' = Edited(u) /\ Cut(u)' = Cut(u)
  BY DEF files, FilesMove, ListingInv, ListingTypes, Own, Edited, Cut, Complete

LEMMA ReadCacheInv ==
    ASSUME ListingInv, NEW t \in Threads, ReadCache(t)
    PROVE  ListingInv'
<1> USE DEF ReadCache, query, history
<1>0. ListingTypes /\ MustInv /\ CacheInv(t) /\ EditInv(t)
  BY DEF ListingInv
<1>1. \A u \in Threads : Cached(u)' = Cached(u)
  BY DEF Cached
<1>2. CASE Cached(t) = None
  <2>1. Done(t)
    BY <1>2 DEF Cached
  <2>2. ListingTypes'
    BY <1>0, <2>1, DoneTypes DEF ListingTypes, files
  <2>3. MustInv'
    BY <1>0, FilesStay DEF MustInv
  <2>4. \A u \in Threads \ {t} : Still(u)
    BY <1>0, <1>1, <2>1, DoneTypes, FilesStay DEF Still
  <2>5. CacheInv(t)' /\ EditInv(t)' /\ QueryInv(t)'
    BY <1>0, <1>1, <1>2, <2>1, DoneTypes DEF CacheInv, EditInv, QueryInv, ListingTypes, files
  <2>6. QED
    BY <2>2, <2>3, <2>4, <2>5, StepOf, FilesStay
<1>3. CASE Cached(t) # None
  <2>1. /\ snap' = [snap EXCEPT ![t] = cache[BackendOf[t]]]
        /\ seenDir' = [seenDir EXCEPT ![t] = dirTime]
        /\ Goto(t, "rekey") /\ id' = id
    BY <1>3 DEF Cached
  <2>2. ListingTypes'
    BY <1>0, <2>1 DEF ListingTypes, files, Goto, PCs
  <2>3. MustInv'
    BY <1>0, FilesStay DEF MustInv
  <2>4. \A u \in Threads \ {t} : Still(u)
    BY <1>0, <1>1, <2>1, FilesStay DEF Still, Goto, ListingTypes
  <2>5. /\ pc'[t] = "rekey" /\ pc[t] = "readCache" /\ snap'[t] = Cached(t)
        /\ seenDir'[t] = dirTime /\ dirTime' = dirTime /\ dirTime \in Nat
    BY <1>0, <2>1 DEF ListingTypes, Goto, Cached, files
  <2>6. CacheInv(t)'
    BY <1>0, <1>1, <2>1, <2>5, FilesStay DEF CacheInv, Telling, files
  <2>7. EditInv(t)' /\ QueryInv(t)'
    BY <1>0, <1>1, <1>3, <2>5, FilesStay DEF EditInv, QueryInv
  <2>8. QED
    BY <2>2, <2>3, <2>4, <2>6, <2>7, StepOf, FilesStay
<1>4. QED
  BY <1>2, <1>3

LEMMA RekeyInv ==
    ASSUME ListingInv, NEW t \in Threads, Rekey(t)
    PROVE  ListingInv'
<1> USE DEF Rekey, query, history
<1> DEFINE l == IF meta[id[t]] = 0 THEN None
                ELSE [time    |-> seenDir[t],
                      entries |-> [snap[t].entries EXCEPT ![id[t]] = meta[id[t]]]]
<1>0. ListingTypes /\ MustInv /\ CacheInv(t) /\ EditInv(t)
  BY DEF ListingInv
<1>1. Done(t) /\ SetCache(BackendOf[t], l)
  OBVIOUS
<1>2. /\ cache' = [b \in Backends |-> cache'[b]] /\ Cached(t)' = l
      /\ \A u \in Threads \ {t} : Cached(u)' = Cached(u)
  <2> HIDE DEF l
  <2>1. QED
    BY <1>0, <1>1, OtherListings
<1>3. ListingTypes'
  BY <1>0, <1>1, <1>2, DoneTypes DEF ListingTypes, files
<1>4. MustInv'
  BY <1>0, FilesStay DEF MustInv
<1>5. \A u \in Threads \ {t} : Still(u)
  BY <1>0, <1>1, <1>2, DoneTypes, FilesStay DEF Still
<1>6. CacheInv(t)' /\ EditInv(t)' /\ QueryInv(t)'
  <2>1. pc'[t] = "idle" /\ seenDir'[t] = 0 /\ dirTime' = dirTime /\ dirTime \in Nat
    BY <1>0, <1>1, DoneTypes DEF ListingTypes, files
  <2>2. CASE meta[id[t]] = 0
    BY <1>2, <2>1, <2>2 DEF CacheInv, EditInv, QueryInv
  <2>3. CASE meta[id[t]] # 0
    <3>1. /\ Edited(t) /\ id[t] \in Ids /\ seenDir[t] \in Nat /\ seenDir[t] <= dirTime
          /\ snap[t] = Cached(t) /\ Cached(t) # None
      BY <1>0 DEF EditInv, ListingTypes
    <3>2. Cached(t).entries \in [Ids -> Nat] /\ meta[id[t]] \in Nat
      BY <1>0, <3>1 DEF CacheInv, ListingTypes
    <3>3. Listed([Cached(t).entries EXCEPT ![id[t]] = meta[id[t]]])
             = Listed(Cached(t).entries) \cup {id[t]}
      BY <2>3, <3>1, <3>2 DEF Listed
    <3>4. /\ l.time = seenDir[t]
          /\ l.entries = [Cached(t).entries EXCEPT ![id[t]] = meta[id[t]]]
          /\ l.entries \in [Ids -> Nat]
      BY <2>3, <3>1, <3>2
    <3>5. ~Cut(t) => Own(t) \subseteq Listed(l.entries)
      BY <1>0, <3>1, <3>3, <3>4 DEF CacheInv, Telling
    <3> HIDE DEF l
    <3>6. CacheInv(t)'
      BY <1>2, <2>1, <3>1, <3>4, <3>5, FilesStay DEF CacheInv
    <3>7. QED
      BY <2>1, <3>6 DEF EditInv, QueryInv
  <2>4. QED
    BY <2>2, <2>3
<1>7. QED
  BY <1>3, <1>4, <1>5, <1>6, StepOf, FilesStay

LEMMA StartDeleteInv ==
    ASSUME ListingInv, NEW t \in Threads, NEW i \in Ids, StartDelete(t, i)
    PROVE  ListingInv'
<1> USE DEF StartDelete, query
<1>1. ListingTypes'
  BY DEF ListingInv, ListingTypes, Goto, Disturb, PCs, DataStates
<1>2. MustInv'
  BY DEF ListingInv, ListingTypes, MustInv, Complete, Disturb
<1>3. \A u \in Threads : Own(u)' = Own(u) /\ Cached(u)' = Cached(u)
  BY DEF Own, Cached
<1>4. FilesMove
  BY DEF FilesMove, ListingInv, ListingTypes
<1>5. \A u \in Threads \ {t} : Still(u)
  BY <1>3 DEF Still, ListingInv, ListingTypes, Goto, Disturb
<1>6. CacheInv(t)' /\ EditInv(t)' /\ QueryInv(t)'
  <2>1. pc'[t] \in {"unlinkRest", "unlinkMeta"} /\ pc[t] = "idle" /\ seenDir' = seenDir
    BY DEF Goto, ListingInv, ListingTypes
  <2>2. CacheInv(t) /\ EditInv(t)
    BY DEF ListingInv
  <2>3. QED
    BY <1>3, <2>1, <2>2 DEF CacheInv, EditInv, QueryInv, Telling, Edited, Cut
<1>7. QED
  BY <1>1, <1>2, <1>4, <1>5, <1>6, StepOf

LEMMA UnlinkMetaInv ==
    ASSUME ListingInv, NEW t \in Threads, UnlinkMeta(t)
    PROVE  ListingInv'
<1> USE DEF UnlinkMeta, query
<1>0. /\ ListingTypes /\ MustInv /\ CacheInv(t) /\ EditInv(t) /\ id[t] \in Ids
      /\ pc[t] \in {"unlinkMeta", "unlinkRest"}
  BY DEF ListingInv, ListingTypes
<1>1. /\ meta' = [meta EXCEPT ![id[t]] = 0] /\ meta' \in [Ids -> Nat]
      /\ dirTime' \in Nat /\ clock' \in Nat /\ dirTime' <= clock' /\ dirTime <= dirTime'
      /\ dirTime' = dirTime => meta' = meta
  <2>1. CASE meta[id[t]] = 0
    <3>1. meta \in [Ids -> Nat] /\ UNCHANGED <<meta, dirTime, clock>>
      BY <1>0, <2>1 DEF ListingTypes
    <3>2. meta = [meta EXCEPT ![id[t]] = 0]
      BY <1>0, <2>1, <3>1
    <3>3. QED
      BY <1>0, <3>1, <3>2 DEF ListingTypes
  <2>2. CASE meta[id[t]] # 0
    <3>1. clock' = clock + 1 /\ dirTime' = clock' /\ meta' = [meta EXCEPT ![id[t]] = 0]
      BY <2>2
    <3>2. clock \in Nat /\ dirTime \in Nat /\ dirTime <= clock /\ meta \in [Ids -> Nat]
      BY <1>0 DEF ListingTypes
    <3>3. /\ clock' \in Nat /\ dirTime' \in Nat /\ dirTime' <= clock'
          /\ dirTime <= dirTime' /\ dirTime' # dirTime
      BY <3>1, <3>2
    <3>4. meta' \in [Ids -> Nat]
      BY <1>0, <3>1, <3>2
    <3>5. QED
      BY <3>1, <3>3, <3>4
  <2>3. QED
    BY <2>1, <2>2
<1>2. must' = [u \in Threads |-> must[u] \ {id[t]}] /\ loads' = loads /\ data' = data
  BY DEF Disturb
<1>3. /\ pc' \in [Threads -> PCs]
      /\ id' \in [Threads -> Ids \cup {None}]
      /\ snap' = [u \in Threads |-> snap'[u]]
      /\ seenDir' \in [Threads -> Nat] /\ seenDir'[t] <= seenDir[t]
      /\ \A u \in Threads \ {t} : /\ pc'[u] = pc[u] /\ id'[u] = id[u]
                                  /\ snap'[u] = snap[u] /\ seenDir'[u] = seenDir[u]
      /\ edited \subseteq edited' /\ edited' \subseteq Backends
      /\ \/ pc'[t] = "idle"
         \/ pc'[t] = "readForget" /\ id'[t] = id[t] /\ Edited(t)'
  <2>1. CASE pc[t] = "unlinkRest" /\ meta[id[t]] = 0
    <3>1. Done(t) /\ edited' = edited
      BY <2>1
    <3>2. QED
      BY <1>0, <3>1, DoneTypes DEF ListingTypes
  <2>2. CASE ~(pc[t] = "unlinkRest" /\ meta[id[t]] = 0)
    <3>1. Goto(t, "readForget") /\ edited' = edited \cup {BackendOf[t]} /\ UNCHANGED locals
      BY <2>2
    <3>2. pc' \in [Threads -> PCs] /\ pc'[t] = "readForget"
          /\ \A u \in Threads \ {t} : pc'[u] = pc[u]
      BY <1>0, <3>1 DEF ListingTypes, Goto, PCs
    <3>3. edited \subseteq edited' /\ edited' \subseteq Backends /\ Edited(t)'
      BY <1>0, <3>1 DEF ListingTypes, Backends, Edited
    <3>4. QED
      BY <1>0, <3>1, <3>2, <3>3 DEF ListingTypes, locals
  <2>3. QED
    BY <2>1, <2>2
<1>4. ListingTypes'
  BY <1>0, <1>1, <1>2, <1>3 DEF ListingTypes
<1>5. MustInv'
  BY <1>0, <1>1, <1>2 DEF MustInv, Complete, ListingTypes
<1>6. \A u \in Threads : Own(u)' \subseteq Own(u) /\ Cached(u)' = Cached(u)
  BY <1>0, <1>1, <1>2 DEF Own, Cached, ListingTypes
<1>7. FilesMove
  BY <1>1, <1>3 DEF FilesMove
<1>8. \A u \in Threads \ {t} : Still(u)
  BY <1>0, <1>2, <1>3, <1>6 DEF Still, ListingTypes
<1>9. CacheInv(t)' /\ EditInv(t)' /\ QueryInv(t)'
  <2>1. id[t] \notin Own(t)'
    BY <1>0, <1>1 DEF Own, ListingTypes
  <2>2. Telling(t) = {} /\ (Edited(t) => Edited(t)') /\ Cut(t)' = Cut(t)
    BY <1>0, <1>3 DEF Telling, Edited, Cut
  <2>3. CacheInv(t)'
    <3>1. /\ dirTime \in Nat /\ Cached(t)' = Cached(t) /\ Own(t)' \subseteq Own(t)
          /\ dirTime' = dirTime => Listed(meta') = Listed(meta)
      BY <1>0, <1>1, <1>6 DEF ListingTypes
    <3>2. Listed(meta)' = Listed(meta')
      BY DEF Listed
    <3>3. QED
      BY <1>0, <1>1, <2>2, <3>1, <3>2 DEF CacheInv
  <2>4. EditInv(t)' /\ QueryInv(t)'
    BY <1>0, <1>1, <1>3, <2>1 DEF EditInv, QueryInv, ListingTypes
  <2>5. QED
    BY <2>3, <2>4
<1>10. QED
  BY <1>4, <1>5, <1>7, <1>8, <1>9, StepOf

LEMMA ReadForgetInv ==
    ASSUME ListingInv, NEW t \in Threads, ReadForget(t)
    PROVE  ListingInv'
<1> USE DEF ReadForget, query, history
<1> DEFINE left == IF Cached(t) = None THEN {} ELSE Listed(Cached(t).entries) \ {id[t]}
<1>0. ListingTypes /\ MustInv /\ CacheInv(t) /\ EditInv(t) /\ pc[t] = "readForget"
  BY DEF ListingInv
<1>1. MustInv'
  BY <1>0, FilesStay DEF MustInv
<1>2. CASE left = {}
  <2>1. SetCache(BackendOf[t], None) /\ Done(t)
    BY <1>2 DEF Cached
  <2>2. /\ cache' = [b \in Backends |-> cache'[b]] /\ Cached(t)' = None
        /\ \A u \in Threads \ {t} : Cached(u)' = Cached(u)
    BY <1>0, <2>1, OtherListings
  <2>3. ListingTypes'
    BY <1>0, <2>1, <2>2, DoneTypes DEF ListingTypes, files
  <2>4. \A u \in Threads \ {t} : Still(u)
    BY <1>0, <2>1, <2>2, DoneTypes, FilesStay DEF Still
  <2>5. CacheInv(t)' /\ EditInv(t)' /\ QueryInv(t)'
    BY <1>0, <2>1, <2>2, DoneTypes DEF CacheInv, EditInv, QueryInv, ListingTypes, files
  <2>6. QED
    BY <1>1, <2>3, <2>4, <2>5, StepOf, FilesStay
<1>3. CASE left # {}
  <2>1. /\ snap' = [snap EXCEPT ![t] = cache[BackendOf[t]]]
        /\ seenDir' = [seenDir EXCEPT ![t] = dirTime]
        /\ Goto(t, "forget") /\ id' = id /\ cache' = cache
    BY <1>3 DEF Cached
  <2>2. ListingTypes'
    BY <1>0, <2>1 DEF ListingTypes, files, Goto, PCs
  <2>3. \A u \in Threads : Cached(u)' = Cached(u)
    BY <2>1 DEF Cached
  <2>4. \A u \in Threads \ {t} : Still(u)
    BY <1>0, <2>1, <2>3, FilesStay DEF Still, Goto, ListingTypes
  <2>5. /\ pc'[t] = "forget" /\ snap'[t] = Cached(t)
        /\ seenDir'[t] = dirTime /\ dirTime' = dirTime /\ dirTime \in Nat
    BY <1>0, <2>1 DEF ListingTypes, Goto, Cached, files
  <2>6. CacheInv(t)'
    BY <1>0, <2>3, <2>5, FilesStay DEF CacheInv, Telling, files
  <2>7. EditInv(t)' /\ QueryInv(t)'
    BY <1>0, <1>3, <2>1, <2>3, <2>5, FilesStay DEF EditInv, QueryInv
  <2>8. QED
    BY <1>1, <2>2, <2>4, <2>6, <2>7, StepOf, FilesStay
<1>4. QED
  BY <1>2, <1>3

LEMMA ForgetInv ==
    ASSUME ListingInv, NEW t \in Threads, Forget(t)
    PROVE  ListingInv'
<1> USE DEF Forget, query, history
<1> DEFINE l == [time |-> seenDir[t], entries |-> [snap[t].entries EXCEPT ![id[t]] = 0]]
<1>0. ListingTypes /\ MustInv /\ CacheInv(t) /\ EditInv(t)
  BY DEF ListingInv
<1>1. Done(t) /\ SetCache(BackendOf[t], l)
  OBVIOUS
<1>2. /\ cache' = [b \in Backends |-> cache'[b]] /\ Cached(t)' = l
      /\ \A u \in Threads \ {t} : Cached(u)' = Cached(u)
  <2> HIDE DEF l
  <2>1. QED
    BY <1>0, <1>1, OtherListings
<1>3. ListingTypes'
  BY <1>0, <1>1, <1>2, DoneTypes DEF ListingTypes, files
<1>4. MustInv'
  BY <1>0, FilesStay DEF MustInv
<1>5. \A u \in Threads \ {t} : Still(u)
  BY <1>0, <1>1, <1>2, DoneTypes, FilesStay DEF Still
<1>6. CacheInv(t)' /\ EditInv(t)' /\ QueryInv(t)'
  <2>1. pc'[t] = "idle" /\ seenDir'[t] = 0 /\ dirTime' = dirTime /\ dirTime \in Nat
    BY <1>0, <1>1, DoneTypes DEF ListingTypes, files
  <2>2. /\ Edited(t) /\ id[t] \in Ids \ Own(t) /\ seenDir[t] \in Nat /\ seenDir[t] <= dirTime
        /\ snap[t] = Cached(t) /\ Cached(t) # None
    BY <1>0 DEF EditInv, ListingTypes
  <2>3. Cached(t).entries \in [Ids -> Nat]
    BY <1>0, <2>2 DEF CacheInv
  <2>4. Listed([Cached(t).entries EXCEPT ![id[t]] = 0]) = Listed(Cached(t).entries) \ {id[t]}
    BY <2>2, <2>3 DEF Listed
  <2>5. /\ l.time = seenDir[t]
        /\ l.entries = [Cached(t).entries EXCEPT ![id[t]] = 0]
        /\ l.entries \in [Ids -> Nat]
    BY <2>2, <2>3
  <2>6. ~Cut(t) => Own(t) \subseteq Listed(l.entries)
    BY <1>0, <2>2, <2>4, <2>5 DEF CacheInv, Telling
  <2> HIDE DEF l
  <2>7. CacheInv(t)'
    BY <1>2, <2>1, <2>2, <2>5, <2>6, FilesStay DEF CacheInv
  <2>8. QED
    BY <2>1, <2>7 DEF EditInv, QueryInv
<1>7. QED
  BY <1>3, <1>4, <1>5, <1>6, StepOf, FilesStay

LEMMA StartQueryInv ==
    ASSUME ListingInv, NEW t \in Threads, StartQuery(t)
    PROVE  ListingInv'
<1> USE DEF StartQuery
<1>0. ListingTypes /\ MustInv /\ CacheInv(t) /\ EditInv(t)
  BY DEF ListingInv
<1>1. ListingTypes'
  BY <1>0 DEF ListingTypes, files, Goto, PCs, Complete
<1>2. Complete' = Complete
  BY FilesStay
<1>3. MustInv'
  BY <1>0, <1>2 DEF MustInv, ListingTypes
<1>4. \A u \in Threads : Cached(u)' = Cached(u)
  BY DEF Cached
<1>5. \A u \in Threads \ {t} : Still(u)
  BY <1>0, <1>4, FilesStay DEF Still, Goto, ListingTypes
<1>6. CacheInv(t)' /\ EditInv(t)' /\ QueryInv(t)'
  <2>1. /\ pc[t] = "idle" /\ pc'[t] = "lookup" /\ must'[t] = Complete
        /\ seenDir'[t] = dirTime /\ dirTime' = dirTime /\ dirTime \in Nat
    BY <1>0 DEF Goto, ListingTypes, files
  <2>2. CacheInv(t)'
    BY <1>0, <1>4, <2>1, FilesStay DEF CacheInv, Telling, files
  <2>3. Complete \subseteq Listed(meta)
    BY DEF Complete, Listed
  <2>4. EditInv(t)' /\ QueryInv(t)'
    BY <1>0, <1>4, <2>1, <2>3, FilesStay DEF EditInv, QueryInv, CacheInv
  <2>5. QED
    BY <2>2, <2>4
<1>7. QED
  BY <1>1, <1>3, <1>5, <1>6, StepOf, FilesStay

LEMMA LookupInv ==
    ASSUME ListingInv, NEW t \in Threads, Lookup(t)
    PROVE  ListingInv'
<1> USE DEF Lookup, locals, history
<1>0. ListingTypes /\ MustInv /\ CacheInv(t) /\ EditInv(t) /\ QueryInv(t) /\ pc[t] = "lookup"
  BY DEF ListingInv
<1>1. \A u \in Threads : Cached(u)' = Cached(u)
  BY DEF Cached
<1>2. \/ /\ Cached(t) # None /\ Cached(t).time = seenDir[t]
         /\ rest' = [rest EXCEPT ![t] = Cached(t).entries] /\ Goto(t, "process")
      \/ rest' = rest /\ Goto(t, "scan")
  BY DEF Cached
<1>3. ListingTypes'
  <2>1. rest' \in [Threads -> [Ids -> Nat]]
    BY <1>0, <1>2 DEF ListingTypes, CacheInv
  <2>2. pc' \in [Threads -> PCs] /\ pc'[t] \in {"process", "scan"}
    BY <1>0, <1>2 DEF ListingTypes, Goto, PCs
  <2>3. QED
    BY <1>0, <1>2, <2>1, <2>2 DEF ListingTypes, files, Goto
<1>4. MustInv'
  BY <1>0, FilesStay DEF MustInv
<1>5. \A u \in Threads \ {t} : Still(u)
  BY <1>0, <1>1, <1>2, FilesStay DEF Still, Goto, ListingTypes
<1>6. CacheInv(t)' /\ EditInv(t)' /\ QueryInv(t)'
  <2>1. pc'[t] \in {"process", "scan"} /\ seenDir' = seenDir /\ dirTime' = dirTime
    BY <1>0, <1>2 DEF Goto, ListingTypes, files
  <2>2. CacheInv(t)' /\ EditInv(t)'
    BY <1>0, <1>1, <2>1, FilesStay DEF CacheInv, EditInv, Telling, files
  <2>3. CASE pc'[t] = "scan"
    BY <2>2, <2>3 DEF QueryInv
  <2>4. CASE pc'[t] = "process"
    <3>1. Cached(t) # None /\ Cached(t).time = seenDir[t] /\ rest'[t] = Cached(t).entries
      BY <1>0, <1>2, <2>4 DEF Goto, ListingTypes
    <3>2. ~Edited(t) => must[t] \subseteq Listed(rest'[t])
      BY <1>0, <3>1 DEF QueryInv
    <3>3. ~Cut(t) => Own(t) \subseteq Listed(rest'[t])
      BY <1>0, <3>1 DEF CacheInv, Telling
    <3>4. Listed(rest[t])' = Listed(rest'[t])
      BY DEF Listed
    <3>5. QueryInv(t)'
      BY <2>4, <3>2, <3>3, <3>4, FilesStay DEF QueryInv
    <3>6. QED
      BY <2>2, <3>5
  <2>5. QED
    BY <2>1, <2>2, <2>3, <2>4
<1>7. QED
  BY <1>3, <1>4, <1>5, <1>6, StepOf, FilesStay

\* What is complete on disk is in the names that scandir reads.
LEMMA ScanInv ==
    ASSUME ListingInv, NEW t \in Threads, Scan(t)
    PROVE  ListingInv'
<1> USE DEF Scan, locals, history
<1>0. ListingTypes /\ MustInv /\ CacheInv(t) /\ EditInv(t) /\ pc[t] = "scan"
  BY DEF ListingInv
<1>1. \A u \in Threads : Cached(u)' = Cached(u)
  BY DEF Cached
<1>2. ListingTypes'
  BY <1>0 DEF ListingTypes, files, Goto, PCs
<1>3. MustInv'
  BY <1>0, FilesStay DEF MustInv
<1>4. \A u \in Threads \ {t} : Still(u)
  BY <1>0, <1>1, FilesStay DEF Still, Goto, ListingTypes
<1>5. CacheInv(t)' /\ EditInv(t)' /\ QueryInv(t)'
  <2>1. pc'[t] = "stat" /\ seenDir' = seenDir /\ dirTime' = dirTime /\ rest'[t] = meta
    BY <1>0 DEF Goto, ListingTypes, files
  <2>2. CacheInv(t)' /\ EditInv(t)'
    BY <1>0, <1>1, <2>1, FilesStay DEF CacheInv, EditInv, Telling, files
  <2>3. must[t] \cup Own(t) \subseteq Listed(meta)
    BY <1>0 DEF MustInv, Complete, Own, Listed
  <2>4. QueryInv(t)'
    BY <2>1, <2>3, FilesStay DEF QueryInv, Listed, files
  <2>5. QED
    BY <2>2, <2>4
<1>6. QED
  BY <1>2, <1>3, <1>4, <1>5, StepOf, FilesStay

LEMMA StatInv ==
    ASSUME ListingInv, NEW t \in Threads, Stat(t)
    PROVE  ListingInv'
<1> DEFINE named == Listed(rest[t])
           gone == {i \in named : meta[i] = 0}
<1>0. /\ ListingTypes /\ MustInv /\ CacheInv(t) /\ EditInv(t) /\ QueryInv(t)
      /\ pc[t] = "stat" /\ Goto(t, "keep")
      /\ UNCHANGED <<files, cache, locals, found, count, queries, author, edited>>
  BY DEF ListingInv, Stat
<1>1. PICK kept \in SUBSET Ids :
          /\ gone = {} => kept = named
          /\ rest' = [rest EXCEPT ![t] = [i \in Ids |-> IF i \in kept THEN meta[i] ELSE 0]]
          /\ kept \subseteq named \ gone
  <2>1. PICK kept \in IF gone = {} THEN {named} ELSE SUBSET (named \ gone) :
            rest' = [rest EXCEPT ![t] = [i \in Ids |-> IF i \in kept THEN meta[i] ELSE 0]]
    BY DEF Stat
  <2>2. named \subseteq Ids
    BY DEF Listed
  <2>3. QED
    BY <2>1, <2>2
<1>2. \/ gone = {} /\ UNCHANGED <<cut, must>>
      \/ /\ gone # {} /\ cut' = cut \cup {BackendOf[t]}
         /\ must' = [must EXCEPT ![t] = {}]
  BY DEF Stat
<1>3. /\ Listed(rest'[t]) = kept /\ rest'[t] \in [Ids -> Nat]
      /\ \A u \in Threads \ {t} : rest'[u] = rest[u]
  BY <1>0, <1>1 DEF ListingTypes, Listed
<1>4. ListingTypes'
  <2>1. cut' \subseteq Backends /\ must' \in [Threads -> SUBSET Ids]
    BY <1>0, <1>2 DEF ListingTypes, Backends
  <2>2. rest' \in [Threads -> [Ids -> Nat]]
    BY <1>0, <1>1, <1>3 DEF ListingTypes
  <2>3. QED
    BY <1>0, <2>1, <2>2 DEF ListingTypes, files, locals, Goto, PCs
<1>5. /\ FilesMove /\ Complete' = Complete
      /\ \A u \in Threads : Own(u)' = Own(u) /\ Cached(u)' = Cached(u) /\ must'[u] \subseteq must[u]
  <2>1. \A u \in Threads : must'[u] \subseteq must[u]
    BY <1>0, <1>2 DEF ListingTypes
  <2>2. cut \subseteq cut'
    BY <1>2
  <2>3. QED
    BY <1>0, <2>1, <2>2 DEF files, FilesMove, ListingTypes, Own, Complete, Cached
<1>6. MustInv'
  BY <1>0, <1>5 DEF MustInv
<1>7. \A u \in Threads \ {t} : Still(u)
  BY <1>0, <1>3, <1>5 DEF Still, locals, Goto, ListingTypes
<1>8. CacheInv(t)' /\ EditInv(t)' /\ QueryInv(t)'
  <2>1. /\ pc'[t] = "keep" /\ seenDir' = seenDir /\ dirTime' = dirTime /\ meta' = meta
        /\ Edited(t)' = Edited(t) /\ (Cut(t) => Cut(t)')
    BY <1>0, <1>2 DEF Goto, ListingTypes, files, locals, Edited, Cut
  <2>2. CacheInv(t)' /\ EditInv(t)'
    BY <1>0, <1>5, <2>1 DEF CacheInv, EditInv, Telling
  <2>3. CASE gone = {}
    <3>1. Listed(rest'[t]) = named /\ must' = must
      BY <1>1, <1>2, <1>3, <2>3
    <3>2. Listed(rest[t])' = Listed(rest'[t]) /\ Listed(meta)' = Listed(meta)
      BY <2>1 DEF Listed
    <3>3. QED
      BY <1>0, <1>5, <2>1, <2>2, <3>1, <3>2 DEF QueryInv
  <2>4. CASE gone # {}
    <3>1. Cut(t)' /\ must'[t] = {}
      BY <1>0, <1>2, <2>4 DEF Cut, ListingTypes
    <3>2. Listed(rest[t]) # Listed(meta)
      BY <2>4 DEF Listed
    <3>3. seenDir[t] # dirTime
      BY <1>0, <3>2 DEF QueryInv
    <3>4. QED
      BY <2>1, <2>2, <3>1, <3>3 DEF QueryInv
  <2>5. QED
    BY <2>3, <2>4
<1>9. QED
  BY <1>4, <1>5, <1>6, <1>7, <1>8, StepOf

LEMMA KeepInv ==
    ASSUME ListingInv, NEW t \in Threads, Keep(t)
    PROVE  ListingInv'
<1> USE DEF Keep, locals, query, history
<1> DEFINE l == [time |-> seenDir[t], entries |-> rest[t]]
<1>0. /\ ListingTypes /\ MustInv /\ EditInv(t) /\ QueryInv(t) /\ pc[t] = "keep"
      /\ SetCache(BackendOf[t], l) /\ Goto(t, "process")
  BY DEF ListingInv
<1>1. /\ cache' = [b \in Backends |-> cache'[b]] /\ Cached(t)' = l
      /\ \A u \in Threads \ {t} : Cached(u)' = Cached(u)
  <2> HIDE DEF l
  <2>1. QED
    BY <1>0, OtherListings
<1>2. ListingTypes'
  BY <1>0, <1>1 DEF ListingTypes, files, Goto, PCs
<1>3. MustInv'
  BY <1>0, FilesStay DEF MustInv
<1>4. \A u \in Threads \ {t} : Still(u)
  BY <1>0, <1>1, FilesStay DEF Still, Goto, ListingTypes
<1>5. CacheInv(t)' /\ EditInv(t)' /\ QueryInv(t)'
  <2>1. /\ pc'[t] = "process" /\ seenDir' = seenDir /\ dirTime' = dirTime /\ meta' = meta
        /\ rest' = rest /\ found' = found /\ must' = must /\ seenDir[t] \in Nat
        /\ rest[t] \in [Ids -> Nat] /\ seenDir[t] <= dirTime
    BY <1>0 DEF Goto, ListingTypes, files, EditInv
  <2>2. l.time = seenDir[t] /\ l.entries = rest[t]
    OBVIOUS
  <2> HIDE DEF l
  <2>3. CacheInv(t)'
    BY <1>0, <1>1, <2>1, <2>2, FilesStay DEF CacheInv, QueryInv
  <2>4. EditInv(t)' /\ QueryInv(t)'
    BY <1>0, <2>1, FilesStay DEF EditInv, QueryInv
  <2>5. QED
    BY <2>3, <2>4
<1>6. QED
  BY <1>2, <1>3, <1>4, <1>5, StepOf, FilesStay

\* A record that is complete on disk is found when its entry is processed.
LEMMA ProcessInv ==
    ASSUME ListingInv, NEW t \in Threads, Process(t)
    PROVE  ListingInv'
<1>0. /\ ListingTypes /\ MustInv /\ CacheInv(t) /\ EditInv(t) /\ QueryInv(t) /\ pc[t] = "process"
      /\ UNCHANGED <<files, cache, queries, author, edited, cut>>
  BY DEF ListingInv, Process
<1>1. /\ FilesMove /\ Complete' = Complete
      /\ \A u \in Threads : /\ Own(u)' = Own(u) /\ Edited(u)' = Edited(u) /\ Cut(u)' = Cut(u)
                           /\ Cached(u)' = Cached(u)
  BY <1>0, FilesStay DEF Cached
<1>2. PICK i \in Listed(rest[t]) :
          LET valid == meta[i] # 0 /\ loads[i]
          IN  IF valid /\ data[i] = "torn"
                  THEN /\ found' = [found EXCEPT ![t] = {}]
                       /\ rest' = [rest EXCEPT ![t] = Empty]
                       /\ must' = [must EXCEPT ![t] = {}]
                       /\ Done(t)
                  ELSE /\ rest' = [rest EXCEPT ![t][i] = 0]
                       /\ found' = [found EXCEPT ![t] =
                                       IF valid /\ data[i] = "ok" THEN @ \cup {i} ELSE @]
                       /\ UNCHANGED <<pc, locals, must>>
  BY DEF Process
<1>3. i \in Ids
  BY DEF Listed
<1>4. CASE meta[i] # 0 /\ loads[i] /\ data[i] = "torn"
  <2>1. /\ Done(t) /\ found' = [found EXCEPT ![t] = {}] /\ rest' = [rest EXCEPT ![t] = Empty]
        /\ must' = [must EXCEPT ![t] = {}]
    BY <1>2, <1>4
  <2>2. MustInv'
    BY <1>0, <1>1, <2>1 DEF MustInv, ListingTypes
  <2>3. ListingTypes'
    BY <1>0, <1>1, <2>1, DoneTypes DEF ListingTypes, files, Empty
  <2>4. \A u \in Threads \ {t} : Still(u)
    BY <1>0, <1>1, <2>1, DoneTypes DEF Still, ListingTypes
  <2>5. CacheInv(t)' /\ EditInv(t)' /\ QueryInv(t)'
    BY <1>0, <1>1, <2>1, DoneTypes DEF CacheInv, EditInv, QueryInv, Telling, ListingTypes, files
  <2>6. QED
    BY <1>1, <2>2, <2>3, <2>4, <2>5, StepOf
<1>5. CASE ~(meta[i] # 0 /\ loads[i] /\ data[i] = "torn")
  <2>1. /\ rest' = [rest EXCEPT ![t] = [rest[t] EXCEPT ![i] = 0]]
        /\ found' = [found EXCEPT ![t] =
                        IF i \in Complete THEN found[t] \cup {i} ELSE found[t]]
        /\ UNCHANGED <<pc, locals, must>>
    BY <1>2, <1>3, <1>5 DEF Complete
  <2>2. MustInv'
    BY <1>0, <1>1, <2>1 DEF MustInv
  <2>3. ListingTypes'
    BY <1>0, <1>1, <1>3, <2>1 DEF ListingTypes, files, locals
  <2>4. \A u \in Threads \ {t} : Still(u)
    BY <1>0, <1>1, <2>1 DEF Still, ListingTypes, locals
  <2>5. CacheInv(t)' /\ EditInv(t)'
    BY <1>0, <1>1, <2>1 DEF CacheInv, EditInv, Telling, files, locals
  <2>6. Listed(rest'[t]) = Listed(rest[t]) \ {i} /\ Listed(rest[t])' = Listed(rest'[t])
    BY <1>0, <1>3, <2>1 DEF Listed, ListingTypes
  <2>7. found[t] \subseteq found'[t] /\ (i \in Complete => i \in found'[t])
    BY <1>0, <2>1 DEF ListingTypes
  <2>8. must[t] \subseteq Complete
    BY <1>0 DEF MustInv
  <2>9. QueryInv(t)'
    BY <1>0, <1>1, <2>1, <2>6, <2>7, <2>8 DEF QueryInv, locals
  <2>10. QED
    BY <1>1, <2>2, <2>3, <2>4, <2>5, <2>9, StepOf
<1>6. QED
  BY <1>4, <1>5

LEMMA AnswerInv ==
    ASSUME ListingInv, NEW t \in Threads, Answer(t)
    PROVE  ListingInv'
<1> USE DEF Answer, query, history
<1>0. ListingTypes /\ MustInv /\ CacheInv(t) /\ Done(t) /\ pc[t] = "process"
  BY DEF ListingInv, Answering
<1>1. \A u \in Threads : Cached(u)' = Cached(u)
  BY DEF Cached
<1>2. ListingTypes'
  BY <1>0, DoneTypes DEF ListingTypes, files
<1>3. MustInv'
  BY <1>0, FilesStay DEF MustInv, ListingTypes
<1>4. \A u \in Threads \ {t} : Still(u)
  BY <1>0, <1>1, DoneTypes, FilesStay DEF Still, ListingTypes
<1>5. CacheInv(t)' /\ EditInv(t)' /\ QueryInv(t)'
  BY <1>0, <1>1, DoneTypes, FilesStay DEF CacheInv, EditInv, QueryInv, Telling, ListingTypes, files
<1>6. QED
  BY <1>2, <1>3, <1>4, <1>5, StepOf, FilesStay

LEMMA ListingStep == ListingInv /\ [Next]_vars => ListingInv'
<1> SUFFICES ASSUME ListingInv, [Next]_vars PROVE ListingInv'
  OBVIOUS
<1>1. CASE UNCHANGED vars
  BY <1>1 DEF vars, files, locals, query, history, ListingInv, ListingTypes, MustInv, CacheInv,
              EditInv, QueryInv, Cached, Edited, Cut, Own, Telling, Complete, Listed
<1>2. ASSUME NEW t \in Threads, NEW i \in Ids, StartStore(t, i) \/ StartDelete(t, i)
      PROVE  ListingInv'
  BY <1>2, StartStoreInv, StartDeleteInv
<1>3. ASSUME NEW t \in Threads,
             \/ WriteData(t) \/ StoreWrites(t) \/ StoreFails(t) \/ ReadCache(t) \/ Rekey(t)
             \/ UnlinkMeta(t) \/ ReadForget(t) \/ Forget(t)
      PROVE  ListingInv'
  BY <1>3, WriteDataInv, StoreWritesInv, StoreFailsInv, ReadCacheInv, RekeyInv, UnlinkMetaInv,
     ReadForgetInv, ForgetInv
<1>4. ASSUME NEW t \in Threads,
             \/ StartQuery(t) \/ Lookup(t) \/ Scan(t) \/ Stat(t) \/ Keep(t) \/ Process(t) \/ Answer(t)
      PROVE  ListingInv'
  BY <1>4, StartQueryInv, LookupInv, ScanInv, StatInv, KeepInv, ProcessInv, AnswerInv
<1>5. QED
  BY <1>1, <1>2, <1>3, <1>4 DEF Next

-----------------------------------------------------------------------------
(* The theorems *)

\* What each process may rely on of its listing, and what a query still has to
\* find, at every step of query_data, store_data and delete_data.
THEOREM ListingInvariant == Spec => []ListingInv
<1>1. Init => ListingInv
  BY ListingInit
<1>2. ListingInv /\ [Next]_vars => ListingInv'
  BY ListingStep
<1>3. QED
  BY <1>1, <1>2, PTL DEF Spec

\* A query that runs to its end returns the complete records its own process was
\* the last to store, although the listing was edited and re-keyed unseen.
THEOREM OwnRecordsAreRead == Spec => []ReadsOwnRecords
<1>1. ListingInv => ReadsOwnRecords
  <2> SUFFICES ASSUME ListingInv, NEW t \in Threads, Answering(t), ~Cut(t),
                      NEW i \in must[t], author[i] = t
               PROVE  i \in found[t]
    BY DEF ReadsOwnRecords, Cut
  <2>1. QueryInv(t) /\ must[t] \subseteq Complete /\ must[t] \subseteq Ids
    BY DEF ListingInv, MustInv, ListingTypes
  <2>2. i \in Own(t)
    BY <2>1 DEF Own, Complete
  <2>3. QED
    BY <2>1, <2>2 DEF QueryInv, Answering
<1>2. QED
  BY <1>1, ListingInvariant, PTL

\* A backend that has only read returns every record that was complete on disk
\* during the whole of its query, whoever stored it.
THEOREM ReadersSeeAll == Spec => []ReaderSeesEverything
<1>1. ListingInv => ReaderSeesEverything
  BY DEF ListingInv, ReaderSeesEverything, QueryInv, Answering, Edited
<1>2. QED
  BY <1>1, ListingInvariant, PTL
=============================================================================
