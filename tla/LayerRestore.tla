------------------------------ MODULE LayerRestore ------------------------------
(***************************************************************************)
(* backup_layer and restore_layer of medallion/storage/local.py.  A backup *)
(* is copied into a directory that may hold an older one.  A restore moves *)
(* the layer's directory to <layer>.restore_temp, copies the backup to the *)
(* layer's path and removes the directory it moved away; when the copy     *)
(* fails it moves it back.                                                 *)
(*                                                                         *)
(* shutil.copytree copies what it can and raises at the end, and           *)
(* shutil.move puts a directory inside its destination when that exists.   *)
(* The process may die between any two steps, and the constructor of its   *)
(* successor, or of another process's backend, makes missing directories.  *)
(***************************************************************************)
EXTENDS Integers, FiniteSets

CONSTANTS
    Records,      \* records of the layer
    Missing,      \* no such file; no such directory
    MaxVersions,  \* bound: records written
    MaxRestores   \* bound: calls of restore_layer

ASSUME RestoreAssumption ==
    /\ MaxVersions \in Nat /\ MaxRestores \in Nat
    /\ Missing \notin Nat

VARIABLES
    layerDir,  \* base_path/<layer>
    tempDir,   \* base_path/<layer>.restore_temp
    backup,    \* backup_path
    doing,     \* where restore_layer stands
    written,   \* versions written so far
    restores,  \* calls of restore_layer so far
    before,    \* history: files of the layer that a restore set out to replace
    snapshot   \* history: the layer at the last backup, if that was successful

dirs == <<layerDir, tempDir, backup>>
restoreVars == <<dirs, doing, written, restores, before, snapshot>>

Files == [Records -> 1..MaxVersions \cup {Missing}]
NoFiles == [r \in Records |-> Missing]
Held(f) == {r \in Records : f[r] # Missing}

\* A directory: its files, and the files of a directory that was moved into it
\* (what that one may have had inside is lost to every operation).
Dir(f) == [files |-> f, inner |-> Missing]
Dirs == [files : Files, inner : Files \cup {Missing}]

\* What is not there is no directory and has no files.
ASSUME MissingAssumption == Missing \notin Dirs \cup Files

RestoreTypeOK ==
    /\ layerDir \in Dirs \cup {Missing} /\ tempDir \in Dirs \cup {Missing}
    /\ backup \in Dirs \cup {Missing}
    /\ doing \in {"idle", "start", "clear", "move", "copy", "undo", "discard", "dead"}
    /\ written \in 0..MaxVersions
    /\ restores \in 0..MaxRestores
    /\ before \in Files \cup {Missing}
    /\ snapshot \in [files : Files, fresh : BOOLEAN] \cup {Missing}

RestoreInit ==
    /\ layerDir = Dir(NoFiles)
    /\ tempDir = Missing
    /\ backup = Missing
    /\ doing = "idle"
    /\ written = 0
    /\ restores = 0
    /\ before = Missing
    /\ snapshot = Missing

-----------------------------------------------------------------------------
(* Helpers *)

\* copytree(src, dst): the files in "copied" arrive, the others stay as they are.
CopyInto(src, dst, copied) ==
    [files |-> [r \in Records |-> IF r \in copied THEN src.files[r] ELSE dst.files[r]],
     inner |-> IF src.inner # Missing THEN src.inner ELSE dst.inner]

\* rmtree that stops midway: the files in "left" are still there.
Remains(dir, left) ==
    [dir EXCEPT !.files = [r \in Records |-> IF r \in left THEN @[r] ELSE Missing]]

\* shutil.move that stops midway: what it cannot rename it copies, and then removes.
PartlyMoved(dir) ==
    {[from |-> dir, to |-> CopyInto(dir, Dir(NoFiles), copied)] : copied \in SUBSET Records}
    \cup {[from |-> Remains(dir, left), to |-> dir] : left \in SUBSET Records}

TurnTo(from, to) == doing = from /\ doing' = to

-----------------------------------------------------------------------------
(* Actions *)

\* store_data and delete_data, whole (RecordStore has their steps).
Write(r) ==
    /\ doing = "idle" /\ layerDir # Missing
    /\ written < MaxVersions
    /\ written' = written + 1
    /\ layerDir' = [layerDir EXCEPT !.files[r] = written']
    /\ UNCHANGED <<tempDir, backup, doing, restores, snapshot>>
    /\ before' = IF before = layerDir.files THEN Missing ELSE before

DeleteRecord(r) ==
    /\ doing = "idle" /\ layerDir # Missing
    /\ layerDir.files[r] # Missing
    /\ layerDir' = [layerDir EXCEPT !.files[r] = Missing]
    /\ UNCHANGED <<tempDir, backup, doing, written, restores, snapshot>>
    /\ before' = IF before = layerDir.files THEN Missing ELSE before

\* Mutant of Backup: a backup that copied a part only counts as made.
BackupAnyway(copied) ==
    /\ doing = "idle" /\ layerDir # Missing
    /\ copied \subseteq Held(layerDir.files)
    /\ backup' = CopyInto(layerDir, IF backup = Missing THEN Dir(NoFiles) ELSE backup, copied)
    /\ snapshot' = [files |-> layerDir.files, fresh |-> backup = Missing]
    /\ UNCHANGED <<layerDir, tempDir, doing, written, restores, before>>

\* backup_layer: True when everything was copied; what it failed to copy, or
\* died before copying, keeps what an older backup had.
Backup(copied) ==
    /\ doing = "idle" /\ layerDir # Missing
    /\ copied \subseteq Held(layerDir.files)
    /\ backup' = CopyInto(layerDir, IF backup = Missing THEN Dir(NoFiles) ELSE backup, copied)
    /\ snapshot' = IF copied = Held(layerDir.files)
                      THEN [files |-> layerDir.files, fresh |-> backup = Missing]
                      ELSE Missing
    /\ UNCHANGED <<layerDir, tempDir, doing, written, restores, before>>

\* A layer without a directory has it at restore_temp, where a restore left it.
StartRestore ==
    /\ backup # Missing
    /\ restores < MaxRestores
    /\ restores' = restores + 1
    /\ doing = "idle"
    /\ doing' = IF layerDir = Missing THEN "copy" ELSE IF tempDir = Missing THEN "move" ELSE "clear"
    /\ before' = IF layerDir = Missing THEN before ELSE layerDir.files
    /\ UNCHANGED <<dirs, written, snapshot>>

\* An old restore_temp goes, or the restore fails.
ClearTemp ==
    /\ \/ TurnTo("clear", "move") /\ tempDir' = Missing
       \/ /\ TurnTo("clear", "idle")
          /\ \E left \in SUBSET Records : tempDir' = Remains(tempDir, left)
    /\ UNCHANGED <<layerDir, backup, written, restores, before, snapshot>>

\* Mutant of MoveAway: the layer is removed, not moved.
RemoveAway ==
    /\ TurnTo("move", "copy")
    /\ layerDir' = Missing
    /\ UNCHANGED <<tempDir, backup, written, restores, before, snapshot>>

MoveAway ==
    /\ TurnTo("move", "copy")
    /\ tempDir' = layerDir
    /\ layerDir' = Missing
    /\ UNCHANGED <<backup, written, restores, before, snapshot>>

\* The move raises, or the process dies in it.
MoveFails ==
    /\ doing = "move" /\ doing' \in {"idle", "dead"}
    /\ \/ UNCHANGED <<layerDir, tempDir>>
       \/ \E part \in PartlyMoved(layerDir) : layerDir' = part.from /\ tempDir' = part.to
    /\ UNCHANGED <<backup, written, restores, before, snapshot>>

\* Every file of the backup arrives: from here on the layer is the backup.
CopyAll ==
    /\ layerDir = Missing
    /\ TurnTo("copy", "discard")
    /\ layerDir' = CopyInto(backup, Dir(NoFiles), Held(backup.files))
    /\ before' = Missing
    /\ UNCHANGED <<tempDir, backup, written, restores, snapshot>>

\* copytree raises: the directory is there already or cannot be made, or some
\* of the files cannot be copied.
CopyFails ==
    /\ TurnTo("copy", "undo")
    /\ \/ UNCHANGED layerDir
       \/ /\ layerDir = Missing
          /\ \E copied \in SUBSET Held(backup.files) :
                layerDir' = CopyInto(backup, Dir(NoFiles), copied)
    /\ UNCHANGED <<tempDir, backup, written, restores, before, snapshot>>

\* The except clause: back to the path, or into the directory that is there;
\* one that was moved in before is in the way.  restore_layer returns False.
Undo ==
    /\ TurnTo("undo", "idle")
    /\ \/ layerDir = Missing /\ layerDir' = tempDir /\ tempDir' = Missing
       \/ /\ layerDir # Missing /\ layerDir.inner = Missing
          /\ layerDir' = [layerDir EXCEPT !.inner = tempDir.files]
          /\ tempDir' = Missing
       \/ /\ layerDir # Missing /\ layerDir.inner # Missing
          /\ UNCHANGED <<layerDir, tempDir>>
    /\ UNCHANGED <<backup, written, restores, before, snapshot>>

\* The move back raises, or the process dies in it.
UndoFails ==
    /\ doing = "undo" /\ doing' \in {"idle", "dead"}
    /\ \/ UNCHANGED <<layerDir, tempDir>>
       \/ \E part \in PartlyMoved(tempDir) :
             /\ tempDir' = part.from
             /\ \/ layerDir = Missing /\ layerDir' = part.to
                \/ /\ layerDir # Missing /\ layerDir.inner = Missing
                   /\ layerDir' = [layerDir EXCEPT !.inner = part.to.files]
    /\ UNCHANGED <<backup, written, restores, before, snapshot>>

\* What was moved away is removed: True, or False when that fails.
Discard ==
    /\ TurnTo("discard", "idle")
    /\ \/ tempDir' = Missing
       \/ \E left \in SUBSET Records : tempDir' = Remains(tempDir, left)
    /\ UNCHANGED <<layerDir, backup, written, restores, before, snapshot>>

\* The process dies, and a successor's constructor makes what is missing.
Die ==
    /\ doing \notin {"idle", "dead"}
    /\ doing' = "dead"
    /\ UNCHANGED <<dirs, written, restores, before, snapshot>>

Construct ==
    /\ doing \in {"idle", "copy", "undo", "dead"}
    /\ doing' = IF doing = "dead" THEN "idle" ELSE doing
    /\ layerDir' = IF layerDir = Missing THEN Dir(NoFiles) ELSE layerDir
    /\ UNCHANGED <<tempDir, backup, written, restores, before, snapshot>>

RestoreNext ==
    \/ \E r \in Records : Write(r) \/ DeleteRecord(r)
    \/ \E copied \in SUBSET Records : Backup(copied)
    \/ StartRestore \/ ClearTemp \/ MoveAway \/ MoveFails \/ CopyAll \/ CopyFails
    \/ Undo \/ UndoFails \/ Discard
    \/ Die \/ Construct

RestoreSpec == RestoreInit /\ [][RestoreNext]_restoreVars

-----------------------------------------------------------------------------
(* Properties *)

\* What a restore set out to replace stays on disk until the backup is in its
\* place, in the layer, beside it or inside it, however the restore fails or
\* dies, and for as long as no further restore sets out.
OriginalSurvives ==
    before # Missing =>
        \/ layerDir # Missing /\ before \in {layerDir.files, layerDir.inner}
        \/ tempDir # Missing /\ tempDir.files = before

\* A restore brings back every record of the backup that was reported as made,
\* and nothing else if that backup did not go into an older one, which keeps
\* records that were deleted in between.
RestoreReturnsSnapshot ==
    [][CopyAll /\ snapshot # Missing =>
         /\ \A r \in Held(snapshot.files) : layerDir'.files[r] = snapshot.files[r]
         /\ snapshot.fresh => layerDir'.files = snapshot.files
      ]_restoreVars
=============================================================================
