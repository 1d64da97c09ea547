------------------------------ MODULE FileAccess ------------------------------
(***************************************************************************)
(* Components whose calls are many file accesses and must end, side by     *)
(* side as in ProcessServices and for the same reason: the operations on   *)
(* one record, and the reading of files through the content cache.  A      *)
(* behaviour runs one of them, under its own fairness.                     *)
(***************************************************************************)
EXTENDS MCRecordStore, MCFileContentCache

VARIABLE accessed  \* the component of this behaviour

AccessInit == accessed \in {"record", "files"} /\ Init /\ FileInit

RecordAccess == accessed = "record" /\ Next /\ UNCHANGED <<accessed, fileVars>>
ContentAccess == accessed = "files" /\ FileNext /\ UNCHANGED <<accessed, vars>>

AccessNext == RecordAccess \/ ContentAccess

\* The fairness of FairSpec and of FileFairSpec, each for the behaviours of its own
\* component.
AccessFairness ==
    /\ \A p \in Procs : WF_vars(accessed = "record" /\ Step(p))
    /\ \A t \in Readers : WF_fileVars(accessed = "files" /\ ReadStep(t))

AccessSpec ==
    AccessInit /\ [][AccessNext]_<<accessed, vars, fileVars>> /\ AccessFairness
=============================================================================
