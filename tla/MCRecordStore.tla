---------------------------- MODULE MCRecordStore ----------------------------
(* Instance of RecordStore for TLC: two processes share one record.  Three   *)
(* inodes are one more than two processes and the path can use at once, so   *)
(* a fresh lock file can always be created.                                  *)
EXTENDS RecordStore
=============================================================================
