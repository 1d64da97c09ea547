------------------------------- MODULE FileLock -------------------------------
(***************************************************************************)
(* The per-record write lock of the local storage backend:                 *)
(* _exclusive_file_lock in medallion/storage/local.py.  A process opens    *)
(* the lock file (creating it when it is missing), takes an flock on the   *)
(* open file, runs the body, drops the flock, closes the file and then     *)
(* unlinks the path.  The flock belongs to the inode that was opened, not  *)
(* to the path, so the model keeps both: the path names at most one inode, *)
(* and a process that waits may hold an inode the path no longer names.    *)
(*                                                                         *)
(* A process is an operating system process or a thread: each call opens   *)
(* the file for itself, and flock excludes open file descriptions.         *)
(***************************************************************************)
EXTENDS Integers, FiniteSets

CONSTANTS
    Procs,     \* callers of the lock
    Inodes,    \* inodes of the directory of lock files, recycled when unused
    NoProc,    \* nobody owns an inode's flock
    NoInode    \* nothing at the path, or no open file

ASSUME NoProcAssumption == NoProc \notin Procs
ASSUME NoInodeAssumption == NoInode \notin Inodes

VARIABLES
    lockPath,  \* the inode the lock path names, or NoInode
    fd,        \* [Procs -> inode each process has open, or NoInode]
    owner,     \* [Inodes -> process that holds the inode's flock, or NoProc]
    stage,     \* [Procs -> where each process is in the context manager]
    renewed    \* history: a lock file was created while an unlinked one was open

lockVars == <<lockPath, fd, owner, stage, renewed>>

\* "out": not in the context manager; "opened": waits for the flock;
\* "held": runs the body; "released": closed the file, not yet unlinked it.
Stages == {"out", "opened", "held", "released"}

LockTypeOK ==
    /\ lockPath \in Inodes \cup {NoInode}
    /\ fd \in [Procs -> Inodes \cup {NoInode}]
    /\ owner \in [Inodes -> Procs \cup {NoProc}]
    /\ stage \in [Procs -> Stages]
    /\ renewed \in BOOLEAN

LockInit ==
    /\ lockPath = NoInode
    /\ fd = [p \in Procs |-> NoInode]
    /\ owner = [i \in Inodes |-> NoProc]
    /\ stage = [p \in Procs |-> "out"]
    /\ renewed = FALSE

-----------------------------------------------------------------------------
(* Helpers *)

Unused(i) == i # lockPath /\ \A q \in Procs : fd[q] # i

Holds(p) == stage[p] = "held"

Holders == {p \in Procs : Holds(p)}

\* The kernel's side of closing p's open file: its flock, if any, is dropped.
CloseFile(p) ==
    /\ fd' = [fd EXCEPT ![p] = NoInode]
    /\ owner' = [i \in Inodes |-> IF owner[i] = p THEN NoProc ELSE owner[i]]

-----------------------------------------------------------------------------
(* Actions *)

\* open(lock_path, "a+"): the inode at the path, or a new one put there.
OpenLock(p) ==
    /\ stage[p] = "out"
    /\ \E i \in Inodes :
          /\ IF lockPath = NoInode THEN Unused(i) ELSE i = lockPath
          /\ lockPath' = i
          /\ fd' = [fd EXCEPT ![p] = i]
    /\ renewed' = (renewed \/ (lockPath = NoInode /\ \E q \in Procs : fd[q] # NoInode))
    /\ stage' = [stage EXCEPT ![p] = "opened"]
    /\ UNCHANGED owner

\* Mutant of TakeLock: LOCK_SH where the code has LOCK_EX.
TakeSharedLock(p) ==
    /\ stage[p] = "opened"
    /\ owner' = [owner EXCEPT ![fd[p]] = p]
    /\ stage' = [stage EXCEPT ![p] = "held"]
    /\ UNCHANGED <<lockPath, fd, renewed>>

\* fcntl.flock(lock_file, LOCK_EX) returns: nobody else holds that inode.
TakeLock(p) ==
    /\ stage[p] = "opened"
    /\ owner[fd[p]] = NoProc
    /\ owner' = [owner EXCEPT ![fd[p]] = p]
    /\ stage' = [stage EXCEPT ![p] = "held"]
    /\ UNCHANGED <<lockPath, fd, renewed>>

\* The body returned: LOCK_UN in the finally clause, then the with block
\* closes the file.  The path is still there.
ReleaseLock(p) ==
    /\ stage[p] = "held"
    /\ CloseFile(p)
    /\ stage' = [stage EXCEPT ![p] = "released"]
    /\ UNCHANGED <<lockPath, renewed>>

\* lock_path.unlink() with OSError suppressed: whatever the path names now.
UnlinkLock(p) ==
    /\ stage[p] = "released"
    /\ lockPath' = NoInode
    /\ stage' = [stage EXCEPT ![p] = "out"]
    /\ UNCHANGED <<fd, owner, renewed>>

\* Mutant of AbortLock: without the finally clause and the with block, an
\* exception leaves the file open and locked.
AbortLeavesOpen(p) ==
    /\ stage[p] = "held"
    /\ stage' = [stage EXCEPT ![p] = "out"]
    /\ UNCHANGED <<lockPath, fd, owner, renewed>>

\* The body raised: the finally clause and the close run, but the exception
\* leaves the generator before the unlink, so the lock file stays.
AbortLock(p) ==
    /\ stage[p] = "held"
    /\ CloseFile(p)
    /\ stage' = [stage EXCEPT ![p] = "out"]
    /\ UNCHANGED <<lockPath, renewed>>

\* The process dies: the kernel closes its files, nothing is unlinked.
CrashLock(p) ==
    /\ stage[p] # "out"
    /\ CloseFile(p)
    /\ stage' = [stage EXCEPT ![p] = "out"]
    /\ UNCHANGED <<lockPath, renewed>>

LockNext ==
    \E p \in Procs :
        \/ OpenLock(p)
        \/ TakeLock(p)
        \/ ReleaseLock(p)
        \/ UnlinkLock(p)
        \/ AbortLock(p)
        \/ CrashLock(p)

LockSpec == LockInit /\ [][LockNext]_lockVars

-----------------------------------------------------------------------------
(* Properties *)

\* What the docstring promises ("exclusive file lock"): at most one process
\* runs the body.
MutualExclusion == \A p, q \in Procs : Holds(p) /\ Holds(q) => p = q

\* What the flock does give: a process runs the body exactly when it owns the
\* flock of the file it opened, and an flock never outlives its open file.
OwnerHasFileOpen ==
    /\ \A p \in Procs : Holds(p) => owner[fd[p]] = p
    /\ \A i \in Inodes : owner[i] # NoProc => Holds(owner[i]) /\ fd[owner[i]] = i

\* What is left of exclusion: as long as nobody has created a lock file while
\* an unlinked one was still open, one process at a time runs the body.
ExclusiveUntilRenewed == ~renewed => MutualExclusion
=============================================================================
