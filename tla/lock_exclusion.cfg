CONSTANTS
    Procs = {p1, p2}
    Inodes = {i1, i2, i3}
    NoProc = NoProc
    NoInode = NoInode
    MaxOps = 3
    Absent = Absent
    Partial = Partial
SPECIFICATION Spec
INVARIANT MutualExclusion
CHECK_DEADLOCK FALSE
