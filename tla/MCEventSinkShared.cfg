CONSTANTS
    p1 = p1
    p2 = p2
    None = None
    Pipe = Pipe
    Procs <- MCProcs
    Verdicts <- OneLine
    MaxBytes = 2
    Keeps <- OneKeep
    SizeCheckCeiling = 17
    Inodes <- MCInodes
    MaxLines = 5
    MaxFaults = 0
SYMMETRY ProcSymmetry
SPECIFICATION Spec
INVARIANT SegmentsBounded
CHECK_DEADLOCK FALSE
