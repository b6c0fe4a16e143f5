CONSTANTS
    p1 = p1
    p2 = p2
    None = None
    Pipe = Pipe
    Procs <- OneProc
    Verdicts <- MCVerdicts
    MaxBytes = 8
    Keeps <- MCKeeps
    SizeCheckCeiling = 17
    Inodes <- MCInodes
    MaxLines = 7
    MaxFaults = 2

SPECIFICATION Spec
INVARIANTS WithinCeiling RecentKept Accounted
PROPERTY LandsLive
CHECK_DEADLOCK FALSE
