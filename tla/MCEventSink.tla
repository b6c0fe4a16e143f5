---------------------------- MODULE MCEventSink ----------------------------
EXTENDS EventSink, TLC

CONSTANTS p1, p2

MCProcs == {p1, p2}
V(known, bytes, readable) == [known |-> known, bytes |-> bytes, readable |-> readable]
MCVerdicts == {V(<<TRUE, FALSE>>, 1, FALSE), V(<<TRUE, TRUE>>, 4, TRUE)}
OneProc == {p1}
OneLine == {V(<<TRUE>>, 1, TRUE)}
MCKeeps == {0, 2, 3}
OneKeep == {1}
MCInodes == 1..6

ProcSymmetry == Permutations(MCProcs)
=============================================================================
