------------------------- MODULE MCRecordedGpuMalloc -------------------------
(* The instance of RecordedGpuMalloc for TLC.                              *)
EXTENDS RecordedGpuMalloc, TLC

CONSTANTS d1, d2, p1, p2, p3, p4, p5

OnFirst == {p1, p2, p3, p4}
TwoDevices == [p \in Page |-> IF p \in OnFirst THEN d1 ELSE d2]
Symmetry == Permutations(Thread) \cup Permutations(OnFirst)

\* A report influences no later step, so states that differ only in old
\* reports are explored once; every step that makes a report is still taken.
WithoutReports == <<curSize, mallocs, handles, abandoned, device, place, op, driverUp>>
=============================================================================
