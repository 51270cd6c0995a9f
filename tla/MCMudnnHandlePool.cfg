\* Two threads that come and go, two devices: every handle the pool can need.
CONSTANTS
  Thread = {t1, t2}
  Device = {d1, d2}
  Handle = {h1, h2, h3, h4}
  Stream = {s1, s2}
  NoThread = NoThread
  NoHandle = NoHandle
  NoStream = NoStream
  Absent = Absent
  Free = Free
  MaxCreateFailures = 1
SPECIFICATION Spec
SYMMETRY PoolSymmetry
INVARIANTS TypeOK ExclusiveLease NoHandleLost HandlesBounded KernelOwnsHandle
CHECK_DEADLOCK FALSE
