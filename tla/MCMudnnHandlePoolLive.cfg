\* Refinement and termination: two threads on one device, under fairness of running calls.
CONSTANTS
  Thread = {t1, t2}
  Device = {d1}
  Handle = {h1, h2}
  Stream = {s1}
  NoThread = NoThread
  NoHandle = NoHandle
  NoStream = NoStream
  Absent = Absent
  Free = Free
  MaxCreateFailures = 1
SPECIFICATION FairSpec
PROPERTIES ImplementsLease PoolTornDown
CHECK_DEADLOCK FALSE
