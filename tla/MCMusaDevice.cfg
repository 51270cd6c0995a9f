\* Two threads use two streams and an event of two devices.
CONSTANTS
  Thread = {t1, t2}
  Device = {d1, d2}
  Stream = {s1, s2}
  Event = {e1}
  Absent = Absent
  MaxWork = 3
SPECIFICATION Spec
INVARIANTS TypeOK SyncCovers
PROPERTIES ImplementsStreams
CHECK_DEADLOCK FALSE
