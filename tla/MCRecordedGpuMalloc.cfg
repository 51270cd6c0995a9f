\* Two threads, two devices with four and one pages of memory under a limit of
\* one: what every interleaving does to the counters and to the current
\* devices, and how far the threads overshoot the limit.
CONSTANTS
  Thread = {t1, t2}
  d1 = d1
  d2 = d2
  Device = {d1, d2}
  p1 = p1
  p2 = p2
  p3 = p3
  p4 = p4
  p5 = p5
  Page = {p1, p2, p3, p4, p5}
  PageDevice <- TwoDevices
  Limit = 1
  MaxSize = 2
  W = 32
  Settled = Settled
SPECIFICATION Spec
VIEW WithoutReports
SYMMETRY Symmetry
INVARIANTS TypeOK AccountingExact BlocksOnDevice DeviceRestored OvershootBounded
PROPERTY MemInfoLeavesRoom
CHECK_DEADLOCK FALSE
