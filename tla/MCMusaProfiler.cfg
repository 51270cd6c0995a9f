\* Three buffers, three moments: records of several sessions in one buffer.
CONSTANTS
  Buffer = {b1, b2, b3}
  Capacity = 2
  MaxTime = 4
  Skew = 10
SPECIFICATION FairSpec
INVARIANTS TypeOK OwnedOnce OnlyEmptyLeaked EventsOfThisSession ReportedOnce SessionComplete
PROPERTY ReportedEventually
CHECK_DEADLOCK FALSE
