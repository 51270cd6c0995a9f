\* Three ranks run one or two calls each, of every kind; a program ends.
CONSTANTS
  NRanks = 3
  Unwritten = Unwritten
  Programs <- AnyProgram
SPECIFICATION FairSpec
INVARIANTS TypeOK CountsMatch TempsAlive Delivered
PROPERTIES AllCallsComplete
CHECK_DEADLOCK FALSE
