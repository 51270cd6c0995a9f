\* Two runs of every pair of rule files on one target, and of one on two.
CONSTANTS
  Mappings <- AnyMapping
  Trees <- AnyTree
  MaxRuns = 2
SPECIFICATION Spec
INVARIANTS TypeOK NoHalfAppliedFile ReplayIsPerFile DoneMeansAdapted
