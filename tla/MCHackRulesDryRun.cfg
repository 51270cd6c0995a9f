\* Two runs.
CONSTANTS
  Mappings <- OneTarget
  Trees <- PTrees
  MaxRuns = 2
SPECIFICATION Spec
INVARIANT DryRunPredicts
