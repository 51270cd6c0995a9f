\* Two runs.
CONSTANTS
  Mappings <- Insertion
  Trees <- OneLine
  MaxRuns = 2
SPECIFICATION Spec
INVARIANT ReapplyKeeps
