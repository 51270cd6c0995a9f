\* One file with a line indented by one space.
CONSTANTS
  Contents <- Class
  Commits <- ClassCommits
  Context = 1
  JsonRules <- NoRules
  Requests <- NoRequests
  Slug <- OwnName
  JsonSlug <- NoNames
  Path <- One
  Mapping0 <- Unmapped
  Store0 <- NoFiles
  MaxSteps = 3
SPECIFICATION Spec
INVARIANTS ReplayIsExact
CHECK_DEADLOCK FALSE
