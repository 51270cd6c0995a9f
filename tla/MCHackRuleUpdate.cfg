\* Three files that are edited, turned into rules and edited again.
CONSTANTS
  Contents <- Plain
  Commits <- PlainCommits
  Context = 1
  JsonRules <- Renames
  Requests <- Asked
  Slug <- Clashing
  JsonSlug <- ClashingRenames
  Path <- Three
  Mapping0 <- Unmapped
  Store0 <- JsonFile
  MaxSteps = 4
SPECIFICATION Spec
INVARIANTS TypeOK ReplayOfExpressible JsonRulesKept
CHECK_DEADLOCK FALSE
