SPECIFICATION Spec
CONSTANTS
  WalkOrder <- MCWalkOrder
  SkipDirs <- MCSkipDirs
  MaxDepth = 1
  Contents <- MCContents
  Edits <- MCEdits
  Starts <- MCStarts
  Dockerfiles <- MCDockerfiles
  DaemonUserns = FALSE
  DaemonNnp = FALSE
INVARIANTS
  EachOnce
  Covered
  Snapshot
  NeverWithout
  OverrideApplied
  FixesHold
CHECK_DEADLOCK FALSE
