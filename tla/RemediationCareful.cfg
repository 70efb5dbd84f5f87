SPECIFICATION Spec
CONSTANTS
  Contents <- SmallContents
  HostStates <- MCHosts
  Selections <- MCSelections
  MaxRuns = 2
  MaxEdits = 1
  Careful = TRUE
CHECK_DEADLOCK FALSE
INVARIANTS KeepsContainers TakesEffect DiesOnlyWarned FixesResolve
PROPERTIES OnlyPlanned
