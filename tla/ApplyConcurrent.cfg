SPECIFICATION Spec
CONSTANTS
  Procs <- MCProcs
  Keys <- MCKeys
  Wants <- MCWants
  NoFile = NoFile
  Blank = Blank
  Partial = Partial
CHECK_DEADLOCK FALSE
CONSTANTS
  Second <- OwnSecond
  MaxSuffix = 0
  MaxEdits = 1
  Exclusive = FALSE
INVARIANTS SavedKept TmpGone
PROPERTIES BackupsNotOverwritten
