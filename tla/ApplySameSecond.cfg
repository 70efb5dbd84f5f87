SPECIFICATION Spec
CONSTANTS
  Procs <- MCProcs
  Keys <- MCKeys
  Wants <- MCWants
  NoFile = NoFile
  Blank = Blank
  Partial = Partial
CHECK_DEADLOCK FALSE
CONSTANTS
  Second <- SameSecond
  MaxSuffix = 1
  MaxEdits = 0
  Exclusive = FALSE
PROPERTIES BackupsNotOverwritten
