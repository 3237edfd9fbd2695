SPECIFICATION Spec
CONSTANTS
  MaxCmds = 2
  MaxLate = 1
INVARIANTS
  RadioSurvives
  BackupHoldsErased
PROPERTY RebuildSticks
CHECK_DEADLOCK FALSE
