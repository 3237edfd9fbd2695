SPECIFICATION Spec
CONSTANTS
  a = a
  b = b
  Block <- MCBlock
  Images <- MCImages
  NoFile = NoFile
  PartSize = 2
  MaxRuns = 1
  MaxFaults = 1
INVARIANT FailedDdIsReported
CHECK_DEADLOCK FALSE
