SPECIFICATION FairSpec
CONSTANTS
  a = a
  b = b
  Block <- MCBlock
  Images <- MCImages
  NoFile = NoFile
  PartSize = 2
  MaxRuns = 2
  MaxFaults = 1
INVARIANTS
  TypeOK
  VerifiedMeansWritten
  TornWriteIsMixture
PROPERTIES
  ImplementsContract
  CommandEnds
CHECK_DEADLOCK FALSE
