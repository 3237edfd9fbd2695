SPECIFICATION FairSpec
CONSTANTS
  a = a
  b = b
  Block <- MCBlock
  NoFile = NoFile
  Zero = a
  PartSize = 4
  Sector = 2
  Page = 4
  Contents <- MCContents
  Ranges <- MCRanges
  PipeCap = 1
  MaxRuns = 2
  MaxFaults = 2
  MaxChanges = 1
INVARIANTS
  EndsAsOutcome
  VerifiedDumpIsSnapshot
  UnwarnedDumpIsCopy
PROPERTY DumpEnds
CHECK_DEADLOCK FALSE
