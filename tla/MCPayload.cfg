SPECIFICATION ExtractSpec
CONSTANTS
  boot = boot
  vendor = vendor
  ImageNames <- MCNames
  Packages <- MCPackages
  Zero = Zero
  Damaged = Damaged
  NoFile = NoFile
  Blocks <- MCBlocks
  Blobs = 2
  MaxExtracts = 2
INVARIANT ReportedIsIntended
PROPERTY RefusedIsNotTouched
CHECK_DEADLOCK FALSE
