SPECIFICATION ImagesSpec
CONSTANTS
  Geos <- MCGeos
  Working <- MCWorking
  Factory <- MCFactory
  Spelling <- MCSpelling
  AgeMod = 8
  HighAge = 6
  LowAge = 2
  Starts = {5}
  MaxFiles = 2
  MaxWrites = 4
INVARIANTS
  LiveIsLatest
  NewestMirrorIsLatest
  OkMeansGenuine
  UsableRegionLacksItsEndOnly
CHECK_DEADLOCK FALSE
