SPECIFICATION EditSpec
CONSTANTS
  SectorUnits = 4
  MiniUnits = 2
  Cutoff = 8
  FatPer = 4
  DirPer = 2
  MaxFat = 4
  Key <- MCKey
  Trees <- MCTrees
  Items <- MCItems
  Storages <- MCStorages
  TooLong = {"x"}
  Lengths <- MCLengths
  Default = "nv"
  Anywhere = Anywhere
  NoFile = NoFile
  Torn = Torn
  MaxEdits = 2
INVARIANTS
  InPlaceKeepsContainer
  ContainersAreSound
  EditIsExact
  RefusedInPlaceKeepsFile
CHECK_DEADLOCK FALSE
