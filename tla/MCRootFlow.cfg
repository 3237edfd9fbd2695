SPECIFICATION Spec
CONSTANTS
  a9 = a9
  b7 = b7
  Phones <- MCPhones
  Models <- MCModels
  Model <- MCModel
  NoFile = NoFile
  Locked <- MCTwo
  Mute = {}
  Nameless = {}
  MaxCmds = 3
INVARIANTS
  PairIsConsistent
  ForeignBuildIsExcused
  GoingBackIsPossible
CHECK_DEADLOCK FALSE
