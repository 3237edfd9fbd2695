SPECIFICATION Spec
CONSTANTS
  a9 = a9
  b7 = b7
  m1 = m1
  m2 = m2
  g1 = g1
  g2 = g2
  Phones <- MCPhones
  Model <- MCOtherModel
  Parts <- MCPair
  Groups <- MCPairGroups
  Gens <- MCGens
  Torn = Torn
  NoFile = NoFile
  Unsized = {}
  MaxCmds = 2
  MaxMoves = 1
  MaxLate = 1
SYMMETRY MCSymmetry
INVARIANTS
  TypeOK
  RollbackCoversOverwrites
  VerifiedEntryIsImage
  ForeignImageNeedsToken
CHECK_DEADLOCK FALSE
