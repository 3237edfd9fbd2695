SPECIFICATION Spec
CONSTANTS
  a9 = a9
  b7 = b7
  boot = boot
  persist = persist
  g1 = g1
  g2 = g2
  Phones <- MCPhones
  Parts <- MCParts
  Model <- MCModel
  Gens <- MCGens
  Torn = Torn
  NoFile = NoFile
  MaxCmds = 3
  MaxMoves = 1
  MaxPumps = 1
SYMMETRY MCSymmetry
INVARIANTS
  BlameHasCause
  MismatchGuardsImages
  RestoreGivesBack
CHECK_DEADLOCK FALSE
