SPECIFICATION FairSpec
CONSTANTS
  Names <- MCNames
  FLASH_ORDER <- MCOrder
  Rest <- MCRest
  FASTBOOTD_ONLY <- MCFastbootd
  NEVER_AUTO <- MCNeverAuto
  Firmware <- MCFirmware
  Super = "super"
  Images <- MCImages
  MaxCmds = 2
  MaxFaults = 2
INVARIANTS
  TypeOK
  PlanPrefixIsFlashed
  LogicalInFastbootd
  OnlyWantedIsFlashed
PROPERTY FlashEnds
CHECK_DEADLOCK FALSE
