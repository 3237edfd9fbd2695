SPECIFICATION Spec
CONSTANTS
  a9 = a9
  b7 = b7
  Phones <- MCPhones
  Userdebug <- MCUserdebug
  NoPhone = NoPhone
  MaxCmds = 3
  MaxEvents = 2
  MaxFaults = 1
INVARIANTS
  RootModeStaysTrue
  RefusalIsRight
  NamedPhoneOnly
CHECK_DEADLOCK FALSE
