SPECIFICATION BSpec
CONSTANTS
  Firmware <- MCFirmware
  Key <- MCKey
  ACK <- MCACK
  None = None
  MaxKeys = 1
  Line = {0, 1, 4, 12}
  Fault = {13, 14}
  MaxIrqs = 3
INVARIANTS
  CodeFindsWhatItUses
  UndisturbedSetupWorks
PROPERTIES
  EveryIrqIsServed
  BootReachesTheShell
