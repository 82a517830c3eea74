SPECIFICATION Spec
CONSTANTS
  Registers <- AllRegisters
  Default <- PowerUp
  Ranged <- AllRanged
  InitScale <- Scales
  Programs <- AllPrograms
  MaxFaults = 2
INVARIANTS
  SettingsHold
  ScaleAgrees
  StrayBits
  RestartHeals
