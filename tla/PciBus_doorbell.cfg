SPECIFICATION Spec
CONSTANTS
  Devices <- MCDevices
  BarInfo <- MCBarInfo
  Window32 <- MCWindow32
  Window64 <- MCWindow64
  LoMod = 16
  MaxDevices = 31
  Vcpus = {v1}
  RegisterFails = TRUE
  MaxMoves = 3
INVARIANT
  OffsetSurvives
