SPECIFICATION MapSpec
CONSTANTS
  Res = {r1, r2}
  NoRes = NoRes
  Sizes = {1, 2}
  WinSize = 3
  Limits <- SmallLimits
  Scanouts = {0}
  FirstSlot = 5
  MaxLife = 2
  MapFaults = FALSE
INVARIANTS
  ResetWithdraws
