SPECIFICATION MCSpec
SYMMETRY Symmetry
CONSTANTS
  Heads = {h1, h2}
  NoHead = NoHead
  Ctxs = {c1}
  RingIdx = {0}
  MaxFence = 2
  MaxGlobal = 1
  Odd = TRUE
  Faults = TRUE
  Res = {r1, r2}
  NoRes = NoRes
  Sizes = {1, 2}
  WinSize = 2
  Limits <- SmallLimits
  Scanouts = {0}
  FirstSlot = 5
  MaxLife = 2
  MapFaults = TRUE
  GpuCtxs = {1, 2, 3}
  DrmCtxs = {1, 2}
  BlobIds = {1, 2}
  ResIds = {1, 2}
  VramSizes = {1, 2}
  RepeatBlob = FALSE
  MaxCharged = 3
INVARIANTS
  ChainsAccounted
  NotEarly
  
  GuestView
  NothingLeaks
  
