SPECIFICATION VramSpec
CONSTANTS
  GpuCtxs = {1, 2}
  DrmCtxs = {1}
  BlobIds = {1, 2}
  ResIds = {1, 2}
  VramSizes = {1, 2}
  RepeatBlob = TRUE
  MaxCharged = 3
INVARIANT
  ChargesExact
CHECK_DEADLOCK FALSE
