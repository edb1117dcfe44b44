SPECIFICATION Spec
SYMMETRY HeadSymmetry
CONSTANTS
  Heads = {h1, h2}
  NoHead = NoHead
  QSize = 2
  IdxMod = 4
  Depth = 3
  Engine = "uring"
  EventIdx = TRUE
  Polls = FALSE
  Faults = FALSE
  MaxAdded = 2
  MaxBatch = 2
  MaxRetries = 0
  MaxResets = 0
INVARIANTS
  WakeUpsArrive
