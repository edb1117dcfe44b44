SPECIFICATION Spec
SYMMETRY HeadSymmetry
CONSTANTS
  Heads = {h1, h2}
  NoHead = NoHead
  QSize = 2
  IdxMod = 4
  Depth = 2
  Engine = "uring"
  EventIdx = FALSE
  Polls = FALSE
  Faults = FALSE
  MaxAdded = 1
  MaxBatch = 3
  MaxRetries = 1
  MaxResets = 1
INVARIANTS
  SlabConserved
  QuietAfterReset
  WakeUpsArrive
PROPERTIES
  ImplementsService
