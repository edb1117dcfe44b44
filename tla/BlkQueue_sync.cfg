SPECIFICATION FairSpec
CONSTANTS
  Heads = {h1}
  NoHead = NoHead
  QSize = 1
  IdxMod = 4
  Depth = 2
  Engine = "sync"
  EventIdx = TRUE
  Polls = TRUE
  Faults = TRUE
  MaxAdded = 1
  MaxBatch = 3
  MaxRetries = 1
  MaxResets = 2
PROPERTIES
  WaitsEnd
