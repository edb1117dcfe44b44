SPECIFICATION FairSpec
CONSTANTS
  Heads = {h1, h2}
  NoHead = NoHead
  QSize = 2
  IdxMod = 4
  Depth = 2
  Engine = "uring"
  EventIdx = FALSE
  Polls = FALSE
  Faults = TRUE
  MaxAdded = 1
  MaxBatch = 2
  MaxRetries = 0
  MaxResets = 0
PROPERTIES
  Served
