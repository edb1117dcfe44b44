SPECIFICATION MCSpec
CONSTANTS
  Vectors = {0, 1}
  Unbacked = {7}
  NoVector = 65535
  Addrs = {1, 2}
  Datas = {1}
  Faults = TRUE
  VhostKinds = {"net", "vsock", "fs", "nvgpu"}
  Wishes <- MCWishes
  MaxLives = 2
  MaxFaults = 1
  ApertureSize = 4
  Align = 2
  PoolMaxLen = 3
  MaxPools = 2
  MaxPoolBytes = 4
  HvaMin = 1
  HvaMax = 7
  Foreign = {4}
  MaxPlaced = 3
  Typed = 3
  Sent = 2
  LineMax = 2
  RxChains <- MCRxChains
  TxChains <- MCTxChains
  MaxPosted = 2
  MaxConsoleLives = 2
INVARIANTS
  
  DeliveredAsProgrammed
  
  NegotiationAgrees
  
  PoolsSound
  ResetWithdrawsPools
  ConsoleFaithful
  ConsoleAwake
CHECK_DEADLOCK FALSE
