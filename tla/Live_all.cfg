SPECIFICATION MCSpec
CONSTANTS
  Heads = {h1, h2}
  NoHead = NoHead
  Ctxs = {c1}
  RingIdx = {0}
  MaxFence = 1
  MaxGlobal = 0
  Odd = FALSE
  Faults = FALSE
  Percents = {25, 50}
  Clocks = {50, 150}
  Burst = 1
  MaxDebt = 3
  SampleOk = 3
  SampleHeld = 2
  MinSleep = 1
  MaxSleep = 4
  MaxWork = 2
  MaxIdle = 4
  NumVcpus = 2
  Shares = {s1, s2}
  MayPanic = TRUE
INVARIANTS
  OrderlyStop
PROPERTIES
  Served
  JoinReturns
  HoldsEnd
  StopEnds
CHECK_DEADLOCK FALSE
