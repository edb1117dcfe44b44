SPECIFICATION MCSpec
CONSTANTS
  Devices <- MCDevices
  BarInfo <- MCBarInfo
  Window32 <- MCWindow32
  Window64 <- MCWindow64
  LoMod = 16
  MaxDevices = 31
  Vcpus = {v1, v2}
  RegisterFails = TRUE
  MaxMoves = 2
  HoleStart = 6
  HoleEnd = 12
  PciEnd = 9
  EcamSize = 1
  AcpiSize = 1
  MaxWindow = 6
  Huge = 2
  MemSizes = {1, 5, 6, 7, 10}
  Addressables = {16, 24}
  HostTop = 16
  HostTaken = {0, 3}
  TableEntries = 2
  BootVcpus = 2
  Options = {"unshare", "net", "stats", "control"}
  GpuSettings = {"none", "patched", "stock"}
  FilterModes = {"off", "enforce"}
  MaxDrives = 1
  MaxShares = 2
  Polls = 1
  HostCpus = {0, 1, 2, 3}
  CpuSetSize = 5
  PinLists <- MCPinLists
  CpuLists <- MCCpuLists
  NumPlaced = 2
  MaxRefusals = 1
  Jobs <- MCJobs
  HostMounts <- MCHostMounts
  Nodes <- MCNodes
  Absent <- MCAbsent
  Modes <- MCModes
INVARIANTS
  DoorbellAtOffset
  MapIsTrue
  MemoryBacked
  
  IntxFollowsSlot
  DaemonsEndWithUs
  PlacedOrSaid
  JailServesConfig
  HostUntouched
PROPERTIES
  MovesSound
CHECK_DEADLOCK FALSE
