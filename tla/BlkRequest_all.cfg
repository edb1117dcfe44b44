SPECIFICATION FairSpec
CONSTANTS
  SectorSize = 2
  MaxU64 = 15
  MaxRequest = 6
  IdLen = 3
  SegSize = 2
  Disks <- MCDisks
  Chains <- MCChains
  MaxInterrupts = 1
  MaxLen = 4
  MaxSegs = 2
  Dios = {0, 4}
  Eofs = {3, 6, 8}
  Kinds = {"in", "out", "flush", "get_id", "discard", "write_zeroes"}
  Sectors = {0, 1, 9}
INVARIANTS
  ReadExact
  WriteExact
PROPERTIES
  AnsweredHonestly
