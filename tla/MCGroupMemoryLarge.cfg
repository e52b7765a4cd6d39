\* Groups up to twice the first chunk.
CONSTANTS
  Align = 4
  FirstSize = 16
  Requests = {7, 30}
  MaxRegions = 4
  MaxBlocks = 4
  Header = 2
  Word = 256
  FirstChunk = 16
  GroupSizes = {3, 31}
  MaxGroups = 5
  Threads = {t1, t2}
  Sizes = {1, 3}
  PoolRequests = 2
  Bases = {0, 40, 80, 120, 160}
  PoolHeader = 1
  PoolFirstSize = 2
SPECIFICATION MCSpec
INVARIANTS
  ChunkHasSpace
CHECK_DEADLOCK FALSE
