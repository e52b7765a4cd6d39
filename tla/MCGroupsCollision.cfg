\* Two of the keys have the same hash.
CONSTANTS
  NextSize = 8
  HeaderSize = 16
  Round = 8
  Sizes = {1, 4, 8, 10}
  Aligns = {4, 8}
  MaxFields = 3
  Elements = {e1, e2}
  initialSize = 1
  MaxChunks = 3
  Workers = 1
  HashBits = 4
  chunkSize = 2
  MaxLen = 4
  Keys <- MCKeys
  Hashings <- OnlySame
  VecSize = 2
  MaxRows = 6
  InitialSize = 4
  Threads = {t1, t2}
  GroupKeys <- MCGroupKeys
  partitionOf <- CompiledPartitions
  GroupPartitions = 2
  FirstSize = 1
  MaxScanned = 4
  PartVecSize = 3
  FirstCapacity = 2
  MaxVectors = 2
SPECIFICATION MCSpec
INVARIANT
  FoundOrMissing
CHECK_DEADLOCK FALSE
