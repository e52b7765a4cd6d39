\* Alignment to 4 bytes; the store's chunks of 16, 32 and 64 bytes come from
\* regions of 16 bytes and more, between other blocks.  Groups stay below twice
\* the first chunk.  Beside them two workers of the pool with two requests each:
\* its first chunk holds one small block, so that both of them refill, and blocks
\* come from a chunk while the next one is published.
CONSTANTS
  Align = 4
  FirstSize = 16
  Requests = {7, 30}
  MaxRegions = 4
  MaxBlocks = 4
  Header = 2
  Word = 256
  FirstChunk = 16
  GroupSizes = {3, 20}
  MaxGroups = 5
  Threads = {t1, t2}
  Sizes = {1, 3}
  PoolRequests = 2
  Bases = {0, 40, 80, 120, 160}
  PoolHeader = 1
  PoolFirstSize = 2
SPECIFICATION MCSpec
INVARIANTS
  TypesOK
  BlocksSound
  NoByteShared
  GrantsSound
PROPERTIES
  AllServed
CHECK_DEADLOCK FALSE
