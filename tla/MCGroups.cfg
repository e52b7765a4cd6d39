\* Four keys whose hashes meet in a bucket, or two of them with the same hash,
\* and up to six rows in vectors of up to two; or headers of 16 bytes and up to
\* three columns of the sizes that occur, with alignments in between; or stack
\* chunks of 1, 2 and 4 elements, filled, cleared and filled again; or a deque
\* for one worker, so eight partitions, with hashes of 4 bits, chunks of two
\* elements and up to four elements; or two threads that scan four rows with
\* three keys, in tables that are spilled, or enlarged, from their second group on;
\* or two vectors of up to three rows that are sorted with a table of two buckets at
\* first, and eight at most.
CONSTANTS
  NextSize = 8
  HeaderSize = 16
  Round = 8
  Sizes = {1, 4, 8, 10}
  Aligns = {4, 8}
  MaxFields = 3
  Elements = {e1, e2}
  initialSize = 1
  MaxChunks = 3
  Workers = 1
  HashBits = 4
  chunkSize = 2
  MaxLen = 4
  Keys <- MCKeys
  Hashings <- Both
  VecSize = 2
  MaxRows = 6
  InitialSize = 1
  Threads = {t1, t2}
  GroupKeys <- MCGroupKeys
  partitionOf <- CompiledPartitions
  GroupPartitions = 2
  FirstSize = 1
  MaxScanned = 4
  PartVecSize = 3
  FirstCapacity = 2
  MaxVectors = 2
SPECIFICATION MCSpec
INVARIANTS
  TypesOK
  LayoutSound
  ContainersExact
  RowsCounted
  RowsSorted
  CompiledExact
PROPERTIES
  StackAppends
CHECK_DEADLOCK FALSE
