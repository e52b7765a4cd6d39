\* Three workers scan up to 10 tuples in vectors of 1 to 3 tuples and chunks of
\* 1 to 3 vectors, or build two joins with up to two vectors each; or two
\* workers aggregate up to two tuples per key, with tables that are flushed
\* from their second group on; or they build a plan and write up to two vectors
\* each, of half a block and of more than a block; or three threads run three queries.
CONSTANTS
  Workers = {w1, w2, w3}
  NrJoins = 2
  MaxVectors = 2
  MaxTuples = 10
  ChunkSizes = {1, 2, 3}
  VecSizes = {1, 2, 3}
  Groupers = {w1, w2}
  nrPartitions = 2
  maxFill = 2
  MaxCount = 2
  a = a
  b = b
  c = c
  Keys <- MCKeys
  partitionOf <- MCpartitionOf
  Plan <- MCPlan
  ElementSizes <- MCElementSizes
  minBlockSize = 2
  Batches = {1, 3}
  Main = w1
  nrThreads = 3
  MaxQueries = 3
SPECIFICATION MCSpec
INVARIANTS
  TypesOK
  BuildRight
  ScanExact
  GroupsRight
  PhasesApart
  WorkersAgree
  ResultsComplete
  WorkersOwn
PROPERTIES
  EveryoneEnds
