\* Three hashes, two of them in one bucket; chains of up to two entries, output
\* vectors of two pairs.
CONSTANTS
  Hashes = {1, 2, 3}
  capacity = 2
  MaxChain = 2
  batchSize = 2
SPECIFICATION Spec
INVARIANT
  NoPairTwice
