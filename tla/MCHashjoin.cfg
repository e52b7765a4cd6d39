\* The build: two workers push five entries onto two chains.  The probes: both
\* kinds of first pass, every table with chains of up to three entries, every
\* probe vector of up to three tuples.
CONSTANTS
  t1 = t1
  t2 = t2
  e1 = e1
  e2 = e2
  e3 = e3
  e4 = e4
  e5 = e5
  Threads = {t1, t2}
  Entries <- MCEntries
  NoEntry = NoEntry
  owner <- MCowner
  hash <- MChash
  hashRange = 8
  nrTags = 2
  capacity = 2
  Hashes = {1, 2, 3}
  MaxChain = 3
  batchSize = 3
  Lanes = {1, 2}
  ringSize = 4
SPECIFICATION MCSpec
INVARIANTS
  TypesOK
  ChainsSound
  LookupExact
  BuffersHold
PROPERTIES
  PairsOnce
  EveryoneEnds
