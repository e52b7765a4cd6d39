\* One barrier for three threads, five rounds, so that a round number that
\* wraps at 3 comes back; or a tree for five workers with a fan-in of two:
\* three levels, a rest barrier with one participant on two of them, and two
\* rounds.
CONSTANTS
  Threads = {t1, t2, t3}
  Calls = 5
  RoundMod = 3
  nrThreads = 5
  threadsPerBarrier = 2
  TreeCalls = 2
SPECIFICATION MCSpec
INVARIANTS
  TypesOK
  WaitersInStep
  SubtreeWaits
PROPERTIES
  KeepsContract
  TreeKeepsContract
  EveryoneReturns
