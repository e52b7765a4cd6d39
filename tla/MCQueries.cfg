SPECIFICATION MCSpec
CONSTANTS
  One = 10
  Limit = 1
  Fraction = 3
  Percent = 1000
  Databases <- MCDatabases
  Zero = Zero
  None = None
  Untouched = Untouched
  Stray = Stray
INVARIANTS
  HyperAnswers
  VectorwiseAnswers
  LoadedIsOneTable
  RefusalsExplained
  ValuesRight
  LanesRight
