\* A loop of a kernel ends.
SPECIFICATION MCSpec
CONSTANTS
  One = 10
  Limit = 1
  Fraction = 3
  Percent = 1000
  Databases <- NoDatabases
  Zero = Zero
  None = None
  Untouched = Untouched
  Stray = Stray
INVARIANT
  SameAsHash4Sel
CHECK_DEADLOCK FALSE
