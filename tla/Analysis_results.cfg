SPECIFICATION MCSpec
CONSTANTS
  Lanes = {l1, l2}
  Files <- MCFiles
  Practices <- MCPractices
  Absent = Absent
  Origins <- MCOrigins
  MaxEdits = 1
  Trees <- MCTrees
  Answers <- MCAnswers
  BatchSize = 2
  MaxFiles = 4
  Capitalised = {"Cart"}
  Scoped = {"@lib", "@other"}
  External = {"fastapi"}
  PackageDirs = {"models", "services"}
  Nowhere = Nowhere
SYMMETRY MCSymmetry
INVARIANTS
  AllTabsOrNone
  LowRiskIsEvidenced
  ExactImportsResolve
  CriticalIsReachable
  RowsTellOneScan
  ResolvingNeverHurts
PROPERTIES
  TabsTellOfTests
  PracticeNeverHurts
\* The tabs stop once the result has them all and no edit is left.
CHECK_DEADLOCK FALSE
