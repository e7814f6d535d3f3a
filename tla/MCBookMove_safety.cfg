CONSTANTS
  p1 = p1
  p2 = p2
  p3 = p3
  c1 = c1
  NoPath = NoPath
  Paths <- ThreePaths
  CacheFiles <- OneCacheFile
  DerivedFiles <- OneCacheFile
  MaxFaults = 3
  MaxMoves = 2
  MaxUploads = 1
SPECIFICATION Spec
SYMMETRY PathSymmetry
INVARIANTS TypeOK StateFollowsBook OldPathForgotten BudgetSuffices
PROPERTIES CompleteIsDurable FilesSurvive ListedStaysListed
