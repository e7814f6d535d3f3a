CONSTANTS
  p1 = p1
  p2 = p2
  p3 = p3
  c1 = c1
  NoPath = NoPath
  Paths <- TwoPaths
  CacheFiles <- OneCacheFile
  DerivedFiles <- OneCacheFile
  MaxFaults = 1
  MaxMoves = 1
  MaxUploads = 0
SPECIFICATION FairSpec
PROPERTIES PreRenameFailureClears
