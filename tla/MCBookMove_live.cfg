CONSTANTS
  p1 = p1
  p2 = p2
  p3 = p3
  c1 = c1
  NoPath = NoPath
  Paths <- TwoPaths
  CacheFiles <- OneCacheFile
  DerivedFiles <- OneCacheFile
  MaxFaults = 2
  MaxMoves = 2
  MaxUploads = 0
SPECIFICATION FairSpec
PROPERTIES RecoveryFinishes ImplementsAtomicMove
