CONSTANTS
  p1 = p1
  p2 = p2
  NoPath = NoPath
  Paths <- TwoPaths
  MaxFaults = 2
  MaxDeletes = 2
  MaxUploads = 1
SPECIFICATION FairSpec
INVARIANTS TypeOK AbsenceIsKnown TombstoneGoesLast
PROPERTIES CompleteMeansGone OnlyTheNamedSuffer DeletionFinishes ImplementsAtomicDelete
