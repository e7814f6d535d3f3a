CONSTANTS
  s1 = s1
  s2 = s2
  NoSource = NoSource
  Sources <- Versions
  Pages = 2
  Images <- ImageInS2
  Starts <- SectionsInS2
  Capacity = 2
  MaxGeneration = 6
  FirstGeneration <- FromOne
  MaxFaults = 1
  MaxCancels = 1
  MaxReplacements = 2
SPECIFICATION FairSpec
INVARIANTS TypeOK ManifestNamesProduct BuildStandsOnItsPages
PROPERTIES PreparationFinishes NoProgressLost ImplementsAtomicPreparation
CHECK_DEADLOCK FALSE
