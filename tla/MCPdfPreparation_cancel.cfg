CONSTANTS
  s1 = s1
  s2 = s2
  NoSource = NoSource
  Sources <- Versions
  Pages = 2
  Images <- ImageInS2
  Starts <- SectionsInS2
  Capacity = 2
  MaxGeneration = 6
  FirstGeneration <- FromOne
  MaxFaults = 0
  MaxCancels = 1
  MaxReplacements = 0
SPECIFICATION Spec
PROPERTIES CancelKeepsPages
CHECK_DEADLOCK FALSE
