SPECIFICATION Spec
CONSTANTS
  c1 = c1
  c2 = c2
  NoFile = NoFile
  Partial = Partial
  Contents <- TwoContents
  ForeignWhen <- Never
INVARIANT RetryIsSafe
