CONSTANTS
  a1 = a1
  a2 = a2
  a3 = a3
  None = None
  Activities <- ThreeActivities
  MaxDepth = 1
  MaxChain = 1
SPECIFICATION FairSpec
INVARIANTS DrawsTheCurrent ResultsFindTheirParent AliveOnScreen WaiterIsServed
PROPERTIES RenderedShowsTheChange ChangesAreDrawn
