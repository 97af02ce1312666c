SPECIFICATION Spec
CONSTANTS
  N = 3
  IntMax = 15
  MaxCommits = 7
INVARIANTS TypeOK OneOwner FramesIntact
PROPERTIES ImplementsFrameQueue
