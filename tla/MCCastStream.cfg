SPECIFICATION FairSpec
CONSTANTS
  Size = {small, large}
  Buffer = {b1, b2}
  NoSize = none
  MaxOffers = 3
  MaxFrames = 2
INVARIANTS
  FramesInOrder
  NoBufferLost
PROPERTIES
  BuffersFit
  RenderedFramesLeave
CHECK_DEADLOCK FALSE
