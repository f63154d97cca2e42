SPECIFICATION FairSpec
CONSTANTS
  Pushers = {p1, p2}
  Capacity = 2
  MaxFrames = 2
  NoFrame = NoFrame
  NoQueue = NoQueue
INVARIANTS TypeOK FramesAccounted StreamAlive EmptyFetchIsBrief
PROPERTIES Served CallsReturn
CHECK_DEADLOCK FALSE
