SPECIFICATION FairSpec
CONSTANTS
  NB_BUFFER = 2
  MaxCalls = 3
INVARIANTS BuffersReturn WorkerStops
PROPERTIES CallReturns PictureTaken
CHECK_DEADLOCK FALSE
