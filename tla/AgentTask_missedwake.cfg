CONSTANTS
  Agent = agent
  Users = {u1}
  Ops = {"abort"}
  OthersActive = FALSE
  MaxRequests = 1
  MaxBoots = 1
SPECIFICATION FairSpec
PROPERTIES AbortWakesSleeper
CHECK_DEADLOCK FALSE
