CONSTANTS
  Agent = agent
  Users = {u1, u2}
  Ops = {"abort", "exit"}
  OthersActive = TRUE
  MaxRequests = 2
  MaxBoots = 1
SPECIFICATION FairSpec
PROPERTIES AbortWakesSleeper AbortHonoured ExitHonoured
CHECK_DEADLOCK FALSE
