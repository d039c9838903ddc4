CONSTANTS
  Agent = agent
  Users = {u1}
  Ops = {"exit"}
  OthersActive = TRUE
  MaxRequests = 1
  MaxBoots = 2
SPECIFICATION Spec
INVARIANTS ReturnsOnlyOnExit
CHECK_DEADLOCK FALSE
