SPECIFICATION Spec
CONSTANTS
  Agent = agent
  Users = {u1, u2}
  Ops = {"abort", "exit", "restart"}
  OthersActive = TRUE
  MaxRequests = 2
  MaxBoots = 2
SYMMETRY Symmetry
INVARIANTS TypeOK Exclusion NeverDestroyedHeld SleepMatchesState
PROPERTIES AbortSticky
CHECK_DEADLOCK FALSE
