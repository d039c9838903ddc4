SPECIFICATION FairSpec
CONSTANTS
  WithoutEarpiece = TRUE
  MaxCalls = 5
INVARIANTS EchoLive ActiveRuns RoutesMatch
PROPERTIES EchoHeld CallsReturn
CHECK_DEADLOCK FALSE
