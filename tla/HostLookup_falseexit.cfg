SPECIFICATION FairSpec
CONSTANTS
  Callers = {agent}
  Hosts = {query}
  NoHost = NoHost
  UTV_WAIT_MAX = 1
  MaxLookups = 1
  MaxWakes = 1
  MaxRefusals = 0
INVARIANT NoAnswerIsTimeout
CHECK_DEADLOCK FALSE
