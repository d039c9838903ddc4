SPECIFICATION FairSpec
CONSTANTS
  Callers = {agent, web}
  Hosts = {query, delivery}
  NoHost = NoHost
  UTV_WAIT_MAX = 1
  MaxLookups = 2
  MaxWakes = 1
  MaxRefusals = 1
INVARIANTS OwnAnswer HandlesReturn
PROPERTIES LookupEnds
CHECK_DEADLOCK FALSE
