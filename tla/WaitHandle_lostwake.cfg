CONSTANTS
  NULL = NULL
  Sleepers = {s1}
  Wakers = {w1}
  Blocks = {b1}
  UTV_WAIT_MAX = 1
  CountMod = 8
  MaxSleeps = 1
  MaxWaits = 2
  MaxAborts = 1
SPECIFICATION FairSpec
PROPERTIES AbortWakesSleeper
CHECK_DEADLOCK FALSE
