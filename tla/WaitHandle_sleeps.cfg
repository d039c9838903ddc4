SPECIFICATION FairSpec
CONSTANTS
  NULL = NULL
  Sleepers = {s1, s2}
  Wakers = {w1}
  Blocks = {b1, b2}
  UTV_WAIT_MAX = 2
  CountMod = 8
  MaxSleeps = 2
  MaxWaits = 2
  MaxAborts = 1
INVARIANTS PrivateHandle WakeReachesAll
PROPERTIES AbortWakesFirstWait
CHECK_DEADLOCK FALSE
