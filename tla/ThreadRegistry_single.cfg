SPECIFICATION RegistryFairSpec
CONSTANTS
  Creators = {c1}
  Workers = {t1, t2}
  Routines = {r1, r2}
  NoThread = NoThread
  THREAD_COUNT = 2
INVARIANTS ActiveSeen NoGhost
PROPERTIES CallsReturn
