SPECIFICATION RegistrySpec
CONSTANTS
  Creators = {c1}
  Workers = {t1, t2, t3}
  Routines = {r1, r2}
  NoThread = NoThread
  THREAD_COUNT = 2
INVARIANT UniqueRoutine
