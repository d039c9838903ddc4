SPECIFICATION FairSpec
CONSTANTS
  Core = Core
  Pump = Pump
  User = User
  UTV_SECTION_QUEUE_DEPTH = 2
  CountMod = 8
  MaxSections = 3
  MaxOpens = 2
  MaxAborts = 1
  MaxFailures = 1
CHECK_DEADLOCK FALSE
INVARIANTS InOrder PumpWithinOpen NoSleepOverSection
PROPERTIES AbortEndsScan SourceKept
