SPECIFICATION Spec
CONSTANTS
  Core = Core
  Pump = Pump
  User = User
  UTV_SECTION_QUEUE_DEPTH = 2
  CountMod = 8
  MaxSections = 1
  MaxOpens = 2
  MaxAborts = 0
  MaxFailures = 0
CHECK_DEADLOCK FALSE
INVARIANT Reopens
