SPECIFICATION FairSpec
CONSTANTS
  Entries = {0, 1, 2}
  None = None
INVARIANT DirectoryHeld
CHECK_DEADLOCK FALSE
