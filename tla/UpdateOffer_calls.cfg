SPECIFICATION FairSpec
CONSTANTS
  Entries = {0, 1, 2, 3, 4}
  None = None
INVARIANTS NetDirectoryHeld ModeMatches
PROPERTIES OfferStable CallsEnd
CHECK_DEADLOCK FALSE
