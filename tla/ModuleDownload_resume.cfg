CONSTANTS
  NComp = 3
  Mods <- MCMods
  Compatible <- MCCompatible
  Versions = {1, 2}
  MaxRecords = 4
  MaxRetry = 2
SPECIFICATION Spec
INVARIANTS TypeOK PrefixIntact CountsAgree
PROPERTIES SessionEnds Delivers
