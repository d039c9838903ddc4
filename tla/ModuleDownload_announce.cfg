CONSTANTS
  NComp = 1
  Mods <- MCZipMods
  Compatible = {0}
  Versions = {1}
  MaxRecords = 6
  MaxRetry = 2
SPECIFICATION Spec
PROPERTY CompleteIsAnnounced
