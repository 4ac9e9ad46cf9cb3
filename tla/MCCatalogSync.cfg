SPECIFICATION FairSyncSpec
CONSTANTS
  MaxCatalog = 4
  Malformed <- ThirdMalformed
  Settings <- AllSettings
INVARIANTS NothingComesBack RetrievalSettled
PROPERTIES MovesForward UpdatesApplied
CHECK_DEADLOCK FALSE
