SPECIFICATION FairSpec
CONSTANTS
  GroupSize = 3
  MaxGroup = 2
  CounterMod = 7
  Settings <- AllSettings
INVARIANTS TypeOK DecodedInTime GapsAddUp OutputsWhole
PROPERTIES CancelEndsReaders
CHECK_DEADLOCK FALSE
