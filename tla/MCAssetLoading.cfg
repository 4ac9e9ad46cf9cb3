CONSTANTS
  Directories <- SomeDirectories
  Configs <- SomeConfigs
  Subtitles <- SubtitleNames
  Word = 32768
  MaxSamples = 12
SPECIFICATION Spec
INVARIANTS ServedTracksPlay LoopsTogether StartsOrRefuses OffersCatalogs GroupsAreGops
CHECK_DEADLOCK FALSE
