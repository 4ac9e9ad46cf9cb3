SPECIFICATION Spec
CONSTANTS
  MaxCatalog = 1
  Malformed <- None
  Settings <- JoiningReplayed
  TracksOf <- CMAFOnly
  Filters <- AnyName
  Outs <- AllOuts
  Mains <- CatalogMain
INVARIANTS MuxIsForVideoAndAudio
CHECK_DEADLOCK FALSE
