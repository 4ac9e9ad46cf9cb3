SPECIFICATION FairSpec
CONSTANTS
  MaxCatalog = 3
  Malformed <- None
  Settings <- FetchingModes
  TracksOf <- MixedGrowing
  Filters <- SomeNames
  Outs <- AllOuts
  Mains <- AnyMain
INVARIANTS TypeOK ChosenFromOneCatalog SinksFit RunSettled DecryptedAsInit
 
CHECK_DEADLOCK FALSE
