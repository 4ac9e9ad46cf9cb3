SPECIFICATION Spec
CONSTANTS
  MaxCatalog = 1
  Malformed <- None
  Settings <- FetchingModes
  TracksOf <- CMAFOnly
  Filters <- AnyName
  Outs <- AllOuts
  Mains <- CatalogMain
INVARIANTS CatalogFirst
CHECK_DEADLOCK FALSE
