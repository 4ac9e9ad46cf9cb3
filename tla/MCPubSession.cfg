SPECIFICATION FairSpec
CONSTANTS
  r1 = r1
  Requests <- OneRequest
  Files <- AssetFiles
  Subtitles <- SubtitleNames
  DRM = TRUE
  ECCP = TRUE
  Messages <- AllMessages
  Wants <- BothPeers
INVARIANTS AnsweredInFull MediaAsListed FetchRangesPartition
 
CHECK_DEADLOCK FALSE
