SPECIFICATION FairSpec
CONSTANTS
  r1 = r1
  Requests <- OneRequest
  Files <- AssetFiles
  Subtitles <- SubtitleNames
  DRM = TRUE
  ECCP = TRUE
  Messages <- AnnounceMessages
  Wants <- OnePeer
PROPERTIES AllAnnounced
CHECK_DEADLOCK FALSE
