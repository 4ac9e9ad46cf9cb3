CONSTANTS
  TrackSet <- SmallTracks
  MaxNr = 30
  Layouts <- SubtitleLayouts
SPECIFICATION Spec
INVARIANTS TimelineIsPartitioned PacedByTheClock LoopPlaysInOrder CuesTellTheTime
CHECK_DEADLOCK FALSE
