CONSTANTS
  s1 = s1
  Subs <- OneSub
  Tracks <- AllTracks
  StartClock = 2150
  Ticks <- Steps
  MaxClock = 4950
SPECIFICATION FairSpec
INVARIANT TypeOK
INVARIANT GroupsFollowOn
INVARIANT FinMeansComplete
INVARIANT AtMostOneLateObject
INVARIANT SeqIDNamesSample
PROPERTY JoinsNextGroup
PROPERTY ImplementsLiveTrack
PROPERTY CatchesUp
PROPERTY GoroutinesEnd
CHECK_DEADLOCK FALSE
