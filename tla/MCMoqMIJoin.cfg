CONSTANTS
  s1 = s1
  Subs <- OneSub
  Tracks <- FractionalGop
  StartClock = 333000
  Ticks <- CoarseSteps
  MaxClock = 333900
SPECIFICATION Spec
PROPERTY JoinsNextGop
CHECK_DEADLOCK FALSE
