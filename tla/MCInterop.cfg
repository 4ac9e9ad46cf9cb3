SPECIFICATION FairSpec
CONSTANT Relays <- AnyRelay
INVARIANTS LinesTrue LeavesClosed
PROPERTIES CasesEnd
CHECK_DEADLOCK FALSE
