SPECIFICATION FairSpec
CONSTANTS
  Session = {s1, s2}
  Stream = {x1, x2}
  NoSession = none
  MaxCalls = 1
  PwCap = 1
INVARIANTS
  TypeOK
  RemovalNeverPanics
  OneCastPerStream
  DbusStopEndsCasts
PROPERTIES
  ClosedOnce
  ImplementsLifecycle
  StopsEnd
CHECK_DEADLOCK FALSE
