SPECIFICATION FairSpec
CONSTANTS
  Wayland = {w}
  X11 = {x}
  NoEdge = none
  MaxWidth = 2
  SlotWidth = 1
  Place = {0}
  Offset = {1}
  MaxSerial = 3
INVARIANTS
  TypeOK
  HeldExactlyWhileResizing
  OppositeEdgeStays
  ToldWhenOver
  FinalStateAcked
PROPERTY ComesToRest
