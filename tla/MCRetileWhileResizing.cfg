SPECIFICATION Spec
CONSTANTS
  Wayland = {w1, w2}
  X11 = {}
  NoEdge = none
  MaxWidth = 2
  SlotWidth = 1
  Place = {}
  Offset = {}
  MaxSerial = 3
PROPERTY AskedWidthIsTheGrabs
