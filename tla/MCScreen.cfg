SPECIFICATION Spec
CONSTANTS
  Window = {w, x}
  NoWindow = none
  MaxSurfaces = 2
  MaxTaking = 2
  MaxThrough = 1
  X11 = {x}
  Output = {o1, o2}
  Primary = o1
  NoOutput = nowhere
INVARIANTS
  InputFollowsDrawing
  FullscreenAgrees
