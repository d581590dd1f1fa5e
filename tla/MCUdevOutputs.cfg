SPECIFICATION Spec
CONSTANTS
  Connector = {k1, k2}
  Crtc = {c1, c2}
  NoCrtc = none
  MaxFailures = 1
  MaxStarts = 2
SYMMETRY Symmetry
INVARIANTS
  RegistriesAgree
  OutputsTile
  LoopsLive
  LoopsBounded
