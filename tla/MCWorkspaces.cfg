SPECIFICATION Spec
CONSTANTS
  Window = {w1, w2, w3}
  Output = {o1}
  NoWindow = none
  MaxWorkspace = 1
SYMMETRY Symmetry
INVARIANTS
  HiddenMatchesWorkspace
  FocusVisible
PROPERTIES
  FocusNextVisitsAll
  ReorderTakesSlot
