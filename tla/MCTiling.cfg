SPECIFICATION Spec
\* When nobody asks for anything and nothing moves, nothing happens.
CHECK_DEADLOCK FALSE
CONSTANTS
  Window = {w1, w2, x}
  X11 = {x}
  Width = 14
  Height = 11
  Gap = 1
  Margin = 1
  Reserve = 2
  Overrides = {3}
  Layouts = {"columns", "grid", "master_stack", "floating"}
  MaxRequests = 2
SYMMETRY Symmetry

  
  
PROPERTIES
  IdsIdentify
