CONSTANTS
  Function = {"f1", "f2"}
  Scripts <- MCScripts
  Fallback = "builtin"
  MaxEvents = 1
  Key = {"Ctrl", "Alt", "F1", "Print"}
  Mod = {"Ctrl", "Alt"}
  VtKey = {"F1"}
SPECIFICATION ControlSpec
INVARIANTS PressDoesWhatScriptSays KeysPaired
PROPERTY LastEditLoads
CHECK_DEADLOCK FALSE
