SPECIFICATION IpcSpec
CONSTANTS
  Conn = {c1, c2}
  Window = {w1, w2}
  MaxId = 2
PROPERTIES
  ImplementsRpc
  RequestsEnd
CHECK_DEADLOCK FALSE
