SPECIFICATION MCSpec
CONSTANTS
  MaxChunks = 3
  MaxTruncates = 1
  MaxFailures = 2
  MaxClears = 3
  Marked = {2, 3}
CHECK_DEADLOCK FALSE
INVARIANTS
  IngressInv
  ScreenIsPrefix
  ClearsAccounted
PROPERTIES
  DisposedIsFinal
  OutputArrives
  ClearIsAlone
