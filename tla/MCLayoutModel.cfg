SPECIFICATION MCSpec
CONSTANTS
  NoBlock = NoBlock
  b1 = b1
  b2 = b2
  b3 = b3
  b4 = b4
  Blocks = {b1, b2, b3, b4}
  MaxChildren = 2
  MaxBatch = 2
  MaxFocusPanes = 3
  IndexArrs <- MCIndexArrs
VIEW CanonicalView
INVARIANTS
  ModelInv
  DropsLandBeside
PROPERTIES
  EditsKeepTheRest
  ClosingRefocuses
