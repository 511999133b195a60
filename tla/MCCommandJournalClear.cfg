SPECIFICATION Spec
CONSTANTS
  c1 = c1
  c2 = c2
  Command = {c1, c2}
  NoCommand = NoCommand
  MaxOutputBytes = 1
  MaxQueueBytes = 1
  e1 = e1
  Epoch = {e1}
  NoEpoch = NoEpoch
  MaxGeneration = 2
  Segments <- MCShortSegments
  MaxEmitted = 0
  MaxQueue = 3
SYMMETRY CommandSymmetry
INVARIANTS
  RunningRowsAreVisible
  ClearLeavesTheLiveCommand
PROPERTIES
  HiddenStaysHidden
