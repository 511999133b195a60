SPECIFICATION MCSpec
CONSTANTS
  NoBlock = 0
  Blocks = {1, 2, 3, 4, 5}
  SlotCounts = {2, 3}
  MaxUserOps = 1
  MaxPanes = 4
CHECK_DEADLOCK FALSE
INVARIANTS
  CreatedSurvive
  ReclaimedWereUntouched
  NoSilentLeak
PROPERTIES
  SnapDeletesSafely
  CommitCovers
  ApplyEnds
