CONSTANTS
  RingSize = 3
  Cwnd = 3
  MaxPacket = 2
  MaxBytes = 4
  Window = 3
  AckStep = 2
  ReadMax = 1
  MaxStreams = 1
SPECIFICATION LiveSpec
INVARIANTS
  StreamInv
PROPERTIES
  OneStreamKept
  RunningLoopReachesEnd
