CONSTANTS
  RingSize = 2
  Cwnd = 2
  MaxPacket = 1
  MaxBytes = 3
  Window = 1
  AckStep = 1
  ReadMax = 1
  MaxStreams = 2
SPECIFICATION Spec
INVARIANTS
  OutputContiguous
  DroppedOnlyWhenReceived
  ResumesAtHead
PROPERTIES
  RemoteIsStreamManager
