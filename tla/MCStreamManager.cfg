CONSTANTS
  RingSize = 2
  Cwnd = 2
  MaxPacket = 1
  MaxBytes = 3
  StreamIds = {1, 2}
  MaxRwnd = 2
SPECIFICATION Spec
INVARIANTS
  SenderMissesNothing
  BlockedOnlyWhenFull
