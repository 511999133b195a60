SPECIFICATION ServiceLiveSpec
CONSTANTS
  c1 = c1
  Command = {c1}
  NoCommand = NoCommand
  MaxOutputBytes = 1
  MaxQueueBytes = 1
  e1 = e1
  Epoch = {e1, e2}
  e2 = e2
  NoEpoch = NoEpoch
  MaxGeneration = 2
  Segments <- MCShortSegments
  MaxEmitted = 0
  MaxQueue = 2
PROPERTIES
  TransactionsEnd
