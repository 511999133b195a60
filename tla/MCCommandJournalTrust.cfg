SPECIFICATION Spec
CONSTANTS
  c1 = c1
  Command = {c1}
  NoCommand = NoCommand
  MaxOutputBytes = 2
  MaxQueueBytes = 2
  e1 = e1
  Epoch = {e1}
  NoEpoch = NoEpoch
  MaxGeneration = 1
  Segments <- MCSegments
  MaxEmitted = 3
  MaxQueue = 4
INVARIANTS
  JournalInv
  TrustedOutputIsExact
  HistoryAgreesWithJournal
PROPERTIES
  EndedRecordsAreStable
