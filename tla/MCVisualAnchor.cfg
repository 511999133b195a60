SPECIFICATION Spec
CONSTANTS
  A = A
  B = B
  NoEpoch = NoEpoch
  EpochOf <- MCEpochOf
  SequenceOf <- MCSequenceOf
  Producers <- MCProducers
  ProducerOf <- MCProducerOf
  MaxPending = 1
  MaxBindings = 1
  MaxTombstones = 2
  MaxExtraFrames = 1
  MaxClears = 1
CHECK_DEADLOCK FALSE
INVARIANTS
  RegistryInv
  BindingsMatch
  RegionIsOwnWhenMarked
PROPERTIES
  MarkersHaveCues
