CONSTANTS
  k1 = k1
  k2 = k2
  Keys = {k1, k2}
  Chain <- MCChain
  EMPTY = EMPTY
  TOMBSTONE = TOMBSTONE
  Capacity = 2
  TableCapacity = 2
  ObserveConfidence = 2
  ObserveMinHits = 1
  AlertConfidence = 4
  AlertMinSources = 1
  AlertMinHits = 1
  RetractConfidence = 3
  HitsCapacity = 1
  Delta = 2
  DecayFactor = 49152
  NoiseFloor = 2
  MaxConfidence = 4
  MaxSources = 1
  MaxHits = 1
  Modes = {"emit", "dry", "collect"}
SPECIFICATION FairSpec
INVARIANTS TypeOK Accounted
PROPERTIES AlarmSpec Converges
