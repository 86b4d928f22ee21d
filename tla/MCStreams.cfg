CONSTANTS
  None = None
  Shards <- TwoShards
  BatchSize = 3
  BufferRows = 4
  EpochLimit = 3
  Patience = 1
  CheckpointInterval = 2
  WorkerCounts = {0, 1, 2}
  MaxStops = 2
  Device = {x, y, z}
  Destination = {p, q, r}
  NoTime = NoTime
  Class = {"scan"}
  Benign = "benign"
  Top = 3
  Increment = 2
  Decay = 1
  Interval = 3
  MaxDevices = 1
  LastTime = 8
  MaxEvictions = 2
SPECIFICATION PartSpec
INVARIANTS
  TrainsAsUninterrupted EpochIsWhole CountersAreRight
  WindowsAreRight
PROPERTY OnlyStaleOrSurplusLeaves
SYMMETRY Symmetry
