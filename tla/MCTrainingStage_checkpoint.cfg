CONSTANTS
  Dataset = {"nbaiot", "botiot"}
  Order <- TwoInOrder
  Compute = {"cpu"}
  Descriptor = {g1, g2}
  Losable = {}
  Epochs = 2
  MaxFaults = 2
  MaxChanges = 0
SPECIFICATION Spec
PROPERTY CheckpointReopened
CHECK_DEADLOCK FALSE
