CONSTANTS
  Dataset = {"nbaiot", "botiot"}
  Order <- TwoInOrder
  Compute = {"cpu", "cuda"}
  Descriptor = {g1, g2}
  Losable = {"report", "index", "runs"}
  Epochs = 2
  MaxFaults = 2
  MaxChanges = 1
SPECIFICATION FairSpec
INVARIANTS CompletedIsTrue
PROPERTIES ResumesNewest RejectionStands TrainingFinishes
CHECK_DEADLOCK FALSE
