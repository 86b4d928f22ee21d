CONSTANTS
  zip = zip
  csv = csv
  tree = tree
  v1 = v1
  v2 = v2
  Source = {zip, csv, tree}
  KindOf <- OneTree
  MaxFaults = 3
  MaxChanges = 3
  NoSource = NoSource
  NoJournal = NoJournal
  None = None
  Manifest <- TwoBlocks
  Version = {v1, v2}
  Blocks <- TwoLengths
  Absent = Absent
SPECIFICATION PartSpec
INVARIANTS
  JournalIsTrue DoneIsDurable PublishedIsOneVersion RowsAreReference
  PublishedIsTrue RefusedForCause
PROPERTY DataArrives
