CONSTANTS
  Run = {r1, r2}
  Outcome <- Preparing
  Fallbacks = 2
  Process = {p, q}
  Artifacts = 2
  None = None
  x = x
  y = y
  NoTime = NoTime
  Device <- Devices
  Class = {"scan", "flood"}
  Benign = "benign"
  Top = 3
  Increment = 2
  Decay = 1
  Interval = 2
  MaxDevices = 1
  RowKind <- Kinds
  RowCount = 3
  Order <- Shuffled
  ChunkRows = 2
  MaxFaults = 2
  NoOutput = NoOutput
SPECIFICATION PartSpec
INVARIANTS ToldTheTruth ReportsAgree ToldIsKept RefusedOnlyTorn RoutedAsUninterrupted
PROPERTIES OthersReportsSurvive PublicationRefines ResultsArrive
CHECK_DEADLOCK FALSE
