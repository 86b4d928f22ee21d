CONSTANTS
  Block = {1, 2}
  Version = {1, 2}
  Manifest <- MCManifest
  MaxFaults = 1
  MaxEdits = 2
  None = None
SPECIFICATION Spec
INVARIANT KilledCallsAreResumed

