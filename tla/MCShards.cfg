CONSTANTS
  Value = {u, v, w}
  None = None
  Nobody = Nobody
  MaxSaves = 3
  MaxFaults = 3
  Shards = 2
  Directories = 2
  MaxCrashes = 2
  MaxInterrupts = 1
  MaxCalls = 2
  Process = {p, q}
  MaxStarts = 3
  MaxKills = 1
SPECIFICATION PartSpec
INVARIANTS NeverRefused CleanReturn RefusesOnlyCutShort SoundUntilMovedBack
PROPERTIES RegisterRefines PublicationRefines CallsEnd
