CONSTANTS
    Shards = 2
    Directories = 2
    MaxCrashes = 2
    MaxInterrupts = 1
    MaxCalls = 2
SPECIFICATION Spec
INVARIANT RollbackIsResumable
