SPECIFICATION FairSpec
CONSTANTS
  Sizes = {2}
  Chunk = 2
  PipeCap = 2
  ExitCodes = {0}
  MaxBytes = 2
  MaxCalls = 2
PROPERTIES
  WaitBounded
