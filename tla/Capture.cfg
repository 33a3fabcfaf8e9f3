SPECIFICATION FairSpec
CONSTANTS
  Sizes = {0, 1, 2, 4}
  Chunk = 2
  PipeCap = 3
  ExitCodes = {0, 1}
  MaxBytes = 5
  MaxCalls = 2
INVARIANTS TypeOK NeverKilledByAlarm CleanReturn NoSpuriousTimeout ResultMatchesFate OutputIsPrefix CompleteUnlessFlagged
PROPERTIES ImplementsContract ReturnsOnceWritersGone SeenAlarmEndsCall
