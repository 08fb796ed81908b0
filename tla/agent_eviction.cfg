SPECIFICATION MessagesSpec
CONSTANTS
  PriorTurns = 2
  MaxSends = 4
  MaxWidth = 3
  MaxMessages = 6
  KeepRecent = 2
INVARIANT RequestKept
CHECK_DEADLOCK FALSE
