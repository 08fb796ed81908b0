SPECIFICATION MCSpec
CONSTANTS
  Channels = {c1, c2}
  Turns = {t1, t2, t3}
  Tasks = {w1, w2, w3}
  Deques = {q1, q2, q3}
  MaxConcurrentTurns = 1
  MaxPendingTurns = 2
  MaxPendingPerChannel = 2
  None = None
  SlashChannels = {c1}
  GlobalStops = {c2}
  Changes = {change}
  Reads = {read}
  Width = 3
  MaxCalls = 4
  HardCap = 3
  StallLimit = 2
  NudgeLimit = 1
  StreakLimit = 2
  StreakTotal = 3
  RepeatThreshold = 3
  PingPongCycles = 2
  PriorTurns = 2
  MaxSends = 4
  MaxWidth = 3
  MaxMessages = 6
  KeepRecent = 2
  g1 = g1
  g2 = g2
  g3 = g3
  Primary = g1
  Failover <- Fallbacks
  MaxGenerations = 4
  MaxTurns = 2
  MaxMoves = 2
  Protect = 1
  Budget = 4
  Batch = 1
  Procs = {p1, p2}
  RotateLines = 2
  MaxRecords = 5
  Nothing = Nothing
  MaxBuffer = 5
  MaxFinal = 2
  MaxPosts = 3
  MaxBreaks = 2
INVARIANTS WorkAccounting SlotConservation OneOwner WithinLimits MadeOnceSeenFresh ReportIsTrue PayloadPaired FailoverSticks
           NothingForgotten ResetIsFinal RestartFindsTheEnded ShownIsReply OneChain
PROPERTY DrainHolds
CHECK_DEADLOCK FALSE
