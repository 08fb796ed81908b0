SPECIFICATION ResistantSpec
CONSTANTS
  Channels = {c1, c2}
  Turns = {t1, t2, t3}
  Tasks = {w1, w2}
  Deques = {q1, q2, q3}
  MaxConcurrentTurns = 1
  MaxPendingTurns = 4
  MaxPendingPerChannel = 2
  None = None
  SlashChannels = {}
  GlobalStops = {}
PROPERTIES ImplementsContract WorkEnds
CHECK_DEADLOCK FALSE
