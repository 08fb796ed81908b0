SPECIFICATION Spec
CONSTANTS
  Channels = {c1, c2}
  Turns = {t1, t2, t3, t4}
  Tasks = {w1, w2, w3}
  Deques = {q1, q2, q3}
  MaxConcurrentTurns = 1
  MaxPendingTurns = 2
  MaxPendingPerChannel = 2
  None = None
  SlashChannels = {}
  GlobalStops = {}
INVARIANT NoSilentLoss
CHECK_DEADLOCK FALSE
