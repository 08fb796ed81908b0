SPECIFICATION MCSpec
CONSTANTS
  Calls = {k1, k2}
  FailureThreshold = 2
  WindowSeconds = 1
  OpenSeconds = 2
  PerMin = 3
  PerHour = 4
  Minute = 1
  Hour = 3
  http = http
  discord = discord
  Adapters <- Two
  Required = {http}
  AdapterMax = 1
  MaxSize = 1
  MaxEvents = 2
  None = None
INVARIANTS SpendBounded AcceptedInOrder
PROPERTIES Recovers AcceptedIsDelivered
CHECK_DEADLOCK FALSE
