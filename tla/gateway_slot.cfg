SPECIFICATION Spec
CONSTANTS
  Calls = {k1, k2}
  FailureThreshold = 2
  WindowSeconds = 1
  OpenSeconds = 1
  PerMin = 0
  PerHour = 0
  Minute = 1
  Hour = 1
INVARIANTS RefusalMeansProbe
