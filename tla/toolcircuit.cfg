SPECIFICATION MCSpec
CONSTANTS
  Calls = {k1, k2, k3}
  FailureThreshold = 2
  SuccessThreshold = 2
  CooldownSec = 2
  MaxCooldownSec = 3
  HalfOpenMaxCalls = 1
  Ids = {r1, r2}
  MaxDelay = 2
  MaxBackoff = 1
  Rescan = 2
  PollTicks = 1
  MaxStops = 2
  Nobody = Nobody
  Never = Never
INVARIANTS NoLeakedSlot OnceUnlessUnrecorded NoSleepPastDue
PROPERTIES OneCooldownPerOutage CountsOfThisPeriod Recovers EveryReminderArrives
