SPECIFICATION MemorySpec
CONSTANTS
  Spills = {s1, s2}
  Buffer = Buffer
  Facts = {f, g}
  Notes = {n1}
  Flushed = {f, g}
  Intel = {}
  Workflows = {g}
  Distilled = {f, g, n1}
  Procedures = {g}
  Marked = {g}
  MaxFaults = 1
  Nobody = Nobody
INVARIANTS NoDupes
CHECK_DEADLOCK FALSE
