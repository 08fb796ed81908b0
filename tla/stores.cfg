SPECIFICATION MCSpec
CONSTANTS
  Calls = {x, y, z}
  MaxPending = 2
  Ttl = 1
  MaxRequests = 4
  MaxNow = 3
  Jobs = {r1, r2, r3}
  Conns = {p, q}
  Polls = {x, y}
  MaxPendingJobs = 2
  MaxWaiters = 1
  NoConn = NoConn
  NoJob = NoJob
  Workers = {x, y}
  Payments = {p, q}
  Requests = {r1, r2}
  Credits = 2
  SessionTtl = 1
  MaxTime = 2
  Names = {n}
  Queries = {x, y}
  MaxEdits = 2
  MaxChoices = 3
  MaxRestarts = 1
  None = None
  Spills = {x, y}
  Buffer = Buffer
  Facts = {f, g, h}
  Notes = {p, q}
  Flushed = {f, g}
  Intel = {g}
  Workflows = {}
  Distilled = {f, g, h, p, q}
  Procedures = {g, p, q}
  Marked = {f, g}
  MaxFaults = 1
  Nobody = Nobody
SYMMETRY Symmetry
VIEW Seen
INVARIANTS RunsWithinGrants JobsAccounted OneSessionPerPayment CreditsConserved
           FilesInStep ClientsAccounted ConsumedOnce IndexKeepsUp
PROPERTIES StartsOnStandingApproval
CHECK_DEADLOCK FALSE
