SPECIFICATION ReadingSpec
CONSTANTS
  r1 = r1
  r2 = r2
  r3 = r3
  Requests = {r1, r2, r3}
  Signals = {1, 2, 3}
  Learners = {1, 2}
  LearnerOf <- MCLearnerOf
  Deployments = {"sqlite", "dynamodb"}
  MaxTime = 2
  Kinds = {"signals", "decisions", "ingestion", "trajectory", "roster"}
  PageSizes = {1}
  ScanFactor = 1
  VersionsPerPage = 1
  PageCaps = {1, 2}
  RecentLimit = 1
  MinAdvance = 1
  Advances = {2, 3}
  d1 = d1
  d2 = d2
  a1 = a1
  a2 = a2
  adminFunction = adminFunction
  server = server
  b1 = b1
  px = px
  Bodies = {b1}
  Incoming = {d1, d2}
  Identified = {b1}
  Admins = {a1, a2}
  Processes = {server, adminFunction}
  Paths = {px}
  CacheTtl = 2
  MaxClock = 2
  MaxWrites = 2
  ProcessOf <- MCProcessOf
SYMMETRY MCSymmetry
INVARIANTS
  ListingsHold
  SummaryHolds
  MappingsTypeOK
  ResolvedIsRecent
  RedeliveryIsDuplicate
CHECK_DEADLOCK FALSE
