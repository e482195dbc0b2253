SPECIFICATION ReadingSpec
CONSTANTS
  r1 = r1
  r2 = r2
  r3 = r3
  Requests = {r1, r2, r3}
  Signals = {1, 2, 3}
  Learners = {1, 2}
  LearnerOf <- MCLearnerOf
  Deployments = {"dynamodb"}
  MaxTime = 2
  Kinds = {"decisions"}
  PageSizes = {1}
  ScanFactor = 1
  VersionsPerPage = 1
  PageCaps = {1}
  RecentLimit = 1
  MinAdvance = 1
  Advances = {2, 3}
  d1 = d1
  d2 = d2
  a1 = a1
  a2 = a2
  adminFunction = adminFunction
  server = server
  b1 = b1
  px = px
  Bodies = {b1}
  Incoming = {d1, d2}
  Identified = {b1}
  Admins = {a1, a2}
  Processes = {server, adminFunction}
  Paths = {px}
  CacheTtl = 2
  MaxClock = 0
  MaxWrites = 0
  ProcessOf <- MCProcessOf
SYMMETRY MCSymmetry
INVARIANT ListingComplete
CHECK_DEADLOCK FALSE
