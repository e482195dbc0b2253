\* One operator, the whole chain, one read that fails.
CONSTANTS
    o1 = o1  o2 = o2  i1 = i1
    orgUser = orgUser  orgDefault = orgDefault  globalDefault = globalDefault
    Operators = {o1}
    Keys = {orgUser, orgDefault, globalDefault}
    Disciplined = {orgUser}
    ConsistentReads = TRUE
    MaxPuts = 2
    Instances = {i1}
    Candidates <- Chain
    MaxFaults = 1
SPECIFICATION LoaderSpec
PROPERTIES DegradedRefreshKeepsPolicy
CHECK_DEADLOCK FALSE
