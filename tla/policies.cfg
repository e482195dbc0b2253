\* Two operators, two candidates, one instance: locked and unlocked PUTs.
CONSTANTS
    o1 = o1  o2 = o2  i1 = i1
    orgUser = orgUser  orgDefault = orgDefault  globalDefault = globalDefault
    Operators = {o1, o2}
    Keys = {orgUser, globalDefault}
    Disciplined = {orgUser}
    ConsistentReads = TRUE
    MaxPuts = 2
    Instances = {i1}
    Candidates <- ShortChain
    MaxFaults = 1
SPECIFICATION LoaderSpec
INVARIANT LoaderConsistent
PROPERTIES LockedVersionsIncrease LockedPutSeesWhatItReplaces CacheNeverGoesBack PolicyInForceIsServed
CHECK_DEADLOCK FALSE
