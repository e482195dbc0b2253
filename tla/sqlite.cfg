\* Three requests on three signals of two learners; the process may crash twice.
CONSTANTS
    r1 = r1  r2 = r2  r3 = r3
    s1 = s1  s2 = s2  s3 = s3
    l1 = l1  l2 = l2
    Requests = {r1, r2, r3}
    Learners = {l1, l2}
    Signals = {s1, s2, s3}
    LearnerOf <- TwoLearners
    NoRequest = NoRequest
    MaxCrashes = 2
SPECIFICATION FairSpec
INVARIANTS StoresAgree ReplayReconstructsState
PROPERTIES Answers ImplementsHistory
CHECK_DEADLOCK FALSE
