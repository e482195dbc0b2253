\* Three writers of one learner: the second retry is never made.
CONSTANTS
    c1 = c1  c2 = c2  c3 = c3
    s1 = s1  s2 = s2  s3 = s3
    l1 = l1  l2 = l2
    Calls = {c1, c2, c3}
    Learners = {l1}
    Signals = {s1, s2, s3}
    LearnerOf <- OneLearner
    ConsistentReads = TRUE
    Faults = FALSE
SPECIFICATION IngestSpec
SYMMETRY CallSymmetry
INVARIANT AcceptedIsApplied
CHECK_DEADLOCK FALSE
