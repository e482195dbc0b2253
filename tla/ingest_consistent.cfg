\* Three submissions of three signals of one learner, consistent reads.
CONSTANTS
    c1 = c1  c2 = c2  c3 = c3
    s1 = s1  s2 = s2  s3 = s3
    l1 = l1  l2 = l2
    Calls = {c1, c2, c3}
    Learners = {l1}
    Signals = {s1, s2, s3}
    LearnerOf <- OneLearner
    ConsistentReads = TRUE
    Faults = FALSE
SPECIFICATION IngestSpec
SYMMETRY CallSymmetry
INVARIANTS CurrentStateEvaluated ConflictMeansOvertaken DuplicateHasOriginal
CHECK_DEADLOCK FALSE
