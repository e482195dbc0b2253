\* Three calls on two signals, eventually consistent reads and port faults.
CONSTANTS
    c1 = c1  c2 = c2  c3 = c3
    s1 = s1  s2 = s2  s3 = s3
    l1 = l1  l2 = l2
    Calls = {c1, c2, c3}
    Learners = {l1}
    Signals = {s1, s2}
    LearnerOf <- TwoSignals
    ConsistentReads = FALSE
    Faults = TRUE
SPECIFICATION Spec
SYMMETRY CallSymmetry
INVARIANTS TypeOK HistoryConsistent OneCallApplies
PROPERTIES HistoryImmutable ImplementsHistory
CHECK_DEADLOCK FALSE
