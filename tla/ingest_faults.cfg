\* Two submissions among three signals of two learners: stale reads, ports that
\* fail, lost answers and crashes, under fairness of every handler.
CONSTANTS
    c1 = c1  c2 = c2  c3 = c3
    s1 = s1  s2 = s2  s3 = s3
    l1 = l1  l2 = l2
    Calls = {c1, c2}
    Learners = {l1, l2}
    Signals = {s1, s2, s3}
    LearnerOf <- TwoLearners
    ConsistentReads = FALSE
    Faults = TRUE
SPECIFICATION FairSpec
INVARIANTS IngestTypeOK NothingTwice DecisionsTraceable
PROPERTIES Answers ImplementsApply
CHECK_DEADLOCK FALSE
