SPECIFICATION FairSpec
CONSTANTS
    Workers = {w1, w2}
    Job = job
    Count = 2
    MaxFaults = 1
    MaxCancels = 1
    MaxCrashes = 1
INVARIANTS OneWriterPerFile NoObjectMissed
PROPERTIES CancelEndsImport ImportSucceedsInTheEnd
CHECK_DEADLOCK FALSE
