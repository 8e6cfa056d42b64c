SPECIFICATION FairSpec
CONSTANTS
    ProblemCount = 1
    PassK = 3
    BatchSize = 1
    QueueSize = 1
    MaxRuns = 2
    MaxRetries = 1
    MaxFaults = 1
    MaxCuts = 1
    Rejected <- RejectsNone
INVARIANT ExactHistogram
PROPERTY RunEnds
\* The number of runs is bounded: a finished run may be the last.
CHECK_DEADLOCK FALSE
