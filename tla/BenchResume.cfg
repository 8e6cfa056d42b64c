SPECIFICATION Spec
CONSTANTS
    ProblemCount = 2
    PassK = 2
    BatchSize = 1
    QueueSize = 4
    MaxRuns = 3
    MaxRetries = 1
    MaxFaults = 0
    MaxCuts = 0
    Rejected <- RejectsOne
INVARIANTS TypeOK AttemptsUnique ProblemRowsCurrent
PROPERTY OneVerdictEach
\* The number of runs is bounded: a finished run may be the last.
CHECK_DEADLOCK FALSE
