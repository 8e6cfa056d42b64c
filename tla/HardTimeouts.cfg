SPECIFICATION HardFairSpec
CONSTANTS
    NumWorkers = 2
    QueueMax = 1
    CancelOnSuccess = FALSE
    Tasks <- TwoShards
    NoTask = NoTask
    MaxFaults = 2
    MaxRestarts = 1
    MaxRetries = 1
    Batches <- ProblemBatches
INVARIANT InFlightAccounted
PROPERTIES DeliversOnce WedgedEnds WorkerReplaced
\* Putting a task back may stall for good (PutBackStalls), and results that
\* submit() drops leave a batch waiting (run hard_loses_results).
CHECK_DEADLOCK FALSE
