SPECIFICATION FairSpec
CONSTANTS
    NumWorkers = 2
    QueueMax = 1
    CancelOnSuccess = TRUE
    Tasks <- TwoShards
    NoTask = NoTask
    MaxFaults = 0
    MaxRestarts = 1
    MaxRetries = 1
    Batches <- ProblemBatches
INVARIANTS CanceledAfterSuccess NoStrandedBatch
PROPERTY BatchReturns
