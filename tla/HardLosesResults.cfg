SPECIFICATION HardSpec
CONSTANTS
    NumWorkers = 1
    QueueMax = 1
    CancelOnSuccess = FALSE
    Tasks <- OneShard
    NoTask = NoTask
    MaxFaults = 0
    MaxRestarts = 1
    MaxRetries = 1
    Batches <- OneShardBatches
INVARIANT NoStrandedBatch
