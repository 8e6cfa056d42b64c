SPECIFICATION Spec
CONSTANTS
    NumWorkers = 2
    QueueMax = 2
    CancelOnSuccess = FALSE
    Tasks <- TwoShards
    NoTask = NoTask
    MaxFaults = 2
    MaxRestarts = 1
    MaxRetries = 1
    Batches <- CrossedBatches
INVARIANTS TypeOK SingleCopy InFlightAccounted SpoolBacked StaleBeforeInFlight
PROPERTY DeliversOnce
