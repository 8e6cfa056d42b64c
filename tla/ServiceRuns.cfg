SPECIFICATION FairSpec
CONSTANTS
    NumServices = 1
    NumRanks = 2
    ClientMode = "rank"
    BatchSize = 1
    MaxBatch = 1
    MaxLives = 2
    MaxFaults = 2
    MaxTaskRetries = 1
    MaxWorkerRestarts = 1
INVARIANTS OwnVerdict WaitsForAnswer
PROPERTIES BatchAnswers
CHECK_DEADLOCK FALSE
