SPECIFICATION Spec
CONSTANTS
    ProblemCount = 3
    ShardCount = 2
    PassK = 2
    QueueDepth = 1
    VerifyBatchSize = 2
    Rejected <- RejectsOne
    MaxRuns = 2
    MaxCuts = 1
INVARIANTS TypeOK ReceiptsUnique ReceiptsMatchChunks CompleteCoversShard AuditHolds
PROPERTY OneVerdictEach
\* The number of runs is bounded: a stopped process may stay down.
CHECK_DEADLOCK FALSE
