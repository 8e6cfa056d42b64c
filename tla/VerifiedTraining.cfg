SPECIFICATION Spec
CONSTANTS
    Revisions <- OneRevision
    Envs = {"old", "new"}
    Compiles <- CompilesIn
    Assembles <- AssemblesAll
    Fits <- FitsAll
    Signature <- SignatureOf
    MaxIdentical = 1
    TrainSize = 2
    EvalSize = 1
    DiscoverySize = 1
    WorldSize = 2
    BatchSize = 1
    MaxCrashes = 1
    MaxChanges = 1
INVARIANTS AttestedTraining OneFate EpochOnce
PROPERTIES VerifiesOnce
CHECK_DEADLOCK FALSE
