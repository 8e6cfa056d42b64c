SPECIFICATION Spec
CONSTANTS
    ProblemsPerUpdate = 2
    NumIterations = 2
    MicrostepsPerProblem = 1
    SaveSteps = 2
    Segments <- TwoCycles
    MaxCrashes = 3
INVARIANTS LaggedScale ResumableInSync
CHECK_DEADLOCK FALSE
