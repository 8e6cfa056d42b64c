SPECIFICATION Spec
CONSTANTS
    p1 = p1
    p2 = p2
    p3 = p3
    Problems = {p1, p2, p3}
    ScreenProblems = 2
    StepsPerCycle = 1
    ProblemsPerStep = 1
    Pass16Limit = 1
    Pass32Limit = 1
    Counts8 = {0, 1, 5}
    CountsTopup = {0, 1}
    MaxCycle = 2
    MaxPolicy = 2
    MaxCrashes = 1
SYMMETRY Symmetry
INVARIANTS ScheduleLineage RoutedOnEvidence UnseenFirst
CHECK_DEADLOCK FALSE
