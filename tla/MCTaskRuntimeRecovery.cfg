SPECIFICATION FairSpec
CONSTANTS
    w1 = w1
    w2 = w2
    Workers <- WorkerSet
    NumTasks = 1
    Deps <- SingleDeps
    SideEffect <- SingleSideEffect
    MaxAttempts = 2
    MaxCompensationAttempts = 2
    MaxCrashes = 1
    MaxCompensatorFailures = 1
INVARIANTS
    SingleReporter
    NoLostWakeup
    LockedIsExhausted
PROPERTIES ClosedIsFinal PlanSettles
CHECK_DEADLOCK FALSE
