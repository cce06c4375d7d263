SPECIFICATION Spec
CONSTANTS
    w1 = w1
    w2 = w2
    Workers <- WorkerSet
    NumTasks = 2
    Deps <- BackwardDeps
    SideEffect <- MixedSideEffects
    MaxAttempts = 2
    MaxCompensationAttempts = 1
    MaxCrashes = 0
    MaxCompensatorFailures = 0
SYMMETRY WorkerSymmetry
INVARIANTS
    DependenciesFirst
    RetryAfterCleanup
    OneOutcomeEvent
PROPERTY ImplementsLifecycle
CHECK_DEADLOCK FALSE
