SPECIFICATION Spec
CONSTANTS
    w1 = w1
    w2 = w2
    api = api
    Workers <- MCWorkers
    Api = api
    MaxRevisions = 3
    Disturbances <- Disturbed
INVARIANTS
    TypeOK
    OneLivePlan
    TurnFollowsPlan
    ReplanPromised
    ReplyIsTrue
    ResolvedByItsPlan
PROPERTIES
    ClosedTurnIsFinal
SYMMETRY MCSymmetry
CHECK_DEADLOCK FALSE
