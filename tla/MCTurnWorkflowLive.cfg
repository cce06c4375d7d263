SPECIFICATION FairSpec
CONSTANTS
    w1 = w1
    w2 = w2
    api = api
    Workers <- MCWorkers
    Api = api
    MaxRevisions = 3
    Disturbances <- Undisturbed
PROPERTIES
    TurnSettles
CHECK_DEADLOCK FALSE
