SPECIFICATION Spec
CONSTANTS
    g1 = g1  g2 = g2
    Groups = {g1}
    Messages = {1, 2, 3}
    GroupOf <- OneGroup
    SentAt <- OneSecondApart
    Undated = {}
    MaxMessageAge = 2
    BackfillMaxAge = 3
    BatchSize = 2
    Horizon = 3
    InOrder = TRUE
    LateAppends = TRUE
    Budget <- NoFaults
INVARIANT NothingLost
CHECK_DEADLOCK FALSE
