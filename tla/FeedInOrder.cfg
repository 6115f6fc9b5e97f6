SPECIFICATION Spec
CONSTANTS
    g1 = g1  g2 = g2
    Groups = {g1}
    Messages = {1, 2, 3}
    GroupOf <- OneGroup
    SentAt <- OneSecondApart
    Undated = {3}
    MaxMessageAge = 2
    BackfillMaxAge = 4
    BatchSize = 1
    Horizon = 4
    InOrder = TRUE
    LateAppends = FALSE
    Budget <- CrashLostRepeat
PROPERTY SkippedIsStored
CHECK_DEADLOCK FALSE
