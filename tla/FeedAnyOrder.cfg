SPECIFICATION FairSpec
CONSTANTS
    g1 = g1  g2 = g2
    Groups = {g1, g2}
    Messages = {1, 2, 3}
    GroupOf <- TwoGroups
    SentAt <- TwoSeconds
    Undated = {}
    MaxMessageAge = 2
    BackfillMaxAge = 2
    BatchSize = 2
    Horizon = 2
    InOrder = FALSE
    LateAppends = FALSE
    Budget <- NothingTwice
INVARIANTS
    TypeOK
    NothingLost
    GroupRowIsExact
PROPERTY Delivers
CHECK_DEADLOCK FALSE
