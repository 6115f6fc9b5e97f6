SPECIFICATION Spec
CONSTANTS
    Grace = 1
    Idle = 2
    Cap = 2
    Users <- Team
    Owners <- TheOwner
    SignedIn <- BothIn
    Asks <- Duties
    p = p  q = q
    Requests = {p, q}
    MaxSessions = 4
    MaxCuts = 1
    MaxTime = 3
INVARIANTS
    TypeOK
    RevokeAllIsComplete
    DeadlocksNeedDeactivation
PROPERTIES
    TokensDie
SYMMETRY Alike
CHECK_DEADLOCK FALSE
