SPECIFICATION FairSpec
CONSTANTS
    c1 = c1  c2 = c2
    Creds = {c1, c2}
    NoCreds = NoCreds
    FirstCreds = c1
    Budget <- PressAndScan
INVARIANTS
    TypeOK
    ConnectedHasSession
PROPERTIES
    WipesAreAsked
    Recovers
CHECK_DEADLOCK FALSE

