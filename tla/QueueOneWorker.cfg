SPECIFICATION FairSpec
CONSTANTS
    a = a  b = b  w1 = w1  w2 = w2
    NoRef = NoRef
    Messages = {1, 2, 3, 4}
    Workers = {w1}
    Flats = {a, b}
    FlatsOf <- Backlog
    Chatter = {3}
    Unreadable = {4}
    MaxAttempts = 2
    BatchSize = 2
    LongBatches = FALSE
    Budget <- ApplyingFaults
INVARIANTS
    TypeOK
    OneListingPerFlat
PROPERTIES
    SettlesForGood
CHECK_DEADLOCK FALSE
