SPECIFICATION Spec
CONSTANTS
    a = a  b = b  w1 = w1  w2 = w2
    NoRef = NoRef
    Messages = {1, 2}
    Workers = {w1, w2}
    Flats = {a, b}
    FlatsOf <- OneRepost
    Chatter = {}
    Unreadable = {}
    MaxAttempts = 3
    BatchSize = 1
    LongBatches = FALSE
    Budget <- NoFaults
INVARIANT OneListingPerFlat
CHECK_DEADLOCK FALSE
