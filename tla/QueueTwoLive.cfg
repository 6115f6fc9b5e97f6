SPECIFICATION Spec
CONSTANTS
    a = a  b = b  w1 = w1  w2 = w2
    NoRef = NoRef
    Messages = {1, 2, 3, 4}
    Workers = {w1, w2}
    Flats = {a, b}
    FlatsOf <- Backlog
    Chatter = {}
    Unreadable = {4}
    MaxAttempts = 3
    BatchSize = 1
    LongBatches = FALSE
    Budget <- NetAndRate
SYMMETRY WorkerSymmetry
INVARIANT NoDoubleClaim
CHECK_DEADLOCK FALSE
