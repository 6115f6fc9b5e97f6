SPECIFICATION Spec
CONSTANTS
    a = a  b = b  w1 = w1  w2 = w2
    NoRef = NoRef
    Messages = {1, 2}
    Workers = {w1, w2}
    Flats = {a, b}
    FlatsOf <- Reposts
    Chatter = {}
    Unreadable = {}
    MaxAttempts = 2
    BatchSize = 2
    LongBatches = TRUE
    Budget <- CrashOwnerApply
SYMMETRY WorkerSymmetry
INVARIANTS
    InventoryIsWhole
PROPERTY RefinesLedger
CHECK_DEADLOCK FALSE
