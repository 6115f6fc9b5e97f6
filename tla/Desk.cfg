SPECIFICATION DeskSpec
CONSTANTS
    Users = {1, 2, 3}
    RoleOf <- Roles
    Phones = {"p", "r", "s", "t", "u", "v"}
    Requests = {q1, q2}
    Asks <- Day
    Dates = {1, 9}
    Book <- OneLeadOneNumber
    Assigned <- CallerAssigned
    Work <- CallersWork
    MaxContacts = 6
    MaxAsked = 3
    Logins <- TwoLogins
    AccountsOf <- Owned
    PagesOf <- Administered
    MaxCalls = 4
    MaxCampaigns = 1
    Workers = {w1, w2}
    Groups = {"g"}
    Posts <- Reposts
    Similar <- Ratios
    Contains <- Within
    Deeds <- Wishes
    Ids = {1, 2, 3, 4}
    MaxDeeds = 1
    TTL = 2
    Beat = 3
    ScreenStale = 9
    Rotation = 2
    Delay = 1
    MaxAir = 2
    MaxLists = 2
    Processes = {p1, p2}
    KindsOf <- EitherKind
    Keyed = {p1, p2}
    NoOne = no_one
    BeatStale = 4
    ReclaimEvery = 2
    ErrorSleep = 1
    Waits = {0, 5}
    MaxBatch = 2
    MaxStarts = 2
INVARIANTS
    DeskTypeOK
    NoSilentDuplicate
    WorkFollowsAssignment
    LeaversHoldNothing
    ConnectionHolds
    HalfBuiltIsDeleted
    ScreenHolds
    PickerHolds
PROPERTIES
    JourneyHolds
    ListsAgree
    InventoryHolds
SYMMETRY Alike
CHECK_DEADLOCK FALSE
