SPECIFICATION OfficeSpec
CONSTANTS
    Grace = 1
    Lifetime = 3
    Cap = 3
    Tabs = {1, 2}
    MaxRows = 3
    MaxMinutes = 4
    MaxFaults = 1
    Tasks = {1, 2}
    Users = {1}
    Devices = {1, 2}
    Dispatchers = {3, 4}
    Editors = {5}
    AssigneeOf <- OnePersons
    DeviceOf <- OnePersons
    Batch = 2
    StaleAfter = 1
    Dues = {0, 1}
    Asks <- Moved
    MaxEdits = 1
    MaxMishaps = 1
    Models <- TwoModels
    Strict = {"big"}
    Messages = {"flat", "list", "brochure"}
    Need <- Sizes
    Batches <- Handed
    OutputPerItem = 1
    Envelope = 1
    Ceiling = 12
    PerItemCap = 4
    Allowance <- Reserves
    Waits = {0, 1, 5}
    Shortest = 1
    Longest = 2
    MaxTime = 3
INVARIANTS
    OfficeTypeOK
    RenewalEndsNothing
    EachReminderOnce
PROPERTIES
    NoRedirectLoop
    DueIsClaimed
    CallsEndWell
CHECK_DEADLOCK FALSE
