SPECIFICATION FairSpec
CONSTANTS
    p1 = p1  p2 = p2
    Leads = {1, 2}
    Phones = {"same"}
    NoPhone = NoPhone
    PhoneOf <- Numbers
    Sessions = {p1, p2}
    MaxAttempts = 2
    RetryLimit = 1
    Null = Null
    Budget <- Events
INVARIANTS
    TypeOK
    RepeatsAreLinked
PROPERTIES
    ConversionHolds
    EveryLeadSettles
