SPECIFICATION FairSpec
CONSTANTS
    Users = {u1}
    NoUser = NoUser
    Tickets = {t1}
    Events = {}
    Workers = {w1}
    MaxMails = 2
    MaxVersions = 3
    MaxAttempts = 2
    BatchSize = 2
    MaxRetries = 1
    MaxFaults = 1
INVARIANTS
    NewestIsKept
PROPERTIES
    EventuallySettled
CHECK_DEADLOCK FALSE
