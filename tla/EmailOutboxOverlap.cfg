SPECIFICATION Spec
CONSTANTS
    Users = {u1}
    NoUser = NoUser
    Tickets = {t1}
    Events = {reset}
    Workers = {w1, w2}
    MaxMails = 2
    MaxVersions = 2
    MaxAttempts = 2
    BatchSize = 2
    MaxRetries = 1
    MaxFaults = 1
SYMMETRY Symmetry
INVARIANTS
    AcceptedOnce
    NothingNewForDisabled
CHECK_DEADLOCK FALSE
