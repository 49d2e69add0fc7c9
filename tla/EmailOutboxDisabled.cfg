SPECIFICATION Spec
CONSTANTS
    Users = {u1}
    NoUser = NoUser
    Tickets = {t1}
    Events = {}
    Workers = {w1}
    MaxMails = 1
    MaxVersions = 1
    MaxAttempts = 2
    BatchSize = 2
    MaxRetries = 0
    MaxFaults = 0
PROPERTY DisabledIsSkipped
CHECK_DEADLOCK FALSE
