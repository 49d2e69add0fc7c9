SPECIFICATION FairSpec
CONSTANTS
    Hooks = {h1}
    Tickets = {t1}
    Workers = {w1}
    MaxNotes = 2
    MaxVersions = 2
    MaxAttempts = 2
    BatchSize = 2
    MaxFaults = 1
PROPERTIES ImplementsNotification EventuallySettled
CHECK_DEADLOCK FALSE
