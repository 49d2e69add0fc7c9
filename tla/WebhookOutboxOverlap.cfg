SPECIFICATION Spec
CONSTANTS
    Hooks = {h1}
    Tickets = {t1}
    Workers = {w1, w2}
    MaxNotes = 2
    MaxVersions = 3
    MaxAttempts = 2
    BatchSize = 2
    MaxFaults = 1
SYMMETRY Symmetry
INVARIANTS
    OneContentPerId
    SentWasReceived
    NewestIsKept
    RequestsAreCounted
CHECK_DEADLOCK FALSE
