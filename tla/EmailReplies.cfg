SPECIFICATION FairSpec
CONSTANTS
    t1 = t1
    m1 = m1
    m2 = m2
    m3 = m3
    k1 = k1
    k2 = k2
    Tickets = {t1}
    KeyOf <- ReusedKey
    TicketOf <- OneTicket
    Messages = {m1, m2, m3}
    Keys = {k1, k2}
    Automatic = {m3}
    Workers = {w1}
    BatchSize = 1
    MaxUid = 2
    MaxValidity = 2
    MaxFaults = 1
INVARIANTS
    NothingSkipped
    ImportedOnce
PROPERTIES
    OnlyNewCommentsReopen
    EventuallyCovered
