SPECIFICATION Spec
CONSTANTS
    Users = {u1, u2}
    Tickets = {t1}
    Hooks = {h1}
    Workers = {w1, w2}
    NoOne = NoOne
    MaxEvents = 2
    MaxAttempts = 2
    BatchSize = 2
    MaxFaults = 1
SYMMETRY Symmetry
INVARIANTS
    ProjectedOnce
    ProjectionIsAtomic
PROPERTIES
    NeverReopened
CHECK_DEADLOCK FALSE
