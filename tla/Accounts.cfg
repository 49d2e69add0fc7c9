SPECIFICATION Spec
CONSTANTS
    Users = {u1, u2}
    Handlers = {h1, h2}
    Holders = {u1}
    MaxPasswords = 3
    MaxLinks = 2
    MaxSessions = 2
SYMMETRY Symmetry
INVARIANTS
    AdminRemains
    OneLinkIsLeft
    UnusedLinkIsAwaited
    SessionsFollowPassword
CHECK_DEADLOCK FALSE
