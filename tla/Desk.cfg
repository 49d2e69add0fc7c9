SPECIFICATION Spec
CONSTANTS
    u1 = u1
    u2 = u2
    Users = {u1, u2}
    Roles <- MCRoles
    Nobody = Nobody
    Keep = Keep
    NoKey = NoKey
    Handlers = {h1, h2}
    Keys = {k1}
    Saves <- MCSaves
    Grants <- MCGrants
    MaxTickets = 2
    MaxFiles = 2
    MaxHistory = 2
    MaxRequests = 4
    MaxChanges = 1
    MaxFaults = 1
SYMMETRY Symmetry
CHECK_DEADLOCK FALSE
INVARIANTS
    HistoryExplainsStatus
    OneEffectPerKey
    AttachmentsHaveFiles
    FilesHaveOwners
    OneRule
    FollowsDocumentation
    SavesAreTold
PROPERTIES
    DisabledChangeNothing
