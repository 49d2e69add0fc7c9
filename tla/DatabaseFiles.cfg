SPECIFICATION Spec
CONSTANTS
    Processes = {p1, p2}
    Keys = {k1}
    Target = 2
    Histories <- MCHistories
    MaxDatabases = 3
    MaxRestores = 2
    MaxBackups = 1
    MaxCommands = 5
    MaxFaults = 3
    Null = Null
    MaxChanges = 3
SYMMETRY Symmetry
CHECK_DEADLOCK FALSE
INVARIANTS
    OpenFilesStay
    MigrationsAreWhole
    BackupsAreComplete
    FilesBelongTogether
    NothingIsLost
    TicketsAreKept
    HistoryStaysConnected
PROPERTIES
    FailedRestoreChangesNothing
