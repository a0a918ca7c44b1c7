SPECIFICATION FairSpec
CONSTANTS
    s1 = s1
    s2 = s2
    role = role
    other = other
    east = east
    west = west
    NoRole = NoRole
    NoRegion = NoRegion
    Slots = {s1, s2}
    Tenants <- MCTenants
    Roles = {role, other}
    Regions = {east, west}
    BaseRegion = east
    Requests <- MCRequests
    MaxPerWindow = 1
    WindowSize = 1
    SessionDuration = 2
    RefreshBefore = 1
    PollTimeout = 1
    ActivityTimeout = 1
    QueueLists <- MCQueueLists
    Environments <- MCEnvironments
INVARIANTS
    TypeOK
    OneWorkerPerQueue
    StatusTellsWorkers
    BudgetOverrun
    TwoWindowsAtMost
    ConfigOfCaller
    GivesUpUnheard
PROPERTIES
    SlotsComeFree
CHECK_DEADLOCK FALSE
