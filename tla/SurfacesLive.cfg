SPECIFICATION FairSurfacesSpec
CONSTANTS
    r1 = r1
    r2 = r2
    c1 = c1
    c2 = c2
    NoTarget = NoTarget
    Resources = {r1, r2}
    Approvers = {c1}
    Plans <- MCLivePlans
    TagSets <- MCLiveTagSets
    PolledQueues <- AllQueues
PROPERTIES
    EventuallyReturns
    EveryCallAnswered
CHECK_DEADLOCK FALSE
