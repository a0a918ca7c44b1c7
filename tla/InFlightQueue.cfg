SPECIFICATION Spec
CONSTANTS
    r1 = r1
    r2 = r2
    p1 = p1
    p2 = p2
    p3 = p3
    NoTarget = NoTarget
    Resources = {r1, r2}
    Approvers = {p1, p2}
    Plans <- MCFewPlans
    TagSets <- MCOneTag
    PolledQueues <- AllQueues
INVARIANT
    InFlightKeepsOldQueue
