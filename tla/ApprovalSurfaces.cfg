SPECIFICATION SurfacesSpec
CONSTANTS
    r1 = r1
    r2 = r2
    c1 = c1
    c2 = c2
    NoTarget = NoTarget
    Resources = {r1}
    Approvers = {c1, c2}
    Plans <- MCPlans
    TagSets <- MCTagSets
    PolledQueues <- AllQueues
SYMMETRY Symmetry
INVARIANTS
    SurfacesTypeOK
    ToldIsTrue
    ConsentTraced
    PageDecidesPlanOfItsTime
    LateAskNeverCounts
CHECK_DEADLOCK FALSE
