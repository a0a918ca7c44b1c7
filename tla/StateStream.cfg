SPECIFICATION FairSpec
CONSTANTS
    Wirings = {TRUE, FALSE}
    MaxFaults = 2
INVARIANTS
    TypeOK
    WellFormedResponse
PROPERTIES
    PhaseNeverBack
    LearnsOfReturn
CHECK_DEADLOCK FALSE
