SPECIFICATION Spec
CONSTANTS
    Wirings = {TRUE}
    MaxFaults = 0
INVARIANT
    SchemaFollowsPhase
CHECK_DEADLOCK FALSE
