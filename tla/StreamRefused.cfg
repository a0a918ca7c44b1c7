SPECIFICATION Spec
CONSTANTS
    Wirings = {TRUE, FALSE}
    MaxFaults = 0
INVARIANT
    StreamServed
CHECK_DEADLOCK FALSE
