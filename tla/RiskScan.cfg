SPECIFICATION Spec
CONSTANTS
    NoTarget = NoTarget
    Resources = {}
    Inputs <- MCInputs
INVARIANTS
    TypeOK
    ScanFindsMaxRisk
    DecisionByWorstAction
CHECK_DEADLOCK FALSE
