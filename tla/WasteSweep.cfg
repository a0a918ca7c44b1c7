SPECIFICATION FairSpec
CONSTANTS
    a = a
    b = b
    budget = budget
    NoTarget = NoTarget
    NoAnomaly = NoAnomaly
    BudgetTarget = budget
    Resources = {budget}
    Accounts = {a, b}
    CURLimit = 2
    Deploys = {0, 2}
    Coverages <- MCCoverages
    Bills <- MCBills
    Reports <- MCReports
    Allocations <- MCAllocations
    Usages <- MCUsages
    CostSeries <- MCCostSeries
    AccountLists <- MCAccountLists
    Deltas <- MCDeltas
INVARIANTS
    TypeOK
    FirstClassWithSignal
    FixtureHidesLaterClasses
    ShownFigureExplains
    ChildrenStopAtPlan
    CaseForRealWaste
    ResultTellsSweep
PROPERTIES
    CasesAreLifecycles
    SweepFinishes
CHECK_DEADLOCK FALSE
