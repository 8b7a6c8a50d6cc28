\* An agent, a behaviour and four flows that call each other; see MCRequestTree.
CONSTANTS
    Table <- MCTable
    FlowDefs <- MCFlowDefs
    MayCall <- MCMayCall
    Callers <- MCCallers
    MaxDepth = 3
    MaxSteps = 2
    Budget = 2
    Costs = {1}
    Concurrent = 2
    MaxNodes = 14
SPECIFICATION FairSpec
INVARIANTS OwnDataHasOwner NothingOutlives StepsPaid PaidInFull
PROPERTIES TreeEnds
CHECK_DEADLOCK FALSE
