CONSTANTS
    Specs <- TwoModels
    RampShare = 2
    MaxPoints = 14
    Requests <- AllRequests
    DcLevels <- SomeDcLevels
    DcPanels <- SomePanels
SPECIFICATION PlannerSpec
CHECK_DEADLOCK FALSE
INVARIANTS  LimitKept PairExact DcOnGrid
