CONSTANTS
    Specs <- OneModel
    RampShare = 2
    MaxPoints = 10
    Request <- TwoPoints
    AverageCount = 2
    MaxConversions = 1
SPECIFICATION Spec
CHECK_DEADLOCK FALSE
INVARIANTS PairMoves EndsTrue
PROPERTIES BalancedEnds
