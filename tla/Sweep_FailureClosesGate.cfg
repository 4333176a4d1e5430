CONSTANTS
    Targets <- TwoTargets
    Kits <- ThreeKits
    RampStep = 2
    AverageCount = 2
    MaxConversions = 1
SPECIFICATION Spec
CHECK_DEADLOCK FALSE
INVARIANT FailureClosesGate
