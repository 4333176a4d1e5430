SPECIFICATION FairSpec
CONSTANTS
    Requests <- LiveRequests
    NoJob = NoJob
    Nil = Nil
    QueueCap = 1
    History = 4
    MaxRequests = 2
PROPERTIES SafetyProcessed LapseCutsOff ClosedEnds QueuedCompletes
