SPECIFICATION Spec
CONSTANTS
    Requests <- SafetyRequests
    NoJob = NoJob
    Nil = Nil
    QueueCap = 2
    History = 4
    MaxRequests = 3
INVARIANTS NeverReplayed OneOutputOwner FlagsBacked OneWriteAfterLatch
