SPECIFICATION FairSpec
CONSTANTS
    s1 = s1
    s2 = s2
    v1 = v1
    None = None
    Sessions <- TwoSessions
    Addresses <- OneSource
    Sources <- OneSource
    QueueSize = 2
    MaxCommands = 1
CHECK_DEADLOCK FALSE
INVARIANT NoOrphanLease
PROPERTIES LostReleased Answered
