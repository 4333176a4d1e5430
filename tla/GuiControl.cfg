SPECIFICATION Spec
CONSTANTS
    QueueCap = 2
    Nil = Nil
    c1 = c1
    c2 = c2
    i1 = i1
    i2 = i2
    Clients <- TwoClients
    Ids <- TwoIds
    History = 1
    MaxEvents = 3
SYMMETRY Symmetry
INVARIANTS SafetyLast AtMostOnce 
PROPERTY RetiringSilent
CHECK_DEADLOCK FALSE
