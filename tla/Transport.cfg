SPECIFICATION Spec
CONSTANTS
    Benches <- FourBenches
    MaxLate = 1
INVARIANTS
    OwnAnswer
    OffStays
    IdentifiedFirst
    FreshReading
CHECK_DEADLOCK FALSE
