SPECIFICATION Spec
CONSTANT Bench <- MixedBench
INVARIANTS ReceiptTrue FailedClosesGate
PROPERTY DetachedOff
