------------------------------ MODULE MCSweep ------------------------------
\* A sweep of two targets on either side of zero, neither a multiple of the
\* step, with plain instruments, a source with a condition register, or everything.
EXTENDS Sweep
TwoTargets == <<3, -2>>
Kit(p, g, r) == [profile |-> p, guarded |-> g, reference |-> r]
ThreeKits == {Kit(FALSE, FALSE, FALSE), Kit(TRUE, FALSE, FALSE), Kit(TRUE, TRUE, TRUE)}
=============================================================================
