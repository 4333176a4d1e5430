---------------------------- MODULE MCRunFiles ----------------------------
\* One engine and two user interfaces on two names besides the old run's.
EXTENDS RunFiles, TLC
CONSTANTS engine, ui1, ui2, old, p, q
OneEngine == {engine}
TwoInterfaces == {ui1, ui2}
ThreeNames == {old, p, q}
Symmetry == Permutations({ui1, ui2}) \cup Permutations({p, q})
=============================================================================
