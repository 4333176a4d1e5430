---------------------------- MODULE MCBalanced ----------------------------
\* Two points on either side of zero, shared 2 : 1 by two sources.
EXTENDS Balanced
OneModel ==
    [plain |-> [ranges |-> {[maximum |-> 24, nominal |-> 12, resolution |-> 2, fixed |-> 0]},
                hard |-> 24, low |-> 1, high |-> 9, quantum |-> 1]]
TwoPoints ==
    [model |-> "plain", start |-> 0, stop |-> 0, step |-> 6, ramp |-> 0, limit |-> 24,
     compliance |-> 3, protection |-> 3, pattern |-> "CustomList", custom |-> <<18, -6>>,
     balanced |-> TRUE, model2 |-> "plain", protection2 |-> 3, ratio |-> <<2, 1>>]
=============================================================================
