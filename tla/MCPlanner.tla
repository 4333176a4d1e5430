----------------------------- MODULE MCPlanner -----------------------------
\* A fine source whose small range has its own limiter, as the divider ranges of
\* the GS210 have, and a coarse one.  The unit divides by 2, 3 and 4.
EXTENDS Planner
SourceRange(maximum, nominal, resolution, fixed) ==
    [maximum |-> maximum, nominal |-> nominal, resolution |-> resolution, fixed |-> fixed]
TwoModels ==
    [fine |-> [ranges |-> {SourceRange(24, 20, 4, 10), SourceRange(72, 60, 12, 0)},
               hard |-> 72, low |-> 2, high |-> 12, quantum |-> 2],
     coarse |-> [ranges |-> {SourceRange(48, 48, 8, 0), SourceRange(120, 100, 24, 0)},
                 hard |-> 96, low |-> 1, high |-> 20, quantum |-> 3]]
Ends == {-48, -12, 0, 24, 36, 72}
Request(model, start, stop, step, limit, protection, pattern, custom) ==
    [model |-> model, start |-> start, stop |-> stop, step |-> step, ramp |-> 0,
     limit |-> limit, compliance |-> 6, protection |-> protection, pattern |-> pattern,
     custom |-> custom, balanced |-> FALSE, model2 |-> "coarse", protection2 |-> 3,
     ratio |-> <<1, 1>>]
Sweeps ==
    {Request(m, a, b, s, l, p, q, <<>>) :
        m \in {"fine", "coarse"}, a \in Ends, b \in Ends, s \in {4, 20, 24}, l \in {48, 72},
        p \in {0, 3, 10, 14}, q \in {"Linear", "RoundTrip", "ZeroCentered"}}
    \cup {Request("fine", 0, 0, 4, 48, p, "CustomList", c) :
            p \in {0, 3, 10}, c \in {<<>>, <<24>>, <<12, 12, -24, 36>>, <<0, 6>>}}
Pairs ==
    {[r EXCEPT !.balanced = TRUE, !.ratio = q, !.protection2 = p,
               !.model2 = IF r.model = "fine" THEN "coarse" ELSE "fine"] :
        r \in {x \in Sweeps : x.step # 20 /\ x.limit = 72 /\ x.protection \in {0, 10}},
        q \in {<<1, 1>>, <<2, 1>>, <<1, 3>>}, p \in {3, 4}}
AllRequests == Sweeps \cup Pairs
SomePanels == {r \in Sweeps : r.pattern = "Linear" /\ r.start = 0 /\ r.stop = 0 /\ r.step = 4 /\ r.limit = 72}
SomeDcLevels == {-24, 0, 4, 6, 12, 36}
=============================================================================
