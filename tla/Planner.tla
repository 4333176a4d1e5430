------------------------------ MODULE Planner ------------------------------
(***************************************************************************)
(* The planner at work: a requested configuration is planned or refused    *)
(* (iv_core::plan), and a DC level is set and changed on a range that was  *)
(* chosen for it or asked for (engine/source_dc.rs).                       *)
(***************************************************************************)
EXTENDS Planning

CONSTANTS
    Requests,   \* the configurations that may be asked for
    DcLevels,   \* the DC levels and ramp steps that may be asked for
    DcPanels    \* bound: the panels from which DC output is explored

ASSUME PlannerAssumption ==
    /\ Requests \subseteq Configurations /\ DcPanels \subseteq Requests
    /\ DcLevels \subseteq Int

VARIABLES
    config,     \* the configuration on the panel
    plan,       \* what `plan` made of it: no plan, or one
    dc          \* the manual source: off, or [range, limit, asked, step, level]

plannerVars == <<config, plan, dc>>

PlannerInit == config \in Requests /\ plan = {} /\ dc = {}

\* iv_core::plan: a balanced configuration is planned for both sources.
Plan ==
    /\ plan = {}
    /\ plan' = IF config.balanced THEN BalancedPlan(config) ELSE PlanSingle(config)
    /\ UNCHANGED <<config, dc>>

\* dc_plan of engine/source_dc.rs: the level is planned as a short sweep, on the
\* range chosen for it or on the one that is wanted.
DcPlan(level, step, protection, wanted) ==
    LET c == [config EXCEPT !.start = 0, !.stop = level, !.step = step, !.limit = Abs(level),
                            !.compliance = protection, !.protection = protection,
                            !.pattern = "Linear"]
        fits == IF wanted = {} THEN ManualRange(c.model, level, protection)
                ELSE {r \in wanted : FixedRange(c.model, level, protection, r) # {}
                                     /\ Nudge(0, step, r) # {}}
    IN  {[range |-> IF wanted = {} THEN p.range ELSE CHOOSE r \in wanted : TRUE,
          limit |-> p.limit] :
            p \in {q \in PlanSingle(c) :
                    fits # {} /\ Aligned(step, q.range.resolution) /\ q.limit <= protection}}

\* validate_held_value, and the range that is wanted, if any, is the enabled one.
\* Mutant: only the range is looked at.
HoldsByRange(d, level, step, wanted) == wanted \subseteq {d.range}
Holds(d, level, step, wanted) ==
    /\ Nudge(level, 0, d.range) # {} /\ Nudge(step, 0, d.range) # {}
    /\ wanted \subseteq {d.range}

\* source_dc::set of a real source, where every transaction succeeds.  While the
\* output is on its range is kept, or left through a verified OFF if the new one
\* was not asked for; whatever else does not fit closes the output.
SetDc ==
    /\ config \in DcPanels
    /\ \E level \in DcLevels, step \in {s \in DcLevels : s > 0},
          protection \in {config.protection, 10} \ {0},
          wanted \in {{}} \cup {{r} : r \in Specs[config.model].ranges} :
        LET planned == DcPlan(level, step, protection, wanted)
            started == {[range |-> p.range, limit |-> p.limit, asked |-> protection,
                         step |-> step, level |-> level] : p \in planned}
            held == {d \in dc : Holds(d, level, step, wanted)}
            moved == {[d EXCEPT !.level = level, !.step = step, !.asked = protection] :
                        d \in {h \in held : \E p \in planned : h.asked = p.limit}}
        IN  dc' = IF planned = {} \/ (dc # {} /\ held = {} /\ wanted # {}) THEN {}
                  ELSE IF held # {} THEN moved ELSE started
    /\ UNCHANGED <<config, plan>>

PlannerNext == Plan \/ SetDc
PlannerSpec == PlannerInit /\ [][PlannerNext]_plannerVars

-----------------------------------------------------------------------------
(* Properties *)

Last(s) == s[Len(s)]

\* The points of an accepted sweep: on the grid, within every limit, both ends
\* met exactly, never more than one (rounded) step apart, never beyond an end.
\* The direction labels, by which the legs of a hysteresis loop are told apart,
\* change exactly where the sweep turns.
PointsExact ==
    \A p \in plan :
        LET pts == p.points
            grid == IF config.balanced THEN p.resolution ELSE p.range.resolution
        IN  /\ Len(pts) \in 1..MaxPoints
            /\ \A i \in 1..Len(pts) : Aligned(pts[i], grid) /\ Abs(pts[i]) <= config.limit
            /\ config.pattern # "CustomList" =>
                 /\ {config.start, config.stop} \subseteq {pts[i] : i \in 1..Len(pts)}
                 /\ \A i \in 2..Len(pts) : Abs(pts[i] - pts[i - 1]) \in 1..Ceil(config.step, grid)
                 /\ \A i \in 1..Len(pts) :
                      pts[i] \in Lesser(config.start, config.stop)..Greater(config.start, config.stop)
            /\ config.pattern \in {"RoundTrip", "ZeroCentered"} => Last(pts) = pts[1]
            /\ LET turns == {i \in 2..Len(pts) : p.directions[i] # p.directions[i - 1]}
               IN  /\ config.pattern = "Linear" => turns = {}
                   /\ config.pattern = "RoundTrip" => Cardinality(turns) <= 1
                   /\ \A i \in turns : pts[i - 1] \in {config.start, config.stop}
                                       \/ config.pattern = "CustomList"

\* The programmed protection never exceeds the one asked for by more than the
\* rounding of the setting; with two sources it does not exceed it at all.
LimitKept ==
    \A p \in plan :
        IF config.balanced
          THEN /\ p.plan2.limit <= config.protection2
               /\ p.plan1.limit <= IF config.protection # 0 THEN config.protection
                                                            ELSE config.compliance
          ELSE config.protection # 0 =>
                 \/ p.limit < config.protection + Specs[config.model].quantum
                 \/ p.limit <= Ceil(Specs[config.model].low, Specs[config.model].quantum)

\* All the levels of a balanced sweep, ramps included, from zero on.
Levels(p) ==
    LET level(i) == IF i = 0 THEN 0 ELSE p.points[i]
        path[i \in 0..Len(p.points)] ==
            IF i = 0 THEN <<0>>
            ELSE path[i - 1] \o RampLevels(level(i - 1), level(i), p.ramp) \o <<level(i)>>
    IN  path[Len(p.points)]

\* A balanced sweep keeps both sources on target: at every level of it each
\* source has exactly its share, on its own grid and within its own range, the
\* shares of a point are the points of the two plans, and no move of a source
\* is longer than that source may be moved at once.  The combined grid is the
\* smallest step of the target that both can follow exactly.
PairExact ==
    config.balanced => \A p \in plan :
        LET total == p.ratio[1] + p.ratio[2]
            path == Levels(p)
            share(v, i) == Pair(v, p.ratio)[i]
            of(i) == IF i = 1 THEN p.plan1 ELSE p.plan2
            follows(v) == \A i \in {1, 2} : (v * p.ratio[i]) % (total * of(i).range.resolution) = 0
        IN  /\ \A v \in {path[k] : k \in 1..Len(path)}, i \in {1, 2} :
                 /\ Exact(v, p.ratio[i], total)
                 /\ Aligned(share(v, i), of(i).range.resolution)
                 /\ Abs(share(v, i)) <= of(i).range.maximum
            /\ \A k \in 1..Len(p.points), i \in {1, 2} :
                 of(i).points[k] = share(p.points[k], i)
            /\ \A k \in 2..Len(path), i \in {1, 2} :
                 Abs(share(path[k], i) - share(path[k - 1], i))
                   <= Lesser(Scaled(p.ramp, p.ratio[i], total), of(i).range.maximum)
            /\ p.resolution = Min({v \in 1..p.resolution : follows(v)} \cup {p.resolution + 1})

\* A DC output that is on has its level within the range that is enabled and, with
\* its ramp, on the grid of it, and neither that range's own limiter nor the programmed
\* one is weaker than the protection last asked for, through any series of changes.
DcOnGrid ==
    \A d \in dc :
        /\ Aligned(d.level, d.range.resolution) /\ Aligned(d.step, d.range.resolution)
        /\ Abs(d.level) <= d.range.maximum
        /\ d.limit <= d.asked /\ d.range.fixed <= d.asked
=============================================================================
