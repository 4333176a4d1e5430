------------------------------ MODULE Planning ------------------------------
(***************************************************************************)
(* What a sweep will do, before anything is switched on: the planner of    *)
(* iv-core/src/lib.rs.  Levels, steps and limits are decimals there; here  *)
(* they are integers, multiples of one unit fine enough for every quotient *)
(* the code can represent.  Its tolerance for the noise of binary floating *)
(* point is left out, and so is the sign of a step, of which the planner   *)
(* only uses the magnitude.                                                *)
(*                                                                         *)
(* A function that may refuse its argument yields the set of its results:  *)
(* empty, or one.                                                          *)
(***************************************************************************)
EXTENDS Integers, Sequences, FiniteSetsExt

CONSTANTS
    Specs,       \* model -> its ranges [maximum, nominal, resolution, fixed], the
                 \* absolute limit `hard`, and low, high and quantum of its protection
    RampShare,   \* the share of a range the automatic ramp takes, 100 in the code
    MaxPoints    \* MAX_POINTS

SourceModels ==
    [ranges : SUBSET [maximum : Nat \ {0}, nominal : Nat, resolution : Nat \ {0}, fixed : Nat],
     hard : Nat, low : Nat, high : Nat, quantum : Nat \ {0}]

\* As in specs/sources.toml: no two ranges of a source reach equally far, and a
\* limiter of its own is what its smallest ranges have, no larger one a higher one.
ASSUME PlanningAssumption ==
    /\ RampShare \in Nat \ {0} /\ MaxPoints \in Nat \ {0}
    /\ \A m \in DOMAIN Specs :
          /\ Specs[m] \in SourceModels
          /\ \A r \in Specs[m].ranges : r.maximum % r.resolution = 0
          /\ \A r, q \in Specs[m].ranges :
                r.maximum <= q.maximum => r = q \/ (r.maximum < q.maximum /\ q.fixed <= r.fixed)

\* RunConfig, as far as the planner looks at it.  A protection of 0 is none; a
\* ratio is of two positive numbers, any other is refused (iv-core/src/lib.rs:1481).
Configurations ==
    [model : DOMAIN Specs, start : Int, stop : Int, step : Nat, ramp : Nat, limit : Int,
     compliance : Int, protection : Int, custom : Seq(Int),
     pattern : {"Linear", "RoundTrip", "ZeroCentered", "CustomList"},
     balanced : BOOLEAN, model2 : DOMAIN Specs, protection2 : Int,
     ratio : (Nat \ {0}) \X (Nat \ {0})]

Abs(n) == IF n < 0 THEN -n ELSE n
Sign(n) == IF n < 0 THEN -1 ELSE 1
Lesser(a, b) == IF a <= b THEN a ELSE b
Greater(a, b) == IF a >= b THEN a ELSE b
CeilDiv(n, d) == (n + d - 1) \div d

\* aligned_value: only a multiple of the resolution is accepted.
Aligned(v, resolution) == v % resolution = 0
\* ceil_to_increment.
Ceil(v, increment) == CeilDiv(v, increment) * increment

-----------------------------------------------------------------------------
(* Points *)

\* decimal_range and forward_points: whole steps towards `stop`, the last
\* interval shortened so that the endpoint is met exactly.
\* Mutant: the last step is a whole one.
WholeSteps(start, stop, step) ==
    LET n == CeilDiv(Abs(stop - start), step)
    IN  [k \in 1..n + 1 |-> start + Sign(stop - start) * (k - 1) * step]
ForwardPoints(start, stop, step) ==
    LET n == CeilDiv(Abs(stop - start), step)
        point[k \in 0..n] ==
            IF k = 0 THEN start
            ELSE IF Abs(stop - point[k - 1]) <= step THEN stop
            ELSE point[k - 1] + Sign(stop - start) * step
    IN  [k \in 1..n + 1 |-> point[k - 1]]

\* append_joined: a segment that starts where the last one ended repeats nothing.
AppendJoined(points, segment) ==
    IF points # <<>> /\ points[Len(points)] = Head(segment) THEN points \o Tail(segment)
                                                            ELSE points \o segment

\* A zero-centered sweep needs zero between its ends.
PatternAllowed(c) ==
    /\ c.pattern = "ZeroCentered" => Lesser(c.start, c.stop) <= 0 /\ Greater(c.start, c.stop) >= 0
    /\ c.pattern = "CustomList" => c.custom # <<>>

\* The points of a sweep in order, before their number is limited.
BasePoints(c, step) ==
    LET leg(from, to) == ForwardPoints(from, to, step)
    IN  CASE c.pattern = "CustomList" -> c.custom
          [] c.pattern = "Linear" -> leg(c.start, c.stop)
          [] c.pattern = "RoundTrip" -> AppendJoined(leg(c.start, c.stop), leg(c.stop, c.start))
          [] c.pattern = "ZeroCentered" ->
               AppendJoined(AppendJoined(leg(0, c.stop), leg(c.stop, c.start)), leg(c.start, 0))

\* sweep_points: every point is labelled with the direction it is reached in,
\* the first one with the direction it is left in.
Directions(points) ==
    LET delta(i) == IF i > 1 THEN points[i] - points[i - 1]
                    ELSE IF Len(points) > 1 THEN points[2] - points[1] ELSE 0
        label[i \in 1..Len(points)] ==
            IF delta(i) = 0 /\ i > 1 THEN label[i - 1]
            ELSE IF delta(i) < 0 THEN "backward" ELSE "forward"
    IN  label

-----------------------------------------------------------------------------
(* Ranges and protection of one source *)

\* quantized_hardware_compliance: rounded up to what the source can be set to.
HardwareLimit(m, requested) ==
    Lesser(Ceil(Greater(requested, Specs[m].low), Specs[m].quantum), Specs[m].high)

\* Mutant: the fixed limiter of a divider range is not looked at.
EligibleByLevel(m, maximum, protection) ==
    {r \in Specs[m].ranges : maximum <= r.maximum /\ protection <= Specs[m].high}
\* select_range: a range that holds the targets, and, when a protection is asked
\* for (not 0), whose own fixed limiter does not weaken it.
Eligible(m, maximum, protection) ==
    {r \in Specs[m].ranges :
        /\ maximum <= r.maximum
        /\ protection <= Specs[m].high
        /\ protection # 0 => r.fixed <= HardwareLimit(m, protection)}
SelectRange(m, maximum, protection) ==
    LET E == Eligible(m, maximum, protection)
    IN  {r \in E : \A q \in E : r.maximum <= q.maximum}

\* nudge_source_value: refused off the grid or out of the range, never clamped.
Nudge(level, delta, r) ==
    {n \in {level + delta} :
        Aligned(level, r.resolution) /\ Aligned(delta, r.resolution) /\ Abs(n) <= r.maximum}

\* manual_source_range chooses the range, fixed_manual_source_range takes the
\* one that is asked for, if it is strong enough.
ManualRange(m, level, protection) ==
    {r \in SelectRange(m, Abs(level), protection) : Nudge(0, level, r) # {}}
FixedRange(m, level, protection, r) ==
    {q \in {r} : /\ protection \in 1..Specs[m].high
                 /\ q.fixed <= HardwareLimit(m, protection)
                 /\ Nudge(0, level, q) # {}}

-----------------------------------------------------------------------------
(* One source *)

Largest(c) ==
    IF c.pattern = "CustomList" THEN Max({0} \cup {Abs(c.custom[i]) : i \in 1..Len(c.custom)})
                                ELSE Greater(Abs(c.start), Abs(c.stop))

\* prepare_config_single: the step rounded up to the grid, and the automatic ramp.
PrepareSingle(c) ==
    {[c EXCEPT !.step = Ceil(c.step, r.resolution),
               !.ramp = Lesser(r.maximum,
                          Greater(Ceil(c.step, r.resolution),
                            CeilDiv(r.nominal, RampShare * r.resolution) * r.resolution))] :
        r \in IF c.step > 0 THEN SelectRange(c.model, Largest(c), c.protection) ELSE {}}

\* The limiter that will be in force: a range's own one, or the one asked for.
LimitInForce(c, r) ==
    IF r.fixed # 0 THEN r.fixed
    ELSE HardwareLimit(c.model, IF c.protection # 0 THEN c.protection ELSE c.compliance)

PlanOf(c, r) ==
    LET points == BasePoints(c, c.step)
    IN  {[points |-> points, directions |-> Directions(points), range |-> r,
          limit |-> LimitInForce(c, r)] :
            ok \in {x \in {TRUE} :
              /\ Len(points) <= MaxPoints
              /\ \A i \in 1..Len(points) :
                    Abs(points[i]) <= Lesser(c.limit, Specs[c.model].hard)}}

\* plan_single: every end on the grid of the selected range, within the limits.
PlanSingle(c) ==
    UNION {UNION {PlanOf(p, r) :
        r \in {q \in SelectRange(p.model, Largest(p), p.protection) :
                 /\ PatternAllowed(p)
                 /\ p.compliance > 0
                 /\ p.protection = 0 => p.compliance <= Specs[p.model].high
                 /\ Aligned(p.ramp, q.resolution)
                 /\ IF p.pattern = "CustomList"
                      THEN \A i \in 1..Len(p.custom) : Aligned(p.custom[i], q.resolution)
                      ELSE Aligned(p.start, q.resolution) /\ Aligned(p.stop, q.resolution)}} :
        p \in PrepareSingle(c)}

-----------------------------------------------------------------------------
(* Two sources with one differential target *)

\* gcd_i128.
Gcd(a, b) ==
    LET g[p \in Nat \X Nat] == IF p[2] = 0 THEN p[1] ELSE g[<<p[2], p[1] % p[2]>>]
    IN  g[<<a, b>>]

\* split_increment: the common grid of two sources that share a target a : b, the
\* least common multiple of the two resolutions seen through the ratio.
SplitIncrement(first, second, a, b) ==
    LET n(resolution) == resolution * (a + b)
        num(resolution, part) == n(resolution) \div Gcd(n(resolution), part)
        den(resolution, part) == part \div Gcd(n(resolution), part)
        n1 == num(first, a)
        n2 == num(second, b)
    IN  ((n1 \div Gcd(n1, n2)) * n2) \div Gcd(den(first, a), den(second, b))

\* scaled_decimal, where the quotient is exact.
Exact(v, part, total) == (v * part) % total = 0
Scaled(v, part, total) == (v * part) \div total

\* The configuration of one of the sources: its share of every level.
ShareOf(c, m, protection, sign, part, total, step) ==
    [c EXCEPT !.model = m, !.protection = protection,
              !.start = Scaled(sign * @, part, total), !.stop = Scaled(sign * @, part, total),
              !.step = Scaled(step, part, total), !.limit = (@ * part) \div total,
              !.custom = [i \in 1..Len(c.custom) |-> Scaled(sign * c.custom[i], part, total)]]

\* require_exact_protection, and the ranges for the two shares.
BalancedRanges(c) ==
    LET a == c.ratio[1]
        b == c.ratio[2]
        p1 == IF c.protection # 0 THEN c.protection ELSE c.compliance
        levels == {c.start, c.stop} \cup {c.custom[i] : i \in 1..Len(c.custom)}
    IN  {rs \in SelectRange(c.model, Scaled(Largest(c), a, a + b), p1)
                  \X SelectRange(c.model2, Scaled(Largest(c), b, a + b), c.protection2) :
           /\ c.step > 0 /\ p1 > 0 /\ c.protection2 > 0
           /\ HardwareLimit(c.model, p1) <= p1
           /\ HardwareLimit(c.model2, c.protection2) <= c.protection2
           /\ \A v \in levels : Exact(v, a, a + b) /\ Exact(v, b, a + b)}

\* Mutant: it is not rounded to the common grid.
RampUnrounded(first, second, a, b, increment) ==
    Lesser(CeilDiv(first.ramp * (a + b), a), CeilDiv(second.ramp * (a + b), b))
\* The ramp both can follow: the smaller differential one, rounded up to the grid.
CommonRamp(first, second, a, b, increment) ==
    Ceil(Lesser(CeilDiv(first.ramp * (a + b), a), CeilDiv(second.ramp * (a + b), b)), increment)

\* prepare_balanced_configs and balanced_plan.
BalancedPlan(c) ==
    LET a == c.ratio[1]
        b == c.ratio[2]
        total == a + b
        p1 == IF c.protection # 0 THEN c.protection ELSE c.compliance
    IN  UNION {
          LET increment == SplitIncrement(rs[1].resolution, rs[2].resolution, a, b)
              step == Ceil(c.step, increment)
              first == ShareOf(c, c.model, p1, 1, a, total, step)
              second == ShareOf(c, c.model2, c.protection2, -1, b, total, step)
              points == BasePoints(c, step)
          IN  {[points |-> points, directions |-> Directions(points), plan1 |-> q[1],
                plan2 |-> q[2], ratio |-> c.ratio, resolution |-> increment,
                ramp |-> CommonRamp(q[3], q[4], a, b, increment)] :
                 q \in {x \in PlanSingle(first) \X PlanSingle(second)
                                \X PrepareSingle(first) \X PrepareSingle(second) :
                          LET ramp == CommonRamp(x[3], x[4], a, b, increment)
                          IN  /\ Scaled(ramp, a, total) <= rs[1].maximum
                              /\ Scaled(ramp, b, total) <= rs[2].maximum
                              /\ \A i \in 1..Len(points) :
                                   Aligned(points[i], increment) /\ Abs(points[i]) <= c.limit
                              /\ Len(x[1].points) = Len(points)
                              /\ Len(x[2].points) = Len(points)}} :
          rs \in IF PatternAllowed(c) THEN BalancedRanges(c) ELSE {}}

\* BalancedPlan::ramp_targets: the differential levels on the way, without the last.
RampLevels(from, to, step) ==
    LET n == IF from = to THEN 0 ELSE CeilDiv(Abs(to - from), step) - 1
    IN  [k \in 1..n |-> from + Sign(to - from) * k * step]
\* The two levels that make up a differential one.
Pair(level, ratio) ==
    <<Scaled(level, ratio[1], ratio[1] + ratio[2]), Scaled(-level, ratio[2], ratio[1] + ratio[2])>>
=============================================================================
