------------------------------ MODULE Balanced ------------------------------
(***************************************************************************)
(* One balanced sweep: two voltage sources that share a differential       *)
(* target, iv-desktop/src/engine/balanced.rs, on the plan iv-core makes    *)
(* (module Planning).                                                      *)
(*                                                                         *)
(* As in Sweep the engine thread is cut where it looks at the control      *)
(* flags, and between the writes to the two sources.  Any transaction and  *)
(* any write of a recording may fail.  A failing transaction turns both    *)
(* sources off before its evidence is written, and so does the step that   *)
(* models it.                                                              *)
(***************************************************************************)
EXTENDS Planning, Instruments

CONSTANTS
    Request,          \* the requested configuration
    AverageCount,     \* readings per point
    MaxConversions    \* bound: live conversions in one wait, which the code ends by time

ASSUME BalancedAssumption ==
    /\ Request \in Configurations /\ BalancedPlan(Request) # {}
    /\ AverageCount \in Nat \ {0} /\ MaxConversions \in Nat

VARIABLES
    state,     \* the engine's Snapshot, and the instruments behind it
    pc,        \* where `execute` is
    run,       \* its local variables
    ctl,       \* the control flags: stop, and quiet (closed or no heartbeat)
    rec,       \* the recordings: CSV rows, points in the audit, files
    level      \* the levels programmed in the two sources (imagined in simulation)

vars == <<state, pc, run, ctl, rec, level>>

Drive == CHOOSE p \in BalancedPlan(Request) : TRUE
Count == Len(Drive.points)
Real == Live(state, "source")
\* The differential levels from the last one that was set to the next point.
Way == Append(RampLevels(run.at, Drive.points[run.point], Drive.ramp), Drive.points[run.point])
Next2(hop) ==
    IF hop = Len(Way) THEN <<Drive.plan1.points[run.point], Drive.plan2.points[run.point]>>
                      ELSE Pair(Way[hop], Drive.ratio)

\* profile: the source models have condition registers.  guarded: the meter's
\* range is watched.  alert: protection_alert.  lost: recording_error.
InitRun(profile, guarded) ==
    [profile |-> profile, guarded |-> guarded, at |-> 0, point |-> 1, hop |-> 1,
     reading |-> 1, polls |-> 0, limited |-> FALSE, armed |-> FALSE, stopped |-> FALSE,
     failed |-> FALSE, alert |-> "none", lost |-> FALSE]

\* Both sources and the meter of one kind, in whatever state they were left.
InitState(kind, gate, bias, reference, on, err) ==
    [conn |-> [r \in Roles |-> CASE r = "gate" -> IF gate THEN kind ELSE "none"
                                 [] r = "reference" -> IF reference THEN kind ELSE "none"
                                 [] OTHER -> kind],
     out |-> [r \in Outputs |-> CASE r = "gate" -> IF bias THEN "On" ELSE "Off"
                                  [] OTHER -> IF on THEN "On" ELSE "Off"],
     held |-> [r \in Outputs |-> IF r = "gate" THEN bias ELSE on],
     err |-> err, phase |-> "Ready",
     phys |-> [r \in Outputs |-> IF r = "gate" THEN bias /\ kind = "live" ELSE on],
     missed |-> FALSE]

Init ==
    /\ \E kind \in Kinds, gate, bias, reference, on, err, profile \in BOOLEAN :
          /\ bias => gate
          /\ reference => profile
          /\ kind = "sim" => ~profile /\ ~on
          /\ state = InitState(kind, gate, bias, reference, on, err)
          /\ run = InitRun(profile, reference)
    /\ pc = "begin"
    /\ ctl = [stop |-> FALSE, quiet |-> FALSE]
    /\ rec = [rows |-> <<>>, points |-> 0, csv |-> "none", audit |-> "none", manifest |-> "none"]
    /\ level = <<0, 0>>

-----------------------------------------------------------------------------
(* The reader thread and the lease *)

Cancelled == ctl.stop \/ ctl.quiet

\* After the last look at the flags a request waits for the next command.
Reader(c) ==
    /\ pc \notin {"collect", "csv", "audit", "hashes", "manifest", "settle", "ended"}
    /\ ctl' = c
    /\ UNCHANGED <<state, pc, run, rec, level>>
RequestStop == Reader([ctl EXCEPT !.stop = TRUE])
Quiet == Reader([ctl EXCEPT !.quiet = TRUE])
Heartbeat == Reader([ctl EXCEPT !.quiet = FALSE])

-----------------------------------------------------------------------------
(* Ways to go on *)

Goto(p) == pc' = p /\ UNCHANGED run
Fail == pc' = "collect" /\ run' = [run EXCEPT !.failed = TRUE]
Halt == pc' = "collect" /\ run' = [run EXCEPT !.stopped = TRUE]
Fails == Fail /\ UNCHANGED state

\* Run::write, query, level: OFF to both, then the error.
OffFails == state' \in Outcomes(SweepOff(state)) /\ Fail
\* OFF to both, then the stop; an OFF that is not verified, or evidence that is
\* not written, is an error.
OffStops(alert) ==
    \E r \in SweepOff(state), lost \in BOOLEAN :
        /\ state' = r.s
        /\ pc' = "collect"
        /\ run' = [run EXCEPT !.alert = IF alert = "none" THEN @ ELSE alert,
                              !.stopped = r.ok /\ ~lost, !.failed = ~r.ok \/ lost]

\* Run::check: the gate, then the condition register of each source.
CheckTrips ==
    /\ Real
    /\ \/ /\ state' \in UNION {Outcomes(SweepOff(T)) : T \in GateFault(state)}
          /\ Fail
       \/ run.profile /\ (OffFails \/ OffStops("source"))
\* RangeGuard::observed and Observer::query.
RangeTrips == Real /\ run.guarded /\ OffFails

-----------------------------------------------------------------------------
(* Before the first point *)

\* Refused, or the recordings are created before anything is switched on; the
\* manifest last, when the run has been announced.
Begin ==
    LET csv == [rec EXCEPT !.csv = "open"]
        audit == [csv EXCEPT !.audit = "open"]
        announced == [state EXCEPT !.phase = "Preparing", !.err = FALSE]
    IN  /\ pc = "begin"
        /\ \/ Goto("settle") /\ UNCHANGED state /\ rec' \in {rec, csv}
           \/ Goto("settle") /\ state' = announced /\ rec' = audit
           \/ /\ Goto("setup") /\ state' = announced
              /\ rec' = [audit EXCEPT !.manifest = "in progress"]
        /\ UNCHANGED <<ctl, level>>

\* Run::setup: both OFF, both sources and the meters configured and read back.  A
\* cancelled set-up is no error: the loop over the points looks again.
Setup ==
    /\ pc = "setup"
    /\ \E r \in SweepOff(state) :
         /\ state' = r.s
         /\ ~r.ok => Fail /\ UNCHANGED level
         /\ r.ok => \/ Goto("configure") /\ level' = <<0, 0>>
                    \/ Real /\ Fail /\ level' \in {level, <<0, level[2]>>, <<0, 0>>}
    /\ UNCHANGED <<ctl, rec>>
Configure ==
    /\ pc = "configure"
    /\ \/ RangeTrips \/ (Real /\ Fails)
       \/ /\ Goto(IF Cancelled THEN "point" ELSE "first on")
          /\ state' = IF Cancelled THEN [state EXCEPT !.phase = "Running"]
                      ELSE [state EXCEPT !.out["source"] = "Unknown", !.out["source2"] = "Unknown"]
    /\ UNCHANGED <<ctl, rec, level>>

\* :OUTP ON and its confirmation, one source after the other.  A refused ON
\* turns both off, an ON that is not confirmed is left to the cleanup.
TurnOn(p, role, next) ==
    /\ pc = p
    /\ \/ /\ Cancelled /\ Goto("point")
          /\ state' = [state EXCEPT !.phase = "Running"]
       \/ /\ ~Cancelled /\ Real /\ Fail
          /\ \E on \in BOOLEAN :
               LET S == [state EXCEPT !.phys[role] = on]
               IN  state' \in {S} \cup Outcomes(SweepOff(S))
       \/ /\ ~Cancelled
          /\ pc' = next /\ run' = [run EXCEPT !.armed = next = "point"]
          /\ state' = [state EXCEPT !.phys[role] = Real,
                        !.out = [r \in Outputs |->
                                   IF r \in Sweepers /\ next = "point" THEN "On" ELSE @[r]],
                        !.phase = IF next = "point" THEN "Running" ELSE @]
    /\ UNCHANGED <<ctl, rec, level>>
FirstOn == TurnOn("first on", "source", "second on")
SecondOn == TurnOn("second on", "source2", "point")

-----------------------------------------------------------------------------
(* One point: ramp, settle, read, save *)

Point ==
    /\ pc = "point"
    /\ \/ run.point > Count /\ Goto("collect")
       \/ run.point <= Count /\ Cancelled /\ Halt
       \/ run.point <= Count /\ ~Cancelled /\ pc' = "first" /\ run' = [run EXCEPT !.hop = 1]
    /\ UNCHANGED <<state, ctl, rec, level>>

\* Mutant: a whole point is one move.
SetJumps ==
    /\ pc = "first" /\ ~Cancelled
    /\ pc' = "second" /\ run' = [run EXCEPT !.hop = Len(Way)]
    /\ level' = [level EXCEPT ![1] = Drive.plan1.points[run.point]]
    /\ UNCHANGED <<state, ctl, rec>>
\* Run::set: the first source.  A failed write turns both off, evidence of a
\* write that cannot be recorded is left to the cleanup.
SetFirst ==
    /\ pc = "first"
    /\ \/ Cancelled /\ Halt /\ UNCHANGED <<state, level>>
       \/ /\ ~Cancelled /\ level' = [level EXCEPT ![1] = Next2(run.hop)[1]]
          /\ (Goto("second") /\ UNCHANGED state) \/ (Real /\ Fails)
       \/ /\ ~Cancelled /\ Real /\ OffFails
          /\ level' \in {level, [level EXCEPT ![1] = Next2(run.hop)[1]]}
    /\ UNCHANGED <<ctl, rec>>

\* Then the second, unless the run was cancelled in between: both are turned off.
SetSecond ==
    /\ pc = "second"
    /\ \/ Cancelled /\ OffStops("none") /\ UNCHANGED level
       \/ /\ ~Cancelled /\ level' = Next2(run.hop)
          /\ (Goto("check") /\ UNCHANGED state) \/ (Real /\ Fails)
       \/ /\ ~Cancelled /\ Real /\ OffFails /\ level' \in {level, Next2(run.hop)}
    /\ UNCHANGED <<ctl, rec>>
Check ==
    /\ pc = "check"
    /\ \/ CheckTrips
       \/ pc' = "wait" /\ run' = [run EXCEPT !.polls = 0] /\ UNCHANGED state
    /\ UNCHANGED <<ctl, rec, level>>

\* Run::wait: cancelled, polled, a live conversion, or the time is up.
Wait ==
    /\ pc = "wait"
    /\ \/ Cancelled /\ Halt /\ UNCHANGED state
       \/ ~Cancelled /\ CheckTrips
       \/ ~Cancelled /\ run.polls < MaxConversions /\ Goto("convert") /\ UNCHANGED state
       \/ /\ ~Cancelled /\ UNCHANGED state
          /\ IF run.hop < Len(Way)
               THEN pc' = "first" /\ run' = [run EXCEPT !.hop = @ + 1]
               ELSE pc' = "read" /\ run' = [run EXCEPT !.reading = 1, !.at = Drive.points[run.point]]
    /\ UNCHANGED <<ctl, rec, level>>

\* Mutant: every conversion begins the wait anew.
ConvertRestarts ==
    /\ pc = "convert" /\ Goto("wait")
    /\ UNCHANGED <<state, ctl, rec, level>>
\* Run::live_conversion: a bad reading, the limit, then polls, range, second meter.
Convert ==
    /\ pc = "convert"
    /\ \/ Real /\ OffFails
       \/ OffStops("meter") \/ CheckTrips \/ Fails
       \/ Live(state, "reference") /\ Cancelled /\ Halt /\ UNCHANGED state
       \/ pc' = "wait" /\ run' = [run EXCEPT !.polls = @ + 1] /\ UNCHANGED state
    /\ UNCHANGED <<ctl, rec, level>>

\* One reading of the average in Run::reading.  At the limit both are turned
\* off, and the record is kept.
Read ==
    /\ pc = "read"
    /\ \/ Cancelled /\ Halt /\ UNCHANGED state
       \/ ~Cancelled /\ (CheckTrips \/ (Real /\ (OffFails \/ Fails)))
       \/ /\ ~Cancelled
          /\ \E r \in SweepOff(state) :
               /\ state' = r.s
               /\ IF r.ok THEN pc' = "save" /\ run' = [run EXCEPT !.alert = "meter", !.limited = TRUE]
                  ELSE pc' = "collect" /\ run' = [run EXCEPT !.alert = "meter", !.failed = TRUE]
       \/ /\ ~Cancelled /\ UNCHANGED state
          /\ IF run.reading < AverageCount THEN pc' = "read" /\ run' = [run EXCEPT !.reading = @ + 1]
             ELSE Goto(IF Real THEN "verify" ELSE "save")
    /\ UNCHANGED <<ctl, rec, level>>

\* Both levels are read back, then the displays and the second meter.
Verify ==
    /\ pc = "verify"
    /\ \/ OffFails \/ Fails \/ CheckTrips
       \/ Live(state, "reference") /\ Cancelled /\ Halt /\ UNCHANGED state
       \/ /\ level = <<Drive.plan1.points[run.point], Drive.plan2.points[run.point]>>
          /\ Goto("save") /\ UNCHANGED state
    /\ UNCHANGED <<ctl, rec, level>>

\* The row is appended, then the point's source values go to the audit.
Save ==
    LET row == [rec EXCEPT !.rows = Append(@, IF run.limited THEN "limit" ELSE "ok")]
        point == [row EXCEPT !.points = @ + 1]
    IN  /\ pc = "save"
        /\ \/ Fail /\ rec' \in {rec, row}
           \/ run.limited /\ Goto("collect") /\ rec' = point
           \/ /\ ~run.limited /\ pc' = "point" /\ run' = [run EXCEPT !.point = @ + 1]
              /\ rec' = point
        /\ UNCHANGED <<state, ctl, level>>

-----------------------------------------------------------------------------
(* Cleaning up *)

CompletionPhase(err) ==
    CASE err -> "Failed"
      [] ~err /\ run.alert = "source" -> "SourceLimitStop"
      [] ~err /\ run.alert = "meter" -> "ComplianceStop"
      [] ~err /\ run.alert = "none" -> IF run.stopped THEN "Stopped" ELSE "Completed"

\* Mutant: only an error of the measurement closes the gate.
CollectKeepsGate ==
    /\ pc = "collect"
    /\ \E r \in SweepOff(state) : \E q \in IF run.failed THEN ShutdownGate(r.s) ELSE {Ok(r.s)} :
         LET err == run.failed \/ ~r.ok \/ ~q.ok
         IN  state' = [q.s EXCEPT !.err = @ \/ err, !.phase = CompletionPhase(q.s.err \/ err)]
    /\ Goto("csv")
    /\ UNCHANGED <<ctl, rec, level>>
\* Both off, without a ramp; the gate too after any error or protection.
Collect ==
    /\ pc = "collect"
    /\ \E r \in SweepOff(state) :
         \E q \in IF run.failed \/ ~r.ok \/ run.alert # "none" THEN ShutdownGate(r.s)
                                                               ELSE {Ok(r.s)} :
           LET err == run.failed \/ ~r.ok \/ ~q.ok
           IN  state' = [q.s EXCEPT !.err = @ \/ err, !.phase = CompletionPhase(q.s.err \/ err)]
    /\ Goto("csv")
    /\ UNCHANGED <<ctl, rec, level>>

\* The recordings are made durable and hashed.
CloseCsv ==
    /\ pc = "csv" /\ pc' = "audit"
    /\ \/ rec' = [rec EXCEPT !.csv = "final"] /\ UNCHANGED <<state, run>>
       \/ /\ run' = [run EXCEPT !.lost = TRUE] /\ UNCHANGED rec
          /\ state' = [state EXCEPT !.phase = "Failed"]
    /\ UNCHANGED <<ctl, level>>
CloseAudit ==
    /\ pc = "audit" /\ pc' = "hashes"
    /\ \/ rec' = [rec EXCEPT !.audit = "final"] /\ UNCHANGED run
       \/ run' = [run EXCEPT !.lost = TRUE] /\ UNCHANGED rec
    /\ UNCHANGED <<state, ctl, level>>
\* Any error of the recordings closes the gate and fails the run.
Hashes ==
    /\ pc = "hashes" /\ pc' = "manifest"
    /\ \E lost \in {run.lost, TRUE} :
         /\ run' = [run EXCEPT !.lost = lost]
         /\ state' \in IF ~lost THEN {state}
                       ELSE {[q.s EXCEPT !.err = TRUE, !.phase = "Failed"] : q \in ShutdownGate(state)}
    /\ UNCHANGED <<ctl, rec, level>>

\* SourcePoints: the audit lists exactly the points that were saved.
PointsListed == rec.points = Len(rec.rows)
\* The manifest is replaced, or it is left as it was.
Manifest ==
    /\ pc = "manifest" /\ Goto("ended")
    /\ \/ /\ PointsListed
          /\ rec' = [rec EXCEPT !.manifest = state.phase] /\ UNCHANGED state
       \/ /\ UNCHANGED rec
          /\ state' \in {[q.s EXCEPT !.err = TRUE, !.phase = "Failed"] : q \in ShutdownGate(state)}
    /\ UNCHANGED <<ctl, level>>

\* What serve does with an error that `execute` returns.
Settle ==
    /\ pc = "settle" /\ Goto("ended")
    /\ state' \in ErrorPath(state)
    /\ UNCHANGED <<ctl, rec, level>>

-----------------------------------------------------------------------------
Execute ==
    \/ Begin \/ Setup \/ Configure \/ FirstOn \/ SecondOn
    \/ Point \/ SetFirst \/ SetSecond \/ Check \/ Wait \/ Convert \/ Read \/ Verify \/ Save
    \/ Collect \/ CloseCsv \/ CloseAudit \/ Hashes \/ Manifest \/ Settle
Next == Execute \/ RequestStop \/ Quiet \/ Heartbeat
\* The engine thread is scheduled, and every transaction and write returns.
Spec == Init /\ [][Next]_vars /\ WF_vars(Execute)

-----------------------------------------------------------------------------
(* Properties *)

BothOn == state.phys["source"] /\ state.phys["source2"]
Gap == Abs(level[1] * Drive.ratio[2] + level[2] * Drive.ratio[1])

\* While both outputs are on their levels are the two shares of one differential
\* level, except between the two writes of one move and after a write that
\* failed, or could not be recorded; and then the first source is ahead by no
\* more than its share of one ramp step.
PairMoves ==
    BothOn /\ run.armed =>
        /\ state.out["source"] = "On" /\ pc \notin {"second", "collect"} => Gap = 0
        /\ Gap * (Drive.ratio[1] + Drive.ratio[2]) <= Drive.ramp * Drive.ratio[1] * Drive.ratio[2]

\* A run that does not end as failed is clean in every respect, and one that
\* fails, is limited or cannot be recorded leaves no gate bias behind: the gate
\* is off, or its OFF was tried and could not be verified.
EndsClosed ==
    pc = "ended" =>
        /\ state.phase # "Failed" =>
             /\ \A r \in Sweepers : state.out[r] = "Off" /\ ~state.phys[r]
             /\ ~state.err /\ rec.csv = "final" /\ rec.audit = "final"
             /\ rec.manifest = state.phase
        /\ state.phase \notin {"Completed", "Stopped"} /\ Live(state, "gate") =>
             ~state.phys["gate"] \/ state.missed

\* A manifest that says how the run ended lists exactly the points that have a
\* row, and a completed run has a row for every planned point.
ManifestTrue ==
    /\ rec.manifest \notin {"none", "in progress"} => rec.points = Len(rec.rows)
    /\ rec.manifest = "Completed" => rec.rows = [i \in 1..Count |-> "ok"]
\* Once the set-up has switched both outputs on, a row that is not at the limit
\* is taken with both of them on.
RowsDriven == pc = "save" /\ Live(state, "source") /\ run.armed /\ ~run.limited => BothOn
\* How `execute` ends is what really happened to outputs and recordings, and the
\* rows it saved are readings of two driven outputs.
EndsTrue == EndsClosed /\ ManifestTrue /\ RowsDriven

\* Every balanced sweep ends, whatever fails and whenever it is stopped.
BalancedEnds == <>(pc = "ended")
=============================================================================
