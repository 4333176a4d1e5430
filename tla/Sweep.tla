------------------------------- MODULE Sweep -------------------------------
(***************************************************************************)
(* One single-source IV sweep: `execute` of iv-desktop/src/engine.rs with  *)
(* the live monitor (SweepMonitor), the protection helpers, the meter      *)
(* range guard (engine/meter.rs), the source-quantity meter                *)
(* (engine/reference.rs) and the source ramp (engine/workflow.rs).         *)
(*                                                                         *)
(* The engine thread is one process, cut at the points where it looks at   *)
(* the control flags, which the reader thread may set between any two      *)
(* steps.  Any transaction and any write of a recording may fail.          *)
(***************************************************************************)
EXTENDS Integers, Sequences, Instruments

CONSTANTS
    Targets,          \* the planned source levels
    RampStep,         \* config.ramp_step, in the same unit
    AverageCount,     \* config.average_count
    Kits,             \* the instruments there are: source with a condition register,
                      \* meter whose range is watched, second meter
    MaxConversions    \* bound: live conversions in one wait, which the code ends by time

ASSUME SweepAssumption ==
    /\ Targets \in Seq(Int) /\ Targets # <<>>
    /\ RampStep \in Nat \ {0} /\ AverageCount \in Nat \ {0} /\ MaxConversions \in Nat
    /\ Kits \subseteq [profile : BOOLEAN, guarded : BOOLEAN, reference : BOOLEAN]

VARIABLES
    state,     \* the engine's Snapshot, and the instruments behind it
    pc,        \* where `execute` is
    run,       \* its local variables
    ctl,       \* the control flags: stop, off, and quiet (closed or no heartbeat)
    rec,       \* the recordings: CSV rows, raw audit, manifest
    real,      \* external: the level programmed in the source
    trip,      \* history: a tripping observation, and whether OFF was requested
    late       \* history: level writes and rows after a stop or OFF request

vars == <<state, pc, run, ctl, rec, real, trip, late>>

Real == Live(state, "source")
Target == Targets[run.point]
Abs(n) == IF n < 0 THEN -n ELSE n
Sign(n) == IF n < 0 THEN -1 ELSE 1

\* profile: the source model has a condition register.  guarded: the meter's
\* range is watched (meter::monitored).  bias: the gate was on at the start.
\* live, limited: the live monitor, the current record reached the meter limit.
InitRun(profile, guarded, bias) ==
    [profile |-> profile, guarded |-> guarded, bias |-> bias,
     level |-> 0, point |-> 1, reading |-> 1, polls |-> 0,
     stopped |-> FALSE, failed |-> FALSE, comp |-> FALSE, live |-> FALSE, limited |-> FALSE,
     stop |-> "none", cause |-> "none", offErr |-> FALSE, zeroErr |-> FALSE]

\* What serve hands over: source and meter of one kind, the gate and the second
\* meter absent or of the same kind, the source in whatever state it was left.
InitState(kind, gate, bias, reference, out, on, err) ==
    [conn |-> [r \in Roles |-> CASE r = "source2" -> "none"
                                 [] r = "gate" -> IF gate THEN kind ELSE "none"
                                 [] r = "reference" -> IF reference THEN kind ELSE "none"
                                 [] OTHER -> kind],
     out |-> [source |-> out, source2 |-> "Unknown",
              gate |-> CASE bias -> "On" [] gate /\ ~bias -> "Off" [] ~gate -> "Unknown"],
     held |-> [source |-> out = "On", source2 |-> FALSE, gate |-> bias],
     err |-> err, phase |-> "Ready",
     phys |-> [source |-> on, source2 |-> FALSE, gate |-> bias /\ kind = "live"],
     missed |-> FALSE]

Init ==
    /\ \E kind \in Kinds, kit \in Kits, gate, bias, on, err \in BOOLEAN, out \in OutputStates :
          /\ bias => gate
          /\ kind = "sim" => ~kit.profile /\ ~kit.guarded /\ ~on
          /\ (out = "Off" => ~on) /\ (out = "On" /\ kind = "live" => on)
          /\ state = InitState(kind, gate, bias, kit.reference, out, on, err)
          /\ run = InitRun(kit.profile, kit.guarded, bias)
    /\ pc = "preflight"
    /\ ctl = [stop |-> FALSE, off |-> FALSE, quiet |-> FALSE]
    /\ rec = [rows |-> <<>>, csv |-> "none", audit |-> "none", manifest |-> "none",
              evidence |-> "none"]
    /\ real \in {0, Targets[1]}
    /\ trip = "none"
    /\ late = [writes |-> 0, rows |-> 0]

-----------------------------------------------------------------------------
(* The reader thread and the lease *)

\* Mutant: a plain Stop is not looked at.
CancelledByOff == ctl.off \/ ctl.quiet
Cancelled == ctl.stop \/ ctl.quiet
\* What the live monitor looks at instead before it talks to an instrument.
Interrupted == ctl.off \/ ctl.quiet

\* After the last look at the flags a request waits for the next command.
Reader(c) ==
    /\ pc \notin {"off", "gate", "verdict", "csv", "audit", "hashes", "manifest", "settle", "ended"}
    /\ ctl' = c
    /\ UNCHANGED <<state, pc, run, rec, real, trip, late>>
RequestStop == Reader([ctl EXCEPT !.stop = TRUE])
RequestOff == Reader([ctl EXCEPT !.stop = TRUE, !.off = TRUE])
Quiet == Reader([ctl EXCEPT !.quiet = TRUE])
Heartbeat == Reader([ctl EXCEPT !.quiet = FALSE])

-----------------------------------------------------------------------------
(* Ways to go on *)

Goto(p) == pc' = p /\ UNCHANGED run
\* `?` in the measuring closure, and `stopped = true` followed by `break`.
Fail == pc' = "collect" /\ run' = [run EXCEPT !.failed = TRUE]
Halt == pc' = "collect" /\ run' = [run EXCEPT !.stopped = TRUE]
\* An observation after which the source must be OFF before anything else.
Trip(cause) ==
    /\ pc' = "protect"
    /\ run' = [run EXCEPT !.cause = cause,
                          !.comp = @ \/ cause = "limit", !.live = @ \/ cause = "live limit"]
    /\ trip' = "seen"

\* gate::check: its failure ends the run.
GateFails == Real /\ state' \in GateFault(state) /\ Fail /\ UNCHANGED trip
\* check_source_protection: the limiter or an emergency, or no readable status.
SourceTrips(cause) ==
    /\ Real /\ run.profile
    /\ Trip("status") \/ Trip(cause)
    /\ UNCHANGED state
\* RangeGuard::observed, and Observer::query of the second meter.
RangeTrips == Real /\ run.guarded /\ Trip("range") /\ UNCHANGED state
ReferenceTrips == Live(state, "reference") /\ Trip("range") /\ UNCHANGED state
Fails == Fail /\ UNCHANGED <<state, trip>>
Continue(p) == Goto(p) /\ UNCHANGED <<state, trip>>

\* set_level: a failed write may have reached the source.
Write(level, ok) ==
    /\ real' = level \/ (~ok /\ UNCHANGED real)
    /\ late' = IF ctl.stop THEN [late EXCEPT !.writes = @ + 1] ELSE late

-----------------------------------------------------------------------------
(* Before the first point *)

\* Refused, or the source is verified OFF and at zero whatever was shown.
Preflight ==
    LET C == [state EXCEPT !.out["source"] = "Unknown"]
        off == Shown(TurnedOff(C, "source"), "source", "Off")
        taken == IF state.held["source"] THEN Shown(state, "source", "Off") ELSE state
        prepared(S) == [S EXCEPT !.phase = "Preparing", !.err = FALSE]
    IN  /\ pc = "preflight"
        /\ \/ Goto("settle") /\ UNCHANGED <<state, real>>
           \/ ~Real /\ Goto("settle") /\ state' = taken /\ UNCHANGED real
           \/ ~Real /\ Goto("files") /\ state' = prepared(taken) /\ UNCHANGED real
           \/ /\ Real /\ Goto("settle") /\ UNCHANGED real
              /\ state' \in Missed(C, "source") \cup {off}
           \/ Real /\ Goto("files") /\ state' = prepared(off) /\ real' = 0
        /\ UNCHANGED <<ctl, rec, trip, late>>

\* The three recordings are created before anything is switched on.
Files ==
    LET csv == [rec EXCEPT !.csv = "open"]
        audit == [csv EXCEPT !.audit = "open"]
    IN  /\ pc = "files"
        /\ \/ Goto("settle") /\ rec' \in {rec, csv, audit}
           \/ Goto("configure") /\ rec' = [audit EXCEPT !.manifest = "in progress"]
        /\ UNCHANGED <<state, ctl, real, trip, late>>

\* configure and the readbacks of range, function, limit and zero level.
Configure ==
    /\ pc = "configure"
    /\ \/ Real /\ Fails
       \/ RangeTrips
       \/ Real /\ Cancelled /\ Halt /\ UNCHANGED <<state, trip>>
       \/ (Real => ~Cancelled) /\ Continue("on")
    /\ UNCHANGED <<ctl, rec, real, late>>

\* reference::prepare, :OUTP ON and its confirmation.
TurnOn ==
    /\ pc = "on"
    /\ \/ /\ Real /\ Fail
          /\ \E p \in BOOLEAN :
               state' = [state EXCEPT !.out["source"] = "Unknown", !.phys["source"] = p]
       \/ /\ Goto("point")
          /\ state' = [state EXCEPT !.out["source"] = "On", !.phase = "Running",
                                    !.phys["source"] = Real]
    /\ UNCHANGED <<ctl, rec, real, trip, late>>

-----------------------------------------------------------------------------
(* One point: ramp, settle, read, save *)

\* Where the thread looks at the flags, and stops.
Cancel ==
    /\ Cancelled
    /\ \/ pc \in {"check", "wait", "read", "range", "reference"}
       \/ pc = "point" /\ run.point <= Len(Targets)
       \/ pc = "ramp" /\ Abs(run.level - Target) > RampStep
       \/ pc = "display" /\ run.guarded
    /\ Halt
    /\ UNCHANGED <<state, ctl, rec, real, trip, late>>

Point ==
    /\ pc = "point"
    /\ \/ run.point > Len(Targets) /\ Goto("collect")
       \/ run.point <= Len(Targets) /\ ~Cancelled /\ Real /\ Goto("ramp")
       \/ /\ run.point <= Len(Targets) /\ ~Cancelled /\ ~Real
          /\ pc' = "check" /\ run' = [run EXCEPT !.level = Target]
    /\ UNCHANGED <<state, ctl, rec, real, trip, late>>

\* Mutant: the target is set at once.
RampJumps ==
    /\ pc = "ramp"
    /\ \/ pc' = "check" /\ run' = [run EXCEPT !.level = Target] /\ Write(Target, TRUE)
       \/ Fail /\ Write(Target, FALSE)
    /\ UNCHANGED <<state, ctl, rec, trip>>
\* workflow::ramp towards the target, then the exact target.
Ramp ==
    LET far == Abs(run.level - Target) > RampStep
        next == IF far THEN run.level + Sign(Target - run.level) * RampStep ELSE Target
    IN  /\ pc = "ramp"
        /\ far => ~Cancelled
        /\ \/ pc' = "check" /\ run' = [run EXCEPT !.level = next] /\ Write(next, TRUE)
           \/ Fail /\ Write(next, FALSE)
        /\ UNCHANGED <<state, ctl, rec, trip>>

\* SweepMonitor::wait, its entry: gate and source are polled at every level.
Check ==
    /\ pc = "check"
    /\ ~Cancelled
    /\ \/ GateFails \/ SourceTrips("limiter")
       \/ pc' = "wait" /\ run' = [run EXCEPT !.polls = 0] /\ UNCHANGED <<state, trip>>
    /\ UNCHANGED <<ctl, rec, real, late>>

\* Its loop: the time is up, gate and source are polled again, or a live
\* conversion is due.
Wait ==
    /\ pc = "wait"
    /\ ~Cancelled
    /\ \/ GateFails \/ SourceTrips("limiter")
       \/ /\ pc' = IF run.level # Target THEN "ramp" ELSE IF Real THEN "read" ELSE "record"
          /\ run' = [run EXCEPT !.reading = 1]
          /\ UNCHANGED <<state, trip>>
       \/ run.polls < MaxConversions /\ Continue("convert")
    /\ UNCHANGED <<ctl, rec, real, late>>

\* SweepMonitor::acquire up to the limit check of its reading.
Convert ==
    /\ pc = "convert"
    /\ \/ GateFails
       \/ Real /\ Interrupted /\ Fails
       \/ /\ Real /\ ~Interrupted /\ UNCHANGED state
          /\ Trip("reading") \/ Trip("live limit")
       \/ Real /\ ~Interrupted /\ Continue("accept")
       \/ /\ ~Real /\ UNCHANGED <<state, trip>>
          /\ \/ pc' = "wait" /\ run' = [run EXCEPT !.polls = @ + 1]
             \/ pc' = "collect" /\ run' = [run EXCEPT !.stopped = TRUE, !.live = TRUE]
    /\ UNCHANGED <<ctl, rec, real, late>>

\* The rest of it: source status, range, readback, second meter.
Accept ==
    /\ pc = "accept"
    /\ \/ SourceTrips(IF run.guarded THEN "held limiter" ELSE "limiter")
       \/ RangeTrips \/ Fails \/ ReferenceTrips
       \/ Live(state, "reference") /\ (GateFails \/ SourceTrips("late limiter"))
       \/ pc' = "wait" /\ run' = [run EXCEPT !.polls = @ + 1] /\ UNCHANGED <<state, trip>>
    /\ UNCHANGED <<ctl, rec, real, late>>

\* One reading of the average: polls, READ?, and the limit.
Read ==
    /\ pc = "read"
    /\ ~Cancelled
    /\ \/ GateFails \/ SourceTrips("limiter")
       \/ UNCHANGED state /\ (Trip("reading") \/ Trip("limit"))
       \/ Continue("verify")
    /\ UNCHANGED <<ctl, rec, real, late>>

\* Mutant: a limiter seen after the reading is noted and the point goes on.
VerifyKeeps ==
    /\ pc = "verify"
    /\ \/ GateFails
       \/ /\ Real /\ run.profile /\ pc' = "range" /\ run' = [run EXCEPT !.stop = "stop"]
          /\ UNCHANGED <<state, trip>>
       \/ Continue("range")
    /\ UNCHANGED <<ctl, rec, real, late>>
\* Gate and source are polled again after the reading.
Verify ==
    /\ pc = "verify"
    /\ \/ GateFails
       \/ SourceTrips(IF run.guarded THEN "held limiter" ELSE "limiter")
       \/ Continue("range")
    /\ UNCHANGED <<ctl, rec, real, late>>

\* RangeGuard::conversion, then the display queries.
Range ==
    /\ pc = "range"
    /\ RangeTrips \/ Fails \/ (~Cancelled /\ Continue("display"))
    /\ UNCHANGED <<ctl, rec, real, late>>
Display ==
    /\ pc = "display"
    /\ run.guarded => ~Cancelled
    /\ \/ Fails
       \/ /\ UNCHANGED <<state, trip>>
          /\ IF run.reading < AverageCount
               THEN pc' = "read" /\ run' = [run EXCEPT !.reading = @ + 1]
               ELSE Goto("record")
    /\ UNCHANGED <<ctl, rec, real, late>>

\* The readback and the record of the point.  A mean of readings below the
\* limit may round up to it.
Record ==
    /\ pc = "record"
    /\ \/ Fails
       \/ \E limited \in {run.limited, TRUE} :
            /\ run' = [run EXCEPT !.limited = limited]
            /\ pc' = IF Live(state, "reference") /\ ~limited THEN "reference" ELSE "save"
            /\ UNCHANGED <<state, trip>>
    /\ UNCHANGED <<ctl, rec, real, late>>

\* Observer::read of the second meter, then the source again.
Reference ==
    /\ pc = "reference"
    /\ \/ ReferenceTrips \/ Fails \/ SourceTrips("limiter")
       \/ ~Cancelled /\ Continue("save")
    /\ UNCHANGED <<ctl, rec, real, late>>

\* A limited record turns the source off if it is not off already; the row is
\* appended and counted, then the audit follows.
Save ==
    LET off == IF run.limited /\ state.out["source"] # "Off" THEN ProtectionOff(state)
                                                             ELSE {Ok(state)}
        kept == [run EXCEPT !.comp = run.limited]
        saved == /\ rec' = [rec EXCEPT !.rows = Append(@, IF run.limited THEN "limit" ELSE "ok")]
                 /\ late' = IF ctl.stop THEN [late EXCEPT !.rows = @ + 1] ELSE late
        failed == pc' = "collect" /\ run' = [kept EXCEPT !.failed = TRUE]
    IN  /\ pc = "save"
        /\ \E r \in off :
             /\ state' = r.s
             /\ \/ failed /\ UNCHANGED <<rec, late>>
                \/ r.ok /\ failed /\ saved
                \/ /\ r.ok /\ saved
                   /\ IF run.limited
                        THEN pc' = "collect" /\ run' = kept
                        ELSE pc' = "point" /\ run' = [kept EXCEPT !.point = @ + 1]
        /\ UNCHANGED <<ctl, real, trip>>

-----------------------------------------------------------------------------
(* A trip: OFF first, then the evidence *)

\* Mutant: the evidence is written before the OFF request.
ProtectLate ==
    /\ pc = "protect"
    /\ rec' = [rec EXCEPT !.evidence = "saved"]
    /\ \E r \in ProtectionOff(state) : state' = r.s /\ run' = [run EXCEPT !.offErr = ~r.ok]
    /\ trip' = "requested" /\ pc' = "persist"
    /\ UNCHANGED <<ctl, real, late>>
Protect ==
    /\ pc = "protect"
    /\ \E r \in ProtectionOff(state) :
         state' = r.s /\ run' = [run EXCEPT !.offErr = ~r.ok]
    /\ trip' = "requested"
    /\ pc' = "persist"
    /\ UNCHANGED <<ctl, rec, real, late>>

\* Where each trip leads once its evidence is (or could not be) written.  An
\* emergency is a limiter stop with a failure.  A held reading is written after
\* the source status; if that fails the stop itself is not kept.
Persist ==
    \E lost, emergency \in BOOLEAN :
        LET bad == run.offErr \/ lost
            limiter == IF bad \/ emergency THEN "failed" ELSE "stop"
        IN  /\ pc = "persist"
            /\ emergency => run.cause \in {"limiter", "held limiter", "late limiter"}
            /\ rec' = [rec EXCEPT !.evidence = IF lost THEN "lost" ELSE "saved"]
            /\ CASE run.cause \in {"reading", "range", "status"} -> Fail
                 [] run.cause = "limit" ->
                      IF bad THEN Fail
                      ELSE pc' = "record" /\ run' = [run EXCEPT !.limited = TRUE]
                 [] run.cause = "live limit" -> IF bad THEN Fail ELSE Halt
                 [] run.cause = "limiter" ->
                      pc' = "collect" /\ run' = [run EXCEPT !.stopped = TRUE, !.stop = limiter]
                 [] run.cause = "held limiter" ->
                      \/ pc' = "collect" /\ run' = [run EXCEPT !.stopped = TRUE, !.stop = limiter]
                      \/ lost /\ Fail
                 [] run.cause = "late limiter" ->
                      pc' = "collect" /\ run' = [run EXCEPT !.failed = TRUE, !.stop = limiter]
            /\ UNCHANGED <<state, ctl, real, trip, late>>

-----------------------------------------------------------------------------
(* Cleaning up *)

Protected == run.comp \/ run.stop # "none"

\* The end of the measuring closure.  Only without failure or protection is the
\* level handed to the cleanup, to ramp down from.
Collect ==
    /\ pc = "collect"
    /\ run' = [run EXCEPT !.comp = @ \/ run.live, !.live = FALSE, !.limited = FALSE,
                          !.reading = 1, !.polls = 0, !.cause = "none", !.offErr = FALSE,
                          !.level = IF run.failed \/ Protected \/ run.live THEN 0 ELSE @]
    /\ state' = [state EXCEPT !.phase = "CleaningUp"]
    /\ pc' = "zero"
    /\ UNCHANGED <<ctl, rec, real, trip, late>>

\* Mutant: every step is a full one, also the last.
OvershootZero ==
    LET next == run.level - Sign(run.level) * RampStep
    IN  /\ pc = "zero"
        /\ IF Real /\ ~ctl.off /\ run.level # 0
             THEN pc' = "zero" /\ real' = next /\ run' = [run EXCEPT !.level = next]
             ELSE Goto("off") /\ UNCHANGED real
        /\ UNCHANGED <<state, ctl, rec, trip, late>>
\* clean_output ramps a real source to zero first, until it is there, its ten
\* seconds are over, a write fails or OFF is wanted.
Zero ==
    LET ramping == Real /\ ~ctl.off /\ run.level # 0
        next == IF Abs(run.level) <= RampStep THEN 0
                ELSE run.level - Sign(run.level) * RampStep
    IN  /\ pc = "zero"
        /\ \/ Goto("off") /\ UNCHANGED real
           \/ ramping /\ UNCHANGED pc /\ run' = [run EXCEPT !.level = next] /\ real' = next
           \/ /\ ramping /\ pc' = "off" /\ run' = [run EXCEPT !.zeroErr = TRUE]
              /\ real' \in {real, next}
        /\ UNCHANGED <<state, ctl, rec, trip, late>>

\* Mutant: an OFF that is not verified is no error.
OffForgiven ==
    /\ pc = "off" /\ pc' = "gate"
    /\ state' \in {[T EXCEPT !.err = FALSE] : T \in CleanOutput(state)}
    /\ UNCHANGED <<run, ctl, rec, real, trip, late>>
\* The rest of clean_output.  The transport also resets the level of a source
\* it has turned off.
Off ==
    /\ pc = "off" /\ pc' = "gate"
    /\ state' \in {[T EXCEPT !.err = @ \/ run.zeroErr] : T \in CleanOutput(state)}
    /\ real' = IF state'.phys["source"] THEN real ELSE 0
    /\ run' = [run EXCEPT !.level = 0, !.zeroErr = FALSE]
    /\ UNCHANGED <<ctl, rec, trip, late>>

Gate ==
    /\ pc = "gate"
    /\ \E r \in IF run.failed \/ Protected THEN ShutdownGate(state) ELSE {Ok(state)} :
         state' = [r.s EXCEPT !.err = @ \/ ~r.ok]
    /\ Goto("verdict")
    /\ UNCHANGED <<ctl, rec, real, trip, late>>

\* shutdown_gate_for_recording_failure, after an error of the recordings.
RecordingFailed(S) ==
    LET F == [S EXCEPT !.err = TRUE, !.phase = "Failed"]
    IN  IF S.out["gate"] = "On" THEN Outcomes(ShutdownGate(F)) ELSE {F}

CompletionPhase(S) ==
    CASE run.failed \/ S.err \/ run.stop = "failed" -> "Failed"
      [] ~(run.failed \/ S.err) /\ run.stop = "stop" -> "SourceLimitStop"
      [] ~(run.failed \/ S.err) /\ run.stop = "none" ->
           IF run.comp THEN "ComplianceStop" ELSE IF run.stopped THEN "Stopped" ELSE "Completed"

\* The final verification is recorded and the run is judged.
Verdict ==
    /\ pc = "verdict"
    /\ \E S \in {state} \cup RecordingFailed(state) :
         state' = [S EXCEPT !.phase = CompletionPhase(S),
                            !.err = @ \/ run.failed \/ run.stop = "failed"]
    /\ Goto("csv")
    /\ UNCHANGED <<ctl, rec, real, trip, late>>

\* The recordings are made durable, hashed, and the manifest replaced.
CloseCsv ==
    /\ pc = "csv" /\ Goto("audit")
    /\ \/ UNCHANGED state /\ rec' = [rec EXCEPT !.csv = "final"]
       \/ state' \in RecordingFailed(state) /\ UNCHANGED rec
    /\ UNCHANGED <<ctl, real, trip, late>>
CloseAudit ==
    /\ pc = "audit" /\ Goto("hashes")
    /\ \/ UNCHANGED state /\ rec' = [rec EXCEPT !.audit = "final"]
       \/ state' \in RecordingFailed(state) /\ UNCHANGED rec
    /\ UNCHANGED <<ctl, real, trip, late>>
Hashes ==
    /\ pc = "hashes" /\ Goto("manifest")
    /\ state' \in {state} \cup RecordingFailed(state)
    /\ UNCHANGED <<ctl, rec, real, trip, late>>
Manifest ==
    /\ pc = "manifest" /\ Goto("ended")
    /\ \/ UNCHANGED state /\ rec' = [rec EXCEPT !.manifest = state.phase]
       \/ state' \in RecordingFailed(state) /\ UNCHANGED rec
    /\ UNCHANGED <<ctl, real, trip, late>>

\* What serve does with an error that `execute` returns.
Settle ==
    /\ pc = "settle" /\ Goto("ended")
    /\ state' \in ErrorPath(state)
    /\ UNCHANGED <<ctl, rec, real, trip, late>>

-----------------------------------------------------------------------------
Execute ==
    \/ Preflight \/ Files \/ Configure \/ TurnOn
    \/ Cancel \/ Point \/ Ramp \/ Check \/ Wait \/ Convert \/ Accept
    \/ Read \/ Verify \/ Range \/ Display \/ Record \/ Reference \/ Save
    \/ Protect \/ Persist
    \/ Collect \/ Zero \/ Off \/ Gate \/ Verdict
    \/ CloseCsv \/ CloseAudit \/ Hashes \/ Manifest \/ Settle
Next == Execute \/ RequestStop \/ RequestOff \/ Quiet \/ Heartbeat
\* The engine thread is scheduled, and every transaction and write returns.
Spec == Init /\ [][Next]_vars /\ WF_vars(Execute)

-----------------------------------------------------------------------------
(* Properties. *)

\* A run that does not end as failed is clean in every respect: the source is
\* verified OFF, no error is latched, nothing of its evidence was lost, CSV and
\* audit are durable, and the manifest on disk says how it ended; the gate's bias
\* is kept if it completed or was stopped, and after a protection stop the gate
\* is off, or its OFF was tried and could not be verified.
CleanVerdict ==
    pc = "ended" /\ state.phase # "Failed" =>
        /\ state.out["source"] = "Off" /\ ~state.phys["source"] /\ ~state.err
        /\ rec.evidence # "lost"
        /\ rec.csv = "final" /\ rec.audit = "final" /\ rec.manifest = state.phase
        /\ Live(state, "gate") =>
             IF state.phase \in {"Completed", "Stopped"} THEN state.phys["gate"] = run.bias
             ELSE ~state.phys["gate"] \/ state.missed

\* The analysis CSV: a completed run has a row for every target and none at the
\* meter limit; a row at the limit is the last one; and a target at which the
\* source's hardware limiter was seen has no row.
RowsTrue ==
    /\ \A i \in 1..Len(rec.rows) - 1 : rec.rows[i] = "ok"
    /\ run.stop # "none" => Len(rec.rows) < run.point
    /\ pc = "ended" /\ state.phase = "Completed" =>
         rec.rows = [i \in 1..Len(Targets) |-> "ok"]

\* After a tripping observation the OFF request comes before anything is
\* recorded, and while the output is on no level is written any more, not even
\* to return to zero.
OffFirst ==
    [][/\ trip = "seen" => rec' = rec
       /\ trip # "none" /\ state'.phys["source"] => real' = real]_vars

\* The source is switched on only at level zero, and while it is on its level
\* moves by at most one ramp step, through every stop and cleanup.
SlewBounded ==
    [][Real /\ state'.phys["source"] =>
         IF state.phys["source"] THEN Abs(real' - real) <= RampStep ELSE real' = 0]_vars

\* After a stop or OFF request at most one more level is set on the way to a
\* target and at most one more row is saved.
StopBounded == late.writes <= 1 /\ late.rows <= 1

\* Every sweep ends, whatever fails and whenever it is stopped.
RunEnds == <>(pc = "ended")

\* engine.rs: every sweep failure shuts the gate down as part of the same
\* fail-closed transition.
FailureClosesGate ==
    pc = "ended" /\ state.phase = "Failed" /\ Live(state, "gate") =>
        ~state.phys["gate"] \/ state.missed
=============================================================================
