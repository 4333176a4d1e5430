---------------------------- MODULE Sweep_proofs ----------------------------
(* Theorems about Sweep, for any planned levels, ramp step, averages and       *)
(* instruments.                                                                *)
EXTENDS Sweep, TLAPS

-----------------------------------------------------------------------------
(* The inductive invariant *)

\* The parts of `execute`.
Starting == {"preflight", "files", "configure", "on"}
Measuring == {"point", "ramp", "check", "wait", "convert", "accept", "read", "verify", "range",
              "display", "record", "reference", "save"}
Tripped == {"protect", "persist"}
Judged == {"csv", "audit", "hashes", "manifest", "ended"}
Cleaning == {"collect", "zero", "off", "gate", "verdict"}
Ending == Cleaning \cup Judged \cup {"settle"}

Phases == {"Ready", "Preparing", "Running", "CleaningUp", "Failed", "SourceLimitStop",
           "ComplianceStop", "Stopped", "Completed"}
Snapshot == [conn : [Roles -> Kinds \cup {"none"}], out : [Outputs -> OutputStates],
             held : [Outputs -> BOOLEAN], err : BOOLEAN, phase : Phases,
             phys : [Outputs -> BOOLEAN], missed : BOOLEAN]
Causes == {"none", "limit", "live limit", "reading", "range", "status",
           "limiter", "held limiter", "late limiter"}
Locals == [profile : BOOLEAN, guarded : BOOLEAN, bias : BOOLEAN,
           level : Int, point : Nat \ {0}, reading : Nat, polls : Nat,
           stopped : BOOLEAN, failed : BOOLEAN, comp : BOOLEAN, live : BOOLEAN, limited : BOOLEAN,
           stop : {"none", "stop", "failed"}, cause : Causes, offErr : BOOLEAN, zeroErr : BOOLEAN]
Row == {"ok", "limit"}
Recordings == [rows : Seq(Row), csv : {"none", "open", "final"}, audit : {"none", "open", "final"},
               manifest : {"none", "in progress"} \cup Phases, evidence : {"none", "saved", "lost"}]

\* The types; no second source is connected; a simulated source is never on.
TypeInv ==
    /\ pc \in Starting \cup Measuring \cup Tripped \cup Ending
    /\ state \in Snapshot /\ state.conn["source2"] = "none"
    /\ run \in Locals
    /\ ctl \in [stop : BOOLEAN, off : BOOLEAN, quiet : BOOLEAN]
    /\ rec \in Recordings
    /\ real \in Int /\ trip \in {"none", "seen", "requested"}
    /\ late \in [writes : Nat, rows : Nat]
    /\ ~Real => ~state.phys["source"]

\* The measuring closure has left no verdict while it still runs.
OpenInv ==
    /\ pc \in Starting \cup Measuring \cup Tripped => ~run.failed /\ ~run.stopped /\ run.stop = "none"
    /\ pc \in Starting \cup Measuring => ~run.live /\ (run.comp => run.limited)
    /\ pc \in Tripped => ~run.limited /\ (run.comp <=> run.cause = "limit")
                         /\ (run.live <=> run.cause = "live limit") /\ run.cause # "none"
    /\ pc \in Starting \cup Measuring /\ run.limited => pc = "save" \/ (pc = "record" /\ trip # "none")

\* Where a trip can be: at its OFF request, at its evidence, in the record of the
\* limit, or in a cleanup that has no level to ramp from.
TripInv ==
    /\ trip = "seen" <=> pc = "protect"
    /\ trip # "none" => pc \in {"protect", "persist", "record", "save"} \cup Ending
    /\ pc = "persist" => trip # "none"
    /\ pc \in {"record", "save"} /\ trip # "none" => run.limited
    /\ pc = "collect" /\ trip # "none" => run.failed \/ run.comp \/ run.live \/ run.stop # "none"
    /\ pc \in {"zero", "off"} /\ trip # "none" => run.level = 0

\* The level the engine believes in is the one programmed, wherever it is used.
LevelInv ==
    /\ pc \in {"preflight", "files", "configure", "on"} => run.level = 0
    /\ pc \in {"files", "configure", "on"} /\ Real => real = 0 /\ ~state.phys["source"]
    /\ pc \in Measuring \cup Tripped \cup {"collect"} /\ Real => run.failed \/ real = run.level
    /\ pc = "zero" /\ Real /\ run.level # 0 => real = run.level

\* What was done after a stop, and where that leaves the thread.
LateInv ==
    /\ late.writes > 0 => late.writes = 1 /\ ctl.stop /\ pc \in {"check"} \cup Ending
    /\ late.rows > 0 => late.rows = 1 /\ ctl.stop /\ pc \in {"point"} \cup Ending

\* The rows while points are measured, and afterwards.
RowsInv ==
    /\ pc \in Starting => run.point = 1 /\ rec.rows = <<>>
    /\ pc \in Measuring \cup Tripped =>
         /\ Len(rec.rows) = run.point - 1 /\ run.point <= Len(Targets) + 1
         /\ \A i \in 1..Len(rec.rows) : rec.rows[i] = "ok"
    /\ pc \in Ending =>
         /\ \A i \in 1..Len(rec.rows) - 1 : rec.rows[i] = "ok"
         /\ run.stop # "none" => Len(rec.rows) < run.point
    /\ pc \in Measuring \cup Tripped /\ pc # "point" => run.point <= Len(Targets)
    /\ \/ /\ pc \in Cleaning /\ run.stop = "none"
          /\ ~(run.failed \/ run.stopped \/ run.comp \/ run.live)
       \/ pc \in Judged /\ state.phase = "Completed"
       => rec.rows = [i \in 1..Len(Targets) |-> "ok"]

\* What the verdict rests on: a lost evidence or an open gate has failed the run.
GateKept == Live(state, "gate") => state.phys["gate"] = run.bias
GateShut == Live(state, "gate") => ~state.phys["gate"] \/ state.missed
VerdictInv ==
    /\ rec.evidence = "lost" => pc \in Ending
    /\ rec.evidence = "lost" /\ pc \in Cleaning => run.failed \/ run.stop = "failed"
    /\ pc \in Cleaning => run.failed \/ GateKept \/ (pc = "verdict" /\ Protected)
    /\ pc \in Starting \cup Measuring \cup Tripped => GateKept
    /\ pc \in {"gate", "verdict"} => state.err \/ (state.out["source"] = "Off" /\ ~state.phys["source"])
    /\ pc \in {"zero", "off", "gate", "verdict"} => ~run.live
    /\ pc = "verdict" /\ (run.failed \/ Protected) => GateShut
    /\ pc \in Judged /\ state.phase # "Failed" =>
         /\ state.out["source"] = "Off" /\ ~state.phys["source"] /\ ~state.err
         /\ rec.evidence # "lost"
         /\ pc # "csv" => rec.csv = "final"
         /\ pc \notin {"csv", "audit"} => rec.audit = "final"
         /\ pc = "ended" => rec.manifest = state.phase
         /\ IF state.phase \in {"Completed", "Stopped"} THEN GateKept ELSE GateShut

Inv == TypeInv /\ OpenInv /\ TripInv /\ LevelInv /\ LateInv /\ RowsInv /\ VerdictInv

-----------------------------------------------------------------------------
(* The instruments.  In a single-source sweep no second source is connected. *)

\* T differs from S in the gate only.
GateOnly(S, T) ==
    /\ T \in Snapshot /\ T.conn = S.conn /\ T.err = S.err /\ T.phase = S.phase
    /\ T.phys["source"] = S.phys["source"] /\ T.out["source"] = S.out["source"]

\* T differs from S in the source, which was not turned on.
SourceOnly(S, T) ==
    /\ T \in Snapshot /\ T.conn = S.conn
    /\ T.phys["gate"] = S.phys["gate"] /\ T.missed = S.missed
    /\ T.phys["source"] => S.phys["source"]

\* Results of the helpers.
LEMMA Results ==
    \A S : Ok(S).ok = TRUE /\ Ok(S).s = S /\ Err(S).ok = FALSE /\ Err(S).s = S
BY DEF Ok, Err

\* What is shown of an output.
LEMMA ShownFacts ==
    ASSUME NEW S \in Snapshot, NEW r \in Outputs, NEW v \in OutputStates
    PROVE  /\ Shown(S, r, v) \in Snapshot /\ Shown(S, r, v).out[r] = v
           /\ Shown(S, r, v).conn = S.conn /\ Shown(S, r, v).err = S.err /\ Shown(S, r, v).phase = S.phase
           /\ Shown(S, r, v).phys = S.phys /\ Shown(S, r, v).missed = S.missed
           /\ \A q \in Outputs \ {r} : Shown(S, r, v).out[q] = S.out[q]
BY DEF Shown, Snapshot

\* An output turned off and verified.
LEMMA TurnedOffFacts ==
    ASSUME NEW S \in Snapshot, NEW r \in Outputs
    PROVE  /\ TurnedOff(S, r) \in Snapshot /\ TurnedOff(S, r).phys[r] = FALSE
           /\ TurnedOff(S, r).conn = S.conn /\ TurnedOff(S, r).err = S.err
           /\ TurnedOff(S, r).phase = S.phase /\ TurnedOff(S, r).out = S.out
           /\ r # "gate" => TurnedOff(S, r).missed = S.missed
           /\ \A q \in Outputs \ {r} : TurnedOff(S, r).phys[q] = S.phys[q]
BY DEF TurnedOff, Known, Snapshot

\* An OFF that could not be verified.
LEMMA MissedFacts ==
    ASSUME NEW S \in Snapshot, NEW r \in Outputs, NEW T \in Missed(S, r)
    PROVE  /\ T \in Snapshot /\ T.conn = S.conn /\ T.err = S.err /\ T.phase = S.phase /\ T.out = S.out
           /\ T.phys[r] => S.phys[r]
           /\ \A q \in Outputs \ {r} : T.phys[q] = S.phys[q]
           /\ r = "gate" => T.missed
           /\ r # "gate" => T.missed = S.missed
<1>1. PICK p \in {FALSE, S.phys[r]} : T = [S EXCEPT !.phys[r] = p, !.missed = S.missed \/ r = "gate"]
  BY DEF Missed
<1>2. p \in BOOLEAN /\ (p => S.phys[r])
  BY DEF Snapshot
<1> QED BY <1>1, <1>2 DEF Snapshot

\* force_off of the gate.
LEMMA ForceOffGate ==
    ASSUME NEW S \in Snapshot, NEW q \in ForceOff(S, "gate")
    PROVE  /\ GateOnly(S, q.s) /\ q.ok \in BOOLEAN
           /\ Live(S, "gate") => ~q.s.phys["gate"] \/ q.s.missed
<1> DEFINE g == "gate"
<1>0. g \in Outputs /\ "source" \in Outputs \ {g} /\ {"Off", "Unknown"} \subseteq OutputStates
  BY DEF Outputs, OutputStates
<1>1. CASE ~Live(S, g) /\ q = Ok(Shown(S, g, "Off"))
  <2>1. GateOnly(S, Shown(S, g, "Off"))
    BY <1>0, ShownFacts DEF GateOnly
  <2> QED BY <1>1, <2>1, Results
<1>2. CASE q = Ok(Shown(TurnedOff(S, g), g, "Off"))
  <2> DEFINE D == TurnedOff(S, g)
  <2>1. D \in Snapshot /\ GateOnly(S, D) /\ D.phys[g] = FALSE
    BY <1>0, TurnedOffFacts DEF GateOnly
  <2> HIDE DEF D
  <2>2. GateOnly(S, Shown(D, g, "Off")) /\ Shown(D, g, "Off").phys = D.phys
    BY <1>0, <2>1, ShownFacts DEF GateOnly
  <2> QED BY <1>2, <2>1, <2>2, Results DEF D
<1>3. ASSUME NEW T \in Missed(S, g), q = Err(Shown(T, g, "Unknown")) \/ q = Err(T)
      PROVE  GateOnly(S, q.s) /\ q.ok \in BOOLEAN /\ q.s.missed
  <2>1. T \in Snapshot /\ GateOnly(S, T) /\ T.missed
    BY <1>0, MissedFacts DEF GateOnly
  <2>2. GateOnly(S, Shown(T, g, "Unknown")) /\ Shown(T, g, "Unknown").missed
    BY <1>0, <2>1, ShownFacts DEF GateOnly
  <2> QED BY <1>3, <2>1, <2>2, Results
<1> QED BY <1>1, <1>2, <1>3 DEF ForceOff

\* shutdown_gate.
LEMMA ShutdownGateFacts ==
    ASSUME NEW S \in Snapshot, NEW q \in ShutdownGate(S)
    PROVE  /\ GateOnly(S, q.s) /\ q.ok \in BOOLEAN
           /\ Live(S, "gate") => ~q.s.phys["gate"] \/ q.s.missed
<1>1. CASE Connected(S, "gate")
  BY <1>1, ForceOffGate DEF ShutdownGate
<1>2. CASE ~Connected(S, "gate")
  BY <1>2, Results DEF ShutdownGate, GateOnly, Connected, Live
<1> QED BY <1>1, <1>2

\* gate::check that fails.
LEMMA GateFaultFacts ==
    ASSUME NEW S \in Snapshot, NEW T \in GateFault(S)
    PROVE  GateOnly(S, T)
<1> DEFINE g == "gate"
<1>0. g \in Outputs /\ "source" \in Outputs \ {g} /\ "Unknown" \in OutputStates
  BY DEF Outputs, OutputStates
<1>1. T = S \/ \E q \in ForceOff(S, g) : T = q.s \/ T = Shown(q.s, g, "Unknown")
  BY DEF GateFault, CheckFault, Outcomes, FailClosed, Err
<1>2. CASE T = S
  BY <1>2 DEF GateOnly
<1>3. ASSUME NEW q \in ForceOff(S, g), T = q.s \/ T = Shown(q.s, g, "Unknown")
      PROVE  GateOnly(S, T)
  <2>1. q.s \in Snapshot /\ GateOnly(S, q.s)
    BY ForceOffGate DEF GateOnly
  <2>2. GateOnly(S, Shown(q.s, g, "Unknown"))
    BY <1>0, <2>1, ShownFacts DEF GateOnly
  <2> QED BY <1>3, <2>1, <2>2
<1> QED BY <1>1, <1>2, <1>3

\* The snapshot while the source is being turned off.
LEMMA UnknownFacts ==
    ASSUME NEW S \in Snapshot, NEW C, C = [S EXCEPT !.out["source"] = "Unknown"]
    PROVE  /\ C \in Snapshot /\ C.conn = S.conn /\ C.err = S.err /\ C.phase = S.phase
           /\ C.phys = S.phys /\ C.missed = S.missed
BY DEF Snapshot, OutputStates, Outputs

\* protection_output_off.
LEMMA ProtectionOffFacts ==
    ASSUME NEW S \in Snapshot, S.conn["source2"] = "none", NEW q \in ProtectionOff(S)
    PROVE  /\ SourceOnly(S, q.s) /\ q.ok \in BOOLEAN /\ q.s.err = S.err /\ q.s.phase = S.phase
           /\ q.ok => ~q.s.phys["source"] /\ q.s.out["source"] = "Off"
<1> DEFINE C == [S EXCEPT !.out["source"] = "Unknown"]
           r == "source"
           D == TurnedOff(C, r)
           off == [D EXCEPT !.out["source"] = "Off"]
<1>0. r \in Outputs /\ r # "gate" /\ "gate" \in Outputs \ {r}
  BY DEF Outputs
<1>1. /\ C \in Snapshot /\ C.conn = S.conn /\ C.err = S.err /\ C.phase = S.phase
      /\ C.phys = S.phys /\ C.missed = S.missed
  BY UnknownFacts
<1>2. q = Ok(off) \/ \E T \in Missed(C, r) : q = Err(T)
  BY DEF ProtectionOff, Connected
<1> HIDE DEF C
<1>3. CASE q = Ok(off)
  <2>1. /\ D \in Snapshot /\ D.phys[r] = FALSE /\ D.conn = S.conn /\ D.err = S.err
        /\ D.phase = S.phase /\ D.missed = S.missed /\ D.phys["gate"] = S.phys["gate"]
    <3>1. /\ D \in Snapshot /\ D.phys[r] = FALSE /\ D.conn = C.conn /\ D.err = C.err /\ D.phase = C.phase
          /\ D.missed = C.missed /\ \A p \in Outputs \ {r} : D.phys[p] = C.phys[p]
      BY <1>0, <1>1, TurnedOffFacts
    <3> HIDE DEF D
    <3> QED BY <1>0, <1>1, <3>1
  <2> HIDE DEF D
  <2>2. /\ off \in Snapshot /\ off.conn = D.conn /\ off.err = D.err /\ off.phase = D.phase
        /\ off.phys = D.phys /\ off.missed = D.missed /\ off.out["source"] = "Off"
    BY <2>1 DEF Snapshot, OutputStates, Outputs
  <2> HIDE DEF off
  <2> QED BY <1>3, <2>1, <2>2, Results DEF SourceOnly
<1>4. ASSUME NEW T \in Missed(C, r), q = Err(T) PROVE SourceOnly(S, T) /\ T.err = S.err /\ T.phase = S.phase
  BY <1>0, <1>1, MissedFacts DEF SourceOnly
<1>5. ASSUME NEW T \in Missed(C, r), q = Err(T)
      PROVE  SourceOnly(S, q.s) /\ q.ok = FALSE /\ q.s.err = S.err /\ q.s.phase = S.phase
  BY <1>4, <1>5, Results
<1> QED BY <1>2, <1>3, <1>5

\* clean_output: the source is verified OFF, or the error is latched.
LEMMA CleanOutputFacts ==
    ASSUME NEW S \in Snapshot, S.conn["source2"] = "none", ~Live(S, "source") => ~S.phys["source"],
           NEW T \in CleanOutput(S)
    PROVE  /\ SourceOnly(S, T)
           /\ T.err \/ (T.out["source"] = "Off" /\ ~T.phys["source"])
<1> DEFINE B == [S EXCEPT !.phase = "CleaningUp"]
           C == [S EXCEPT !.phase = "CleaningUp", !.out["source"] = "Unknown"]
           r == "source"
           D == TurnedOff(C, r)
           failed(U) == [U EXCEPT !.err = TRUE]
<1>0. r \in Outputs /\ r # "gate" /\ "gate" \in Outputs \ {r} /\ "Off" \in OutputStates
  BY DEF Outputs, OutputStates
<1>1. C \in Snapshot /\ C.conn = S.conn /\ C.phys = S.phys /\ C.missed = S.missed
  BY DEF Snapshot, OutputStates, Outputs, Phases
<1>2. ASSUME NEW U \in Snapshot
      PROVE  /\ failed(U) \in Snapshot /\ failed(U).conn = U.conn /\ failed(U).phys = U.phys
             /\ failed(U).missed = U.missed /\ failed(U).err
  BY DEF Snapshot
<1>3. \/ S.conn[r] # "live" /\ T = Shown(C, r, "Off")
      \/ T = failed(C)
      \/ T = Shown(TurnedOff(C, r), r, "Off")
      \/ \E U \in Missed(C, r) : T = failed(U)
  <2>1. CASE S.conn[r] = "live"
    BY <2>1 DEF CleanOutput, Connected
  <2>2. CASE S.conn[r] = "sim"
    BY <2>2 DEF CleanOutput, Connected
  <2>3. CASE S.conn[r] = "none"
    BY <2>3 DEF CleanOutput, Connected
  <2>4. S.conn[r] \in {"live", "sim", "none"}
    BY DEF Snapshot, Roles, Outputs, Kinds
  <2> QED BY <2>1, <2>2, <2>3, <2>4
<1> HIDE DEF C, failed
<1>4. CASE S.conn[r] # "live" /\ T = Shown(C, r, "Off")
  BY <1>0, <1>1, <1>4, ShownFacts DEF SourceOnly, Live
<1>5. CASE T = failed(C)
  BY <1>1, <1>2, <1>5 DEF SourceOnly
<1>6. CASE T = Shown(TurnedOff(C, r), r, "Off")
  <2>1. /\ D \in Snapshot /\ D.phys[r] = FALSE /\ D.conn = S.conn
        /\ D.missed = S.missed /\ D.phys["gate"] = S.phys["gate"]
    <3>1. /\ D \in Snapshot /\ D.phys[r] = FALSE /\ D.conn = C.conn
          /\ D.missed = C.missed /\ \A p \in Outputs \ {r} : D.phys[p] = C.phys[p]
      BY <1>0, <1>1, TurnedOffFacts
    <3> HIDE DEF D
    <3> QED BY <1>0, <1>1, <3>1
  <2> HIDE DEF D
  <2> QED BY <1>0, <1>6, <2>1, ShownFacts DEF SourceOnly, D
<1>7. ASSUME NEW U \in Missed(C, r), T = failed(U) PROVE SourceOnly(S, T) /\ T.err
  <2>1. U \in Snapshot /\ U.conn = S.conn /\ U.missed = S.missed
        /\ U.phys["gate"] = S.phys["gate"] /\ (U.phys[r] => S.phys[r])
    BY <1>0, <1>1, MissedFacts
  <2> QED BY <1>2, <1>7, <2>1 DEF SourceOnly
<1> QED BY <1>3, <1>4, <1>5, <1>6, <1>7

\* What serve does with the error of a sweep.
LEMMA ErrorPathFacts ==
    ASSUME NEW S \in Snapshot, S.conn["source2"] = "none", NEW T \in ErrorPath(S)
    PROVE  /\ T \in Snapshot /\ T.conn = S.conn /\ T.phase = "Failed"
           /\ T.phys["source"] = S.phys["source"]
<1>1. PICK q \in ShutdownGate(S) : T = [q.s EXCEPT !.phase = "Failed", !.err = TRUE]
  <2>1. T \in {[U EXCEPT !.phase = "Failed", !.err = TRUE] : U \in UNION {Outcomes(ShutdownGate(c)) : c \in {S}}}
    BY DEF ErrorPath, Connected
  <2>2. PICK U \in Outcomes(ShutdownGate(S)) : T = [U EXCEPT !.phase = "Failed", !.err = TRUE]
    BY <2>1
  <2> QED BY <2>2 DEF Outcomes
<1>2. GateOnly(S, q.s)
  BY ShutdownGateFacts
<1> QED BY <1>1, <1>2 DEF GateOnly, Snapshot, Phases

\* shutdown_gate_for_recording_failure.
LEMMA RecordingFailedFacts ==
    ASSUME NEW S \in Snapshot, NEW T \in RecordingFailed(S)
    PROVE  /\ T \in Snapshot /\ T.conn = S.conn /\ T.phase = "Failed" /\ T.err = TRUE
           /\ T.phys["source"] = S.phys["source"]
<1> DEFINE F == [S EXCEPT !.err = TRUE, !.phase = "Failed"]
<1>1. /\ F \in Snapshot /\ F.conn = S.conn /\ F.phase = "Failed" /\ F.err = TRUE
      /\ F.phys["source"] = S.phys["source"]
  BY DEF Snapshot, Phases
<1>2. T = F \/ \E q \in ShutdownGate(F) : T = q.s
  BY DEF RecordingFailed, Outcomes
<1> HIDE DEF F
<1>3. ASSUME NEW q \in ShutdownGate(F) PROVE GateOnly(F, q.s)
  BY <1>1, ShutdownGateFacts
<1> QED BY <1>1, <1>2, <1>3 DEF GateOnly

-----------------------------------------------------------------------------
(* How a step of the measuring closure may go on *)

\* `?`: the failure is noted.
LEMMA FailFacts ==
    ASSUME run \in Locals, Fail
    PROVE  /\ pc' = "collect" /\ run' \in Locals /\ run'.failed = TRUE
           /\ run'.point = run.point /\ run'.stop = run.stop
BY DEF Fail, Locals

\* `stopped = true` and `break`.
LEMMA HaltFacts ==
    ASSUME run \in Locals, Halt
    PROVE  /\ pc' = "collect" /\ run' \in Locals /\ run'.stopped = TRUE
           /\ run'.level = run.level /\ run'.point = run.point /\ run'.failed = run.failed
           /\ run'.stop = run.stop /\ run'.bias = run.bias
BY DEF Halt, Locals

\* A trip: the cause is noted.
LEMMA TripFacts ==
    ASSUME run \in Locals, NEW cause \in Causes, Trip(cause)
    PROVE  /\ pc' = "protect" /\ run' \in Locals /\ run'.cause = cause /\ trip' = "seen"
           /\ run'.comp = (run.comp \/ cause = "limit") /\ run'.live = (run.live \/ cause = "live limit")
           /\ run'.level = run.level /\ run'.point = run.point /\ run'.stopped = run.stopped
           /\ run'.stop = run.stop /\ run'.limited = run.limited /\ run'.failed = run.failed
           /\ run'.bias = run.bias
BY DEF Trip, Locals

\* The rows of the CSV.
LEMMA RowsType ==
    ASSUME Inv
    PROVE  rec.rows \in Seq(Row) /\ Len(rec.rows) \in Nat
<1>1. rec.rows \in Seq(Row)
  BY DEF Inv, TypeInv, Recordings
<1> QED BY <1>1

\* Before the end nothing late has been done, except just before a look at the
\* flags.
LEMMA NotLate ==
    ASSUME Inv, pc \notin Ending, pc \notin {"check", "point"} \/ ~Cancelled
    PROVE  late.writes = 0 /\ late.rows = 0
BY DEF Inv, TypeInv, LateInv, Cancelled

\* A failure of the measuring closure.
LEMMA FailInv ==
    ASSUME Inv, pc \in Measuring \cup {"configure", "on"}, Fail, UNCHANGED <<rec, ctl, trip>>,
           state' \in Snapshot, state'.conn = state.conn, ~Real => ~state'.phys["source"],
           real' \in Int, late' \in [writes : Nat, rows : Nat], LateInv'
    PROVE  Inv'
<1> USE DEF Inv
<1>1. /\ pc' = "collect" /\ run' \in Locals /\ run'.failed = TRUE
      /\ run'.point = run.point /\ run'.stop = run.stop
  BY FailFacts DEF TypeInv
<1>2. TypeInv'
  BY <1>1 DEF TypeInv, Ending, Cleaning, Real, Live
<1>3. OpenInv' /\ TripInv' /\ LevelInv'
  BY <1>1 DEF OpenInv, TripInv, LevelInv, Starting, Measuring, Tripped, Ending, Cleaning
<1>4. RowsInv'
  <2>1. run.stop = "none"
    BY DEF OpenInv, Starting
  <2>2. pc' \notin Starting \cup Measuring \cup Tripped \cup Judged
    BY <1>1 DEF Starting, Measuring, Tripped, Judged
  <2>3. Len(rec.rows) \in Nat
    BY RowsType
  <2>4. \A i \in 1..Len(rec.rows) - 1 : rec.rows[i] = "ok"
    BY <2>3 DEF RowsInv, Starting
  <2> QED BY <1>1, <2>1, <2>2, <2>4 DEF RowsInv
<1>5. VerdictInv'
  BY <1>1 DEF VerdictInv, Starting, Measuring, Tripped, Ending, Cleaning, Judged
<1> QED BY <1>2, <1>3, <1>4, <1>5

\* The closure ends with the level as it is.
LEMMA HaltInv ==
    ASSUME Inv, pc \in (Measuring \ {"record", "save"}) \cup {"configure"},
           pc' = "collect", run' \in Locals, run'.stopped = TRUE,
           run'.level = run.level, run'.point = run.point, run'.failed = run.failed,
           run'.stop = run.stop, run'.bias = run.bias,
           UNCHANGED <<state, rec, ctl, real, trip, late>>
    PROVE  Inv'
<1> USE DEF Inv
<1>1. TypeInv'
  BY DEF TypeInv, Ending, Cleaning, Real, Live
<1>2. run.stop = "none" /\ trip = "none" /\ ~run.failed
  BY DEF OpenInv, TripInv, Starting, Measuring, Ending, Cleaning, Judged
<1>3. OpenInv' /\ TripInv' /\ LateInv'
  BY <1>2 DEF OpenInv, TripInv, LateInv, Starting, Measuring, Tripped, Ending, Cleaning
<1>4. LevelInv'
  BY <1>2 DEF LevelInv, Starting, Measuring, Tripped, Real, Live
<1>5. RowsInv'
  <2>1. pc' \notin Starting \cup Measuring \cup Tripped \cup Judged
    BY DEF Starting, Measuring, Tripped, Judged
  <2>2. Len(rec.rows) \in Nat
    BY RowsType
  <2>3. \A i \in 1..Len(rec.rows) - 1 : rec.rows[i] = "ok"
    BY <2>2 DEF RowsInv, Starting
  <2> QED BY <1>2, <2>1, <2>3 DEF RowsInv
<1>6. VerdictInv'
  BY DEF VerdictInv, GateKept, Starting, Measuring, Tripped, Ending, Cleaning, Judged, Live
<1> QED BY <1>1, <1>3, <1>4, <1>5, <1>6

\* A trip in the measuring closure.
LEMMA TripInvariant ==
    ASSUME Inv, pc \in (Measuring \ {"record", "save"}) \cup {"configure"},
           pc \notin {"check", "point"} \/ ~Cancelled, pc = "point" => run.point <= Len(Targets),
           NEW cause \in Causes \ {"none"}, Trip(cause), UNCHANGED <<state, rec, ctl, real, late>>
    PROVE  Inv'
<1> USE DEF Inv
<1>1. /\ pc' = "protect" /\ run' \in Locals /\ run'.cause = cause /\ trip' = "seen"
      /\ run'.comp = (run.comp \/ cause = "limit") /\ run'.live = (run.live \/ cause = "live limit")
      /\ run'.level = run.level /\ run'.point = run.point /\ run'.stopped = run.stopped
      /\ run'.stop = run.stop /\ run'.limited = run.limited /\ run'.failed = run.failed
      /\ run'.bias = run.bias
  BY TripFacts DEF TypeInv
<1>2. TypeInv'
  BY <1>1 DEF TypeInv, Tripped, Real, Live
<1>3. run.stop = "none" /\ trip = "none" /\ ~run.failed /\ ~run.stopped /\ ~run.live /\ ~run.comp /\ ~run.limited
  BY DEF OpenInv, TripInv, Starting, Measuring, Ending, Cleaning, Judged
<1>4. OpenInv'
  BY <1>1, <1>3 DEF OpenInv, Starting, Measuring, Tripped
<1>5. TripInv'
  BY <1>1, <1>3 DEF TripInv
<1>6. LevelInv'
  BY <1>1, <1>3 DEF LevelInv, Starting, Measuring, Tripped, Real, Live
<1>7. LateInv'
  <2>1. late.writes = 0 /\ late.rows = 0
    BY NotLate DEF Starting, Measuring, Ending, Cleaning, Judged
  <2> QED BY <2>1 DEF LateInv
<1>8. RowsInv'
  <2>1. pc' \in Tripped /\ pc' \notin Starting \cup Ending
    BY <1>1 DEF Starting, Tripped, Ending, Cleaning, Judged
  <2>2. /\ Len(rec.rows) = run.point - 1 /\ run.point <= Len(Targets)
        /\ \A i \in 1..Len(rec.rows) : rec.rows[i] = "ok"
    <3>1. Len(Targets) \in Nat /\ Len(Targets) > 0
      BY SweepAssumption
    <3> QED BY <3>1 DEF RowsInv, Starting
  <2>3. run.point \in Nat /\ Len(Targets) \in Nat
    BY SweepAssumption DEF TypeInv, Locals
  <2>4. pc' \notin Cleaning \cup Judged
    BY <2>1 DEF Ending
  <2>5. run.point <= Len(Targets) + 1
    BY <2>2, <2>3
  <2> QED BY <1>1, <2>1, <2>2, <2>4, <2>5 DEF RowsInv
<1>9. VerdictInv'
  BY <1>1 DEF VerdictInv, GateKept, Starting, Measuring, Tripped, Ending, Cleaning, Judged, Live
<1> QED BY <1>2, <1>4, <1>5, <1>6, <1>7, <1>8, <1>9

\* The closure goes on with this point.
LEMMA OnwardInv ==
    ASSUME Inv, pc \in Measuring \ {"record", "save"}, pc' \in Measuring \ {"point"},
           run' \in Locals, run'.point = run.point, run'.stopped = run.stopped,
           run'.failed = run.failed, run'.stop = run.stop, run'.limited = run.limited,
           run'.comp = run.comp, run'.live = run.live, run'.bias = run.bias,
           pc = "point" => run.point <= Len(Targets),
           real' \in Int, Real => real' = run'.level,
           UNCHANGED <<state, rec, ctl, trip>>,
           late' \in [writes : Nat, rows : Nat], LateInv'
    PROVE  Inv'
<1> USE DEF Inv
<1>1. TypeInv'
  BY DEF TypeInv, Real, Live
<1>2. run.stop = "none" /\ trip = "none" /\ ~run.failed /\ ~run.stopped /\ ~run.live /\ ~run.comp /\ ~run.limited
  BY DEF OpenInv, TripInv, Starting, Measuring, Ending, Cleaning, Judged
<1>3. OpenInv' /\ TripInv'
  BY <1>2 DEF OpenInv, TripInv, Starting, Measuring, Tripped
<1>4. LevelInv'
  BY <1>2 DEF LevelInv, Starting, Measuring, Tripped, Real, Live
<1>5. RowsInv'
  <2>1. pc' \notin Starting \cup Ending
    BY DEF Starting, Measuring, Ending, Cleaning, Judged
  <2> QED BY <2>1 DEF RowsInv, Judged, Cleaning, Ending
<1>6. VerdictInv'
  BY DEF VerdictInv, GateKept, Starting, Measuring, Tripped, Ending, Cleaning, Judged, Live
<1> QED BY <1>1, <1>3, <1>4, <1>5, <1>6

\* A failed poll of the gate, or any other failure.
LEMMA FailsInv ==
    ASSUME Inv, pc \in Measuring \cup {"configure"}, GateFails \/ Fails, UNCHANGED <<rec, ctl, real, late>>
    PROVE  Inv'
<1>1. Fail /\ UNCHANGED trip /\ (state' = state \/ state' \in GateFault(state))
  BY DEF GateFails, Fails
<1>2. /\ state \in Snapshot /\ (~Real => ~state.phys["source"]) /\ real' \in Int
      /\ late' \in [writes : Nat, rows : Nat]
  BY DEF Inv, TypeInv
<1>3. GateOnly(state, state')
  BY <1>1, <1>2, GateFaultFacts DEF GateOnly
<1>4. state' \in Snapshot /\ state'.conn = state.conn /\ (~Real => ~state'.phys["source"])
  BY <1>2, <1>3 DEF GateOnly
<1>5. LateInv'
  BY <1>1 DEF Inv, LateInv, Fail, Ending, Cleaning
<1> QED BY <1>1, <1>2, <1>4, <1>5, FailInv

\* The limiter, the source's status, a range guard, a reading.
LEMMA TripsInv ==
    ASSUME Inv, pc \in (Measuring \ {"point", "record", "save"}) \cup {"configure"},
           pc # "check" \/ ~Cancelled, UNCHANGED <<rec, ctl, real, late>>,
           NEW cause \in Causes \ {"none"},
           SourceTrips(cause) \/ RangeTrips \/ ReferenceTrips \/ (Trip(cause) /\ UNCHANGED state)
    PROVE  Inv'
<1>1. PICK c \in Causes \ {"none"} : Trip(c) /\ UNCHANGED state
  BY DEF SourceTrips, RangeTrips, ReferenceTrips, Causes
<1> QED BY <1>1, TripInvariant

\* The local variables that later steps look at are unchanged.
SameRun ==
    /\ run' \in Locals /\ run'.level = run.level /\ run'.point = run.point
    /\ run'.stopped = run.stopped /\ run'.failed = run.failed /\ run'.stop = run.stop
    /\ run'.limited = run.limited /\ run'.comp = run.comp /\ run'.live = run.live
    /\ run'.bias = run.bias

\* Counting readings and conversions changes none of them.
LEMMA SameRunFacts ==
    ASSUME run \in Locals, NEW n \in Nat,
           run' = run \/ run' = [run EXCEPT !.polls = n] \/ run' = [run EXCEPT !.reading = n]
    PROVE  SameRun
BY DEF Locals, SameRun

\* On to another step at the same level.
LEMMA QuietInv ==
    ASSUME Inv, pc \in Measuring \ {"point", "record", "save"}, pc' \in Measuring \ {"point"},
           pc # "check" \/ ~Cancelled, SameRun, UNCHANGED <<state, rec, ctl, real, trip, late>>
    PROVE  Inv'
<1>1. late.writes = 0 /\ late.rows = 0
  BY NotLate DEF Measuring, Ending, Cleaning, Judged
<1>2. LateInv'
  BY <1>1 DEF LateInv
<1>3. real' \in Int /\ (Real => real' = run'.level) /\ late' \in [writes : Nat, rows : Nat]
  BY DEF Inv, TypeInv, LevelInv, OpenInv, SameRun
<1> QED BY <1>2, <1>3, OnwardInv DEF SameRun

-----------------------------------------------------------------------------
(* The steps before the cleanup *)

\* Each look at the flags that stops the run.
LEMMA CancelInv ==
    ASSUME Inv, Cancel
    PROVE  Inv'
<1>1. Halt /\ pc \in Measuring \ {"record", "save"} /\ UNCHANGED <<state, rec, ctl, real, trip, late>>
  BY DEF Cancel, Measuring
<1>2. run \in Locals
  BY DEF Inv, TypeInv
<1> QED BY <1>1, <1>2, HaltFacts, HaltInv

\* configure and its readbacks.
LEMMA ConfigureInv ==
    ASSUME Inv, Configure
    PROVE  Inv'
<1>1. pc = "configure" /\ UNCHANGED <<ctl, rec, real, late>>
  BY DEF Configure
<1>2. CASE Fails
  BY <1>1, <1>2, FailsInv
<1>3. CASE RangeTrips
  <2>1. "range" \in Causes \ {"none"}
    BY DEF Causes
  <2> QED BY <1>1, <1>3, <2>1, TripsInv
<1>4. CASE Halt /\ UNCHANGED <<state, trip>>
  BY <1>1, <1>4, HaltFacts, HaltInv DEF Inv, TypeInv
<1>5. CASE Continue("on")
  <2>1. pc' = "on" /\ UNCHANGED <<run, state, trip>>
    BY <1>5 DEF Continue, Goto
  <2>2. TypeInv' /\ OpenInv' /\ TripInv' /\ LateInv'
    BY <1>1, <2>1 DEF Inv, TypeInv, OpenInv, TripInv, LateInv, Starting, Measuring, Tripped, Ending, Cleaning, Judged, Real, Live
  <2>3. LevelInv' /\ RowsInv' /\ VerdictInv'
    BY <1>1, <2>1 DEF Inv, LevelInv, RowsInv, VerdictInv, GateKept, Starting, Measuring, Tripped, Ending, Cleaning, Judged, Real, Live
  <2> QED BY <2>2, <2>3 DEF Inv
<1> QED BY <1>2, <1>3, <1>4, <1>5 DEF Configure

\* SweepMonitor::wait, entry and loop.
LEMMA WaitInv ==
    ASSUME Inv, Check \/ Wait
    PROVE  Inv'
<1>1. /\ pc \in {"check", "wait"} /\ ~Cancelled /\ UNCHANGED <<ctl, rec, real, late>>
      /\ pc \in Measuring \ {"point", "record", "save"}
  BY DEF Check, Wait, Measuring
<1>2. CASE GateFails
  BY <1>1, <1>2, FailsInv
<1>3. CASE SourceTrips("limiter")
  BY <1>1, <1>3, TripsInv DEF Causes
<1>4. CASE /\ pc' \in {"wait", "ramp", "read", "record", "convert"} /\ UNCHANGED <<state, trip>>
           /\ run' = run \/ run' = [run EXCEPT !.polls = 0] \/ run' = [run EXCEPT !.reading = 1]
  <2>1. SameRun
    <3>1. run \in Locals /\ 0 \in Nat /\ 1 \in Nat
      BY DEF Inv, TypeInv
    <3> QED BY <1>4, <3>1, SameRunFacts
  <2> QED BY <1>1, <1>4, <2>1, QuietInv DEF Measuring
<1> QED BY <1>2, <1>3, <1>4 DEF Check, Wait, Continue, Goto

\* SweepMonitor::acquire.
LEMMA ConvertInv ==
    ASSUME Inv, Convert \/ Accept
    PROVE  Inv'
<1>1. /\ pc \in {"convert", "accept"} /\ UNCHANGED <<ctl, rec, real, late>>
      /\ pc \in Measuring \ {"point", "record", "save"} /\ pc # "check"
  BY DEF Convert, Accept, Measuring
<1>2. CASE GateFails \/ Fails
  BY <1>1, <1>2, FailsInv
<1>3. ASSUME NEW cause \in {"limiter", "held limiter", "late limiter", "reading", "live limit"},
             SourceTrips(cause) \/ RangeTrips \/ ReferenceTrips \/ (Trip(cause) /\ UNCHANGED state)
      PROVE  Inv'
  BY <1>1, <1>3, TripsInv DEF Causes
<1>4. CASE /\ pc' \in {"wait", "accept"} /\ UNCHANGED <<state, trip>>
           /\ run' = run \/ run' = [run EXCEPT !.polls = @ + 1]
  <2>1. SameRun
    <3>1. run \in Locals
      BY DEF Inv, TypeInv
    <3>2. run.polls + 1 \in Nat
      BY <3>1 DEF Locals
    <3> QED BY <1>4, <3>1, <3>2, SameRunFacts
  <2> QED BY <1>1, <1>4, <2>1, QuietInv DEF Measuring
<1>5. CASE pc' = "collect" /\ run' = [run EXCEPT !.stopped = TRUE, !.live = TRUE] /\ UNCHANGED <<state, trip>>
  <2>1. /\ run' \in Locals /\ run'.stopped = TRUE /\ run'.level = run.level /\ run'.point = run.point
        /\ run'.failed = run.failed /\ run'.stop = run.stop /\ run'.bias = run.bias
    BY <1>5 DEF Inv, TypeInv, Locals
  <2> QED BY <1>1, <1>5, <2>1, HaltInv
<1> QED BY <1>2, <1>3, <1>4, <1>5 DEF Convert, Accept, Continue, Goto

\* The readings of a point, up to its record.
LEMMA ReadInv ==
    ASSUME Inv, Read \/ Verify \/ Range \/ Display \/ Reference
    PROVE  Inv'
<1>1. /\ pc \in {"read", "verify", "range", "display", "reference"} /\ UNCHANGED <<ctl, rec, real, late>>
      /\ pc \in Measuring \ {"point", "record", "save"} /\ pc # "check"
  <2>1. Read => pc = "read" /\ UNCHANGED <<ctl, rec, real, late>>
    BY DEF Read
  <2>2. Verify => pc = "verify" /\ UNCHANGED <<ctl, rec, real, late>>
    BY DEF Verify
  <2>3. Range => pc = "range" /\ UNCHANGED <<ctl, rec, real, late>>
    BY DEF Range
  <2>4. Display => pc = "display" /\ UNCHANGED <<ctl, rec, real, late>>
    BY DEF Display
  <2>5. Reference => pc = "reference" /\ UNCHANGED <<ctl, rec, real, late>>
    BY DEF Reference
  <2> QED BY <2>1, <2>2, <2>3, <2>4, <2>5 DEF Measuring
<1>2. CASE GateFails \/ Fails
  BY <1>1, <1>2, FailsInv
<1>3. ASSUME NEW cause \in {"limiter", "held limiter", "reading", "limit"},
             SourceTrips(cause) \/ RangeTrips \/ ReferenceTrips \/ (Trip(cause) /\ UNCHANGED state)
      PROVE  Inv'
  BY <1>1, <1>3, TripsInv DEF Causes
<1>4. CASE /\ pc' \in {"verify", "range", "display", "read", "record", "save"} /\ UNCHANGED <<state, trip>>
           /\ run' = run \/ run' = [run EXCEPT !.reading = @ + 1]
  <2>1. SameRun
    <3>1. run \in Locals
      BY DEF Inv, TypeInv
    <3>2. run.reading + 1 \in Nat
      BY <3>1 DEF Locals
    <3> QED BY <1>4, <3>1, <3>2, SameRunFacts
  <2> QED BY <1>1, <1>4, <2>1, QuietInv DEF Measuring
<1>5. Read => Inv'
  BY <1>2, <1>3, <1>4 DEF Read, Continue, Goto
<1>6. Verify => Inv'
  BY <1>2, <1>3, <1>4 DEF Verify, Continue, Goto
<1>7. Range => Inv'
  BY <1>2, <1>3, <1>4 DEF Range, Continue, Goto
<1>8. Display => Inv'
  BY <1>2, <1>4 DEF Display, Goto
<1>9. Reference => Inv'
  BY <1>2, <1>3, <1>4 DEF Reference, Continue, Goto
<1> QED BY <1>5, <1>6, <1>7, <1>8, <1>9

\* The planned levels.
LEMMA TargetFacts ==
    ASSUME Inv, pc \in Measuring \ {"point"} \/ run.point <= Len(Targets)
    PROVE  Target \in Int /\ run.point \in 1..Len(Targets)
<1>1. run.point \in Nat \ {0}
  BY DEF Inv, TypeInv, Locals
<1>2. run.point <= Len(Targets)
  BY DEF Inv, RowsInv
<1>3. Targets \in Seq(Int)
  BY SweepAssumption
<1> QED BY <1>1, <1>2, <1>3 DEF Target

\* The next point.
LEMMA PointInv ==
    ASSUME Inv, Point
    PROVE  Inv'
<1>1. pc = "point" /\ UNCHANGED <<state, ctl, rec, real, trip, late>> /\ pc \in Measuring \ {"record", "save"}
  BY DEF Point, Measuring
<1>2. CASE run.point <= Len(Targets) /\ ~Cancelled
  <2>1. late.writes = 0 /\ late.rows = 0
    BY <1>1, <1>2, NotLate DEF Measuring, Ending, Cleaning, Judged
  <2>2. LateInv' /\ late' \in [writes : Nat, rows : Nat] /\ real' \in Int
    BY <1>1, <2>1 DEF LateInv, Inv, TypeInv
  <2>3. Real => real' = run.level
    BY <1>1 DEF Inv, LevelInv, OpenInv
  <2>4. run \in Locals
    BY DEF Inv, TypeInv
  <2>5. CASE Goto("ramp")
    BY <1>1, <1>2, <2>2, <2>3, <2>4, <2>5, OnwardInv DEF Goto, Measuring
  <2>6. CASE ~Real /\ pc' = "check" /\ run' = [run EXCEPT !.level = Target]
    <3>1. Target \in Int
      BY <1>2, TargetFacts
    <3>2. /\ run' \in Locals /\ run'.point = run.point /\ run'.stopped = run.stopped
          /\ run'.failed = run.failed /\ run'.stop = run.stop /\ run'.limited = run.limited
          /\ run'.comp = run.comp /\ run'.live = run.live /\ run'.bias = run.bias
      BY <2>4, <2>6, <3>1 DEF Locals
    <3> QED BY <1>1, <1>2, <2>2, <2>6, <3>2, OnwardInv DEF Measuring
  <2>7. Len(Targets) \in Nat /\ run.point \in Nat
    BY <2>4, SweepAssumption DEF Locals
  <2> QED BY <1>2, <2>5, <2>6, <2>7 DEF Point
<1>3. CASE run.point > Len(Targets) /\ pc' = "collect" /\ run' = run
  <2>1. Len(Targets) \in Nat /\ run.point \in Nat
    BY SweepAssumption DEF Inv, TypeInv, Locals
  <2>2. /\ trip = "none" /\ ~run.failed /\ run.stop = "none" /\ ~run.live /\ ~run.comp /\ ~run.stopped
    BY <1>1 DEF Inv, OpenInv, TripInv, Ending, Cleaning, Judged
  <2>3. TypeInv' /\ OpenInv' /\ TripInv' /\ LateInv'
    BY <1>1, <1>3, <2>2 DEF Inv, TypeInv, OpenInv, TripInv, LateInv, Starting, Measuring, Tripped, Ending, Cleaning, Real, Live
  <2>4. LevelInv' /\ VerdictInv'
    BY <1>1, <1>3, <2>2 DEF Inv, LevelInv, VerdictInv, GateKept, Starting, Measuring, Tripped, Ending, Cleaning, Judged, Real, Live
  <2>5. /\ rec.rows \in Seq(Row) /\ Len(rec.rows) \in Nat
        /\ Len(rec.rows) = run.point - 1 /\ run.point <= Len(Targets) + 1
        /\ \A i \in 1..Len(rec.rows) : rec.rows[i] = "ok"
    BY <1>1, RowsType DEF Inv, RowsInv
  <2>6. Len(rec.rows) = Len(Targets)
    BY <1>3, <2>1, <2>5
  <2>7. rec.rows = [i \in 1..Len(Targets) |-> "ok"]
    BY <2>5, <2>6
  <2>8. \A i \in 1..Len(rec.rows) - 1 : rec.rows[i] = "ok"
    BY <2>5
  <2>9. pc' \notin Starting \cup Measuring \cup Tripped \cup Judged
    BY <1>3 DEF Starting, Measuring, Tripped, Judged
  <2>10. RowsInv'
    BY <1>1, <1>3, <2>2, <2>7, <2>8, <2>9 DEF RowsInv
  <2> QED BY <2>3, <2>4, <2>10 DEF Inv
<1> QED BY <1>2, <1>3 DEF Point, Goto

\* One level of the ramp.
NextLevel == IF Abs(run.level - Target) > RampStep
               THEN run.level + Sign(Target - run.level) * RampStep ELSE Target

\* It is at most a step away.
LEMMA NextLevelFacts ==
    ASSUME run.level \in Int, Target \in Int
    PROVE  NextLevel \in Int /\ Abs(NextLevel - run.level) <= RampStep
<1>1. RampStep \in Nat \ {0}
  BY SweepAssumption
<1> QED BY <1>1 DEF NextLevel, Abs, Sign

\* workflow::ramp.
LEMMA RampInv ==
    ASSUME Inv, Ramp
    PROVE  Inv'
<1>1. /\ pc = "ramp" /\ UNCHANGED <<state, ctl, rec, trip>> /\ pc \in Measuring \ {"record", "save"}
      /\ \/ pc' = "check" /\ run' = [run EXCEPT !.level = NextLevel] /\ Write(NextLevel, TRUE)
         \/ Fail /\ Write(NextLevel, FALSE)
  BY DEF Ramp, Measuring, NextLevel
<1>2. run \in Locals /\ run.level \in Int /\ real \in Int /\ late \in [writes : Nat, rows : Nat]
  BY DEF Inv, TypeInv, Locals
<1>3. NextLevel \in Int
  BY <1>1, <1>2, TargetFacts, NextLevelFacts
<1>4. late.writes = 0 /\ late.rows = 0
  BY <1>1, NotLate DEF Measuring, Ending, Cleaning, Judged
<1>5. /\ late' = late \/ (ctl.stop /\ late' = [late EXCEPT !.writes = @ + 1])
      /\ real' \in {NextLevel, real}
  BY <1>1 DEF Write
<1>6. /\ late' \in [writes : Nat, rows : Nat] /\ late'.rows = 0
      /\ late'.writes > 0 => late'.writes = 1 /\ ctl.stop
  BY <1>2, <1>4, <1>5
<1>7. pc' \in {"check", "collect"}
  BY <1>1 DEF Fail
<1>8. LateInv'
  BY <1>1, <1>6, <1>7 DEF LateInv, Ending, Cleaning
<1>9. CASE Fail
  <2>1. state' \in Snapshot /\ state'.conn = state.conn /\ (~Real => ~state'.phys["source"]) /\ real' \in Int
    BY <1>1, <1>2, <1>3, <1>5 DEF Inv, TypeInv
  <2> QED BY <1>1, <1>6, <1>8, <1>9, <2>1, FailInv
<1>10. CASE pc' = "check" /\ run' = [run EXCEPT !.level = NextLevel] /\ Write(NextLevel, TRUE)
  <2>1. /\ run' \in Locals /\ run'.point = run.point /\ run'.stopped = run.stopped
        /\ run'.failed = run.failed /\ run'.stop = run.stop /\ run'.limited = run.limited
        /\ run'.comp = run.comp /\ run'.live = run.live /\ run'.bias = run.bias /\ run'.level = NextLevel
    BY <1>2, <1>3, <1>10 DEF Locals
  <2>2. real' = NextLevel
    BY <1>10 DEF Write
  <2> QED BY <1>1, <1>3, <1>6, <1>8, <1>10, <2>1, <2>2, OnwardInv DEF Measuring
<1> QED BY <1>1, <1>9, <1>10

\* The record of the point.
LEMMA RecordInv ==
    ASSUME Inv, Record
    PROVE  Inv'
<1>1. pc = "record" /\ UNCHANGED <<ctl, rec, real, late>> /\ pc \in Measuring
  BY DEF Record, Measuring
<1>2. CASE Fails
  BY <1>1, <1>2, FailsInv
<1>3. ASSUME NEW limited \in {run.limited, TRUE}, run' = [run EXCEPT !.limited = limited],
             pc' = IF Live(state, "reference") /\ ~limited THEN "reference" ELSE "save",
             UNCHANGED <<state, trip>>
      PROVE  Inv'
  <2>1. run \in Locals /\ limited \in BOOLEAN
    BY DEF Inv, TypeInv, Locals
  <2>2. /\ run' \in Locals /\ run'.point = run.point /\ run'.stopped = run.stopped
        /\ run'.failed = run.failed /\ run'.stop = run.stop /\ run'.limited = limited
        /\ run'.comp = run.comp /\ run'.live = run.live /\ run'.bias = run.bias /\ run'.level = run.level
    BY <1>3, <2>1 DEF Locals
  <2>3. pc' \in {"reference", "save"} /\ (pc' = "reference" => ~limited) /\ (run.limited => limited)
    BY <1>3
  <2>4. late.writes = 0 /\ late.rows = 0
    BY <1>1, NotLate DEF Measuring, Ending, Cleaning, Judged
  <2>5. TypeInv' /\ LateInv'
    BY <1>1, <1>3, <2>2, <2>3, <2>4 DEF Inv, TypeInv, LateInv, Measuring, Real, Live
  <2>6. OpenInv'
    BY <1>1, <1>3, <2>2, <2>3 DEF Inv, OpenInv, Starting, Measuring, Tripped
  <2>7. TripInv'
    BY <1>1, <1>3, <2>2, <2>3 DEF Inv, TripInv
  <2>8. LevelInv'
    BY <1>1, <1>3, <2>2, <2>3 DEF Inv, LevelInv, OpenInv, Measuring, Real, Live
  <2>9. RowsInv'
    <3>1. pc' \in Measuring /\ pc' \notin Starting \cup Ending \cup Cleaning \cup Judged
      BY <2>3 DEF Starting, Measuring, Ending, Cleaning, Judged
    <3> QED BY <1>1, <1>3, <2>2, <2>3, <3>1 DEF Inv, RowsInv
  <2>10. VerdictInv'
    BY <1>1, <1>3, <2>2, <2>3 DEF Inv, VerdictInv, GateKept, Starting, Measuring, Tripped, Ending, Cleaning, Judged, Live
  <2> QED BY <2>5, <2>6, <2>7, <2>8, <2>9, <2>10 DEF Inv
<1> QED BY <1>2, <1>3 DEF Record

\* What is verified before the recordings are created.
LEMMA PreflightFacts ==
    ASSUME Inv, Preflight
    PROVE  /\ SourceOnly(state, state')
           /\ \/ pc' = "settle" /\ real' = real
              \/ pc' = "files" /\ (Real => real' = 0 /\ ~state'.phys["source"]) /\ real' \in Int
<1> DEFINE C == [state EXCEPT !.out["source"] = "Unknown"]
           r == "source"
           off == Shown(TurnedOff(C, r), r, "Off")
           taken == IF state.held[r] THEN Shown(state, r, "Off") ELSE state
           prepared(S) == [S EXCEPT !.phase = "Preparing", !.err = FALSE]
<1>1. /\ pc = "preflight" /\ UNCHANGED <<run, ctl, rec, trip, late>> /\ state \in Snapshot
      /\ (~Real => ~state.phys["source"]) /\ real \in Int
  BY DEF Preflight, Goto, Inv, TypeInv
<1>2. r \in Outputs /\ r # "gate" /\ "gate" \in Outputs \ {r} /\ "Off" \in OutputStates
  BY DEF Outputs, OutputStates
<1>3. C \in Snapshot /\ C.conn = state.conn /\ C.phys = state.phys /\ C.missed = state.missed
  BY <1>1, UnknownFacts
<1> HIDE DEF C
<1>4. SourceOnly(state, off) /\ ~off.phys["source"]
  <2> DEFINE D == TurnedOff(C, r)
  <2>1. /\ D \in Snapshot /\ D.phys[r] = FALSE /\ D.conn = C.conn
        /\ D.missed = C.missed /\ \A p \in Outputs \ {r} : D.phys[p] = C.phys[p]
    BY <1>2, <1>3, TurnedOffFacts
  <2> HIDE DEF D
  <2>2. Shown(D, r, "Off") \in Snapshot /\ Shown(D, r, "Off").conn = D.conn
        /\ Shown(D, r, "Off").phys = D.phys /\ Shown(D, r, "Off").missed = D.missed
    BY <1>2, <2>1, ShownFacts
  <2> QED BY <1>2, <1>3, <2>1, <2>2 DEF SourceOnly, D
<1>5. SourceOnly(state, taken)
  BY <1>1, <1>2, ShownFacts DEF SourceOnly
<1>6. \A T \in Missed(C, r) : SourceOnly(state, T)
  BY <1>2, <1>3, MissedFacts DEF SourceOnly
<1>7. ASSUME NEW S, SourceOnly(state, S)
      PROVE  SourceOnly(state, prepared(S)) /\ prepared(S).phys = S.phys
  BY <1>7 DEF SourceOnly, Snapshot, Phases
<1>8. /\ SourceOnly(state, state')
      /\ \/ pc' = "settle" /\ real' = real
         \/ pc' = "files" /\ (Real => real' = 0 /\ ~state'.phys["source"]) /\ real' \in Int
  <2> HIDE DEF off, taken, prepared
  <2>1. CASE Goto("settle") /\ UNCHANGED <<state, real>>
    BY <1>1, <2>1 DEF Goto, SourceOnly
  <2>2. CASE ~Real /\ Goto("settle") /\ state' = taken /\ UNCHANGED real
    BY <1>5, <2>2 DEF Goto
  <2>3. CASE ~Real /\ Goto("files") /\ state' = prepared(taken) /\ UNCHANGED real
    BY <1>1, <1>5, <1>7, <2>3 DEF Goto
  <2>4. CASE Goto("settle") /\ UNCHANGED real /\ state' \in Missed(C, r) \cup {off}
    BY <1>4, <1>6, <2>4 DEF Goto
  <2>5. CASE Goto("files") /\ state' = prepared(off) /\ real' = 0
    BY <1>4, <1>7, <2>5 DEF Goto
  <2> QED BY <2>1, <2>2, <2>3, <2>4, <2>5 DEF Preflight, C, off, taken, prepared
<1> QED BY <1>8

\* The run goes on with the source OFF at zero, or is refused.
LEMMA PreflightInv ==
    ASSUME Inv, Preflight
    PROVE  Inv'
<1>1. /\ pc = "preflight" /\ UNCHANGED <<run, ctl, rec, trip, late>> /\ state \in Snapshot
      /\ (~Real => ~state.phys["source"]) /\ real \in Int
  BY DEF Preflight, Goto, Inv, TypeInv
<1>2. /\ SourceOnly(state, state')
      /\ \/ pc' = "settle" /\ real' = real
         \/ pc' = "files" /\ (Real => real' = 0 /\ ~state'.phys["source"]) /\ real' \in Int
  BY PreflightFacts
<1>3. /\ state' \in Snapshot /\ state'.conn = state.conn /\ state'.phys["gate"] = state.phys["gate"]
      /\ (state'.phys["source"] => state.phys["source"]) /\ pc' \in {"settle", "files"} /\ real' \in Int
  BY <1>1, <1>2 DEF SourceOnly
<1>4. TypeInv'
  BY <1>1, <1>3 DEF Inv, TypeInv, Starting, Ending, Real, Live
<1>5. OpenInv' /\ TripInv' /\ LateInv'
  BY <1>1, <1>3 DEF Inv, OpenInv, TripInv, LateInv, Starting, Measuring, Tripped, Ending, Cleaning, Judged
<1>6. LevelInv'
  BY <1>1, <1>2, <1>3 DEF Inv, LevelInv, Starting, Measuring, Tripped, Real, Live
<1>7. RowsInv'
  <2>1. run.point = 1 /\ rec.rows = <<>> /\ run.stop = "none" /\ Len(rec.rows) = 0
    BY <1>1 DEF Inv, RowsInv, OpenInv, Starting
  <2>2. pc' \notin Measuring \cup Tripped \cup Cleaning \cup Judged
    BY <1>3 DEF Measuring, Tripped, Cleaning, Judged
  <2> QED BY <1>1, <2>1, <2>2 DEF RowsInv
<1>8. VerdictInv'
  BY <1>1, <1>3 DEF Inv, VerdictInv, GateKept, Starting, Measuring, Tripped, Ending, Cleaning, Judged, Live
<1> QED BY <1>4, <1>5, <1>6, <1>7, <1>8 DEF Inv

\* The recordings are created.
LEMMA FilesInv ==
    ASSUME Inv, Files
    PROVE  Inv'
<1>1. pc = "files" /\ pc' \in {"settle", "configure"} /\ UNCHANGED <<run, state, ctl, real, trip, late>>
  BY DEF Files, Goto
<1>2. rec' \in Recordings /\ rec'.rows = rec.rows /\ rec'.evidence = rec.evidence
  <2> DEFINE csv == [rec EXCEPT !.csv = "open"]
             audit == [csv EXCEPT !.audit = "open"]
             all == [audit EXCEPT !.manifest = "in progress"]
  <2>1. rec \in Recordings
    BY DEF Inv, TypeInv
  <2>2. csv \in Recordings /\ csv.rows = rec.rows /\ csv.evidence = rec.evidence
    BY <2>1 DEF Recordings
  <2>3. rec' \in {rec, csv, audit, all}
    BY DEF Files
  <2> HIDE DEF csv
  <2>4. audit \in Recordings /\ audit.rows = rec.rows /\ audit.evidence = rec.evidence
    BY <2>2 DEF Recordings
  <2> HIDE DEF audit
  <2>5. all \in Recordings /\ all.rows = rec.rows /\ all.evidence = rec.evidence
    BY <2>4 DEF Recordings
  <2> QED BY <2>1, <2>2, <2>3, <2>4, <2>5
<1>3. TypeInv'
  BY <1>1, <1>2 DEF Inv, TypeInv, Starting, Ending, Real, Live
<1>4. OpenInv' /\ TripInv' /\ LateInv'
  BY <1>1 DEF Inv, OpenInv, TripInv, LateInv, Starting, Measuring, Tripped, Ending, Cleaning, Judged
<1>5. LevelInv'
  BY <1>1 DEF Inv, LevelInv, Starting, Measuring, Tripped, Real, Live
<1>6. RowsInv'
  <2>1. run.point = 1 /\ rec.rows = <<>> /\ run.stop = "none" /\ Len(rec.rows) = 0
    BY <1>1 DEF Inv, RowsInv, OpenInv, Starting
  <2>2. pc' \notin Measuring \cup Tripped \cup Cleaning \cup Judged
    BY <1>1 DEF Measuring, Tripped, Cleaning, Judged
  <2> QED BY <1>1, <1>2, <2>1, <2>2 DEF RowsInv
<1>7. VerdictInv'
  BY <1>1, <1>2 DEF Inv, VerdictInv, GateKept, Starting, Measuring, Tripped, Ending, Cleaning, Judged, Live
<1> QED BY <1>3, <1>4, <1>5, <1>6, <1>7 DEF Inv

\* :OUTP ON, at level zero.
LEMMA TurnOnInv ==
    ASSUME Inv, TurnOn
    PROVE  Inv'
<1>1. pc = "on" /\ UNCHANGED <<ctl, rec, real, trip, late>> /\ state \in Snapshot /\ real \in Int
      /\ late \in [writes : Nat, rows : Nat]
  BY DEF TurnOn, Inv, TypeInv
<1>2. ASSUME Real, Fail, NEW p \in BOOLEAN,
             state' = [state EXCEPT !.out["source"] = "Unknown", !.phys["source"] = p]
      PROVE  Inv'
  <2>1. state' \in Snapshot /\ state'.conn = state.conn
    BY <1>1, <1>2 DEF Snapshot, OutputStates, Outputs
  <2>2. LateInv'
    BY <1>1, <1>2 DEF Inv, LateInv, Fail, Ending, Cleaning
  <2> QED BY <1>1, <1>2, <2>1, <2>2, FailInv
<1>3. CASE /\ Goto("point")
           /\ state' = [state EXCEPT !.out["source"] = "On", !.phase = "Running", !.phys["source"] = Real]
  <2>1. /\ state' \in Snapshot /\ state'.conn = state.conn /\ state'.phys["gate"] = state.phys["gate"]
        /\ state'.phys["source"] = Real
    <3>1. Real \in BOOLEAN
      BY DEF Real, Live
    <3> HIDE DEF Real
    <3> QED BY <1>1, <1>3, <3>1 DEF Snapshot, OutputStates, Outputs, Phases
  <2>2. pc' = "point" /\ run' = run
    BY <1>3 DEF Goto
  <2>3. TypeInv'
    BY <1>1, <2>1, <2>2 DEF Inv, TypeInv, Measuring, Real, Live
  <2>4. OpenInv' /\ TripInv' /\ LateInv'
    BY <1>1, <2>2 DEF Inv, OpenInv, TripInv, LateInv, Starting, Measuring, Tripped, Ending, Cleaning, Judged
  <2>5. LevelInv'
    BY <1>1, <2>1, <2>2 DEF Inv, LevelInv, Starting, Measuring, Tripped, Real, Live
  <2>6. RowsInv'
    <3>1. run.point = 1 /\ rec.rows = <<>> /\ Len(rec.rows) = 0
      BY <1>1 DEF Inv, RowsInv, Starting
    <3>2. Len(Targets) \in Nat
      BY SweepAssumption
    <3>3. pc' \notin Starting \cup Ending \cup Cleaning \cup Judged
      BY <2>2 DEF Starting, Ending, Cleaning, Judged
    <3>4. Len(rec.rows) = run.point - 1 /\ run.point <= Len(Targets) + 1 /\ \A i \in 1..Len(rec.rows) : rec.rows[i] = "ok"
      BY <3>1, <3>2
    <3> QED BY <1>1, <2>2, <3>3, <3>4 DEF RowsInv
  <2>7. VerdictInv'
    BY <1>1, <2>1, <2>2 DEF Inv, VerdictInv, GateKept, Starting, Measuring, Tripped, Ending, Cleaning, Judged, Live
  <2> QED BY <2>3, <2>4, <2>5, <2>6, <2>7 DEF Inv
<1> QED BY <1>2, <1>3 DEF TurnOn

\* The row of the point.  A row at the limit is the last one.
LEMMA SaveInv ==
    ASSUME Inv, Save
    PROVE  Inv'
<1> DEFINE row == IF run.limited THEN "limit" ELSE "ok"
           kept == [run EXCEPT !.comp = run.limited]
           saved == /\ rec' = [rec EXCEPT !.rows = Append(@, row)]
                    /\ late' = IF ctl.stop THEN [late EXCEPT !.rows = @ + 1] ELSE late
           failed == pc' = "collect" /\ run' = [kept EXCEPT !.failed = TRUE]
<1>1. /\ pc = "save" /\ UNCHANGED <<ctl, real, trip>> /\ state \in Snapshot /\ real \in Int
      /\ state.conn["source2"] = "none" /\ late \in [writes : Nat, rows : Nat] /\ rec \in Recordings
      /\ run \in Locals /\ pc \in Measuring
  BY DEF Save, Inv, TypeInv, Measuring
<1>2. PICK q \in (IF run.limited /\ state.out["source"] # "Off" THEN ProtectionOff(state) ELSE {Ok(state)}) :
        /\ state' = q.s
        /\ \/ failed /\ UNCHANGED <<rec, late>>
           \/ failed /\ saved
           \/ /\ saved
              /\ IF run.limited
                   THEN pc' = "collect" /\ run' = kept
                   ELSE pc' = "point" /\ run' = [kept EXCEPT !.point = @ + 1]
  BY DEF Save
<1>3. SourceOnly(state, state')
  <2>1. CASE q \in ProtectionOff(state)
    BY <1>1, <1>2, <2>1, ProtectionOffFacts
  <2>2. CASE q = Ok(state)
    <3>1. state' = state
      BY <1>2, <2>2, Results
    <3> QED BY <1>1, <3>1 DEF SourceOnly
  <2> QED BY <2>1, <2>2
<1>4. /\ kept \in Locals /\ kept.comp = run.limited /\ kept.level = run.level /\ kept.point = run.point
      /\ kept.stopped = run.stopped /\ kept.failed = run.failed /\ kept.stop = run.stop
      /\ kept.limited = run.limited /\ kept.live = run.live /\ kept.bias = run.bias
  BY <1>1 DEF Locals
<1> HIDE DEF kept
<1>5. /\ run' \in Locals /\ run'.comp = run.limited /\ run'.level = run.level
      /\ run'.stopped = run.stopped /\ run'.stop = run.stop
      /\ run'.limited = run.limited /\ run'.live = run.live /\ run'.bias = run.bias
      /\ \/ pc' = "collect" /\ run'.point = run.point /\ run'.failed = TRUE /\ (saved \/ UNCHANGED <<rec, late>>)
         \/ pc' = "collect" /\ run'.point = run.point /\ run'.failed = run.failed /\ run.limited /\ saved
         \/ pc' = "point" /\ run'.point = run.point + 1 /\ run'.failed = run.failed /\ ~run.limited /\ saved
  <2> HIDE DEF saved
  <2>1. CASE failed
    BY <1>2, <1>4, <2>1 DEF Locals
  <2>2. CASE saved /\ run.limited /\ pc' = "collect" /\ run' = kept
    BY <1>4, <2>2
  <2>3. CASE saved /\ ~run.limited /\ pc' = "point" /\ run' = [kept EXCEPT !.point = @ + 1]
    BY <1>4, <2>3 DEF Locals
  <2> QED BY <1>2, <2>1, <2>2, <2>3
<1>6. /\ state' \in Snapshot /\ state'.conn = state.conn /\ state'.phys["gate"] = state.phys["gate"]
      /\ (state'.phys["source"] => state.phys["source"]) /\ pc' \in {"collect", "point"}
  BY <1>3, <1>5 DEF SourceOnly
<1>7. rec.rows \in Seq(Row) /\ Len(rec.rows) \in Nat /\ row \in Row
  BY <1>1, RowsType DEF Row
<1>8. /\ Len(rec.rows) = run.point - 1 /\ run.point <= Len(Targets) /\ run.point \in Nat /\ Len(Targets) \in Nat
      /\ \A i \in 1..Len(rec.rows) : rec.rows[i] = "ok"
  <2>1. run.point \in Nat /\ Len(Targets) \in Nat
    BY <1>1, SweepAssumption DEF Locals
  <2> QED BY <1>1, <2>1 DEF Inv, RowsInv
<1>9. late.writes = 0 /\ late.rows = 0
  BY <1>1, NotLate DEF Measuring, Ending, Cleaning, Judged
<1>10. saved => /\ rec' \in Recordings /\ rec'.rows = Append(rec.rows, row) /\ rec'.evidence = rec.evidence
                /\ late' \in [writes : Nat, rows : Nat] /\ late'.writes = 0 /\ (late'.rows > 0 => late'.rows = 1 /\ ctl.stop)
  <2>1. Append(rec.rows, row) \in Seq(Row)
    BY <1>7
  <2>2. saved => rec' \in Recordings /\ rec'.rows = Append(rec.rows, row) /\ rec'.evidence = rec.evidence
    BY <1>1, <2>1 DEF Recordings
  <2>3. saved => late' \in [writes : Nat, rows : Nat] /\ late'.writes = 0 /\ (late'.rows > 0 => late'.rows = 1 /\ ctl.stop)
    BY <1>1, <1>9
  <2> QED BY <2>2, <2>3
<1> HIDE DEF saved, row
<1>11. /\ rec' \in Recordings /\ rec'.evidence = rec.evidence
       /\ late' \in [writes : Nat, rows : Nat] /\ late'.writes = 0 /\ (late'.rows > 0 => late'.rows = 1 /\ ctl.stop)
       /\ rec'.rows = rec.rows \/ rec'.rows = Append(rec.rows, row)
  BY <1>1, <1>5, <1>9, <1>10
<1>12. trip # "none" => run.limited
  BY <1>1 DEF Inv, TripInv
<1>13. ~run.failed /\ ~run.stopped /\ ~run.live /\ run.stop = "none" /\ trip # "seen" /\ rec.evidence # "lost"
  BY <1>1 DEF Inv, OpenInv, TripInv, VerdictInv, Ending, Cleaning, Judged
<1>14. TypeInv' /\ LateInv'
  BY <1>1, <1>5, <1>6, <1>11 DEF Inv, TypeInv, LateInv, Measuring, Ending, Cleaning, Real, Live
<1>15. OpenInv' /\ TripInv'
  BY <1>1, <1>5, <1>6, <1>12, <1>13 DEF Inv, OpenInv, TripInv, Starting, Measuring, Tripped, Ending, Cleaning
<1>16. LevelInv'
  BY <1>1, <1>5, <1>6, <1>13 DEF Inv, LevelInv, Starting, Measuring, Tripped, Real, Live
<1>17. RowsInv'
  <2>1. /\ Len(Append(rec.rows, row)) = run.point
        /\ \A i \in 1..run.point - 1 : Append(rec.rows, row)[i] = "ok"
        /\ Append(rec.rows, row)[run.point] = row
    BY <1>7, <1>8
  <2>2. CASE pc' = "collect"
    <3>1. pc' \notin Starting \cup Measuring \cup Tripped \cup Judged
      BY <2>2 DEF Starting, Measuring, Tripped, Judged
    <3>2. \A i \in 1..Len(rec'.rows) - 1 : rec'.rows[i] = "ok"
      <4>1. CASE rec'.rows = rec.rows
        BY <1>7, <1>8, <4>1
      <4>2. CASE rec'.rows = Append(rec.rows, row)
        BY <2>1, <4>2
      <4> QED BY <1>11, <4>1, <4>2
    <3>3. run'.failed \/ run'.comp
      BY <1>5, <2>2
    <3> QED BY <1>5, <1>13, <3>1, <3>2, <3>3 DEF RowsInv
  <2>3. CASE pc' = "point"
    <3>1. ~run.limited /\ saved /\ run'.point = run.point + 1
      BY <1>5, <2>3
    <3>2. rec'.rows = Append(rec.rows, row) /\ row = "ok"
      BY <1>10, <3>1 DEF row
    <3>3. \A i \in 1..Len(rec'.rows) : rec'.rows[i] = "ok"
      <4>1. \A i \in 1..run.point : i \in 1..run.point - 1 \/ i = run.point
        BY <1>8
      <4> QED BY <2>1, <3>2, <4>1
    <3>4. Len(rec'.rows) = run'.point - 1 /\ run'.point <= Len(Targets) + 1
      BY <1>8, <2>1, <3>1, <3>2
    <3>5. pc' \notin Starting \cup Ending \cup Cleaning \cup Judged
      BY <2>3 DEF Starting, Ending, Cleaning, Judged
    <3> QED BY <2>3, <3>3, <3>4, <3>5 DEF RowsInv
  <2> QED BY <1>6, <2>2, <2>3
<1>18. VerdictInv'
  BY <1>1, <1>5, <1>6, <1>11, <1>13 DEF Inv, VerdictInv, GateKept, Starting, Measuring, Tripped, Ending, Cleaning, Judged, Live
<1> QED BY <1>14, <1>15, <1>16, <1>17, <1>18 DEF Inv

-----------------------------------------------------------------------------
(* A trip *)

\* The OFF request of a trip.
LEMMA ProtectInv ==
    ASSUME Inv, Protect
    PROVE  Inv'
<1>1. /\ pc = "protect" /\ pc' = "persist" /\ trip' = "requested" /\ UNCHANGED <<ctl, rec, real, late>>
      /\ state \in Snapshot /\ run \in Locals /\ state.conn["source2"] = "none"
  BY DEF Protect, Inv, TypeInv
<1>2. PICK q \in ProtectionOff(state) : state' = q.s /\ run' = [run EXCEPT !.offErr = ~q.ok]
  BY DEF Protect
<1>3. SourceOnly(state, q.s) /\ q.ok \in BOOLEAN
  BY <1>1, ProtectionOffFacts
<1>4. /\ run' \in Locals /\ run'.level = run.level /\ run'.point = run.point
      /\ run'.stopped = run.stopped /\ run'.failed = run.failed /\ run'.stop = run.stop
      /\ run'.limited = run.limited /\ run'.comp = run.comp /\ run'.live = run.live
      /\ run'.bias = run.bias /\ run'.cause = run.cause
  BY <1>1, <1>2, <1>3 DEF Locals
<1>5. /\ state' \in Snapshot /\ state'.conn = state.conn /\ state'.phys["gate"] = state.phys["gate"]
      /\ (state'.phys["source"] => state.phys["source"])
  BY <1>2, <1>3 DEF SourceOnly
<1>6. TypeInv' /\ LateInv'
  BY <1>1, <1>4, <1>5 DEF Inv, TypeInv, LateInv, Tripped, Ending, Cleaning, Judged, Real, Live
<1>7. OpenInv' /\ TripInv'
  BY <1>1, <1>4 DEF Inv, OpenInv, TripInv, Starting, Measuring, Tripped
<1>8. LevelInv'
  BY <1>1, <1>4, <1>5 DEF Inv, LevelInv, Tripped, Real, Live
<1>9. RowsInv'
  <2>1. pc' \notin Starting \cup Ending \cup Cleaning \cup Judged
    BY <1>1 DEF Starting, Ending, Cleaning, Judged
  <2> QED BY <1>1, <1>4, <2>1 DEF Inv, RowsInv, Tripped
<1>10. VerdictInv'
  BY <1>1, <1>4, <1>5 DEF Inv, VerdictInv, GateKept, Starting, Measuring, Tripped, Ending, Cleaning, Judged, Live
<1> QED BY <1>6, <1>7, <1>8, <1>9, <1>10 DEF Inv

\* Where a trip leads once its evidence is written, or lost.
LEMMA PersistInv ==
    ASSUME Inv, Persist
    PROVE  Inv'
<1>1. /\ pc = "persist" /\ UNCHANGED <<state, ctl, real, trip, late>> /\ run \in Locals /\ rec \in Recordings
      /\ run.cause # "none"
  BY DEF Persist, Inv, TypeInv, OpenInv, Tripped
<1>2. PICK lost, emergency \in BOOLEAN :
        LET bad == run.offErr \/ lost
            limiter == IF bad \/ emergency THEN "failed" ELSE "stop"
        IN  /\ rec' = [rec EXCEPT !.evidence = IF lost THEN "lost" ELSE "saved"]
            /\ CASE run.cause \in {"reading", "range", "status"} -> Fail
                 [] run.cause = "limit" ->
                      IF bad THEN Fail
                      ELSE pc' = "record" /\ run' = [run EXCEPT !.limited = TRUE]
                 [] run.cause = "live limit" -> IF bad THEN Fail ELSE Halt
                 [] run.cause = "limiter" ->
                      pc' = "collect" /\ run' = [run EXCEPT !.stopped = TRUE, !.stop = limiter]
                 [] run.cause = "held limiter" ->
                      \/ pc' = "collect" /\ run' = [run EXCEPT !.stopped = TRUE, !.stop = limiter]
                      \/ lost /\ Fail
                 [] run.cause = "late limiter" ->
                      pc' = "collect" /\ run' = [run EXCEPT !.failed = TRUE, !.stop = limiter]
  BY DEF Persist
<1> DEFINE limiter == IF run.offErr \/ lost \/ emergency THEN "failed" ELSE "stop"
<1>3. \/ Fail
      \/ ~lost /\ run.cause = "limit" /\ pc' = "record" /\ run' = [run EXCEPT !.limited = TRUE]
      \/ ~lost /\ run.cause = "live limit" /\ Halt
      \/ pc' = "collect" /\ run' = [run EXCEPT !.stopped = TRUE, !.stop = limiter]
      \/ pc' = "collect" /\ run' = [run EXCEPT !.failed = TRUE, !.stop = limiter]
  <2>1. run.cause \in Causes \ {"none"}
    BY <1>1 DEF Locals
  <2> HIDE DEF Fail, Halt
  <2>2. CASE run.cause \in {"reading", "range", "status", "limit"}
    BY <1>2, <2>2
  <2>3. CASE run.cause \in {"live limit", "limiter"}
    BY <1>2, <2>3
  <2>4. CASE run.cause \in {"held limiter", "late limiter"}
    BY <1>2, <2>4
  <2> QED BY <2>1, <2>2, <2>3, <2>4 DEF Causes
<1>4. rec' \in Recordings /\ rec'.rows = rec.rows /\ (rec'.evidence = "lost" => lost)
  BY <1>1, <1>2 DEF Recordings
<1>5. limiter \in {"stop", "failed"} /\ (lost => limiter = "failed")
  OBVIOUS
<1> HIDE DEF limiter
<1>6. /\ run' \in Locals /\ run'.level = run.level /\ run'.point = run.point
      /\ run'.bias = run.bias /\ run'.comp = run.comp /\ run'.live = run.live
  <2>1. CASE Fail
    BY <1>1, <2>1 DEF Fail, Locals
  <2>2. CASE Halt
    BY <1>1, <2>2 DEF Halt, Locals
  <2>3. CASE run' = [run EXCEPT !.limited = TRUE]
    BY <1>1, <2>3 DEF Locals
  <2>4. CASE run' = [run EXCEPT !.stopped = TRUE, !.stop = limiter]
    BY <1>1, <1>5, <2>4 DEF Locals
  <2>5. CASE run' = [run EXCEPT !.failed = TRUE, !.stop = limiter]
    BY <1>1, <1>5, <2>5 DEF Locals
  <2> QED BY <1>3, <2>1, <2>2, <2>3, <2>4, <2>5
<1>7. \/ /\ pc' = "record" /\ ~lost /\ run.cause = "limit" /\ run'.limited = TRUE
         /\ run'.failed = run.failed /\ run'.stopped = run.stopped /\ run'.stop = run.stop
      \/ /\ pc' = "collect" /\ (lost => run'.failed \/ run'.stop = "failed")
         /\ run'.failed \/ run'.stopped
         /\ run'.failed \/ run'.stop # "none" \/ run.cause = "live limit"
  <2>1. CASE Fail
    BY <1>1, <2>1 DEF Fail, Locals
  <2>2. CASE ~lost /\ run.cause = "live limit" /\ Halt
    BY <1>1, <2>2 DEF Halt, Locals
  <2>3. CASE ~lost /\ run.cause = "limit" /\ pc' = "record" /\ run' = [run EXCEPT !.limited = TRUE]
    BY <1>1, <2>3 DEF Locals
  <2>4. CASE pc' = "collect" /\ run' = [run EXCEPT !.stopped = TRUE, !.stop = limiter]
    BY <1>1, <1>5, <2>4 DEF Locals
  <2>5. CASE pc' = "collect" /\ run' = [run EXCEPT !.failed = TRUE, !.stop = limiter]
    BY <1>1, <1>5, <2>5 DEF Locals
  <2> QED BY <1>3, <2>1, <2>2, <2>3, <2>4, <2>5
<1>8. late.writes = 0 /\ late.rows = 0
  BY <1>1, NotLate DEF Ending, Cleaning, Judged
<1>9. pc' \in {"record", "collect"}
  BY <1>7
<1>10. TypeInv' /\ LateInv'
  BY <1>1, <1>4, <1>6, <1>8, <1>9 DEF Inv, TypeInv, LateInv, Measuring, Ending, Cleaning, Real, Live
<1>11. OpenInv' /\ TripInv'
  BY <1>1, <1>6, <1>7 DEF Inv, OpenInv, TripInv, Starting, Measuring, Tripped, Ending, Cleaning
<1>12. LevelInv'
  BY <1>1, <1>6, <1>9 DEF Inv, LevelInv, OpenInv, Starting, Measuring, Tripped, Real, Live
<1>13. RowsInv'
  <2>1. /\ Len(rec.rows) = run.point - 1 /\ run.point <= Len(Targets) /\ run.point <= Len(Targets) + 1
        /\ \A i \in 1..Len(rec.rows) : rec.rows[i] = "ok"
    BY <1>1 DEF Inv, RowsInv, Tripped
  <2>2. run.point \in Nat /\ Len(rec.rows) \in Nat
    BY <1>1, RowsType DEF Locals
  <2>3. Len(rec.rows) < run.point /\ \A i \in 1..Len(rec.rows) - 1 : rec.rows[i] = "ok"
    BY <2>1, <2>2
  <2>4. pc' \notin Starting \cup Tripped \cup Judged /\ (pc' = "record" => pc' \notin Ending \cup Cleaning)
        /\ (pc' = "collect" => pc' \notin Measuring)
    BY <1>9 DEF Starting, Measuring, Tripped, Judged, Ending, Cleaning
  <2> QED BY <1>4, <1>6, <1>7, <2>1, <2>3, <2>4 DEF RowsInv
<1>14. VerdictInv'
  <2>1. GateKept'
    BY <1>1, <1>6 DEF Inv, VerdictInv, GateKept, Tripped, Live
  <2> QED BY <1>4, <1>7, <2>1 DEF VerdictInv, Starting, Measuring, Tripped, Ending, Cleaning, Judged
<1> QED BY <1>10, <1>11, <1>12, <1>13, <1>14 DEF Inv

-----------------------------------------------------------------------------
(* The cleanup *)

\* The end of the measuring closure.
LEMMA CollectInv ==
    ASSUME Inv, Collect
    PROVE  Inv'
<1>1. /\ pc = "collect" /\ pc' = "zero" /\ UNCHANGED <<ctl, rec, real, trip, late>>
      /\ state \in Snapshot /\ run \in Locals /\ state' = [state EXCEPT !.phase = "CleaningUp"]
  BY DEF Collect, Inv, TypeInv
<1>2. /\ state' \in Snapshot /\ state'.conn = state.conn /\ state'.phys = state.phys
      /\ state'.missed = state.missed
  BY <1>1 DEF Snapshot, Phases
<1> DEFINE level == IF run.failed \/ Protected \/ run.live THEN 0 ELSE run.level
           a == [run EXCEPT !.comp = run.comp \/ run.live, !.live = FALSE, !.limited = FALSE]
           b == [a EXCEPT !.reading = 1, !.polls = 0, !.cause = "none"]
<1>3. /\ a \in Locals /\ a.comp = (run.comp \/ run.live) /\ a.live = FALSE /\ a.point = run.point
      /\ a.failed = run.failed /\ a.stopped = run.stopped /\ a.stop = run.stop /\ a.bias = run.bias
  BY <1>1 DEF Locals
<1>4. level \in Int
  BY <1>1 DEF Locals
<1>5. run' = [b EXCEPT !.offErr = FALSE, !.level = level]
  BY <1>1 DEF Collect
<1> HIDE DEF a, level
<1>6. /\ b \in Locals /\ b.comp = a.comp /\ b.live = a.live /\ b.point = a.point
      /\ b.failed = a.failed /\ b.stopped = a.stopped /\ b.stop = a.stop /\ b.bias = a.bias
  BY <1>3 DEF Locals, Causes
<1> HIDE DEF b
<1>7. /\ run' \in Locals /\ run'.comp = b.comp /\ run'.live = b.live /\ run'.point = b.point
      /\ run'.failed = b.failed /\ run'.stopped = b.stopped /\ run'.stop = b.stop /\ run'.bias = b.bias
      /\ run'.level = level
  BY <1>4, <1>5, <1>6 DEF Locals
<1>8. /\ run'.comp = (run.comp \/ run.live) /\ run'.live = FALSE /\ run'.point = run.point
      /\ run'.failed = run.failed /\ run'.stopped = run.stopped /\ run'.stop = run.stop /\ run'.bias = run.bias
  BY <1>3, <1>6, <1>7
<1>9. level = 0 \/ (level = run.level /\ ~run.failed /\ ~run.comp /\ run.stop = "none" /\ ~run.live)
  BY DEF level, Protected
<1>10. TypeInv' /\ LateInv'
  BY <1>1, <1>2, <1>7 DEF Inv, TypeInv, LateInv, Ending, Cleaning, Real, Live
<1>11. OpenInv' /\ TripInv'
  BY <1>1, <1>7, <1>9 DEF Inv, OpenInv, TripInv, Starting, Measuring, Tripped, Ending, Cleaning
<1>12. LevelInv'
  BY <1>1, <1>2, <1>7, <1>9 DEF Inv, LevelInv, Starting, Measuring, Tripped, Real, Live
<1>13. RowsInv'
  <2>1. pc' \notin Starting \cup Measuring \cup Tripped \cup Judged
    BY <1>1 DEF Starting, Measuring, Tripped, Judged
  <2> QED BY <1>1, <1>8, <2>1 DEF Inv, RowsInv, Cleaning, Ending
<1>14. VerdictInv'
  BY <1>1, <1>2, <1>8 DEF Inv, VerdictInv, GateKept, Starting, Measuring, Tripped, Ending, Cleaning, Judged, Live
<1> QED BY <1>10, <1>11, <1>12, <1>13, <1>14 DEF Inv

\* One level of the way back to zero.
ZeroLevel == IF Abs(run.level) <= RampStep THEN 0 ELSE run.level - Sign(run.level) * RampStep

\* It is at most a step away.
LEMMA ZeroLevelFacts ==
    ASSUME run.level \in Int
    PROVE  ZeroLevel \in Int /\ Abs(ZeroLevel - run.level) <= RampStep
<1>1. RampStep \in Nat \ {0}
  BY SweepAssumption
<1> QED BY <1>1 DEF ZeroLevel, Abs, Sign

\* What the verdict depends on is unchanged.
SameVerdict ==
    /\ run' \in Locals /\ run'.point = run.point /\ run'.stopped = run.stopped
    /\ run'.failed = run.failed /\ run'.stop = run.stop /\ run'.comp = run.comp
    /\ run'.live = run.live /\ run'.bias = run.bias

\* The ramp of clean_output.
LEMMA ZeroInv ==
    ASSUME Inv, Zero
    PROVE  Inv'
<1>1. /\ pc = "zero" /\ UNCHANGED <<state, ctl, rec, trip, late>> /\ run \in Locals /\ run.level \in Int
      /\ real \in Int /\ state \in Snapshot
  BY DEF Zero, Inv, TypeInv, Locals
<1>2. ZeroLevel \in Int
  BY <1>1, ZeroLevelFacts
<1>3. \/ pc' = "off" /\ run' = run /\ real' = real
      \/ run.level # 0 /\ pc' = "zero" /\ run' = [run EXCEPT !.level = ZeroLevel] /\ real' = ZeroLevel
      \/ run.level # 0 /\ pc' = "off" /\ run' = [run EXCEPT !.zeroErr = TRUE] /\ real' \in {real, ZeroLevel}
  BY <1>1 DEF Zero, Goto, ZeroLevel
<1>4. /\ SameVerdict /\ pc' \in {"zero", "off"} /\ real' \in Int
      /\ (pc' = "zero" => real' = run'.level) /\ (run.level = 0 => run'.level = 0)
  <2>1. CASE pc' = "off" /\ run' = run /\ real' = real
    BY <1>1, <2>1 DEF SameVerdict
  <2>2. CASE run.level # 0 /\ pc' = "zero" /\ run' = [run EXCEPT !.level = ZeroLevel] /\ real' = ZeroLevel
    BY <1>1, <1>2, <2>2 DEF SameVerdict, Locals
  <2>3. CASE run.level # 0 /\ pc' = "off" /\ run' = [run EXCEPT !.zeroErr = TRUE] /\ real' \in {real, ZeroLevel}
    BY <1>1, <1>2, <2>3 DEF SameVerdict, Locals
  <2> QED BY <1>3, <2>1, <2>2, <2>3
<1>5. TypeInv' /\ LateInv'
  BY <1>1, <1>4 DEF Inv, TypeInv, LateInv, Ending, Cleaning, Real, Live, SameVerdict
<1>6. OpenInv' /\ TripInv'
  BY <1>1, <1>4 DEF Inv, OpenInv, TripInv, Starting, Measuring, Tripped, Ending, Cleaning
<1>7. LevelInv'
  BY <1>4 DEF LevelInv, Starting, Measuring, Tripped
<1>8. RowsInv'
  <2>1. pc' \notin Starting \cup Measuring \cup Tripped \cup Judged
    BY <1>4 DEF Starting, Measuring, Tripped, Judged
  <2> QED BY <1>1, <1>4, <2>1 DEF Inv, RowsInv, Cleaning, Ending, SameVerdict
<1>9. VerdictInv'
  BY <1>1, <1>4 DEF Inv, VerdictInv, GateKept, Starting, Measuring, Tripped, Ending, Cleaning, Judged, Live, SameVerdict
<1> QED BY <1>5, <1>6, <1>7, <1>8, <1>9 DEF Inv

\* The rest of clean_output: OFF is verified or the error is latched.
LEMMA OffInv ==
    ASSUME Inv, Off
    PROVE  Inv'
<1>1. /\ pc = "off" /\ pc' = "gate" /\ UNCHANGED <<ctl, rec, trip, late>> /\ run \in Locals
      /\ real' \in {real, 0} /\ real \in Int /\ state \in Snapshot /\ state.conn["source2"] = "none"
      /\ (~Real => ~state.phys["source"]) /\ run' = [run EXCEPT !.level = 0, !.zeroErr = FALSE]
  BY DEF Off, Inv, TypeInv
<1>2. PICK T \in CleanOutput(state) : state' = [T EXCEPT !.err = @ \/ run.zeroErr]
  BY DEF Off
<1>3. SourceOnly(state, T) /\ (T.err \/ (T.out["source"] = "Off" /\ ~T.phys["source"]))
  BY <1>1, CleanOutputFacts DEF Real
<1>4. /\ state' \in Snapshot /\ state'.conn = state.conn /\ state'.phys["gate"] = state.phys["gate"]
      /\ (state'.phys["source"] => state.phys["source"])
      /\ state'.err \/ (state'.out["source"] = "Off" /\ ~state'.phys["source"])
  BY <1>1, <1>2, <1>3 DEF SourceOnly, Snapshot, Locals
<1>5. SameVerdict
  <2> DEFINE a == [run EXCEPT !.level = 0]
  <2>1. /\ a \in Locals /\ a.point = run.point /\ a.stopped = run.stopped
        /\ a.failed = run.failed /\ a.stop = run.stop /\ a.comp = run.comp
        /\ a.live = run.live /\ a.bias = run.bias
    BY <1>1 DEF Locals
  <2>2. run' = [a EXCEPT !.zeroErr = FALSE]
    BY <1>1
  <2> HIDE DEF a
  <2> QED BY <2>1, <2>2 DEF SameVerdict, Locals
<1>6. TypeInv' /\ LateInv'
  BY <1>1, <1>4, <1>5 DEF Inv, TypeInv, LateInv, Ending, Cleaning, Real, Live, SameVerdict
<1>7. OpenInv' /\ TripInv' /\ LevelInv'
  BY <1>1 DEF Inv, OpenInv, TripInv, LevelInv, Starting, Measuring, Tripped, Ending, Cleaning
<1>8. RowsInv'
  <2>1. pc' \notin Starting \cup Measuring \cup Tripped \cup Judged
    BY <1>1 DEF Starting, Measuring, Tripped, Judged
  <2> QED BY <1>1, <1>5, <2>1 DEF Inv, RowsInv, Cleaning, Ending, SameVerdict
<1>9. VerdictInv'
  BY <1>1, <1>4, <1>5 DEF Inv, VerdictInv, GateKept, Starting, Measuring, Tripped, Ending, Cleaning, Judged, Live, SameVerdict
<1> QED BY <1>6, <1>7, <1>8, <1>9 DEF Inv

\* After a failure or a protection stop the gate is turned off too.
LEMMA GateInv ==
    ASSUME Inv, Gate
    PROVE  Inv'
<1>1. /\ pc = "gate" /\ pc' = "verdict" /\ UNCHANGED <<run, ctl, rec, real, trip, late>>
      /\ state \in Snapshot
  BY DEF Gate, Goto, Inv, TypeInv
<1>2. PICK q \in IF run.failed \/ Protected THEN ShutdownGate(state) ELSE {Ok(state)} :
        state' = [q.s EXCEPT !.err = @ \/ ~q.ok]
  BY DEF Gate
<1>3. /\ GateOnly(state, q.s) /\ q.ok \in BOOLEAN
      /\ IF run.failed \/ Protected THEN Live(state, "gate") => ~q.s.phys["gate"] \/ q.s.missed ELSE q.s = state
  <2>1. CASE run.failed \/ Protected
    BY <1>1, <1>2, <2>1, ShutdownGateFacts
  <2>2. CASE ~(run.failed \/ Protected)
    BY <1>1, <1>2, <2>2, Results DEF GateOnly
  <2> QED BY <2>1, <2>2
<1>4. /\ state' \in Snapshot /\ state'.conn = state.conn /\ state'.phys = q.s.phys /\ state'.missed = q.s.missed
      /\ state'.phys["source"] = state.phys["source"] /\ state'.out["source"] = state.out["source"]
      /\ (state.err => state'.err)
  BY <1>2, <1>3 DEF GateOnly, Snapshot
<1>5. TypeInv' /\ LateInv'
  BY <1>1, <1>4 DEF Inv, TypeInv, LateInv, Ending, Cleaning, Real, Live
<1>6. OpenInv' /\ TripInv' /\ LevelInv'
  BY <1>1 DEF Inv, OpenInv, TripInv, LevelInv, Starting, Measuring, Tripped, Ending, Cleaning
<1>7. RowsInv'
  <2>1. pc' \notin Starting \cup Measuring \cup Tripped \cup Judged
    BY <1>1 DEF Starting, Measuring, Tripped, Judged
  <2> QED BY <1>1, <2>1 DEF Inv, RowsInv, Cleaning, Ending
<1>8. VerdictInv'
  <2>1. ~run.failed /\ ~Protected => GateKept'
    BY <1>1, <1>3, <1>4 DEF Inv, VerdictInv, GateKept, Cleaning, Live
  <2>2. run.failed \/ Protected => GateShut'
    BY <1>3, <1>4 DEF GateShut, Live
  <2>3. Protected' = Protected
    BY <1>1 DEF Protected
  <2> QED BY <1>1, <1>4, <2>1, <2>2, <2>3 DEF Inv, VerdictInv, Starting, Measuring, Tripped, Ending, Cleaning, Judged
<1> QED BY <1>5, <1>6, <1>7, <1>8 DEF Inv

\* CompletionPhase, by what it depends on.
LEMMA PhaseFacts ==
    ASSUME run \in Locals, NEW S \in Snapshot
    PROVE  /\ CompletionPhase(S) \in Phases
           /\ CompletionPhase(S) # "Failed" => ~run.failed /\ ~S.err /\ run.stop # "failed"
           /\ CompletionPhase(S) = "Completed" => run.stop = "none" /\ ~run.comp /\ ~run.stopped
           /\ CompletionPhase(S) \in {"Completed", "Stopped"} => run.stop = "none" /\ ~run.comp
           /\ CompletionPhase(S) \notin {"Completed", "Stopped", "Failed"} => run.stop # "none" \/ run.comp
<1>1. run.failed \in BOOLEAN /\ run.stop \in {"none", "stop", "failed"} /\ run.comp \in BOOLEAN
      /\ run.stopped \in BOOLEAN /\ S.err \in BOOLEAN
  BY DEF Locals, Snapshot
<1>2. CASE run.failed \/ S.err \/ run.stop = "failed"
  BY <1>2 DEF CompletionPhase, Phases
<1>3. CASE ~(run.failed \/ S.err) /\ run.stop = "stop"
  BY <1>3 DEF CompletionPhase, Phases
<1>4. CASE ~(run.failed \/ S.err) /\ run.stop = "none"
  BY <1>4 DEF CompletionPhase, Phases
<1> QED BY <1>1, <1>2, <1>3, <1>4

\* The verdict.
LEMMA VerdictStep ==
    ASSUME Inv, Verdict
    PROVE  Inv'
<1>1. /\ pc = "verdict" /\ pc' = "csv" /\ UNCHANGED <<run, ctl, rec, real, trip, late>>
      /\ state \in Snapshot /\ run \in Locals
  BY DEF Verdict, Goto, Inv, TypeInv
<1>2. PICK S \in {state} \cup RecordingFailed(state) :
        state' = [S EXCEPT !.phase = CompletionPhase(S), !.err = @ \/ run.failed \/ run.stop = "failed"]
  BY DEF Verdict
<1>3. S \in Snapshot /\ S.conn = state.conn /\ S.phys["source"] = state.phys["source"] /\ (S = state \/ S.err)
  BY <1>1, <1>2, RecordingFailedFacts
<1>4. /\ state' \in Snapshot /\ state'.conn = state.conn /\ state'.phys = S.phys /\ state'.missed = S.missed
      /\ state'.out = S.out /\ state'.phase = CompletionPhase(S)
      /\ state'.err = (S.err \/ run.failed \/ run.stop = "failed")
  <2>1. CompletionPhase(S) \in Phases /\ (S.err \/ run.failed \/ run.stop = "failed") \in BOOLEAN
    BY <1>1, <1>3, PhaseFacts
  <2> QED BY <1>2, <1>3, <2>1 DEF Snapshot
<1>5. TypeInv' /\ LateInv'
  BY <1>1, <1>3, <1>4 DEF Inv, TypeInv, LateInv, Ending, Judged, Real, Live
<1>6. OpenInv' /\ TripInv' /\ LevelInv'
  BY <1>1 DEF Inv, OpenInv, TripInv, LevelInv, Starting, Measuring, Tripped, Ending, Cleaning, Judged
<1>7. RowsInv'
  <2>1. pc' \notin Starting \cup Measuring \cup Tripped \cup Cleaning
    BY <1>1 DEF Starting, Measuring, Tripped, Cleaning
  <2>2. state'.phase = "Completed" => ~(run.failed \/ run.stopped \/ run.comp \/ run.live) /\ run.stop = "none"
    BY <1>1, <1>3, <1>4, PhaseFacts DEF Inv, VerdictInv
  <2> QED BY <1>1, <2>1, <2>2 DEF Inv, RowsInv, Cleaning, Ending
<1>8. VerdictInv'
  <2>1. pc' \in Judged /\ pc' \notin Starting \cup Measuring \cup Tripped \cup Cleaning /\ pc' \in Ending
    BY <1>1 DEF Starting, Measuring, Tripped, Cleaning, Judged, Ending
  <2>2. ASSUME state'.phase # "Failed"
        PROVE  /\ state'.out["source"] = "Off" /\ ~state'.phys["source"] /\ ~state'.err
               /\ rec'.evidence # "lost"
               /\ IF state'.phase \in {"Completed", "Stopped"} THEN GateKept' ELSE GateShut'
    <3>1. S = state /\ ~run.failed /\ ~state.err /\ run.stop # "failed"
      BY <1>1, <1>3, <1>4, <2>2, PhaseFacts
    <3>2. state'.out["source"] = "Off" /\ ~state'.phys["source"] /\ ~state'.err /\ rec'.evidence # "lost"
      BY <1>1, <1>4, <3>1 DEF Inv, VerdictInv, Cleaning
    <3>3. CASE state'.phase \in {"Completed", "Stopped"}
      <4>1. ~Protected
        BY <1>1, <1>3, <1>4, <3>3, PhaseFacts DEF Protected
      <4> QED BY <1>1, <1>4, <3>1, <3>2, <3>3, <4>1 DEF Inv, VerdictInv, Cleaning, GateKept, Live
    <3>4. CASE state'.phase \notin {"Completed", "Stopped"}
      <4>1. Protected
        BY <1>1, <1>3, <1>4, <2>2, <3>4, PhaseFacts DEF Protected
      <4> QED BY <1>1, <1>4, <3>1, <3>2, <3>4, <4>1 DEF Inv, VerdictInv, GateShut, Live
    <3> QED BY <3>3, <3>4
  <2> QED BY <1>1, <2>1, <2>2 DEF VerdictInv
<1> QED BY <1>5, <1>6, <1>7, <1>8 DEF Inv

\* Making the recordings durable: either it succeeds, or the run has failed.
LEMMA CloseInv ==
    ASSUME Inv, CloseCsv \/ CloseAudit \/ Hashes \/ Manifest
    PROVE  Inv'
<1>1. /\ UNCHANGED <<run, ctl, real, trip, late>> /\ state \in Snapshot /\ rec \in Recordings
      /\ pc \in Judged \ {"ended"} /\ pc' \in Judged
  BY DEF CloseCsv, CloseAudit, Hashes, Manifest, Goto, Inv, TypeInv, Judged
<1>2. \/ state' \in RecordingFailed(state) /\ rec' = rec
      \/ /\ state' = state
         /\ \/ pc = "csv" /\ pc' = "audit" /\ rec' = [rec EXCEPT !.csv = "final"]
            \/ pc = "audit" /\ pc' = "hashes" /\ rec' = [rec EXCEPT !.audit = "final"]
            \/ pc = "hashes" /\ pc' = "manifest" /\ rec' = rec
            \/ pc = "manifest" /\ pc' = "ended" /\ rec' = [rec EXCEPT !.manifest = state.phase]
  BY DEF CloseCsv, CloseAudit, Hashes, Manifest, Goto
<1>3. /\ state' \in Snapshot /\ state'.conn = state.conn /\ state'.phys["source"] = state.phys["source"]
      /\ (state'.phase = "Failed" \/ state' = state)
  BY <1>1, <1>2, RecordingFailedFacts
<1>4. rec' \in Recordings /\ rec'.rows = rec.rows /\ rec'.evidence = rec.evidence
  <2>1. state.phase \in Phases
    BY <1>1 DEF Snapshot
  <2> QED BY <1>1, <1>2, <2>1 DEF Recordings
<1>5. pc' \notin Starting \cup Measuring \cup Tripped \cup Cleaning /\ pc' \in Ending /\ pc \in Ending
      /\ pc' \notin {"protect", "persist"}
  BY <1>1 DEF Starting, Measuring, Tripped, Cleaning, Judged, Ending
<1>6. TypeInv' /\ LateInv'
  BY <1>1, <1>3, <1>4, <1>5 DEF Inv, TypeInv, LateInv, Real, Live
<1>7. OpenInv' /\ TripInv' /\ LevelInv'
  BY <1>1, <1>5 DEF Inv, OpenInv, TripInv, LevelInv, Starting, Measuring, Cleaning, Judged
<1>8. RowsInv'
  BY <1>1, <1>3, <1>4, <1>5 DEF Inv, RowsInv
<1>9. VerdictInv'
  <2>1. CASE state'.phase = "Failed"
    BY <1>5, <2>1 DEF VerdictInv, Cleaning, Judged
  <2>2. ASSUME state'.phase # "Failed"
        PROVE  /\ state'.out["source"] = "Off" /\ ~state'.phys["source"] /\ ~state'.err
               /\ rec'.evidence # "lost"
               /\ pc' # "csv" => rec'.csv = "final"
               /\ pc' \notin {"csv", "audit"} => rec'.audit = "final"
               /\ pc' = "ended" => rec'.manifest = state'.phase
               /\ IF state'.phase \in {"Completed", "Stopped"} THEN GateKept' ELSE GateShut'
    <3>1. state' = state
      BY <1>3, <2>2
    <3>2. /\ state.out["source"] = "Off" /\ ~state.phys["source"] /\ ~state.err /\ rec.evidence # "lost"
          /\ pc # "csv" => rec.csv = "final"
          /\ pc \notin {"csv", "audit"} => rec.audit = "final"
          /\ IF state.phase \in {"Completed", "Stopped"} THEN GateKept ELSE GateShut
      BY <1>1, <2>2, <3>1 DEF Inv, VerdictInv
    <3>3. /\ pc' # "csv" => rec'.csv = "final"
          /\ pc' \notin {"csv", "audit"} => rec'.audit = "final"
          /\ pc' = "ended" => rec'.manifest = state.phase
      <4>1. ~(state' \in RecordingFailed(state))
        BY <1>1, <2>2, RecordingFailedFacts
      <4> QED BY <1>1, <1>2, <3>2, <4>1 DEF Recordings
    <3>4. IF state'.phase \in {"Completed", "Stopped"} THEN GateKept' ELSE GateShut'
      BY <1>1, <3>1, <3>2 DEF GateKept, GateShut
    <3> QED BY <1>4, <3>1, <3>2, <3>3, <3>4
  <2> QED BY <1>5, <2>1, <2>2 DEF VerdictInv, Cleaning
<1> QED BY <1>6, <1>7, <1>8, <1>9 DEF Inv

\* A run that was refused.
LEMMA SettleInv ==
    ASSUME Inv, Settle
    PROVE  Inv'
<1>1. /\ pc = "settle" /\ pc' = "ended" /\ UNCHANGED <<run, ctl, rec, real, trip, late>>
      /\ state \in Snapshot /\ state.conn["source2"] = "none"
  BY DEF Settle, Goto, Inv, TypeInv
<1>2. /\ state' \in Snapshot /\ state'.conn = state.conn /\ state'.phase = "Failed"
      /\ state'.phys["source"] = state.phys["source"]
  BY <1>1, ErrorPathFacts DEF Settle
<1>3. TypeInv' /\ LateInv'
  BY <1>1, <1>2 DEF Inv, TypeInv, LateInv, Ending, Judged, Real, Live
<1>4. OpenInv' /\ TripInv' /\ LevelInv'
  BY <1>1 DEF Inv, OpenInv, TripInv, LevelInv, Starting, Measuring, Tripped, Ending, Cleaning, Judged
<1>5. RowsInv'
  <2>1. pc' \notin Starting \cup Measuring \cup Tripped \cup Cleaning
    BY <1>1 DEF Starting, Measuring, Tripped, Cleaning
  <2> QED BY <1>1, <1>2, <2>1 DEF Inv, RowsInv, Cleaning, Ending
<1>6. VerdictInv'
  BY <1>1, <1>2 DEF VerdictInv, Starting, Measuring, Tripped, Cleaning, Judged, Ending
<1> QED BY <1>3, <1>4, <1>5, <1>6 DEF Inv

\* The reader thread sets flags, and does not take a stop back.
LEMMA ReaderInv ==
    ASSUME Inv, RequestStop \/ RequestOff \/ Quiet \/ Heartbeat \/ UNCHANGED vars
    PROVE  Inv' /\ UNCHANGED <<state, pc, run, rec, real, trip, late>>
<1>1. UNCHANGED <<state, pc, run, rec, real, trip, late>>
  BY DEF RequestStop, RequestOff, Quiet, Heartbeat, Reader, vars
<1>2. ctl' \in [stop : BOOLEAN, off : BOOLEAN, quiet : BOOLEAN] /\ (ctl.stop => ctl'.stop)
  BY DEF RequestStop, RequestOff, Quiet, Heartbeat, Reader, vars, Inv, TypeInv
<1>3. TypeInv' /\ LateInv'
  BY <1>1, <1>2 DEF Inv, TypeInv, LateInv, Real, Live
<1>4. OpenInv' /\ TripInv' /\ LevelInv'
  BY <1>1 DEF Inv, OpenInv, TripInv, LevelInv, Real, Live
<1>5. RowsInv'
  BY <1>1 DEF Inv, RowsInv
<1>6. VerdictInv'
  <2>1. GateKept' = GateKept /\ GateShut' = GateShut /\ Protected' = Protected
    BY <1>1 DEF GateKept, GateShut, Protected, Live
  <2> QED BY <1>1, <2>1 DEF Inv, VerdictInv
<1> QED BY <1>1, <1>3, <1>4, <1>5, <1>6 DEF Inv

-----------------------------------------------------------------------------
(* The invariant *)

\* What serve hands over.
LEMMA InitInv == Init => Inv
<1> SUFFICES ASSUME Init PROVE Inv
  OBVIOUS
<1>1. PICK kind \in Kinds, kit \in Kits, gate, bias, on, err \in BOOLEAN, out \in OutputStates :
        /\ bias => gate
        /\ kind = "sim" => ~kit.profile /\ ~kit.guarded /\ ~on
        /\ (out = "Off" => ~on) /\ (out = "On" /\ kind = "live" => on)
        /\ state = InitState(kind, gate, bias, kit.reference, out, on, err)
        /\ run = InitRun(kit.profile, kit.guarded, bias)
  BY DEF Init
<1>2. /\ pc = "preflight" /\ ctl = [stop |-> FALSE, off |-> FALSE, quiet |-> FALSE]
      /\ rec = [rows |-> <<>>, csv |-> "none", audit |-> "none", manifest |-> "none", evidence |-> "none"]
      /\ real \in {0, Targets[1]} /\ trip = "none" /\ late = [writes |-> 0, rows |-> 0]
  BY DEF Init
<1>3. kit.profile \in BOOLEAN /\ kit.guarded \in BOOLEAN /\ kit.reference \in BOOLEAN
  BY SweepAssumption
<1>4. /\ run \in Locals /\ run.bias = bias /\ run.level = 0 /\ run.point = 1 /\ ~run.failed /\ ~run.stopped
      /\ run.stop = "none" /\ ~run.live /\ ~run.comp /\ ~run.limited
  BY <1>1, <1>3 DEF InitRun, Locals, Causes
<1>5. state \in Snapshot
  <2> DEFINE conn == [r \in Roles |-> CASE r = "source2" -> "none"
                                 [] r = "gate" -> IF gate THEN kind ELSE "none"
                                 [] r = "reference" -> IF kit.reference THEN kind ELSE "none"
                                 [] OTHER -> kind]
             outs == [source |-> out, source2 |-> "Unknown",
                      gate |-> CASE bias -> "On" [] gate /\ ~bias -> "Off" [] ~gate -> "Unknown"]
             held == [source |-> out = "On", source2 |-> FALSE, gate |-> bias]
             phys == [source |-> on, source2 |-> FALSE, gate |-> bias /\ kind = "live"]
  <2>1. conn \in [Roles -> Kinds \cup {"none"}]
    OBVIOUS
  <2>2. outs \in [Outputs -> OutputStates]
    <3>1. outs.gate \in OutputStates /\ outs.source \in OutputStates /\ outs.source2 \in OutputStates
      BY <1>1 DEF OutputStates
    <3>2. DOMAIN outs = Outputs
      BY DEF Outputs
    <3> QED BY <3>1, <3>2 DEF Outputs
  <2>3. held \in [Outputs -> BOOLEAN]
    <3>1. held.gate \in BOOLEAN /\ held.source \in BOOLEAN /\ held.source2 \in BOOLEAN
      BY <1>1
    <3>2. DOMAIN held = Outputs
      BY DEF Outputs
    <3> QED BY <3>1, <3>2 DEF Outputs
  <2>4. phys \in [Outputs -> BOOLEAN]
    <3>1. phys.gate \in BOOLEAN /\ phys.source \in BOOLEAN /\ phys.source2 \in BOOLEAN
      BY <1>1
    <3>2. DOMAIN phys = Outputs
      BY DEF Outputs
    <3> QED BY <3>1, <3>2 DEF Outputs
  <2>5. state = [conn |-> conn, out |-> outs, held |-> held, err |-> err, phase |-> "Ready",
                 phys |-> phys, missed |-> FALSE]
    BY <1>1 DEF InitState
  <2> HIDE DEF conn, outs, held, phys
  <2> QED BY <2>1, <2>2, <2>3, <2>4, <2>5 DEF Snapshot, Phases
<1>6. /\ state.conn["source2"] = "none" /\ state.conn["source"] = kind
      /\ state.conn["gate"] = (IF gate THEN kind ELSE "none")
  BY <1>1 DEF InitState, Roles, Outputs
<1>7. state.phys["source"] = on /\ state.phys["gate"] = (bias /\ kind = "live")
  BY <1>1 DEF InitState
<1>8. /\ rec \in Recordings /\ rec.rows = <<>> /\ rec.evidence = "none"
  BY <1>2 DEF Recordings
<1>9. real \in Int
  <2>1. Targets \in Seq(Int) /\ Targets # <<>>
    BY SweepAssumption
  <2>2. Targets[1] \in Int
    BY <2>1
  <2> QED BY <1>2, <2>2
<1>10. ~Real => ~state.phys["source"]
  BY <1>1, <1>6, <1>7 DEF Real, Live, Kinds
<1>11. ctl \in [stop : BOOLEAN, off : BOOLEAN, quiet : BOOLEAN] /\ late \in [writes : Nat, rows : Nat]
       /\ late.writes = 0 /\ late.rows = 0
  BY <1>2
<1>12. TypeInv /\ LateInv
  BY <1>2, <1>4, <1>5, <1>6, <1>8, <1>9, <1>10, <1>11 DEF TypeInv, LateInv, Starting
<1>13. OpenInv /\ TripInv /\ LevelInv
  BY <1>2, <1>4 DEF OpenInv, TripInv, LevelInv, Starting, Measuring, Tripped
<1>14. RowsInv
  BY <1>2, <1>4, <1>8 DEF RowsInv, Starting, Measuring, Tripped, Ending, Cleaning, Judged
<1>15. VerdictInv
  <2>1. GateKept
    BY <1>4, <1>6, <1>7 DEF GateKept, Live
  <2> QED BY <1>2, <1>8, <2>1 DEF VerdictInv, Starting, Measuring, Tripped, Ending, Cleaning, Judged
<1> QED BY <1>12, <1>13, <1>14, <1>15 DEF Inv

\* Every step keeps it.
LEMMA NextInv ==
    ASSUME Inv, [Next]_vars
    PROVE  Inv'
BY PreflightInv, FilesInv, ConfigureInv, TurnOnInv, CancelInv, PointInv, RampInv, WaitInv, ConvertInv,
   ReadInv, RecordInv, SaveInv, ProtectInv, PersistInv, CollectInv, ZeroInv, OffInv, GateInv,
   VerdictStep, CloseInv, SettleInv, ReaderInv
   DEF Next, Execute

\* The inductive invariant.
THEOREM SweepInvariant == Spec => []Inv
<1>1. Inv /\ [Next]_vars => Inv'
  BY NextInv
<1> QED BY <1>1, InitInv, PTL DEF Spec

\* After a stop or OFF request the closure sets at most one more level and saves
\* at most one more row, wherever in `execute` the request finds it.
THEOREM StopsSoon == Spec => []StopBounded
<1>1. Inv => StopBounded
  BY DEF Inv, TypeInv, LateInv, StopBounded
<1> QED BY <1>1, SweepInvariant, PTL

\* A run that does not end as failed is clean: `execute` reports success only
\* with the source verified OFF, the evidence kept, the recordings durable and
\* the gate as it should be.
THEOREM VerdictClean == Spec => []CleanVerdict
<1>1. Inv => CleanVerdict
  <2> SUFFICES ASSUME Inv, pc = "ended", state.phase # "Failed" PROVE CleanVerdict
    BY DEF CleanVerdict
  <2>1. /\ state.out["source"] = "Off" /\ ~state.phys["source"] /\ ~state.err
        /\ rec.evidence # "lost" /\ rec.csv = "final" /\ rec.audit = "final" /\ rec.manifest = state.phase
        /\ IF state.phase \in {"Completed", "Stopped"} THEN GateKept ELSE GateShut
    BY DEF Inv, VerdictInv, Judged
  <2> QED BY <2>1 DEF CleanVerdict, GateKept, GateShut
<1> QED BY <1>1, SweepInvariant, PTL

\* The analysis CSV tells the truth about the run.
THEOREM CsvTrue == Spec => []RowsTrue
<1>1. Inv => RowsTrue
  <2> SUFFICES ASSUME Inv PROVE RowsTrue
    OBVIOUS
  <2>1. Len(rec.rows) \in Nat /\ run.point \in Nat
    BY RowsType DEF Inv, TypeInv, Locals
  <2>2. pc \in Starting \cup Measuring \cup Tripped \cup Ending
    BY DEF Inv, TypeInv
  <2>3. \A i \in 1..Len(rec.rows) - 1 : rec.rows[i] = "ok"
    <3>1. CASE pc \in Starting
      BY <3>1 DEF Inv, RowsInv
    <3>2. CASE pc \in Measuring \cup Tripped
      BY <2>1, <3>2 DEF Inv, RowsInv
    <3>3. CASE pc \in Ending
      BY <3>3 DEF Inv, RowsInv
    <3> QED BY <2>2, <3>1, <3>2, <3>3
  <2>4. run.stop # "none" => Len(rec.rows) < run.point
    BY <2>2 DEF Inv, RowsInv, OpenInv
  <2>5. pc = "ended" /\ state.phase = "Completed" => rec.rows = [i \in 1..Len(Targets) |-> "ok"]
    BY DEF Inv, RowsInv, Judged
  <2> QED BY <2>3, <2>4, <2>5 DEF RowsTrue
<1> QED BY <1>1, SweepInvariant, PTL

-----------------------------------------------------------------------------
(* The levels written *)

\* A step that writes no level and turns nothing on.
Still == real' = real /\ (state'.phys["source"] => state.phys["source"])

\* A failed poll of the gate does not touch the source.
LEMMA GateFailsStill ==
    ASSUME Inv, GateFails, real' = real
    PROVE  Still
<1>1. GateOnly(state, state')
  BY GateFaultFacts DEF GateFails, Inv, TypeInv
<1> QED BY <1>1 DEF GateOnly, Still

\* Most steps.
LEMMA StillFacts ==
    ASSUME Inv, Next, ~Preflight, ~TurnOn, ~Ramp, ~Zero, ~Off
    PROVE  Still
<1>0. state \in Snapshot /\ state.conn["source2"] = "none"
  BY DEF Inv, TypeInv
<1>1. CASE RequestStop \/ RequestOff \/ Quiet \/ Heartbeat
  BY <1>1, ReaderInv DEF Still
<1>2. CASE Files \/ Cancel \/ Point \/ Persist
  BY <1>2 DEF Files, Cancel, Point, Persist, Still
<1>3. CASE Configure \/ Record \/ Range
  BY <1>3 DEF Configure, Record, Range, Fails, RangeTrips, Continue, Still
<1>4. CASE Check \/ Wait
  BY <1>4, GateFailsStill DEF Check, Wait, SourceTrips, Continue, Still
<1>5. CASE Convert
  BY <1>5, GateFailsStill DEF Convert, Fails, Continue, Still
<1>6. CASE Accept
  BY <1>6, GateFailsStill DEF Accept, SourceTrips, RangeTrips, ReferenceTrips, Fails, Still
<1>7. CASE Read
  BY <1>7, GateFailsStill DEF Read, SourceTrips, Continue, Still
<1>8. CASE Verify
  BY <1>8, GateFailsStill DEF Verify, SourceTrips, Continue, Still
<1>9. CASE Display \/ Reference
  BY <1>9 DEF Display, Reference, Fails, SourceTrips, ReferenceTrips, Continue, Still
<1>10. CASE Save
  <2>1. real' = real
    BY <1>10 DEF Save
  <2>2. \E q \in ProtectionOff(state) \cup {Ok(state)} : state' = q.s
    BY <1>10 DEF Save
  <2> QED BY <1>0, <2>1, <2>2, ProtectionOffFacts, Results DEF SourceOnly, Still
<1>11. CASE Protect
  <2>1. real' = real /\ \E q \in ProtectionOff(state) : state' = q.s
    BY <1>11 DEF Protect
  <2> QED BY <1>0, <2>1, ProtectionOffFacts DEF SourceOnly, Still
<1>12. CASE Collect
  BY <1>0, <1>12 DEF Collect, Still, Snapshot
<1>13. CASE Gate
  <2>1. PICK q \in ShutdownGate(state) \cup {Ok(state)} : state' = [q.s EXCEPT !.err = @ \/ ~q.ok]
    BY <1>13 DEF Gate
  <2>2. GateOnly(state, q.s)
    BY <1>0, ShutdownGateFacts, Results DEF GateOnly
  <2>3. real' = real
    BY <1>13 DEF Gate
  <2> QED BY <2>1, <2>2, <2>3 DEF GateOnly, Still, Snapshot
<1>14. CASE Verdict
  <2>1. PICK S \in {state} \cup RecordingFailed(state) :
          state' = [S EXCEPT !.phase = CompletionPhase(S), !.err = @ \/ run.failed \/ run.stop = "failed"]
    BY <1>14 DEF Verdict
  <2>2. S \in Snapshot /\ S.phys["source"] = state.phys["source"]
    BY <1>0, RecordingFailedFacts
  <2>3. real' = real
    BY <1>14 DEF Verdict
  <2> QED BY <2>1, <2>2, <2>3 DEF Still, Snapshot
<1>15. CASE CloseCsv \/ CloseAudit \/ Hashes \/ Manifest
  <2>1. real' = real /\ state' \in {state} \cup RecordingFailed(state)
    BY <1>15 DEF CloseCsv, CloseAudit, Hashes, Manifest
  <2> QED BY <1>0, <2>1, RecordingFailedFacts DEF Still
<1>16. CASE Settle
  BY <1>0, <1>16, ErrorPathFacts DEF Settle, Still
<1> QED BY <1>1, <1>2, <1>3, <1>4, <1>5, <1>6, <1>7, <1>8, <1>9, <1>10, <1>11, <1>12, <1>13, <1>14,
           <1>15, <1>16 DEF Next, Execute

\* A step that may write a level: from which level, and how far.
LEMMA WriteFacts ==
    ASSUME Inv, Next, ~Still
    PROVE  /\ trip = "none" \/ ~state'.phys["source"]
           /\ rec' = rec
           /\ Real /\ state'.phys["source"] =>
                IF state.phys["source"] THEN Abs(real' - real) <= RampStep ELSE real' = 0
<1>0. real \in Int /\ RampStep \in Nat /\ Abs(real - real) <= RampStep /\ run.level \in Int
  <2>1. real \in Int /\ RampStep \in Nat /\ run.level \in Int
    BY SweepAssumption DEF Inv, TypeInv, Locals
  <2> QED BY <2>1 DEF Abs
<1>1. CASE Preflight
  <2>1. SourceOnly(state, state') /\ rec' = rec /\ trip = "none" /\ (real' = real \/ ~Real \/ ~state'.phys["source"])
    <3>1. SourceOnly(state, state') /\ (real' = real \/ ~Real \/ ~state'.phys["source"])
      BY <1>1, PreflightFacts
    <3>2. rec' = rec /\ pc = "preflight"
      BY <1>1 DEF Preflight
    <3> QED BY <3>1, <3>2 DEF Inv, TripInv, Ending, Cleaning, Judged
  <2> QED BY <1>0, <2>1 DEF SourceOnly
<1>2. CASE TurnOn
  <2>1. pc = "on" /\ real' = real /\ rec' = rec
    BY <1>2 DEF TurnOn
  <2> QED BY <1>0, <2>1 DEF Inv, TripInv, LevelInv, Ending, Cleaning, Judged
<1>3. CASE Ramp
  <2>1. pc = "ramp" /\ rec' = rec /\ state' = state /\ real' \in {NextLevel, real}
    BY <1>3 DEF Ramp, NextLevel, Write
  <2>2. trip = "none" /\ (Real => real = run.level)
    BY <2>1 DEF Inv, TripInv, LevelInv, OpenInv, Measuring, Ending, Cleaning, Judged
  <2>3. Abs(NextLevel - run.level) <= RampStep
    BY <1>0, <2>1, TargetFacts, NextLevelFacts DEF Measuring
  <2> QED BY <1>0, <2>1, <2>2, <2>3
<1>4. CASE Zero
  <2>1. pc = "zero" /\ rec' = rec /\ state' = state /\ (real' = real \/ (run.level # 0 /\ real' = ZeroLevel))
    BY <1>4 DEF Zero, ZeroLevel, Goto
  <2>2. run.level # 0 => trip = "none" /\ (Real => real = run.level)
    BY <2>1 DEF Inv, TripInv, LevelInv
  <2>3. Abs(ZeroLevel - run.level) <= RampStep
    BY <1>0, ZeroLevelFacts
  <2>4. run.level # 0
    BY <1>4, <2>1 DEF Still
  <2> QED BY <1>0, <2>1, <2>2, <2>3, <2>4
<1>5. CASE Off
  <2>1. rec' = rec /\ (state'.phys["source"] => real' = real)
    BY <1>5 DEF Off
  <2>2. state'.phys["source"] => state.phys["source"]
    <3>1. PICK T \in CleanOutput(state) : state' = [T EXCEPT !.err = @ \/ run.zeroErr]
      BY <1>5 DEF Off
    <3>2. SourceOnly(state, T)
      BY CleanOutputFacts DEF Inv, TypeInv, Real
    <3> QED BY <3>1, <3>2 DEF SourceOnly, Snapshot
  <2> QED BY <1>0, <2>1, <2>2 DEF Still
<1> QED BY <1>1, <1>2, <1>3, <1>4, <1>5, StillFacts

\* The source is switched on only at level zero, and moves by at most one ramp
\* step while it is on, through workflow::ramp, every stop and clean_output, for
\* any plan.
THEOREM SlewNeverExceeded == Spec => SlewBounded
<1>1. Inv /\ [Next]_vars =>
        [Real /\ state'.phys["source"] =>
           IF state.phys["source"] THEN Abs(real' - real) <= RampStep ELSE real' = 0]_vars
  <2> SUFFICES ASSUME Inv, Next
               PROVE  Real /\ state'.phys["source"] =>
                        IF state.phys["source"] THEN Abs(real' - real) <= RampStep ELSE real' = 0
    OBVIOUS
  <2>1. CASE Still
    <3>1. real \in Int /\ RampStep \in Nat
      BY SweepAssumption DEF Inv, TypeInv
    <3>2. Abs(real - real) <= RampStep
      BY <3>1 DEF Abs
    <3> QED BY <2>1, <3>2 DEF Still
  <2>2. CASE ~Still
    BY <2>2, WriteFacts
  <2> QED BY <2>1, <2>2
<1> QED BY <1>1, SweepInvariant, PTL DEF Spec, SlewBounded

\* After a tripping observation the OFF request comes before any record of it,
\* and no level is written to an output that is still on.
THEOREM TripTurnsOffFirst == Spec => OffFirst
<1>1. Inv /\ [Next]_vars =>
        [/\ trip = "seen" => rec' = rec
         /\ trip # "none" /\ state'.phys["source"] => real' = real]_vars
  <2> SUFFICES ASSUME Inv, Next
               PROVE  /\ trip = "seen" => rec' = rec
                      /\ trip # "none" /\ state'.phys["source"] => real' = real
    OBVIOUS
  <2>1. ASSUME trip = "seen" PROVE rec' = rec
    <3>1. pc = "protect"
      BY <2>1 DEF Inv, TripInv
    <3>2. CASE RequestStop \/ RequestOff \/ Quiet \/ Heartbeat
      BY <3>2, ReaderInv
    <3>3. CASE Execute
      <4>1. ~Files /\ ~Save /\ ~Persist /\ ~CloseCsv /\ ~CloseAudit /\ ~Manifest
        BY <3>1 DEF Files, Save, Persist, CloseCsv, CloseAudit, Manifest
      <4>2. CASE Preflight \/ Configure \/ TurnOn \/ Cancel \/ Point \/ Ramp \/ Check \/ Wait \/ Convert
        BY <4>2 DEF Preflight, Configure, TurnOn, Cancel, Point, Ramp, Check, Wait, Convert
      <4>3. CASE Accept \/ Read \/ Verify \/ Range \/ Display \/ Record \/ Reference \/ Protect
        BY <4>3 DEF Accept, Read, Verify, Range, Display, Record, Reference, Protect
      <4>4. CASE Collect \/ Zero \/ Off \/ Gate \/ Verdict \/ Hashes \/ Settle
        BY <4>4 DEF Collect, Zero, Off, Gate, Verdict, Hashes, Settle
      <4> QED BY <3>3, <4>1, <4>2, <4>3, <4>4 DEF Execute
    <3> QED BY <3>2, <3>3 DEF Next
  <2>2. trip # "none" /\ state'.phys["source"] => real' = real
    BY WriteFacts DEF Still
  <2> QED BY <2>1, <2>2
<1> QED BY <1>1, SweepInvariant, PTL DEF Spec, OffFirst
=============================================================================
