---------------------------- MODULE Instruments ----------------------------
(***************************************************************************)
(* The measurement engine's snapshot of its instruments and the helpers    *)
(* its handlers share: iv-desktop/src/engine.rs, engine/gate.rs and        *)
(* engine/source_dc.rs.                                                    *)
(*                                                                         *)
(* Every transaction may fail, and a failed one may or may not have        *)
(* reached the instrument.  A helper is therefore written as the set of    *)
(* outcomes it may have: from a snapshot S, results [ok, s].               *)
(***************************************************************************)
EXTENDS Naturals

Outputs == {"source", "source2", "gate"}
Sweepers == {"source", "source2"}       \* the IV sources
Meters == {"meter", "reference"}
Roles == Outputs \cup Meters
Kinds == {"sim", "live"}
OutputStates == {"Unknown", "Off", "On"}

\* A snapshot S has the published fields conn (per role "none" or one of Kinds),
\* out (per output one of OutputStates), err and phase; held: the DC setting
\* and range are known (source_dc, *_dc_limits); phys (external): the output is
\* really ON; missed (external): an OFF of the gate was tried since and not
\* verified.

Connected(S, r) == S.conn[r] # "none"
Live(S, r) == S.conn[r] = "live"

Ok(S) == [ok |-> TRUE, s |-> S]
Err(S) == [ok |-> FALSE, s |-> S]
\* `?`: F on success.  All(R, F): F whatever happened, errors collected.
Then(R, F(_)) == UNION {IF r.ok THEN F(r.s) ELSE {r} : r \in R}
All(R, F(_)) == UNION {{[ok |-> r.ok /\ q.ok, s |-> q.s] : q \in F(r.s)} : r \in R}
Outcomes(R) == {r.s : r \in R}

-----------------------------------------------------------------------------
(* Turning one output off or on *)

Shown(S, r, v) == [S EXCEPT !.out[r] = v, !.held[r] = FALSE]

\* The transport's forced OFF: verified, or not verified.
Known(S, r) == [S EXCEPT !.missed = S.missed /\ r # "gate"]
TurnedOff(S, r) == [Known(S, r) EXCEPT !.phys[r] = FALSE]
Missed(S, r) ==
    {[S EXCEPT !.phys[r] = p, !.missed = S.missed \/ r = "gate"] : p \in {FALSE, S.phys[r]}}

\* force_off.  Only a report that denies verification shows Unknown here; a
\* transport error leaves the snapshot as it was.
ForceOff(S, r) ==
    IF ~Live(S, r) THEN {Ok(Shown(S, r, "Off"))}
    ELSE {Ok(Shown(TurnedOff(S, r), r, "Off"))}
         \cup {Err(Shown(T, r, "Unknown")) : T \in Missed(S, r)}
         \cup {Err(T) : T \in Missed(S, r)}

\* fail_closed: try OFF, then report the error that led here.
FailClosed(S, r) ==
    {IF q.ok THEN Err(q.s) ELSE Err(Shown(q.s, r, "Unknown")) : q \in ForceOff(S, r)}

OutputOffRole(S, r) == IF Connected(S, r) THEN ForceOff(S, r) ELSE {Err(S)}

\* The setting is applied, and identity, range, limit, level, output and error
\* queue are read back as they should be.
Applied(S, r) ==
    LET on == [S EXCEPT !.out[r] = "On", !.held[r] = TRUE]
    IN  IF Live(S, r) THEN [Known(on, r) EXCEPT !.phys[r] = TRUE] ELSE on
\* A write, a readback or the limiter's status fails, or the operation is
\* cancelled, before or after :OUTP ON; the output is closed.
HalfWay(S, r) ==
    IF Live(S, r) THEN UNION {FailClosed([S EXCEPT !.phys[r] = p], r) : p \in BOOLEAN}
    ELSE IF S.out[r] = "On" THEN FailClosed(S, r) ELSE {}
\* gate::set_voltage and source_dc::set.  The setting is refused before any
\* transaction, or applied and verified, or something fails half way.  An output
\* that is on is changed only when its range and limits are known.
SetOutput(S, r) ==
    IF ~Connected(S, r) \/ S.err THEN {Err(S)}
    ELSE {Err(S)} \cup HalfWay(S, r)
         \cup (IF S.out[r] # "On" \/ S.held[r] THEN {Ok(Applied(S, r))} ELSE {})

-----------------------------------------------------------------------------
(* Turning several off *)

ShutdownGate(S) == IF Connected(S, "gate") THEN ForceOff(S, "gate") ELSE {Ok(S)}

\* Mutant: the aggregate OFF follows the last source.
SweepOffLast(S) ==
    LET live == {r \in Sweepers : Live(S, r)}
        off(V) == [S EXCEPT !.phys = [r \in Outputs |-> IF r \in V THEN FALSE ELSE S.phys[r]],
                            !.out = [r \in Outputs |->
                                       IF r = "gate" THEN S.out[r]
                                       ELSE IF V \cap live # live /\ "source2" \notin V
                                         THEN "Unknown" ELSE "Off"]]
    IN  {[ok |-> V = live, s |-> off(V)] : V \in SUBSET live}
\* shutdown_sweep_sources: OFF to both sources; `output` is the aggregate, Off
\* only when every connected source is verified.
SweepOff(S) ==
    LET live == {r \in Sweepers : Live(S, r)}
        off(V, W) ==   \* V verified, W not verified but OFF all the same
          [S EXCEPT
            !.phys = [r \in Outputs |-> S.phys[r] /\ r \notin V \cup W],
            !.held = [r \in Outputs |-> S.held[r] /\ (r = "gate" \/ V # live)],
            !.out = [r \in Outputs |->
                       CASE r = "source" -> IF V = live THEN "Off" ELSE "Unknown"
                         [] r = "source2" /\ Connected(S, r) ->
                              IF r \in V \/ ~Live(S, r) THEN "Off" ELSE "Unknown"
                         [] OTHER -> S.out[r]]]
    IN  UNION {{[ok |-> V = live, s |-> off(V, W)] : W \in SUBSET (live \ V)} : V \in SUBSET live}

\* clean_output, without the ramp of a finished sweep.
CleanOutput(S) ==
    LET C == [S EXCEPT !.phase = "CleaningUp", !.out["source"] = "Unknown"]
        failed(T) == [T EXCEPT !.err = TRUE]
    IN  CASE Connected(S, "source2") ->
               {IF q.ok THEN q.s ELSE failed(q.s) : q \in SweepOff(C)}
          [] S.conn["source2"] = "none" /\ S.conn["source"] = "sim" -> {Shown(C, "source", "Off")}
          [] S.conn["source2"] = "none" /\ S.conn["source"] = "none" -> {failed(C)}
          [] S.conn["source2"] = "none" /\ S.conn["source"] = "live" ->
               {Shown(TurnedOff(C, "source"), "source", "Off")}
               \cup {failed(T) : T \in Missed(C, "source")}

CleanIfConnected(S) ==
    IF \E r \in Sweepers : Connected(S, r) THEN CleanOutput(S) ELSE {S}

\* protection_output_off.
ProtectionOff(S) ==
    LET C == [S EXCEPT !.out["source"] = "Unknown"]
        off == {Ok([TurnedOff(C, "source") EXCEPT !.out["source"] = "Off"])}
    IN  CASE Connected(S, "source2") -> SweepOff(C)
          [] ~Connected(S, "source2") /\ ~Live(S, "source") -> off
          [] ~Connected(S, "source2") /\ Live(S, "source") ->
               off \cup {Err(T) : T \in Missed(C, "source")}

\* Mutant: an error of a command leaves the gate alone.
ErrorPathKeepsGate(S) ==
    {[T EXCEPT !.phase = "Failed", !.err = TRUE] :
        T \in IF Connected(S, "source2") /\ S.out["source"] # "Off" THEN CleanOutput(S) ELSE {S}}
\* What serve does with the error of a command.
ErrorPath(S) ==
    LET C == IF Connected(S, "source2") /\ S.out["source"] # "Off" THEN CleanOutput(S) ELSE {S}
    IN  {[T EXCEPT !.phase = "Failed", !.err = TRUE] :
            T \in UNION {Outcomes(ShutdownGate(c)) : c \in C}}

-----------------------------------------------------------------------------
(* Polling *)

\* gate::check and source_dc::check of an output shown ON.  A failing first
\* query is reported as it is; every later fault closes the output.
CheckFault(S, r) ==
    IF Live(S, r) /\ S.out[r] = "On" THEN {S} \cup Outcomes(FailClosed(S, r)) ELSE {}

GateFault(S) == CheckFault(S, "gate")
=============================================================================
