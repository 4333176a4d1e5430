--------------------------- MODULE EngineOutputs ---------------------------
(***************************************************************************)
(* What the measurement engine's commands and its idle polling do to the   *)
(* output instruments: iv-desktop/src/engine.rs (serve and its helpers),   *)
(* engine/gate.rs and engine/source_dc.rs.                                 *)
(*                                                                         *)
(* One thread runs these handlers one after another, so a handler is one   *)
(* step with a set of outcomes (Instruments).  A sweep (Command::Run) is   *)
(* the subject of Sweep, the exclusion of commands and sweeps of           *)
(* EngineControl.                                                          *)
(***************************************************************************)
EXTENDS Instruments

CONSTANT Bench     \* what can be connected: role |-> the kinds it may be
ASSUME BenchAssumption == Bench \in [Roles -> SUBSET Kinds]

VARIABLES
    state,     \* the engine's Snapshot, and the instruments behind it
    receipt    \* how the last command (or a lapse of the lease) ended

vars == <<state, receipt>>

Init ==
    /\ state = [conn |-> [r \in Roles |-> "none"], out |-> [r \in Outputs |-> "Unknown"],
                held |-> [r \in Outputs |-> FALSE], err |-> FALSE, phase |-> "Idle",
                phys |-> [r \in Outputs |-> FALSE], missed |-> FALSE]
    /\ receipt = "none"

-----------------------------------------------------------------------------
(* Commands *)

\* The end of a command: its error is handled before its completion is recorded.
Settle(R, done) ==
    \/ \E r \in {q \in R : q.ok} : state' = r.s /\ receipt' = done
    \/ /\ state' \in UNION {ErrorPath(r.s) : r \in {q \in R : ~q.ok}}
       /\ receipt' = "failed"
Command(R) == Settle(R, "ok")

BeginConnect(S) == [S EXCEPT !.phase = "Connecting", !.err = FALSE]
\* connect_role.  A live instrument may be found with its output on.
ConnectRole(S, r, kind) ==
    IF Connected(S, r)
      THEN {Err(S)} \cup (IF S.conn[r] = kind THEN {Ok([S EXCEPT !.phase = "Ready"])} ELSE {})
      ELSE LET C == [S EXCEPT !.conn[r] = kind, !.phase = "Ready"]
           IN  {Err(S)} \cup
               CASE r \in Meters -> {Ok(C)}
                 [] r \in Outputs /\ kind = "sim" ->
                      {Ok([Known(C, r) EXCEPT !.out[r] = "Off", !.phys[r] = FALSE])}
                 [] r \in Outputs /\ kind = "live" ->
                      {Ok([Known(C, r) EXCEPT !.out[r] = "Unknown", !.phys[r] = p]) :
                          p \in BOOLEAN}

\* Mutant: the outcome of the cleanup is not looked at.
DisconnectUnverified(S, r) ==
    IF ~Connected(S, r) THEN {Ok(S)}
    ELSE {Ok([T EXCEPT !.conn[r] = "none", !.phase = "Ready"]) :
            T \in CASE r \in Sweepers -> CleanOutput(S)
                   [] r = "gate" -> Outcomes(ForceOff(S, r))
                   [] r \in Meters -> {S}}
\* disconnect_role: OFF must be verified first.  The transport may fail to let
\* go of the instrument, or report an error having let it go.
DisconnectRole(S, r) ==
    LET safe == CASE r = "gate" -> ForceOff(S, r)
                  [] r \in Sweepers ->
                       {[ok |-> T.out["source"] = "Off", s |-> T] : T \in CleanOutput(S)}
                  [] r \in Meters -> {Ok(S)}
        gone(T) == [T EXCEPT !.conn[r] = "none",
                             !.phase = IF \E q \in Roles \ {r} : Connected(T, q)
                                         THEN "Ready" ELSE "Idle"]
        detach(T) == {Ok(gone(T))} \cup (IF Live(T, r) THEN {Err(T), Err(gone(T))} ELSE {})
    IN  IF Connected(S, r) THEN Then(safe, detach) ELSE {Ok(S)}

DisconnectAll(S) ==
    LET source2(T) == DisconnectRole(T, "source2")
        gate(T) == DisconnectRole(T, "gate")
        meter(T) == DisconnectRole(T, "meter")
        reference(T) == DisconnectRole(T, "reference")
    IN  All(All(All(All(DisconnectRole(S, "source"), source2), gate), meter), reference)

\* discover clears the error and scans.
DiscoverAll(S) ==
    LET C == [S EXCEPT !.phase = "Scanning", !.err = FALSE]
        both == Connected(S, "source") /\ Connected(S, "meter")
    IN  {Err(C), Ok([C EXCEPT !.phase = IF both THEN "Ready" ELSE "Idle"])}

\* set_live_mode: the source is verified OFF before its function changes.
LiveMode(S) ==
    LET C == [S EXCEPT !.phase = "SwitchingMode"]
        off == [Shown(TurnedOff(C, "source"), "source", "Off") EXCEPT !.phase = "Ready"]
        mixed == Connected(S, "meter") /\ S.conn["meter"] # S.conn["source"]
    IN  {Err(C)} \cup
        IF S.err \/ ~Connected(S, "source") \/ mixed THEN {}
        ELSE IF ~Live(S, "source") THEN {Ok([Shown(C, "source", "Off") EXCEPT !.phase = "Ready"])}
        ELSE {Err(T) : T \in Missed(C, "source")}
             \cup {Ok(off), Err([off EXCEPT !.phase = "SwitchingMode"])}

\* Command::Stop.  It acknowledges when no error is latched after the cleanup.
StopOutputs(S) ==
    UNION {IF T.err THEN ShutdownGate(T) ELSE {Ok([T EXCEPT !.phase = "Stopped"])} :
              T \in CleanIfConnected(S)}

\* Command::OutputOff.  `ok` here is its acknowledgement; it never fails.
AllOff(S) ==
    UNION {{IF T.out["source"] = "Off" /\ q.ok THEN Ok([q.s EXCEPT !.phase = "Ready"]) ELSE Err(q.s) :
               q \in ShutdownGate(T)} : T \in CleanIfConnected(S)}

Connect(r, kind) == Command(ConnectRole(BeginConnect(state), r, kind))
ConnectPair(kind) ==
    LET meter(T) == ConnectRole(T, "meter", kind)
    IN  Command(Then(ConnectRole(BeginConnect(state), "source", kind), meter))
Disconnect(r) == Command(DisconnectRole(state, r))
DisconnectEverything == Command(DisconnectAll(state))
SetSourceDc(r) == Command(SetOutput(state, r))
SourceDcOff(r) == Command(OutputOffRole(state, r))
SetGateVoltage == Command(SetOutput(state, "gate"))
GateOutputOff == Command(OutputOffRole(state, "gate"))
SetLiveMode == Command(LiveMode(state))
Discover == Command(DiscoverAll(state))
\* SetMeterRanges and what else touches no instrument: accepted or refused.
Settings == Command({Ok(state), Err(state)})

Stop ==
    LET R == StopOutputs(state)
    IN  \/ Settle({r \in R : r.s.err}, "ok")
        \/ Settle({r \in R : ~r.s.err}, "stopped")
OutputOff ==
    \E r \in AllOff(state) :
        /\ state' = r.s
        /\ receipt' = IF r.ok THEN "off verified" ELSE "ok"

-----------------------------------------------------------------------------
(* Idle polling and the end of a lease *)

Faulted(T) == [T EXCEPT !.phase = "Failed", !.err = TRUE]
CleanSources(X) == UNION {CleanOutput(S) : S \in X}
CleanEverything(X) == UNION {Outcomes(ShutdownGate(T)) : T \in CleanSources(X)}

\* A failed cycle of the live monitor.  With a reference meter it also polls
\* every output; a range guard or poll that trips turns the sources off first.
MonitorFault(S) ==
    LET polled == IF Live(S, "reference") THEN UNION {CheckFault(S, r) : r \in Outputs} ELSE {}
        tripped == {S} \cup polled
    IN  {Faulted(T) : T \in CleanSources({S} \cup UNION {Outcomes(ProtectionOff(T)) : T \in tripped})}

\* The live monitor, when source and meter are both real or both simulated.
\* It reads the source's output back; any failure of a cycle cleans up.
Monitor(S) ==
    IF ~Connected(S, "source") \/ S.conn["source"] # S.conn["meter"] \/ S.err THEN {}
    ELSE (IF Live(S, "source2") THEN {Faulted(T) : T \in CleanEverything({S})} ELSE {})
         \cup IF Live(S, "source")
                THEN {[S EXCEPT !.out["source"] = IF S.phys["source"] THEN "On" ELSE "Off"]}
                     \cup MonitorFault(S)
                ELSE {S}

\* The timeout branch of serve.
Idle ==
    /\ state' \in {Faulted(T) : T \in CleanSources(GateFault(state))}
                  \cup {Faulted(T) : T \in CleanEverything(CheckFault(state, "source")
                                                           \cup CheckFault(state, "source2"))}
                  \cup Monitor(state)
    /\ UNCHANGED receipt

\* The end of serve; a lapsed lease does the same and then goes on.
CloseAll(S) ==
    {[q.s EXCEPT !.conn = [r \in Roles |-> "none"], !.held = [r \in Outputs |-> FALSE],
                 !.err = q.s.err \/ ~q.ok] :
        q \in UNION {ShutdownGate(T) : T \in CleanIfConnected(S)}}

Lapse ==
    /\ \E r \in Roles : Connected(state, r)
    /\ state' \in CloseAll(state)
    /\ receipt' = "lapsed"

-----------------------------------------------------------------------------
Next ==
    \/ \E r \in Roles : \E kind \in Bench[r] : Connect(r, kind)
    \/ \E kind \in Bench["source"] \cap Bench["meter"] : ConnectPair(kind)
    \/ \E r \in Roles : Disconnect(r)
    \/ DisconnectEverything
    \/ \E r \in Sweepers : SetSourceDc(r) \/ SourceDcOff(r)
    \/ SetGateVoltage \/ GateOutputOff
    \/ SetLiveMode \/ Discover \/ Settings \/ Stop \/ OutputOff \/ Idle \/ Lapse
Spec == Init /\ [][Next]_vars

-----------------------------------------------------------------------------
(* Properties. *)

\* A connected instrument shown OFF is OFF, however cleanups, retries, partial
\* failures and reconnections are interleaved; while "Output off verified." is
\* the last word every connected output is OFF, and while "Stop acknowledged.
\* Sweep outputs off." is, both sources are.
ReceiptTrue ==
    /\ \A r \in Outputs : Live(state, r) /\ state.out[r] = "Off" => ~state.phys[r]
    /\ receipt = "off verified" => \A r \in Outputs : Live(state, r) => ~state.phys[r]
    /\ receipt = "stopped" => \A r \in Sweepers : Live(state, r) => ~state.phys[r]

\* A command that fails closes the gate, whatever the command was about, and
\* it stays closed until the next command: it is left on only if the OFF itself
\* was tried and could not be verified.
FailedClosesGate ==
    receipt = "failed" /\ Live(state, "gate") => ~state.phys["gate"] \/ state.missed

\* An instrument is detached with its output verified OFF: the engine keeps the
\* connection of one it could not turn off.  A lapsed lease drops every
\* connection, but then an output that it leaves on is reported.
DetachedOff ==
    [][\A r \in Outputs :
         Live(state, r) /\ ~Connected(state', r) =>
             ~state'.phys[r] \/ (receipt' = "lapsed" /\ state'.err)]_vars
=============================================================================
