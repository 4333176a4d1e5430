------------------------ MODULE EngineOutputs_proofs ------------------------
(* Theorems about EngineOutputs, for any bench: whichever of the roles can be  *)
(* connected, real or simulated.                                               *)
EXTENDS EngineOutputs, TLAPS

-----------------------------------------------------------------------------
(* The inductive invariant *)

Phases == {"Idle", "Ready", "Connecting", "Scanning", "SwitchingMode", "CleaningUp", "Stopped", "Failed"}
Snapshot == [conn : [Roles -> Kinds \cup {"none"}], out : [Outputs -> OutputStates],
             held : [Outputs -> BOOLEAN], err : BOOLEAN, phase : Phases,
             phys : [Outputs -> BOOLEAN], missed : BOOLEAN]

\* A connected instrument shown OFF is OFF: all of V, or every output.
TrueFor(S, V) == \A r \in V : Live(S, r) /\ S.out[r] = "Off" => ~S.phys[r]
Truth(S) == TrueFor(S, Outputs)

\* The gate is off, or its OFF was tried and not verified.
GateSafe(S) == ~S.phys["gate"] \/ S.missed

Inv ==
    /\ state \in Snapshot
    /\ ReceiptTrue
    /\ FailedClosesGate

-----------------------------------------------------------------------------
(* Helpers that can only turn outputs off *)

\* T comes from S without an output turned on or an OFF of the gate forgotten.
Quieter(S, T) ==
    /\ T \in Snapshot
    /\ \A r \in Outputs : T.phys[r] => S.phys[r]
    /\ GateSafe(S) => GateSafe(T)

\* Nor a connection changed.
Safer(S, T) == Quieter(S, T) /\ T.conn = S.conn

\* Results of the helpers.
LEMMA Results ==
    \A S : Ok(S).ok = TRUE /\ Ok(S).s = S /\ Err(S).ok = FALSE /\ Err(S).s = S
BY DEF Ok, Err

\* Steps of this kind compose.
LEMMA SaferTransitive ==
    ASSUME NEW S, NEW T, NEW U, Safer(S, T), Safer(T, U)
    PROVE  Safer(S, U)
BY DEF Safer, Quieter

\* Nothing is safer than itself.
LEMMA SaferSelf ==
    ASSUME NEW S \in Snapshot
    PROVE  Safer(S, S)
BY DEF Safer, Quieter

\* What is shown of an output.
LEMMA ShownFacts ==
    ASSUME NEW S \in Snapshot, NEW r \in Outputs, NEW v \in OutputStates
    PROVE  /\ Shown(S, r, v) \in Snapshot /\ Shown(S, r, v).out[r] = v
           /\ Shown(S, r, v).conn = S.conn /\ Shown(S, r, v).err = S.err
           /\ Shown(S, r, v).phys = S.phys /\ Shown(S, r, v).missed = S.missed
           /\ \A q \in Outputs \ {r} : Shown(S, r, v).out[q] = S.out[q]
BY DEF Shown, Snapshot

\* An output turned off and verified.
LEMMA TurnedOffFacts ==
    ASSUME NEW S \in Snapshot, NEW r \in Outputs
    PROVE  /\ TurnedOff(S, r) \in Snapshot /\ TurnedOff(S, r).phys[r] = FALSE
           /\ TurnedOff(S, r).conn = S.conn /\ TurnedOff(S, r).err = S.err
           /\ TurnedOff(S, r).out = S.out
           /\ r # "gate" => TurnedOff(S, r).missed = S.missed
           /\ \A q \in Outputs \ {r} : TurnedOff(S, r).phys[q] = S.phys[q]
BY DEF TurnedOff, Known, Snapshot

\* An OFF that could not be verified.
LEMMA MissedFacts ==
    ASSUME NEW S \in Snapshot, NEW r \in Outputs, NEW T \in Missed(S, r)
    PROVE  /\ T \in Snapshot /\ T.conn = S.conn /\ T.err = S.err /\ T.out = S.out
           /\ T.phys[r] => S.phys[r]
           /\ \A q \in Outputs \ {r} : T.phys[q] = S.phys[q]
           /\ r = "gate" => T.missed
           /\ r # "gate" => T.missed = S.missed
<1>1. PICK p \in {FALSE, S.phys[r]} : T = [S EXCEPT !.phys[r] = p, !.missed = S.missed \/ r = "gate"]
  BY DEF Missed
<1>2. p \in BOOLEAN /\ (p => S.phys[r])
  BY DEF Snapshot
<1> QED BY <1>1, <1>2 DEF Snapshot

\* Truth of what is shown, when one output changes.
LEMMA ShownTrue ==
    ASSUME NEW S \in Snapshot, NEW r \in Outputs, NEW v \in OutputStates,
           TrueFor(S, Outputs \ {r}), v = "Off" /\ Live(S, r) => ~S.phys[r]
    PROVE  Safer(S, Shown(S, r, v)) /\ Truth(Shown(S, r, v))
<1>1. /\ Shown(S, r, v) \in Snapshot /\ Shown(S, r, v).out[r] = v
      /\ Shown(S, r, v).conn = S.conn
      /\ Shown(S, r, v).phys = S.phys /\ Shown(S, r, v).missed = S.missed
      /\ \A q \in Outputs \ {r} : Shown(S, r, v).out[q] = S.out[q]
  BY ShownFacts
<1> DEFINE T == Shown(S, r, v)
<1> HIDE DEF T
<1>2. Safer(S, T)
  BY <1>1 DEF Safer, Quieter, GateSafe, T
<1>3. Truth(T)
  <2>1. ASSUME NEW q \in Outputs, Live(T, q), T.out[q] = "Off" PROVE ~T.phys[q]
    <3>1. CASE q = r
      BY <1>1, <2>1, <3>1 DEF T, Live
    <3>2. CASE q # r
      BY <1>1, <2>1, <3>2 DEF T, Live, TrueFor
    <3> QED BY <3>1, <3>2
  <2> QED BY <2>1 DEF Truth, TrueFor
<1> QED BY <1>2, <1>3 DEF T

\* The transport's OFF, verified.
LEMMA TurnedOffSafer ==
    ASSUME NEW S \in Snapshot, NEW r \in Outputs, TrueFor(S, Outputs \ {r})
    PROVE  Safer(S, TurnedOff(S, r)) /\ Truth(TurnedOff(S, r)) /\ ~TurnedOff(S, r).phys[r]
<1> DEFINE T == TurnedOff(S, r)
<1>1. /\ T \in Snapshot /\ T.phys[r] = FALSE /\ T.conn = S.conn /\ T.out = S.out
      /\ r # "gate" => T.missed = S.missed
      /\ \A q \in Outputs \ {r} : T.phys[q] = S.phys[q]
  BY TurnedOffFacts
<1> HIDE DEF T
<1>2. \A q \in Outputs : T.phys[q] => S.phys[q]
  BY <1>1
<1>3. GateSafe(S) => GateSafe(T)
  BY <1>1 DEF GateSafe, Outputs
<1>4. Truth(T)
  BY <1>1 DEF Truth, TrueFor, Live
<1> QED BY <1>1, <1>2, <1>3, <1>4 DEF Safer, Quieter, T

\* The transport's OFF, not verified.
LEMMA MissedSafer ==
    ASSUME NEW S \in Snapshot, NEW r \in Outputs, NEW T \in Missed(S, r)
    PROVE  /\ Safer(S, T) /\ (TrueFor(S, Outputs \ {r}) => TrueFor(T, Outputs \ {r}))
           /\ (Truth(S) => Truth(T)) /\ (r = "gate" => GateSafe(T))
<1>1. /\ T \in Snapshot /\ T.conn = S.conn /\ T.out = S.out
      /\ T.phys[r] => S.phys[r]
      /\ \A q \in Outputs \ {r} : T.phys[q] = S.phys[q]
      /\ r = "gate" => T.missed
      /\ r # "gate" => T.missed = S.missed
  BY MissedFacts
<1>2. \A q \in Outputs : T.phys[q] => S.phys[q]
  BY <1>1
<1>3. GateSafe(S) => GateSafe(T)
  BY <1>1 DEF GateSafe, Outputs
<1>4. Truth(S) => Truth(T)
  BY <1>1, <1>2 DEF Truth, TrueFor, Live
<1>5. TrueFor(S, Outputs \ {r}) => TrueFor(T, Outputs \ {r})
  BY <1>1, <1>2 DEF TrueFor, Live
<1> QED BY <1>1, <1>2, <1>3, <1>4, <1>5 DEF Safer, Quieter, GateSafe

\* force_off.  When S already shows the truth so does every outcome.
LEMMA ForceOffFacts ==
    ASSUME NEW S \in Snapshot, NEW r \in Outputs, TrueFor(S, Outputs \ {r}), NEW q \in ForceOff(S, r)
    PROVE  /\ Safer(S, q.s) /\ q.ok \in BOOLEAN /\ TrueFor(q.s, Outputs \ {r})
           /\ q.ok \/ Truth(S) => Truth(q.s)
           /\ q.ok /\ Live(S, r) => ~q.s.phys[r]
           /\ r = "gate" /\ Live(S, r) => GateSafe(q.s)
<1>0. {"Off", "Unknown"} \subseteq OutputStates
  BY DEF OutputStates
<1>1. CASE ~Live(S, r) /\ q = Ok(Shown(S, r, "Off"))
  <2>1. Safer(S, Shown(S, r, "Off")) /\ Truth(Shown(S, r, "Off"))
    BY <1>0, <1>1, ShownTrue
  <2> QED BY <1>1, <2>1, Results DEF Truth, TrueFor
<1>2. CASE q = Ok(Shown(TurnedOff(S, r), r, "Off"))
  <2> DEFINE D == TurnedOff(S, r)
             E == Shown(D, r, "Off")
  <2>1. D \in Snapshot /\ Safer(S, D) /\ Truth(D) /\ ~D.phys[r]
    BY TurnedOffSafer, TurnedOffFacts
  <2> HIDE DEF D
  <2>2. Safer(D, E) /\ Truth(E)
    BY <1>0, <2>1, ShownTrue DEF Truth, TrueFor
  <2>3. q.ok = TRUE /\ q.s = E
    BY <1>2, Results DEF D
  <2> HIDE DEF E
  <2>4. Safer(S, E) /\ ~E.phys[r] /\ TrueFor(E, Outputs \ {r})
    BY <2>1, <2>2, SaferTransitive DEF Safer, Quieter, Truth, TrueFor
  <2> QED BY <2>2, <2>3, <2>4 DEF GateSafe
<1>3. ASSUME NEW T \in Missed(S, r), q = Err(Shown(T, r, "Unknown")) \/ q = Err(T)
      PROVE  /\ Safer(S, q.s) /\ q.ok = FALSE /\ TrueFor(q.s, Outputs \ {r})
             /\ Truth(S) => Truth(q.s)
             /\ r = "gate" => GateSafe(q.s)
  <2> DEFINE E == Shown(T, r, "Unknown")
  <2>1. T \in Snapshot /\ Safer(S, T) /\ TrueFor(T, Outputs \ {r}) /\ (Truth(S) => Truth(T))
        /\ (r = "gate" => GateSafe(T))
    BY MissedSafer DEF Safer, Quieter
  <2>2. Safer(T, E) /\ Truth(E)
    BY <1>0, <2>1, ShownTrue
  <2>3. q.ok = FALSE /\ (q.s = E \/ q.s = T)
    BY <1>3, Results
  <2> HIDE DEF E
  <2>4. Safer(S, E) /\ TrueFor(E, Outputs \ {r}) /\ (r = "gate" => GateSafe(E))
    BY <2>1, <2>2, SaferTransitive DEF Safer, Quieter, Truth, TrueFor
  <2> QED BY <2>1, <2>2, <2>3, <2>4
<1> QED BY <1>1, <1>2, <1>3 DEF ForceOff

\* fail_closed: whatever happened to r before.
LEMMA FailClosedFacts ==
    ASSUME NEW S \in Snapshot, NEW r \in Outputs, TrueFor(S, Outputs \ {r}), NEW q \in FailClosed(S, r)
    PROVE  Safer(S, q.s) /\ q.ok = FALSE /\ Truth(q.s)
<1>1. PICK p \in ForceOff(S, r) : q = IF p.ok THEN Err(p.s) ELSE Err(Shown(p.s, r, "Unknown"))
  BY DEF FailClosed
<1>2. Safer(S, p.s) /\ p.ok \in BOOLEAN /\ TrueFor(p.s, Outputs \ {r}) /\ (p.ok => Truth(p.s)) /\ p.s \in Snapshot
  BY ForceOffFacts DEF Safer, Quieter
<1>3. Safer(p.s, Shown(p.s, r, "Unknown")) /\ Truth(Shown(p.s, r, "Unknown"))
  BY <1>2, ShownTrue DEF OutputStates
<1>4. q.ok = FALSE /\ ((p.ok /\ q.s = p.s) \/ q.s = Shown(p.s, r, "Unknown"))
  BY <1>1, Results
<1> QED BY <1>2, <1>3, <1>4, SaferTransitive

\* shutdown_gate.
LEMMA ShutdownGateFacts ==
    ASSUME NEW S \in Snapshot, Truth(S), NEW q \in ShutdownGate(S)
    PROVE  /\ Safer(S, q.s) /\ q.ok \in BOOLEAN /\ Truth(q.s)
           /\ q.ok /\ Live(S, "gate") => ~q.s.phys["gate"]
           /\ Live(S, "gate") => GateSafe(q.s)
<1> DEFINE g == "gate"
<1>0. g \in Outputs /\ TrueFor(S, Outputs \ {g})
  BY DEF Outputs, Truth, TrueFor
<1>1. CASE Connected(S, g)
  BY <1>0, <1>1, ForceOffFacts DEF ShutdownGate
<1>2. CASE ~Connected(S, g)
  BY <1>2, Results, SaferSelf DEF ShutdownGate, Connected, Live
<1> QED BY <1>1, <1>2

\* A failed poll of an output.
LEMMA CheckFaultFacts ==
    ASSUME NEW S \in Snapshot, Truth(S), NEW r \in Outputs, NEW T \in CheckFault(S, r)
    PROVE  Safer(S, T) /\ Truth(T)
<1>1. TrueFor(S, Outputs \ {r})
  BY DEF Truth, TrueFor
<1>2. T = S \/ \E q \in FailClosed(S, r) : T = q.s
  BY DEF CheckFault, Outcomes
<1> QED BY <1>1, <1>2, FailClosedFacts, SaferSelf

-----------------------------------------------------------------------------
(* Both sources *)

SourcesOff(S) == \A r \in Sweepers : Live(S, r) => ~S.phys[r]

\* S and T differ in phase, error and held settings only.
Alike(S, T) ==
    /\ T \in Snapshot
    /\ T.conn = S.conn /\ T.out = S.out /\ T.phys = S.phys /\ T.missed = S.missed

\* Such a change is safe.
LEMMA AlikeSafer ==
    ASSUME NEW S, NEW T, Alike(S, T)
    PROVE  Safer(S, T) /\ (Truth(S) => Truth(T))
BY DEF Alike, Safer, Quieter, GateSafe, Truth, TrueFor, Live

\* Marking a phase.
LEMMA PhaseMarked ==
    ASSUME NEW S \in Snapshot, NEW p \in Phases
    PROVE  Alike(S, [S EXCEPT !.phase = p]) /\ [S EXCEPT !.phase = p].err = S.err
BY DEF Snapshot, Alike

\* Marking or clearing the error.
LEMMA ErrorMarked ==
    ASSUME NEW S \in Snapshot, NEW e \in BOOLEAN
    PROVE  Alike(S, [S EXCEPT !.err = e]) /\ [S EXCEPT !.err = e].err = e
BY DEF Snapshot, Alike

\* Faulted marks both.
LEMMA FaultedFacts ==
    ASSUME NEW S \in Snapshot
    PROVE  Alike(S, Faulted(S)) /\ Safer(S, Faulted(S)) /\ (Truth(S) => Truth(Faulted(S)))
<1>1. Alike(S, Faulted(S))
  BY DEF Snapshot, Alike, Faulted, Phases
<1> QED BY <1>1, AlikeSafer

\* shutdown_sweep_sources.
LEMMA SweepOffFacts ==
    ASSUME NEW S \in Snapshot, TrueFor(S, {"gate"}), NEW q \in SweepOff(S)
    PROVE  /\ Safer(S, q.s) /\ Truth(q.s) /\ q.ok \in BOOLEAN /\ q.s.err = S.err
           /\ q.s.out["source"] = "Off" => q.ok
           /\ q.ok => SourcesOff(q.s)
<1> DEFINE live == {r \in Sweepers : Live(S, r)}
           ph(V, W) == [r \in Outputs |-> S.phys[r] /\ r \notin V \cup W]
           hl(V) == [r \in Outputs |-> S.held[r] /\ (r = "gate" \/ V # live)]
           ou(V) == [r \in Outputs |->
                       CASE r = "source" -> IF V = live THEN "Off" ELSE "Unknown"
                         [] r = "source2" /\ Connected(S, r) ->
                              IF r \in V \/ ~Live(S, r) THEN "Off" ELSE "Unknown"
                         [] OTHER -> S.out[r]]
           off(V, W) == [S EXCEPT !.phys = ph(V, W), !.held = hl(V), !.out = ou(V)]
<1>0. SweepOff(S) =
        UNION {{[ok |-> V = live, s |-> off(V, W)] : W \in SUBSET (live \ V)} : V \in SUBSET live}
  BY DEF SweepOff
<1> HIDE DEF off, live
<1>1. PICK V \in SUBSET live : \E W \in SUBSET (live \ V) : q = [ok |-> V = live, s |-> off(V, W)]
  BY <1>0
<1>2. PICK W \in SUBSET (live \ V) : q = [ok |-> V = live, s |-> off(V, W)]
  BY <1>1
<1> USE DEF live
<1> DEFINE P == ph(V, W)
           H == hl(V)
           O == ou(V)
           T == [S EXCEPT !.phys = P, !.held = H, !.out = O]
<1>3. P \in [Outputs -> BOOLEAN] /\ \A r \in Outputs : (P[r] => S.phys[r]) /\ (r \in V => ~P[r])
  BY DEF Snapshot
<1>4. H \in [Outputs -> BOOLEAN]
  BY DEF Snapshot
<1>5. /\ O \in [Outputs -> OutputStates]
      /\ O["gate"] = S.out["gate"] /\ (O["source"] = "Off" => V = live)
      /\ Live(S, "source2") /\ O["source2"] = "Off" => "source2" \in V
  BY DEF Snapshot, OutputStates, Outputs, Sweepers, Connected, Live
<1>6. q.ok = (V = live) /\ q.s = T
  BY <1>2 DEF off
<1>7. "gate" \notin V \cup W /\ \A r \in Sweepers : Live(S, r) => r \in live
  BY DEF Sweepers
<1>8. P["gate"] = S.phys["gate"]
  BY <1>7 DEF Outputs, Snapshot
<1> HIDE DEF P, H, O, live
<1>9. /\ T \in Snapshot /\ T.conn = S.conn /\ T.err = S.err /\ T.missed = S.missed
      /\ T.phys = P /\ T.out = O
  BY <1>3, <1>4, <1>5 DEF Snapshot
<1> HIDE DEF T
<1>10. Safer(S, T)
  BY <1>3, <1>8, <1>9 DEF Safer, Quieter, GateSafe
<1>11. Truth(T)
  <2>1. Live(T, "gate") /\ T.out["gate"] = "Off" => ~T.phys["gate"]
    BY <1>5, <1>8, <1>9 DEF TrueFor, Live
  <2>2. Live(T, "source2") /\ T.out["source2"] = "Off" => ~T.phys["source2"]
    BY <1>3, <1>5, <1>9 DEF Live, Outputs
  <2>3. Live(T, "source") /\ T.out["source"] = "Off" => ~T.phys["source"]
    BY <1>3, <1>5, <1>7, <1>9 DEF Live, Outputs, Sweepers
  <2> QED BY <2>1, <2>2, <2>3 DEF Truth, TrueFor, Outputs
<1>12. V = live => SourcesOff(T)
  BY <1>3, <1>7, <1>9 DEF SourcesOff, Live, Sweepers, Outputs
<1> QED BY <1>5, <1>6, <1>9, <1>10, <1>11, <1>12

\* The aggregate output is unknown while the sources are being turned off.
LEMMA UnknownFacts ==
    ASSUME NEW S \in Snapshot, Truth(S), NEW p \in Phases, NEW C,
           C = [S EXCEPT !.phase = p, !.out["source"] = "Unknown"] \/ C = [S EXCEPT !.out["source"] = "Unknown"]
    PROVE  /\ C \in Snapshot /\ Safer(S, C) /\ Truth(C) /\ C.err = S.err
           /\ C.conn = S.conn /\ C.out["source"] = "Unknown"
<1> DEFINE O == [S.out EXCEPT !["source"] = "Unknown"]
<1>0. /\ O \in [Outputs -> OutputStates] /\ O["source"] = "Unknown"
      /\ \A r \in Outputs : r # "source" => O[r] = S.out[r]
  BY DEF Snapshot, OutputStates, Outputs
<1>a. C = [S EXCEPT !.phase = p, !.out = O] \/ C = [S EXCEPT !.out = O]
  OBVIOUS
<1> HIDE DEF O
<1>b. /\ C \in Snapshot /\ C.conn = S.conn /\ C.phys = S.phys /\ C.missed = S.missed /\ C.err = S.err
      /\ C.out = O
  BY <1>0, <1>a DEF Snapshot
<1>1. /\ C \in Snapshot /\ C.conn = S.conn /\ C.phys = S.phys /\ C.missed = S.missed /\ C.err = S.err
      /\ C.out["source"] = "Unknown" /\ \A r \in Outputs : r # "source" => C.out[r] = S.out[r]
  BY <1>0, <1>b
<1>2. Safer(S, C)
  BY <1>1 DEF Safer, Quieter, GateSafe
<1>3. Truth(C)
  BY <1>1 DEF Truth, TrueFor, Live
<1> QED BY <1>1, <1>2, <1>3

\* clean_output: only a cleanup that turned every source off is free of error.
LEMMA CleanOutputFacts ==
    ASSUME NEW S \in Snapshot, Truth(S), NEW T \in CleanOutput(S)
    PROVE  /\ Safer(S, T) /\ Truth(T)
           /\ ~T.err \/ T.out["source"] = "Off" => SourcesOff(T)
<1> DEFINE C == [S EXCEPT !.phase = "CleaningUp", !.out["source"] = "Unknown"]
           failed(U) == [U EXCEPT !.err = TRUE]
           src == "source"
<1>1. C \in Snapshot /\ Safer(S, C) /\ Truth(C) /\ C.conn = S.conn /\ C.out[src] = "Unknown"
  BY UnknownFacts DEF Phases
<1>2. src \in Outputs /\ TrueFor(C, Outputs \ {src}) /\ TrueFor(C, {"gate"}) /\ {"Off", "Unknown"} \subseteq OutputStates
  BY <1>1 DEF Outputs, OutputStates, Truth, TrueFor
<1>3. S.conn["source2"] \in {"none", "sim", "live"} /\ S.conn["source"] \in {"none", "sim", "live"}
  BY DEF Snapshot, Roles, Outputs, Kinds
<1> DEFINE D == TurnedOff(C, src)
<1>4. \/ Connected(S, "source2") /\ T \in {IF q.ok THEN q.s ELSE failed(q.s) : q \in SweepOff(C)}
      \/ ~Connected(S, "source2") /\ S.conn["source"] = "sim" /\ T = Shown(C, src, "Off")
      \/ ~Connected(S, "source2") /\ S.conn["source"] = "none" /\ T = failed(C)
      \/ /\ ~Connected(S, "source2") /\ S.conn["source"] = "live"
         /\ T = Shown(D, src, "Off") \/ \E U \in Missed(C, src) : T = failed(U)
  BY <1>3 DEF CleanOutput, Connected
<1>5. D \in Snapshot /\ D.conn = C.conn /\ Safer(C, D) /\ Truth(D) /\ ~D.phys[src]
  BY <1>1, <1>2, TurnedOffFacts, TurnedOffSafer
<1> HIDE DEF C, D
<1>6. ASSUME NEW U \in Snapshot, Safer(C, U), Truth(U), T = failed(U),
             U.out["source"] = "Off" => SourcesOff(U)
      PROVE  Safer(S, T) /\ Truth(T) /\ (~T.err \/ T.out["source"] = "Off" => SourcesOff(T))
  <2>1. Alike(U, T) /\ T.err
    BY <1>6, ErrorMarked
  <2>a. T \in Snapshot /\ Safer(U, T) /\ Truth(T) /\ T.conn = U.conn /\ T.out = U.out /\ T.phys = U.phys
    BY <1>6, <2>1, AlikeSafer DEF Alike
  <2>2. Safer(S, T)
    BY <1>1, <1>6, <2>a, SaferTransitive
  <2> QED BY <1>6, <2>1, <2>a, <2>2 DEF SourcesOff, Live
<1>7. CASE Connected(S, "source2") /\ T \in {IF q.ok THEN q.s ELSE failed(q.s) : q \in SweepOff(C)}
  <2>1. PICK q \in SweepOff(C) : T = IF q.ok THEN q.s ELSE failed(q.s)
    BY <1>7
  <2>2. /\ Safer(C, q.s) /\ Truth(q.s) /\ q.ok \in BOOLEAN
        /\ q.s.out["source"] = "Off" => q.ok
        /\ q.ok => SourcesOff(q.s)
    BY <1>1, <1>2, SweepOffFacts
  <2>3. q.s \in Snapshot /\ Safer(S, q.s)
    BY <1>1, <2>2, SaferTransitive DEF Safer, Quieter
  <2>4. CASE q.ok
    BY <2>1, <2>2, <2>3, <2>4
  <2>5. CASE ~q.ok
    BY <1>6, <2>1, <2>2, <2>3, <2>5
  <2> QED BY <2>4, <2>5
<1>8. CASE ~Connected(S, "source2") /\ S.conn["source"] = "sim" /\ T = Shown(C, src, "Off")
  <2>1. ~Live(C, src) /\ ~Live(C, "source2")
    BY <1>1, <1>8 DEF Live, Connected
  <2>2. Safer(C, T) /\ Truth(T)
    BY <1>1, <1>2, <1>8, <2>1, ShownTrue
  <2>3. Safer(S, T)
    BY <1>1, <2>2, SaferTransitive
  <2> QED BY <1>1, <2>1, <2>2, <2>3 DEF SourcesOff, Safer, Live, Sweepers
<1>9. CASE ~Connected(S, "source2") /\ S.conn["source"] = "none" /\ T = failed(C)
  BY <1>1, <1>6, <1>9, SaferSelf
<1>10. CASE ~Connected(S, "source2") /\ S.conn["source"] = "live" /\ T = Shown(D, src, "Off")
  <2>1. Safer(D, T) /\ Truth(T)
    BY <1>2, <1>5, <1>10, ShownTrue DEF Truth, TrueFor
  <2>2. Safer(S, T)
    BY <1>1, <1>5, <2>1, SaferTransitive
  <2>3. ~T.phys[src] /\ ~Live(T, "source2")
    BY <1>1, <1>2, <1>5, <1>10, <2>1 DEF Safer, Quieter, Live, Connected
  <2> QED BY <2>1, <2>2, <2>3 DEF SourcesOff, Sweepers
<1>11. CASE \E U \in Missed(C, src) : T = failed(U)
  <2>1. PICK U \in Missed(C, src) : T = failed(U)
    BY <1>11
  <2>2. U \in Snapshot /\ Safer(C, U) /\ Truth(U) /\ U.out = C.out
    <3>1. Safer(C, U) /\ Truth(U)
      BY <1>1, <1>2, <2>1, MissedSafer
    <3>2. U \in Snapshot /\ U.out = C.out
      BY <1>1, <1>2, <2>1, MissedFacts
    <3> QED BY <3>1, <3>2
  <2> QED BY <1>1, <1>6, <2>1, <2>2
<1> QED BY <1>4, <1>7, <1>8, <1>9, <1>10, <1>11

\* The same, when a source is connected; otherwise there is nothing to clean.
LEMMA CleanIfConnectedFacts ==
    ASSUME NEW S \in Snapshot, Truth(S), NEW T \in CleanIfConnected(S)
    PROVE  /\ Safer(S, T) /\ Truth(T)
           /\ ~T.err \/ T.out["source"] = "Off" => SourcesOff(T)
<1>1. CASE \E r \in Sweepers : Connected(S, r)
  BY <1>1, CleanOutputFacts DEF CleanIfConnected
<1>2. CASE ~\E r \in Sweepers : Connected(S, r)
  BY <1>2, SaferSelf DEF CleanIfConnected, SourcesOff, Live, Connected
<1> QED BY <1>1, <1>2

\* protection_output_off.
LEMMA ProtectionOffFacts ==
    ASSUME NEW S \in Snapshot, Truth(S), NEW q \in ProtectionOff(S)
    PROVE  Safer(S, q.s) /\ Truth(q.s)
<1> DEFINE C == [S EXCEPT !.out["source"] = "Unknown"]
           src == "source"
           D == TurnedOff(C, src)
           E == [D EXCEPT !.out["source"] = "Off"]
<1>1. C \in Snapshot /\ Safer(S, C) /\ Truth(C) /\ C.conn = S.conn
  BY UnknownFacts, "Idle" \in Phases DEF Phases
<1>2. src \in Outputs /\ TrueFor(C, Outputs \ {src}) /\ TrueFor(C, {"gate"})
  BY <1>1 DEF Outputs, Truth, TrueFor
<1>3. q \in SweepOff(C) \/ q = Ok(E) \/ \E U \in Missed(C, src) : q = Err(U)
  BY DEF ProtectionOff
<1>4. D \in Snapshot /\ D.conn = C.conn /\ Safer(C, D) /\ Truth(D) /\ ~D.phys[src]
  BY <1>1, <1>2, TurnedOffFacts, TurnedOffSafer
<1> HIDE DEF C, D
<1>5. /\ E \in Snapshot /\ E.conn = D.conn /\ E.phys = D.phys /\ E.missed = D.missed
      /\ \A r \in Outputs : r # src => E.out[r] = D.out[r]
  BY <1>4 DEF Snapshot, OutputStates
<1> HIDE DEF E
<1>6. Safer(D, E)
  BY <1>5 DEF Safer, Quieter, GateSafe
<1>7. Truth(E)
  BY <1>4, <1>5 DEF Truth, TrueFor, Live
<1>8. CASE q = Ok(E)
  BY <1>1, <1>4, <1>6, <1>7, <1>8, Results, SaferTransitive
<1>9. CASE q \in SweepOff(C)
  BY <1>1, <1>2, <1>9, SweepOffFacts, SaferTransitive
<1>10. CASE \E U \in Missed(C, src) : q = Err(U)
  BY <1>1, <1>2, <1>10, MissedSafer, Results, SaferTransitive
<1> QED BY <1>3, <1>8, <1>9, <1>10

\* What serve does with the error of a command.
LEMMA ErrorPathFacts ==
    ASSUME NEW S \in Snapshot, Truth(S), NEW T \in ErrorPath(S)
    PROVE  Safer(S, T) /\ Truth(T) /\ (Live(T, "gate") => GateSafe(T))
<1> DEFINE C == IF Connected(S, "source2") /\ S.out["source"] # "Off" THEN CleanOutput(S) ELSE {S}
<1>a. ErrorPath(S) = {Faulted(U) : U \in UNION {Outcomes(ShutdownGate(c)) : c \in C}}
  BY DEF ErrorPath, Faulted
<1>b. \A c \in C : c \in CleanOutput(S) \/ c = S
  OBVIOUS
<1> HIDE DEF C
<1>1. PICK c : /\ c \in CleanOutput(S) \/ c = S
               /\ \E q \in ShutdownGate(c) : T = Faulted(q.s)
  BY <1>a, <1>b DEF Outcomes
<1>2. Safer(S, c) /\ Truth(c) /\ c \in Snapshot
  BY <1>1, CleanOutputFacts, SaferSelf DEF Safer, Quieter
<1>3. PICK q \in ShutdownGate(c) : T = Faulted(q.s)
  BY <1>1
<1>4. Safer(c, q.s) /\ Truth(q.s) /\ (Live(c, "gate") => GateSafe(q.s)) /\ q.s \in Snapshot
  BY <1>2, ShutdownGateFacts DEF Safer, Quieter
<1>5. Safer(q.s, T) /\ Truth(T) /\ T.conn = q.s.conn
  BY <1>3, <1>4, FaultedFacts DEF Alike
<1>6. Safer(S, T)
  BY <1>2, <1>4, <1>5, SaferTransitive
<1> QED BY <1>4, <1>5, <1>6 DEF Safer, Quieter, Live

-----------------------------------------------------------------------------
(* Commands *)

\* No instrument whose output may be on has been let go between S and T.
Dropped(S, T) == \A r \in Outputs : Live(S, r) /\ ~Connected(T, r) => ~T.phys[r]

\* What a command may leave behind it.
Sound(S, q) == q.ok \in BOOLEAN /\ q.s \in Snapshot /\ Truth(q.s) /\ Dropped(S, q.s)

\* Every connection is kept.
Kept(S, T) == \A r \in Roles : Connected(S, r) => Connected(T, r)

\* Then nothing is let go.
LEMMA KeptDropsNothing ==
    ASSUME NEW S, NEW T, Kept(S, T)
    PROVE  Dropped(S, T)
BY DEF Kept, Dropped, Live, Connected, Roles

\* A safe step lets nothing go, and the ones before it stay sound.
LEMMA SaferKeeps ==
    ASSUME NEW S, NEW T, NEW U, Safer(T, U)
    PROVE  /\ U \in Snapshot /\ Kept(T, U) /\ (Dropped(S, T) => Dropped(S, U))
           /\ (SourcesOff(T) => SourcesOff(U))
<1>1. U.conn = T.conn /\ \A r \in Outputs : U.phys[r] => T.phys[r]
  BY DEF Safer, Quieter
<1> QED BY <1>1 DEF Kept, Dropped, SourcesOff, Connected, Live, Sweepers, Outputs, Safer, Quieter

\* connect_role.
LEMMA ConnectFacts ==
    ASSUME NEW S \in Snapshot, Truth(S), NEW r \in Roles, NEW kind \in Kinds,
           NEW q \in ConnectRole(S, r, kind)
    PROVE  q.ok \in BOOLEAN /\ q.s \in Snapshot /\ Truth(q.s) /\ Kept(S, q.s)
<1>1. CASE q = Err(S)
  BY <1>1, Results DEF Kept
<1>2. CASE q = Ok([S EXCEPT !.phase = "Ready"])
  <2> DEFINE T == [S EXCEPT !.phase = "Ready"]
  <2>1. Alike(S, T)
    BY PhaseMarked DEF Phases
  <2> HIDE DEF T
  <2>2. T \in Snapshot /\ Truth(T) /\ Kept(S, T)
    BY <2>1, AlikeSafer, SaferKeeps
  <2> QED BY <1>2, <2>2, Results DEF T
<1>3. CASE ~Connected(S, r) /\ q # Err(S)
  <2> DEFINE C == [S EXCEPT !.conn[r] = kind, !.phase = "Ready"]
  <2>1. /\ C \in Snapshot /\ C.out = S.out /\ C.phys = S.phys /\ C.conn[r] = kind
        /\ \A x \in Roles : x # r => C.conn[x] = S.conn[x]
    BY DEF Snapshot, Phases
  <2>2. \/ r \in Meters /\ q = Ok(C)
        \/ /\ r \in Outputs /\ kind = "sim"
           /\ q = Ok([Known(C, r) EXCEPT !.out[r] = "Off", !.phys[r] = FALSE])
        \/ /\ r \in Outputs /\ kind = "live"
           /\ \E p \in BOOLEAN : q = Ok([Known(C, r) EXCEPT !.out[r] = "Unknown", !.phys[r] = p])
    BY <1>3, Results DEF ConnectRole, Kinds, Roles, Meters, Outputs
  <2> HIDE DEF C
  <2>3. Kept(S, C) /\ (r \in Meters => Truth(C)) /\ TrueFor(C, Outputs \ {r})
    BY <1>3, <2>1 DEF Kept, Connected, Truth, TrueFor, Live, Kinds, Outputs, Meters, Roles
  <2>4. CASE r \in Meters /\ q = Ok(C)
    BY <2>1, <2>3, <2>4, Results
  <2>5. ASSUME r \in Outputs, NEW v \in OutputStates, NEW p \in BOOLEAN, v = "Off" => ~p,
               q = Ok([Known(C, r) EXCEPT !.out[r] = v, !.phys[r] = p])
        PROVE  q.ok \in BOOLEAN /\ q.s \in Snapshot /\ Truth(q.s) /\ Kept(S, q.s)
    <3> DEFINE K == Known(C, r)
               T == [K EXCEPT !.out[r] = v, !.phys[r] = p]
    <3>1. K \in Snapshot /\ K.conn = C.conn /\ K.out = C.out /\ K.phys = C.phys
      BY <2>1 DEF Known, Snapshot
    <3> HIDE DEF K
    <3>2. /\ T \in Snapshot /\ T.conn = C.conn /\ T.out[r] = v /\ T.phys[r] = p
          /\ \A x \in Outputs \ {r} : T.out[x] = C.out[x] /\ T.phys[x] = C.phys[x]
      BY <2>5, <3>1 DEF Snapshot
    <3> HIDE DEF T
    <3>3. Truth(T)
      BY <2>3, <2>5, <3>2 DEF Truth, TrueFor, Live
    <3>4. Kept(S, T)
      BY <2>3, <3>2 DEF Kept, Connected
    <3> QED BY <2>5, <3>2, <3>3, <3>4, Results DEF T, K
  <2> QED BY <2>2, <2>4, <2>5 DEF OutputStates
<1> QED BY <1>1, <1>2, <1>3 DEF ConnectRole

\* gate::set_voltage and source_dc::set.
LEMMA SetOutputFacts ==
    ASSUME NEW S \in Snapshot, Truth(S), NEW r \in Outputs, NEW q \in SetOutput(S, r)
    PROVE  Sound(S, q)
<1>1. CASE q = Err(S)
  BY <1>1, Results, SaferSelf, SaferKeeps, KeptDropsNothing DEF Sound
<1>2. ASSUME NEW H \in Snapshot, H.conn = S.conn, TrueFor(H, Outputs \ {r}), q \in FailClosed(H, r)
      PROVE  Sound(S, q)
  <2>1. Safer(H, q.s) /\ q.ok = FALSE /\ Truth(q.s)
    BY <1>2, FailClosedFacts
  <2>2. q.s \in Snapshot /\ Kept(S, q.s)
    BY <1>2, <2>1 DEF Safer, Quieter, Kept, Connected
  <2> QED BY <2>1, <2>2, KeptDropsNothing DEF Sound
<1>3. CASE q \in HalfWay(S, r)
  <2>1. ASSUME NEW p \in BOOLEAN, q \in FailClosed([S EXCEPT !.phys[r] = p], r)
        PROVE  Sound(S, q)
    <3> DEFINE H == [S EXCEPT !.phys[r] = p]
    <3>1. /\ H \in Snapshot /\ H.conn = S.conn /\ H.out = S.out
          /\ \A x \in Outputs \ {r} : H.phys[x] = S.phys[x]
      BY DEF Snapshot
    <3>2. q \in FailClosed(H, r)
      BY <2>1
    <3> HIDE DEF H
    <3>3. TrueFor(H, Outputs \ {r})
      BY <3>1 DEF Truth, TrueFor, Live
    <3> QED BY <1>2, <3>1, <3>2, <3>3
  <2>2. CASE q \in FailClosed(S, r)
    BY <1>2, <2>2 DEF Truth, TrueFor
  <2> QED BY <1>3, <2>1, <2>2 DEF HalfWay
<1>4. CASE q = Ok(Applied(S, r))
  <2> DEFINE on == [S EXCEPT !.out[r] = "On", !.held[r] = TRUE]
             K == Known(on, r)
             T == Applied(S, r)
  <2>1. /\ on \in Snapshot /\ on.conn = S.conn /\ on.phys = S.phys /\ on.out[r] = "On"
        /\ \A x \in Outputs \ {r} : on.out[x] = S.out[x]
    BY DEF Snapshot, OutputStates
  <2>2. T = IF Live(S, r) THEN [K EXCEPT !.phys[r] = TRUE] ELSE on
    BY DEF Applied
  <2> HIDE DEF on
  <2>3. K \in Snapshot /\ K.conn = on.conn /\ K.out = on.out /\ K.phys = on.phys
    BY <2>1 DEF Known, Snapshot
  <2> HIDE DEF K, T
  <2>4. /\ T \in Snapshot /\ T.conn = S.conn /\ T.out = on.out
        /\ \A x \in Outputs \ {r} : T.phys[x] = S.phys[x]
    BY <2>1, <2>2, <2>3 DEF Snapshot
  <2>5. Truth(T)
    BY <2>1, <2>4 DEF Truth, TrueFor, Live
  <2>6. Kept(S, T)
    BY <2>4 DEF Kept, Connected
  <2> QED BY <1>4, <2>4, <2>5, <2>6, Results, KeptDropsNothing DEF Sound, T
<1> QED BY <1>1, <1>3, <1>4 DEF SetOutput

\* Safe results are sound ones.
LEMMA SaferSound ==
    ASSUME NEW S \in Snapshot, NEW q, q.ok \in BOOLEAN, Safer(S, q.s), Truth(q.s)
    PROVE  Sound(S, q)
<1>1. q.s \in Snapshot /\ Kept(S, q.s)
  BY SaferKeeps
<1> QED BY <1>1, KeptDropsNothing DEF Sound

\* Turning one output off on command.
LEMMA OutputOffRoleFacts ==
    ASSUME NEW S \in Snapshot, Truth(S), NEW r \in Outputs, NEW q \in OutputOffRole(S, r)
    PROVE  Sound(S, q)
<1>1. CASE q = Err(S)
  <2>1. q.ok \in BOOLEAN /\ Safer(S, q.s) /\ Truth(q.s)
    BY <1>1, Results, SaferSelf
  <2> QED BY <2>1, SaferSound
<1>2. CASE q \in ForceOff(S, r)
  <2>1. Safer(S, q.s) /\ q.ok \in BOOLEAN /\ Truth(q.s)
    BY <1>2, ForceOffFacts DEF Truth, TrueFor
  <2> QED BY <2>1, SaferSound
<1> QED BY <1>1, <1>2 DEF OutputOffRole

\* discover.
LEMMA DiscoverFacts ==
    ASSUME NEW S \in Snapshot, Truth(S), NEW q \in DiscoverAll(S)
    PROVE  Sound(S, q)
<1> DEFINE C == [S EXCEPT !.phase = "Scanning", !.err = FALSE]
           p == IF Connected(S, "source") /\ Connected(S, "meter") THEN "Ready" ELSE "Idle"
<1>1. Alike(S, C)
  BY DEF Snapshot, Alike, Phases
<1>2. q = Err(C) \/ q = Ok([C EXCEPT !.phase = p])
  BY DEF DiscoverAll
<1>3. p \in Phases
  BY DEF Phases
<1> HIDE DEF C, p
<1>4. C \in Snapshot /\ Safer(S, C) /\ Truth(C)
  BY <1>1, AlikeSafer DEF Alike
<1> DEFINE E == [C EXCEPT !.phase = p]
<1>5. Alike(C, E)
  BY <1>3, <1>4, PhaseMarked
<1> HIDE DEF E
<1>6. Safer(S, E) /\ Truth(E)
  BY <1>4, <1>5, AlikeSafer, SaferTransitive
<1>7. q.ok \in BOOLEAN /\ (q.s = C \/ q.s = E)
  BY <1>2, Results DEF E
<1> QED BY <1>4, <1>6, <1>7, SaferSound

\* set_live_mode.
LEMMA LiveModeFacts ==
    ASSUME NEW S \in Snapshot, Truth(S), NEW q \in LiveMode(S)
    PROVE  Sound(S, q)
<1> DEFINE C == [S EXCEPT !.phase = "SwitchingMode"]
           src == "source"
           D == TurnedOff(C, src)
           E == Shown(D, src, "Off")
           F == [E EXCEPT !.phase = "Ready"]
           G == [F EXCEPT !.phase = "SwitchingMode"]
           I == Shown(C, src, "Off")
           J == [I EXCEPT !.phase = "Ready"]
<1>1. Alike(S, C)
  BY PhaseMarked DEF Phases
<1>2. \/ q = Err(C) \/ (~Live(S, src) /\ q = Ok(J)) \/ q = Ok(F) \/ q = Err(G)
      \/ \E T \in Missed(C, src) : q = Err(T)
  BY DEF LiveMode
<1> HIDE DEF C
<1>3. C \in Snapshot /\ Safer(S, C) /\ Truth(C) /\ C.conn = S.conn
  BY <1>1, AlikeSafer DEF Alike
<1>4. src \in Outputs /\ TrueFor(C, Outputs \ {src}) /\ "Off" \in OutputStates
      /\ "Ready" \in Phases /\ "SwitchingMode" \in Phases
  BY <1>3 DEF Truth, TrueFor, Outputs, OutputStates, Phases
<1>5. D \in Snapshot /\ Safer(S, D) /\ Truth(D) /\ ~D.phys[src]
  BY <1>3, <1>4, TurnedOffSafer, SaferTransitive DEF Safer, Quieter
<1> HIDE DEF D
<1>6. Safer(S, E) /\ Truth(E) /\ E \in Snapshot
  <2>1. Safer(D, E) /\ Truth(E)
    BY <1>4, <1>5, ShownTrue DEF Truth, TrueFor
  <2> QED BY <1>5, <2>1, SaferTransitive DEF Safer, Quieter
<1> HIDE DEF E
<1>7. Safer(S, F) /\ Truth(F) /\ F \in Snapshot
  <2>1. Alike(E, F)
    BY <1>4, <1>6, PhaseMarked
  <2> QED BY <1>6, <2>1, AlikeSafer, SaferTransitive DEF Alike
<1> HIDE DEF F
<1>8. Safer(S, G) /\ Truth(G)
  <2>1. Alike(F, G)
    BY <1>4, <1>7, PhaseMarked
  <2> QED BY <1>7, <2>1, AlikeSafer, SaferTransitive
<1> HIDE DEF G
<1>9. ~Live(S, src) => Safer(S, J) /\ Truth(J)
  <2> HAVE ~Live(S, src)
  <2>1. Safer(C, I) /\ Truth(I)
    BY <1>3, <1>4, ShownTrue DEF Live
  <2>2. I \in Snapshot
    BY <2>1 DEF Safer, Quieter
  <2> HIDE DEF I
  <2>3. Alike(I, J)
    BY <1>4, <2>2, PhaseMarked
  <2> HIDE DEF J
  <2> QED BY <1>3, <2>1, <2>3, AlikeSafer, SaferTransitive
<1> HIDE DEF J
<1>10. ASSUME NEW T \in Missed(C, src), q = Err(T) PROVE Sound(S, q)
  <2>1. Safer(S, T) /\ Truth(T)
    BY <1>3, <1>4, <1>10, MissedSafer, SaferTransitive
  <2>2. q.ok \in BOOLEAN /\ Safer(S, q.s) /\ Truth(q.s)
    BY <1>10, <2>1, Results
  <2> QED BY <2>2, SaferSound
<1>11. CASE q = Err(C) \/ (~Live(S, src) /\ q = Ok(J)) \/ q = Ok(F) \/ q = Err(G)
  <2>1. q.ok \in BOOLEAN /\ Safer(S, q.s) /\ Truth(q.s)
    BY <1>3, <1>7, <1>8, <1>9, <1>11, Results
  <2> QED BY <2>1, SaferSound
<1> QED BY <1>2, <1>10, <1>11

-----------------------------------------------------------------------------
(* Letting go of instruments *)

\* From S to T outputs went off and instruments were let go, each with its
\* output off.
Released(S, T) ==
    /\ T \in Snapshot /\ Truth(T) /\ Dropped(S, T)
    /\ \A r \in Outputs : (T.phys[r] => S.phys[r]) /\ (T.conn[r] = S.conn[r] \/ T.conn[r] = "none")

\* Steps of this kind compose.
LEMMA ReleasedTransitive ==
    ASSUME NEW S, NEW T, NEW U, Released(S, T), Released(T, U)
    PROVE  Released(S, U)
<1>1. Dropped(S, U)
  <2> SUFFICES ASSUME NEW r \in Outputs, Live(S, r), ~Connected(U, r) PROVE ~U.phys[r]
    BY DEF Dropped
  <2>1. CASE T.conn[r] = S.conn[r]
    BY <2>1 DEF Released, Dropped, Live
  <2>2. CASE T.conn[r] = "none"
    BY <2>2 DEF Released, Dropped, Connected
  <2> QED BY <2>1, <2>2 DEF Released
<1> QED BY <1>1 DEF Released

\* Safe steps are of this kind.
LEMMA SaferReleases ==
    ASSUME NEW S, NEW T, Safer(S, T), Truth(T)
    PROVE  Released(S, T)
BY SaferKeeps, KeptDropsNothing DEF Safer, Quieter, Released

\* An instrument let go.
LEMMA GoneFacts ==
    ASSUME NEW S \in Snapshot, Truth(S), NEW r \in Roles, NEW p \in Phases,
           r \in Outputs /\ Live(S, r) => ~S.phys[r]
    PROVE  Released(S, [S EXCEPT !.conn[r] = "none", !.phase = p])
<1> DEFINE T == [S EXCEPT !.conn[r] = "none", !.phase = p]
<1>1. /\ T \in Snapshot /\ T.out = S.out /\ T.phys = S.phys /\ T.conn[r] = "none"
      /\ \A x \in Roles : x # r => T.conn[x] = S.conn[x]
  BY DEF Snapshot, Kinds
<1> HIDE DEF T
<1>2. \A x \in Outputs : T.conn[x] = S.conn[x] \/ T.conn[x] = "none"
  BY <1>1 DEF Roles
<1>3. Truth(T)
  BY <1>1, <1>2 DEF Truth, TrueFor, Live
<1>4. Dropped(S, T)
  BY <1>1 DEF Dropped, Live, Connected, Roles
<1> QED BY <1>1, <1>2, <1>3, <1>4 DEF Released, T

\* disconnect_role: nothing is let go before its OFF is verified.
LEMMA DisconnectFacts ==
    ASSUME NEW S \in Snapshot, Truth(S), NEW r \in Roles, NEW q \in DisconnectRole(S, r)
    PROVE  q.ok \in BOOLEAN /\ Released(S, q.s)
<1>1. CASE q = Ok(S)
  BY <1>1, Results, SaferSelf, SaferReleases
<1>2. CASE q # Ok(S)
  <2> DEFINE safe == CASE r = "gate" -> ForceOff(S, r)
                  [] r \in Sweepers ->
                       {[ok |-> T.out["source"] = "Off", s |-> T] : T \in CleanOutput(S)}
                  [] r \in Meters -> {Ok(S)}
             ph(T) == IF \E x \in Roles \ {r} : Connected(T, x) THEN "Ready" ELSE "Idle"
             gone(T) == [T EXCEPT !.conn[r] = "none", !.phase = ph(T)]
             detach(T) == {Ok(gone(T))} \cup (IF Live(T, r) THEN {Err(T), Err(gone(T))} ELSE {})
  <2>1. q \in UNION {IF p.ok THEN detach(p.s) ELSE {p} : p \in safe}
    BY <1>2 DEF DisconnectRole, Then
  <2>2. ASSUME NEW p \in safe
        PROVE  /\ Safer(S, p.s) /\ Truth(p.s) /\ p.ok \in BOOLEAN /\ p.s \in Snapshot
               /\ p.ok /\ r \in Outputs /\ Live(p.s, r) => ~p.s.phys[r]
    <3>1. CASE r = "gate"
      <4>a. r \notin Sweepers /\ r \notin Meters
        BY <3>1 DEF Sweepers, Meters
      <4>b. safe = ForceOff(S, r)
        BY <3>1, <4>a
      <4>1. p \in ForceOff(S, r) /\ r \in Outputs /\ TrueFor(S, Outputs \ {r})
        BY <3>1, <4>b DEF Truth, TrueFor, Outputs
      <4>2. /\ Safer(S, p.s) /\ Truth(p.s) /\ p.ok \in BOOLEAN
            /\ p.ok /\ Live(S, r) => ~p.s.phys[r]
        BY <4>1, ForceOffFacts
      <4> QED BY <4>2 DEF Safer, Quieter, Live
    <3>2. CASE r \in Sweepers
      <4>a. r # "gate" /\ r \notin Meters
        BY <3>2 DEF Sweepers, Meters
      <4>b. safe = {[ok |-> T.out["source"] = "Off", s |-> T] : T \in CleanOutput(S)}
        BY <3>2, <4>a
      <4>1. PICK T \in CleanOutput(S) : p = [ok |-> T.out["source"] = "Off", s |-> T]
        BY <4>b
      <4>2. p.ok = (T.out["source"] = "Off") /\ p.s = T
        BY <4>1
      <4>3. Safer(S, T) /\ Truth(T) /\ (T.out["source"] = "Off" => SourcesOff(T))
        BY CleanOutputFacts
      <4> QED BY <3>2, <4>2, <4>3 DEF Safer, Quieter, SourcesOff
    <3>3. CASE r \in Meters
      <4>1. p = Ok(S) /\ r \notin Outputs
        BY <3>3, <2>2 DEF Meters, Sweepers, Outputs
      <4> QED BY <4>1, Results, SaferSelf
    <3> QED BY <3>1, <3>2, <3>3 DEF Roles, Outputs, Sweepers, Meters
  <2> HIDE DEF safe
  <2>3. \A T : ph(T) \in Phases
    BY DEF Phases
  <2> HIDE DEF ph
  <2>4. ASSUME NEW p \in safe, p.ok PROVE Released(S, gone(p.s))
    <3>1. Released(p.s, gone(p.s))
      BY <2>2, <2>3, <2>4, GoneFacts
    <3>2. Released(S, p.s)
      BY <2>2, <2>4, SaferReleases
    <3> HIDE DEF gone
    <3> QED BY <3>1, <3>2, ReleasedTransitive
  <2> HIDE DEF gone
  <2>5. PICK p \in safe : q = p \/ (p.ok /\ q \in {Ok(gone(p.s)), Err(p.s), Err(gone(p.s))})
    BY <2>1
  <2>6. q.ok \in BOOLEAN /\ (q.s = p.s \/ (p.ok /\ q.s = gone(p.s)))
    BY <2>2, <2>5, Results
  <2> QED BY <2>2, <2>4, <2>6, SaferReleases
<1> QED BY <1>1, <1>2

\* Command::DisconnectAll: the five in turn, whatever happens to the others.
LEMMA DisconnectAllFacts ==
    ASSUME NEW S \in Snapshot, Truth(S), NEW q \in DisconnectAll(S)
    PROVE  Sound(S, q)
<1> DEFINE R1 == DisconnectRole(S, "source")
           J(R, r) == UNION {{[ok |-> a.ok /\ b.ok, s |-> b.s] : b \in DisconnectRole(a.s, r)} : a \in R}
           Fine(R) == \A a \in R : a.ok \in BOOLEAN /\ Released(S, a.s)
<1>1. q \in J(J(J(J(R1, "source2"), "gate"), "meter"), "reference")
  BY DEF DisconnectAll, All
<1>2. {"source", "source2", "gate", "meter", "reference"} = Roles
  BY DEF Roles, Outputs, Meters
<1>3. Fine(R1)
  BY <1>2, DisconnectFacts
<1>4. ASSUME NEW R, Fine(R), NEW r \in Roles PROVE Fine(J(R, r))
  <2> SUFFICES ASSUME NEW c \in J(R, r) PROVE c.ok \in BOOLEAN /\ Released(S, c.s)
    OBVIOUS
  <2>1. PICK a \in R : \E b \in DisconnectRole(a.s, r) : c = [ok |-> a.ok /\ b.ok, s |-> b.s]
    OBVIOUS
  <2>2. PICK b \in DisconnectRole(a.s, r) : c = [ok |-> a.ok /\ b.ok, s |-> b.s]
    BY <2>1
  <2>3. a.ok \in BOOLEAN /\ Released(S, a.s) /\ a.s \in Snapshot /\ Truth(a.s)
    BY <1>4 DEF Released
  <2>4. b.ok \in BOOLEAN /\ Released(a.s, b.s)
    BY <2>3, DisconnectFacts
  <2>5. c.ok = (a.ok /\ b.ok) /\ c.s = b.s
    BY <2>2
  <2> QED BY <2>3, <2>4, <2>5, ReleasedTransitive
<1> HIDE DEF R1, J, Fine
<1>5. Fine(J(J(J(J(R1, "source2"), "gate"), "meter"), "reference"))
  BY <1>2, <1>3, <1>4
<1> QED BY <1>1, <1>5 DEF Fine, Released, Sound

-----------------------------------------------------------------------------
(* Turning everything off *)

\* Turning the gate off neither sets nor clears the engine's error.
LEMMA GateKeepsError ==
    ASSUME NEW S \in Snapshot, NEW q \in ShutdownGate(S)
    PROVE  q.s.err = S.err
<1> DEFINE g == "gate"
           D == TurnedOff(S, g)
           off == "Off"
           unknown == "Unknown"
<1>0. g \in Outputs /\ off \in OutputStates /\ unknown \in OutputStates
  BY DEF Outputs, OutputStates
<1>1. \/ q = Ok(S) \/ q = Ok(Shown(S, g, off)) \/ q = Ok(Shown(D, g, off))
      \/ \E T \in Missed(S, g) : q = Err(Shown(T, g, unknown)) \/ q = Err(T)
  BY DEF ShutdownGate, ForceOff
<1>2. D \in Snapshot /\ D.err = S.err
  BY <1>0, TurnedOffFacts
<1>3. \A T \in Missed(S, g) : T \in Snapshot /\ T.err = S.err
  BY <1>0, MissedFacts
<1> HIDE DEF g, D, off, unknown
<1>4. Shown(S, g, off).err = S.err /\ Shown(D, g, off).err = S.err
  BY <1>0, <1>2, ShownFacts
<1>5. \A T \in Missed(S, g) : Shown(T, g, unknown).err = S.err
  BY <1>0, <1>3, ShownFacts
<1> QED BY <1>1, <1>3, <1>4, <1>5, Results

\* Command::Stop: without an error both sources are off.
LEMMA StopFacts ==
    ASSUME NEW S \in Snapshot, Truth(S), NEW q \in StopOutputs(S)
    PROVE  Sound(S, q) /\ (~q.s.err => SourcesOff(q.s))
<1>1. PICK T \in CleanIfConnected(S) : q \in IF T.err THEN ShutdownGate(T) ELSE {Ok([T EXCEPT !.phase = "Stopped"])}
  BY DEF StopOutputs
<1>2. Safer(S, T) /\ Truth(T) /\ (~T.err => SourcesOff(T)) /\ T \in Snapshot
  BY CleanIfConnectedFacts DEF Safer, Quieter
<1>3. CASE T.err
  <2>1. q.ok \in BOOLEAN /\ Safer(T, q.s) /\ Truth(q.s) /\ q.s.err = T.err
    BY <1>1, <1>2, <1>3, ShutdownGateFacts, GateKeepsError
  <2>2. Safer(S, q.s)
    BY <1>2, <2>1, SaferTransitive
  <2> QED BY <1>3, <2>1, <2>2, SaferSound
<1>4. CASE ~T.err
  <2> DEFINE E == [T EXCEPT !.phase = "Stopped"]
  <2>1. Alike(T, E)
    BY <1>2, PhaseMarked DEF Phases
  <2>2. q = Ok(E)
    BY <1>1, <1>4
  <2> HIDE DEF E
  <2>3. Safer(T, E) /\ Truth(E) /\ Safer(S, E)
    BY <1>2, <2>1, AlikeSafer, SaferTransitive
  <2>4. q.ok \in BOOLEAN /\ q.s = E
    BY <2>2, Results
  <2>5. SourcesOff(E)
    BY <1>2, <1>4, <2>3, SaferKeeps
  <2> QED BY <2>3, <2>4, <2>5, SaferSound
<1> QED BY <1>3, <1>4

\* Every connected output is off.
AllAreOff(S) == \A r \in Outputs : Live(S, r) => ~S.phys[r]

\* Command::OutputOff: what it acknowledges is so.
LEMMA AllOffFacts ==
    ASSUME NEW S \in Snapshot, Truth(S), NEW q \in AllOff(S)
    PROVE  Sound(S, q) /\ (q.ok => AllAreOff(q.s))
<1> DEFINE done(T, g) == IF T.out["source"] = "Off" /\ g.ok THEN Ok([g.s EXCEPT !.phase = "Ready"]) ELSE Err(g.s)
<1>1. PICK T \in CleanIfConnected(S) : \E g \in ShutdownGate(T) : q = done(T, g)
  BY DEF AllOff
<1>2. PICK g \in ShutdownGate(T) : q = done(T, g)
  BY <1>1
<1>3. Safer(S, T) /\ Truth(T) /\ (T.out["source"] = "Off" => SourcesOff(T)) /\ T \in Snapshot
  BY CleanIfConnectedFacts DEF Safer, Quieter
<1>4. /\ Safer(T, g.s) /\ g.ok \in BOOLEAN /\ Truth(g.s)
      /\ g.ok /\ Live(T, "gate") => ~g.s.phys["gate"]
  BY <1>3, ShutdownGateFacts
<1>5. Safer(S, g.s) /\ g.s \in Snapshot
  BY <1>3, <1>4, SaferTransitive DEF Safer, Quieter
<1>6. CASE T.out["source"] = "Off" /\ g.ok
  <2> DEFINE U == g.s
             E == [U EXCEPT !.phase = "Ready"]
  <2>1. Alike(U, E)
    BY <1>5, PhaseMarked DEF Phases
  <2>2. q = Ok(E)
    BY <1>2, <1>6
  <2>3. SourcesOff(U) /\ (Live(U, "gate") => ~U.phys["gate"])
    BY <1>3, <1>4, <1>6, SaferKeeps DEF Safer, Live
  <2> HIDE DEF E
  <2>4. Safer(S, E) /\ Truth(E)
    BY <1>4, <1>5, <2>1, AlikeSafer, SaferTransitive
  <2>5. AllAreOff(E)
    BY <2>1, <2>3 DEF AllAreOff, SourcesOff, Alike, Live, Outputs, Sweepers
  <2>6. q.ok \in BOOLEAN /\ q.s = E
    BY <2>2, Results
  <2> QED BY <2>4, <2>5, <2>6, SaferSound
<1>7. CASE ~(T.out["source"] = "Off" /\ g.ok)
  <2>1. q.ok = FALSE /\ q.s = g.s
    BY <1>2, <1>7, Results
  <2>2. q.ok \in BOOLEAN /\ Safer(S, q.s) /\ Truth(q.s)
    BY <1>4, <1>5, <2>1
  <2> QED BY <2>1, <2>2, SaferSound
<1> QED BY <1>6, <1>7

\* A lapsed lease: an output left on is reported.
LEMMA CloseAllFacts ==
    ASSUME NEW S \in Snapshot, Truth(S), NEW T \in CloseAll(S)
    PROVE  /\ T \in Snapshot /\ Truth(T) /\ (\A r \in Roles : ~Connected(T, r))
           /\ \A r \in Outputs : Live(S, r) => ~T.phys[r] \/ T.err
<1> DEFINE c == [r \in Roles |-> "none"]
           h == [r \in Outputs |-> FALSE]
           e(q) == q.s.err \/ ~q.ok
           closed(q) == [q.s EXCEPT !.conn = c, !.held = h, !.err = e(q)]
<1>0. CloseAll(S) = {closed(q) : q \in UNION {ShutdownGate(C) : C \in CleanIfConnected(S)}}
  BY DEF CloseAll
<1> HIDE DEF closed
<1>1. PICK C \in CleanIfConnected(S) : \E q \in ShutdownGate(C) : T = closed(q)
  BY <1>0
<1>2. PICK q \in ShutdownGate(C) : T = closed(q)
  BY <1>1
<1>3. Safer(S, C) /\ Truth(C) /\ (~C.err => SourcesOff(C)) /\ C \in Snapshot
  BY CleanIfConnectedFacts DEF Safer, Quieter
<1>4. /\ Safer(C, q.s) /\ q.ok \in BOOLEAN /\ q.s.err = C.err /\ q.s \in Snapshot
      /\ q.ok /\ Live(C, "gate") => ~q.s.phys["gate"]
  BY <1>3, ShutdownGateFacts, GateKeepsError DEF Safer, Quieter
<1>5. c \in [Roles -> Kinds \cup {"none"}] /\ h \in [Outputs -> BOOLEAN]
  OBVIOUS
<1>6. e(q) \in BOOLEAN
  OBVIOUS
<1>a. \A r \in Roles : c[r] = "none"
  OBVIOUS
<1>b. ~e(q) => ~C.err /\ q.ok
  BY <1>4
<1> DEFINE f == e(q)
<1>c. T = [q.s EXCEPT !.conn = c, !.held = h, !.err = f]
  BY <1>2 DEF closed
<1> HIDE DEF f, e, c, h
<1>7. T \in Snapshot /\ T.conn = c /\ T.phys = q.s.phys /\ T.err = f
  BY <1>4, <1>5, <1>6, <1>c DEF Snapshot, f
<1>8. \A r \in Roles : ~Connected(T, r)
  BY <1>7, <1>a DEF Connected
<1>9. Truth(T)
  BY <1>8 DEF Truth, TrueFor, Live, Connected, Roles
<1>10. ASSUME NEW r \in Outputs, Live(S, r), ~T.err PROVE ~T.phys[r]
  <2>1. ~C.err /\ q.ok
    BY <1>7, <1>10, <1>b DEF f
  <2>2. SourcesOff(q.s) /\ (Live(q.s, "gate") => ~q.s.phys["gate"])
    BY <1>3, <1>4, <2>1, SaferKeeps DEF Safer, Live
  <2>3. Live(q.s, r)
    BY <1>3, <1>4, <1>10 DEF Safer, Live
  <2> QED BY <1>7, <2>2, <2>3 DEF SourcesOff, Outputs, Sweepers
<1> QED BY <1>7, <1>8, <1>9, <1>10

-----------------------------------------------------------------------------
(* Idle polling *)

\* A set of snapshots, each reached from S safely and truthfully.
AllSafer(S, X) == \A T \in X : Safer(S, T) /\ Truth(T) /\ T \in Snapshot

\* Cleaning keeps them so.
LEMMA CleaningSafer ==
    ASSUME NEW S \in Snapshot, Truth(S), NEW X, AllSafer(S, X)
    PROVE  /\ AllSafer(S, CleanSources(X)) /\ AllSafer(S, CleanEverything(X))
           /\ AllSafer(S, {Faulted(T) : T \in X})
<1>1. AllSafer(S, CleanSources(X))
  <2> SUFFICES ASSUME NEW T \in CleanSources(X) PROVE Safer(S, T) /\ Truth(T)
    BY DEF AllSafer, Safer, Quieter
  <2>1. PICK U \in X : T \in CleanOutput(U)
    BY DEF CleanSources
  <2>2. Safer(S, U) /\ Truth(U) /\ U \in Snapshot
    BY DEF AllSafer
  <2> QED BY <2>1, <2>2, CleanOutputFacts, SaferTransitive
<1>2. AllSafer(S, CleanEverything(X))
  <2> SUFFICES ASSUME NEW T \in CleanEverything(X) PROVE Safer(S, T) /\ Truth(T)
    BY DEF AllSafer, Safer, Quieter
  <2>1. PICK U \in CleanSources(X) : T \in Outcomes(ShutdownGate(U))
    BY DEF CleanEverything
  <2>2. PICK q \in ShutdownGate(U) : T = q.s
    BY <2>1 DEF Outcomes
  <2>3. Safer(S, U) /\ Truth(U) /\ U \in Snapshot
    BY <1>1 DEF AllSafer
  <2> QED BY <2>2, <2>3, ShutdownGateFacts, SaferTransitive
<1>3. AllSafer(S, {Faulted(T) : T \in X})
  <2> SUFFICES ASSUME NEW T \in X PROVE Safer(S, Faulted(T)) /\ Truth(Faulted(T))
    BY DEF AllSafer, Safer, Quieter
  <2>1. Safer(S, T) /\ Truth(T) /\ T \in Snapshot
    BY DEF AllSafer
  <2> QED BY <2>1, FaultedFacts, SaferTransitive
<1> QED BY <1>1, <1>2, <1>3

\* So does a failed poll.
LEMMA PollsSafer ==
    ASSUME NEW S \in Snapshot, Truth(S)
    PROVE  AllSafer(S, {S}) /\ \A r \in Outputs : AllSafer(S, CheckFault(S, r))
BY SaferSelf, CheckFaultFacts DEF AllSafer, Safer, Quieter

\* A failed cycle of the live monitor.
LEMMA MonitorFaultSafer ==
    ASSUME NEW S \in Snapshot, Truth(S)
    PROVE  AllSafer(S, MonitorFault(S))
<1> DEFINE polled == IF Live(S, "reference") THEN UNION {CheckFault(S, r) : r \in Outputs} ELSE {}
           tripped == {S} \cup polled
           X == {S} \cup UNION {Outcomes(ProtectionOff(T)) : T \in tripped}
<1>1. AllSafer(S, tripped)
  BY PollsSafer DEF AllSafer
<1>2. MonitorFault(S) = {Faulted(T) : T \in CleanSources(X)}
  BY DEF MonitorFault
<1> HIDE DEF tripped
<1>3. AllSafer(S, X)
  <2> SUFFICES ASSUME NEW U \in X PROVE Safer(S, U) /\ Truth(U)
    BY DEF AllSafer, Safer, Quieter
  <2>1. CASE U = S
    BY <2>1, SaferSelf
  <2>2. ASSUME NEW T \in tripped, U \in Outcomes(ProtectionOff(T)) PROVE Safer(S, U) /\ Truth(U)
    <3>1. PICK q \in ProtectionOff(T) : U = q.s
      BY <2>2 DEF Outcomes
    <3>2. Safer(S, T) /\ Truth(T) /\ T \in Snapshot
      BY <1>1, <2>2 DEF AllSafer
    <3> QED BY <3>1, <3>2, ProtectionOffFacts, SaferTransitive
  <2> QED BY <2>1, <2>2
<1> HIDE DEF X
<1>4. AllSafer(S, CleanSources(X))
  BY <1>3, CleaningSafer
<1>5. AllSafer(S, {Faulted(T) : T \in CleanSources(X)})
  BY <1>4, CleaningSafer
<1> QED BY <1>2, <1>5

\* The live monitor.
LEMMA MonitorSafer ==
    ASSUME NEW S \in Snapshot, Truth(S)
    PROVE  AllSafer(S, Monitor(S))
<1> DEFINE v == IF S.phys["source"] THEN "On" ELSE "Off"
           E == [S EXCEPT !.out["source"] = v]
           Y == {Faulted(T) : T \in CleanEverything({S})}
<1>1. AllSafer(S, Y) /\ AllSafer(S, {S}) /\ AllSafer(S, MonitorFault(S))
  BY PollsSafer, CleaningSafer, MonitorFaultSafer
<1>2. Monitor(S) \subseteq Y \cup {S, E} \cup MonitorFault(S)
  BY DEF Monitor
<1> HIDE DEF Y
<1>3. v \in OutputStates /\ (v = "Off" => ~S.phys["source"])
  BY DEF OutputStates
<1> HIDE DEF v
<1>4. /\ E \in Snapshot /\ E.conn = S.conn /\ E.phys = S.phys /\ E.missed = S.missed /\ E.out["source"] = v
      /\ \A r \in Outputs : r # "source" => E.out[r] = S.out[r]
  BY <1>3 DEF Snapshot, Outputs
<1> HIDE DEF E
<1>5. Safer(S, E)
  BY <1>4 DEF Safer, Quieter, GateSafe
<1>6. Truth(E)
  BY <1>3, <1>4 DEF Truth, TrueFor, Live
<1> QED BY <1>1, <1>2, <1>4, <1>5, <1>6 DEF AllSafer

-----------------------------------------------------------------------------
(* The theorems *)

\* The receipts are true, for what is shown and for what was acknowledged.
LEMMA ReceiptMeaning ==
    ReceiptTrue <=> /\ Truth(state)
                    /\ receipt = "off verified" => AllAreOff(state)
                    /\ receipt = "stopped" => SourcesOff(state)
BY DEF ReceiptTrue, Truth, TrueFor, AllAreOff, SourcesOff

\* One step, whatever it was, and how it ended.
Step ==
    /\ state' \in Snapshot /\ Truth(state')
    /\ \/ receipt' = receipt /\ Safer(state, state')
       \/ receipt' = "ok" /\ Dropped(state, state')
       \/ receipt' = "stopped" /\ SourcesOff(state') /\ Dropped(state, state')
       \/ receipt' = "off verified" /\ AllAreOff(state') /\ Dropped(state, state')
       \/ receipt' = "failed" /\ Dropped(state, state') /\ (Live(state', "gate") => GateSafe(state'))
       \/ receipt' = "lapsed" /\ \A r \in Outputs : Live(state, r) => ~state'.phys[r] \/ state'.err

\* The end of a command.
LEMMA SettleFacts ==
    ASSUME state \in Snapshot, NEW R, NEW done, Settle(R, done), \A q \in R : Sound(state, q)
    PROVE  \/ \E q \in R : q.ok /\ state' = q.s /\ receipt' = done
           \/ /\ receipt' = "failed" /\ state' \in Snapshot /\ Truth(state') /\ Dropped(state, state')
              /\ Live(state', "gate") => GateSafe(state')
<1>1. CASE \E r \in {q \in R : q.ok} : state' = r.s /\ receipt' = done
  BY <1>1
<1>2. CASE /\ state' \in UNION {ErrorPath(r.s) : r \in {q \in R : ~q.ok}}
           /\ receipt' = "failed"
  <2>1. PICK r \in R : state' \in ErrorPath(r.s)
    BY <1>2
  <2>2. r.s \in Snapshot /\ Truth(r.s) /\ Dropped(state, r.s)
    BY DEF Sound
  <2> DEFINE T == state'
  <2>3. T \in ErrorPath(r.s)
    BY <2>1
  <2> HIDE DEF T
  <2>4. Safer(r.s, T) /\ Truth(T) /\ (Live(T, "gate") => GateSafe(T))
    BY <2>2, <2>3, ErrorPathFacts
  <2>5. T \in Snapshot /\ Dropped(state, T)
    BY <2>2, <2>4, SaferKeeps
  <2> QED BY <1>2, <2>4, <2>5 DEF T
<1> QED BY <1>1, <1>2 DEF Settle

\* A command whose results are sound is a step.
LEMMA CommandFacts ==
    ASSUME state \in Snapshot, NEW R, Command(R), \A q \in R : Sound(state, q)
    PROVE  Step
BY SettleFacts DEF Command, Step, Sound

\* Connecting one instrument.
LEMMA ConnectSound ==
    ASSUME state \in Snapshot, Truth(state), NEW r \in Roles, NEW kind \in Kinds
    PROVE  /\ \A q \in ConnectRole(BeginConnect(state), r, kind) :
                 /\ q.ok \in BOOLEAN /\ q.s \in Snapshot /\ Truth(q.s) /\ Kept(state, q.s)
                 /\ Sound(state, q)
<1> DEFINE B == BeginConnect(state)
<1>1. B \in Snapshot /\ B.conn = state.conn /\ Truth(B)
  <2>1. Alike(state, B)
    BY DEF BeginConnect, Snapshot, Alike, Phases
  <2> QED BY <2>1, AlikeSafer DEF Alike
<1> HIDE DEF B
<1>2. ASSUME NEW q \in ConnectRole(B, r, kind)
      PROVE  q.ok \in BOOLEAN /\ q.s \in Snapshot /\ Truth(q.s) /\ Kept(state, q.s)
  <2>1. q.ok \in BOOLEAN /\ q.s \in Snapshot /\ Truth(q.s) /\ Kept(B, q.s)
    BY <1>1, ConnectFacts
  <2> QED BY <1>1, <2>1 DEF Kept, Connected
<1> QED BY <1>2, KeptDropsNothing DEF B, Sound

\* Every step of the engine is one of those above.
LEMMA NextIsStep ==
    ASSUME Inv, Next
    PROVE  Step
<1>0. state \in Snapshot /\ Truth(state)
  BY ReceiptMeaning DEF Inv
<1>1. ASSUME NEW r \in Roles, NEW kind \in Bench[r], Connect(r, kind) PROVE Step
  <2>1. kind \in Kinds
    BY BenchAssumption
  <2> QED BY <1>0, <1>1, <2>1, ConnectSound, CommandFacts DEF Connect
<1>2. ASSUME NEW kind \in Bench["source"] \cap Bench["meter"], ConnectPair(kind) PROVE Step
  <2> DEFINE R1 == ConnectRole(BeginConnect(state), "source", kind)
             R == UNION {IF a.ok THEN ConnectRole(a.s, "meter", kind) ELSE {a} : a \in R1}
  <2>1. Command(R)
    BY <1>2 DEF ConnectPair, Then
  <2>2. kind \in Kinds /\ "source" \in Roles /\ "meter" \in Roles
    BY BenchAssumption DEF Roles, Outputs, Meters
  <2>3. \A a \in R1 : a.ok \in BOOLEAN /\ a.s \in Snapshot /\ Truth(a.s) /\ Kept(state, a.s) /\ Sound(state, a)
    BY <1>0, <2>2, ConnectSound
  <2> HIDE DEF R1
  <2>4. ASSUME NEW q \in R PROVE Sound(state, q)
    <3>1. PICK a \in R1 : q \in IF a.ok THEN ConnectRole(a.s, "meter", kind) ELSE {a}
      OBVIOUS
    <3>2. CASE a.ok
      <4>1. q.ok \in BOOLEAN /\ q.s \in Snapshot /\ Truth(q.s) /\ Kept(a.s, q.s)
        BY <2>2, <2>3, <3>1, <3>2, ConnectFacts
      <4>2. Kept(state, q.s)
        BY <2>3, <4>1 DEF Kept
      <4> QED BY <4>1, <4>2, KeptDropsNothing DEF Sound
    <3>3. CASE ~a.ok
      BY <2>3, <3>1, <3>3
    <3> QED BY <3>2, <3>3
  <2> HIDE DEF R
  <2> QED BY <1>0, <2>1, <2>4, CommandFacts
<1>3. ASSUME NEW r \in Roles, Disconnect(r) PROVE Step
  <2>1. \A q \in DisconnectRole(state, r) : Sound(state, q)
    BY <1>0, DisconnectFacts DEF Released, Sound
  <2> QED BY <1>0, <1>3, <2>1, CommandFacts DEF Disconnect
<1>4. CASE DisconnectEverything
  BY <1>0, <1>4, DisconnectAllFacts, CommandFacts DEF DisconnectEverything
<1>5. ASSUME NEW r \in Outputs, Command(SetOutput(state, r)) \/ Command(OutputOffRole(state, r)) PROVE Step
  <2>1. \A q \in SetOutput(state, r) : Sound(state, q)
    BY <1>0, SetOutputFacts
  <2>2. \A q \in OutputOffRole(state, r) : Sound(state, q)
    BY <1>0, OutputOffRoleFacts
  <2> QED BY <1>0, <1>5, <2>1, <2>2, CommandFacts
<1>6. ASSUME NEW r \in Sweepers, SetSourceDc(r) \/ SourceDcOff(r) PROVE Step
  BY <1>5, <1>6 DEF SetSourceDc, SourceDcOff, Sweepers, Outputs
<1>7. CASE SetGateVoltage \/ GateOutputOff
  BY <1>5, <1>7 DEF SetGateVoltage, GateOutputOff, Outputs
<1>8. CASE SetLiveMode
  BY <1>0, <1>8, LiveModeFacts, CommandFacts DEF SetLiveMode
<1>9. CASE Discover
  BY <1>0, <1>9, DiscoverFacts, CommandFacts DEF Discover
<1>10. CASE Settings
  <2> DEFINE R == {Ok(state), Err(state)}
  <2>1. \A q \in R : q.ok \in BOOLEAN /\ q.s = state
    BY Results
  <2>2. Safer(state, state)
    BY <1>0, SaferSelf
  <2>3. Command(R)
    BY <1>10 DEF Settings
  <2> HIDE DEF R
  <2>4. \A q \in R : Sound(state, q)
    BY <1>0, <2>1, <2>2, SaferSound
  <2> QED BY <1>0, <2>3, <2>4, CommandFacts
<1>11. CASE Stop
  <2> DEFINE R == StopOutputs(state)
             R1 == {q \in R : q.s.err}
             R2 == {q \in R : ~q.s.err}
  <2>1. \A q \in R : Sound(state, q) /\ (~q.s.err => SourcesOff(q.s))
    BY <1>0, StopFacts
  <2>2. Settle(R1, "ok") \/ Settle(R2, "stopped")
    BY <1>11 DEF Stop
  <2> HIDE DEF R
  <2>3. CASE Settle(R1, "ok")
    <3>1. \A q \in R1 : Sound(state, q)
      BY <2>1
    <3> HIDE DEF R1
    <3> QED BY <1>0, <2>3, <3>1, SettleFacts DEF Step, Sound
  <2>4. CASE Settle(R2, "stopped")
    <3>1. \A q \in R2 : Sound(state, q) /\ SourcesOff(q.s)
      BY <2>1
    <3> HIDE DEF R2
    <3> QED BY <1>0, <2>4, <3>1, SettleFacts DEF Step, Sound
  <2> QED BY <2>2, <2>3, <2>4
<1>12. CASE OutputOff
  <2>1. PICK q \in AllOff(state) : state' = q.s /\ receipt' = IF q.ok THEN "off verified" ELSE "ok"
    BY <1>12 DEF OutputOff
  <2>2. Sound(state, q) /\ (q.ok => AllAreOff(q.s))
    BY <1>0, AllOffFacts
  <2> QED BY <2>1, <2>2 DEF Step, Sound
<1>13. CASE Idle
  <2> DEFINE X1 == CleanSources(GateFault(state))
             P == CheckFault(state, "source") \cup CheckFault(state, "source2")
             X2 == CleanEverything(P)
  <2>1. AllSafer(state, GateFault(state)) /\ AllSafer(state, P)
    BY <1>0, PollsSafer DEF GateFault, Outputs, AllSafer
  <2> HIDE DEF P
  <2>2. AllSafer(state, X1) /\ AllSafer(state, X2)
    BY <1>0, <2>1, CleaningSafer
  <2>3. /\ state' \in {Faulted(T) : T \in X1} \cup {Faulted(T) : T \in X2} \cup Monitor(state)
        /\ receipt' = receipt
    BY <1>13 DEF Idle, P
  <2> HIDE DEF X1, X2
  <2>4. AllSafer(state, {Faulted(T) : T \in X1}) /\ AllSafer(state, {Faulted(T) : T \in X2})
    BY <1>0, <2>2, CleaningSafer
  <2>5. AllSafer(state, Monitor(state))
    BY <1>0, MonitorSafer
  <2> QED BY <2>3, <2>4, <2>5 DEF AllSafer, Step
<1>14. CASE Lapse
  <2>1. state' \in CloseAll(state) /\ receipt' = "lapsed"
    BY <1>14 DEF Lapse
  <2> QED BY <1>0, <2>1, CloseAllFacts DEF Step
<1> QED BY <1>1, <1>2, <1>3, <1>4, <1>6, <1>7, <1>8, <1>9, <1>10, <1>11, <1>12, <1>13, <1>14 DEF Next

\* A step keeps the invariant.
LEMMA StepKeepsInv ==
    ASSUME Inv, Step
    PROVE  Inv'
<1>1. state' \in Snapshot /\ Truth(state')
  BY DEF Step
<1>2. ReceiptTrue <=> /\ Truth(state)
                      /\ receipt = "off verified" => AllAreOff(state)
                      /\ receipt = "stopped" => SourcesOff(state)
  BY ReceiptMeaning
<1>3. ReceiptTrue' <=> /\ Truth(state')
                       /\ receipt' = "off verified" => AllAreOff(state')
                       /\ receipt' = "stopped" => SourcesOff(state')
  BY DEF ReceiptTrue, Truth, TrueFor, AllAreOff, SourcesOff, Live
<1>4. CASE receipt' = receipt /\ Safer(state, state')
  <2>1. AllAreOff(state) => AllAreOff(state')
    BY <1>4 DEF AllAreOff, Safer, Quieter, Live
  <2>2. SourcesOff(state) => SourcesOff(state')
    BY <1>4, SaferKeeps
  <2>3. ReceiptTrue'
    BY <1>1, <1>2, <1>3, <1>4, <2>1, <2>2 DEF Inv
  <2>4. FailedClosesGate'
    BY <1>4 DEF Inv, FailedClosesGate, Safer, Quieter, GateSafe, Live
  <2> QED BY <1>1, <2>3, <2>4 DEF Inv
<1>5. CASE receipt' = "failed" /\ (Live(state', "gate") => GateSafe(state'))
  <2>1. FailedClosesGate'
    BY <1>5 DEF FailedClosesGate, GateSafe, Live
  <2> QED BY <1>1, <1>3, <1>5, <2>1 DEF Inv
<1>6. CASE receipt' # "failed" /\ ~(receipt' = receipt /\ Safer(state, state'))
  <2>1. ReceiptTrue'
    BY <1>1, <1>3, <1>6 DEF Step
  <2>2. FailedClosesGate'
    BY <1>6 DEF FailedClosesGate
  <2> QED BY <1>1, <2>1, <2>2 DEF Inv
<1> QED BY <1>4, <1>5, <1>6 DEF Step

\* The invariant holds at the start, and every step keeps it.
LEMMA InvHolds == Spec => []Inv
<1>1. Init => Inv
  <2> SUFFICES ASSUME Init PROVE Inv
    OBVIOUS
  <2> DEFINE c == [r \in Roles |-> "none"]
             o == [r \in Outputs |-> "Unknown"]
             h == [r \in Outputs |-> FALSE]
  <2>1. state = [conn |-> c, out |-> o, held |-> h, err |-> FALSE, phase |-> "Idle", phys |-> h, missed |-> FALSE]
        /\ receipt = "none"
    BY DEF Init
  <2>2. /\ c \in [Roles -> Kinds \cup {"none"}] /\ o \in [Outputs -> OutputStates] /\ h \in [Outputs -> BOOLEAN]
        /\ \A r \in Outputs : h[r] = FALSE
    BY DEF OutputStates
  <2> HIDE DEF c, o, h
  <2>3. state \in Snapshot
    BY <2>1, <2>2 DEF Snapshot, Phases
  <2>4. ReceiptTrue /\ FailedClosesGate
    BY <2>1, <2>2 DEF ReceiptTrue, FailedClosesGate
  <2> QED BY <2>3, <2>4 DEF Inv
<1>2. Inv /\ [Next]_vars => Inv'
  <2> SUFFICES ASSUME Inv, [Next]_vars PROVE Inv'
    OBVIOUS
  <2>1. CASE Next
    BY <2>1, NextIsStep, StepKeepsInv
  <2>2. CASE UNCHANGED vars
    BY <2>2 DEF vars, Inv, ReceiptTrue, FailedClosesGate, Live
  <2> QED BY <2>1, <2>2
<1> QED BY <1>1, <1>2, PTL DEF Spec

\* What the engine shows and what it acknowledges is so: a connected
\* instrument shown OFF is OFF, after "Output off verified." every output is,
\* after "Stop acknowledged." both sources are, on every bench and through any
\* mixture of failed transactions, cleanups and reconnections.
THEOREM ReceiptsTrue == Spec => []ReceiptTrue
<1>1. Inv => ReceiptTrue
  BY DEF Inv
<1> QED BY <1>1, InvHolds, PTL

\* However a command fails (serve's error path), the gate is off afterwards,
\* or its OFF was tried and not verified.
THEOREM FailureClosesTheGate == Spec => []FailedClosesGate
<1>1. Inv => FailedClosesGate
  BY DEF Inv
<1> QED BY <1>1, InvHolds, PTL

\* disconnect_role, DisconnectAll and a lapsed lease let an instrument go only
\* with its output off; only the lapse may leave one on, and it reports it.
THEOREM DetachedOnlyOff == Spec => DetachedOff
<1> DEFINE A == \A r \in Outputs :
                  Live(state, r) /\ ~Connected(state', r) =>
                      ~state'.phys[r] \/ (receipt' = "lapsed" /\ state'.err)
<1>1. Inv /\ [Next]_vars => [A]_vars
  <2> SUFFICES ASSUME Inv, Next PROVE A
    OBVIOUS
  <2>1. Step
    BY NextIsStep
  <2>2. CASE receipt' = receipt /\ Safer(state, state')
    <3>1. Dropped(state, state')
      BY <2>2, SaferKeeps, KeptDropsNothing
    <3> QED BY <3>1 DEF Dropped
  <2>3. CASE Dropped(state, state')
    BY <2>3 DEF Dropped
  <2>4. CASE receipt' = "lapsed" /\ \A r \in Outputs : Live(state, r) => ~state'.phys[r] \/ state'.err
    BY <2>4
  <2> QED BY <2>1, <2>2, <2>3, <2>4 DEF Step
<1> QED BY <1>1, InvHolds, PTL DEF Spec, DetachedOff
=============================================================================
