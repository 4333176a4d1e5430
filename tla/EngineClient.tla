--------------------------- MODULE EngineClient ---------------------------
(***************************************************************************)
(* The GUI process's end of the engine pipe (client.rs): the submission of *)
(* commands, the writer thread with its bounded queue and its mask of      *)
(* safety requests, and the reader thread that keeps the last snapshot.    *)
(*                                                                         *)
(* The engine at the other end is what EngineControl promises of it: its   *)
(* reader latches safety lines and refuses energising ones meanwhile, its  *)
(* engine thread executes one command after the other and publishes.  A    *)
(* snapshot is reduced to what job control looks at, and `on` to the       *)
(* connected output roles that are not verified OFF.  Role OFF commands    *)
(* (gate, source DC) go the same way and are one kind, GateOff.            *)
(* A step of the writer ends where the GUI thread could tell the next      *)
(* access from this one.                                                   *)
(***************************************************************************)
EXTENDS Naturals, Sequences, FiniteSets

CONSTANTS
    QueueCap,   \* capacity of the command channel (16 in the code)
    Nil         \* no command, no tag

ASSUME QueueCapAssumption == QueueCap \in Nat \ {0}

SafetyKinds == {"Shutdown", "OutputOff", "GateOff", "Stop"}
Energising == {"Run", "SetGate"}   \* `needs_clear_safety`

VARIABLES
    mask, queue, alive,      \* Client: safety flags, command channel, writer_alive
    wpc, line,               \* writer thread: position, the command it holds
    pipe,                    \* lines written and not yet read by the engine
    shared, fresh,           \* Client.state; it is newer than the GUI's copy
    latched, running, equeue, cur, rejects,   \* engine: latch, ownership, commands
    eng, feed, dead,         \* engine: its snapshot, the last one published, exited
    serial, before, exposed  \* bookkeeping of SafetyLast

client == <<mask, queue, alive, serial, before>>
writer == <<wpc, line>>
engine == <<latched, running, equeue, cur, rejects, eng, dead>>
evars == <<client, writer, pipe, shared, fresh, engine, feed, exposed>>

Command(kind, tag, n) == [kind |-> kind, tag |-> tag, n |-> n]

InitSnapshot == [rev |-> 0, phase |-> "ready", run |-> 0, on |-> {}, err |-> FALSE, done |-> <<>>]

\* `Client::start`, with an engine that has connected its roles.
ClientInit ==
    /\ mask = {} /\ queue = <<>> /\ alive = TRUE
    /\ wpc = "look" /\ line = Nil /\ pipe = <<>>
    /\ shared = InitSnapshot /\ fresh = FALSE
    /\ latched = {} /\ running = FALSE /\ equeue = <<>> /\ cur = Nil /\ rejects = <<>>
    /\ eng = InitSnapshot /\ feed = InitSnapshot /\ dead = FALSE
    /\ serial = 0 /\ before = [k \in SafetyKinds |-> 0] /\ exposed = [k \in SafetyKinds |-> {}]

-----------------------------------------------------------------------------
(* Submission, on the GUI thread. *)

\* `submit_command`: when it is not refused.  Only this thread raises flags,
\* so the load of the mask and the push agree with one look.
Accepts(kind) ==
    IF kind \in SafetyKinds
      THEN alive
      ELSE /\ kind \in Energising => mask = {}
           /\ Len(queue) < QueueCap
           /\ wpc # "ended"

\* `submit_command`, accepted: a flag outside the queue, or a queued command.
Submit(kind, tag) ==
    /\ IF kind \in SafetyKinds
         THEN /\ mask' = mask \cup {kind}
              /\ before' = [before EXCEPT ![kind] = serial]
              /\ UNCHANGED <<queue, serial>>
         ELSE /\ serial' = serial + (IF kind \in Energising THEN 1 ELSE 0)
              /\ queue' = Append(queue, Command(kind, tag, serial'))
              /\ UNCHANGED <<mask, before>>
    /\ UNCHANGED alive

\* `IvApp::send`: submits or reports the refusal.
Send(kind) == IF Accepts(kind) THEN Submit(kind, Nil) ELSE UNCHANGED client

-----------------------------------------------------------------------------
(* The writer thread. *)

WriterGoto(pc, l) == wpc' = pc /\ line' = l

\* Mutant: a safety request does not discard what is queued.
LookKeepsQueue ==
    /\ wpc = "look"
    /\ \/ /\ mask # {}
          /\ WriterGoto("drained", Nil) /\ UNCHANGED queue
       \/ /\ mask = {} /\ queue # <<>>
          /\ WriterGoto("received", Head(queue)) /\ queue' = Tail(queue)
    /\ UNCHANGED <<mask, alive, pipe, shared, fresh, engine, feed, serial, before, exposed>>

\* Top of the loop: load the mask.  When it is not empty the deferred and the
\* queued commands are dropped; otherwise recv_timeout takes a command.
WriterLook ==
    /\ wpc = "look"
    /\ \/ /\ mask # {}
          /\ WriterGoto("drained", Nil) /\ queue' = <<>>
       \/ /\ mask = {} /\ queue # <<>>
          /\ WriterGoto("received", Head(queue)) /\ queue' = Tail(queue)
    /\ UNCHANGED <<mask, alive, pipe, shared, fresh, engine, feed, serial, before, exposed>>

\* `write_command`; a broken pipe ends the thread.
Write(c, next) ==
    IF dead
      THEN /\ alive' = FALSE
           /\ WriterGoto("ended", Nil)
           /\ UNCHANGED <<pipe, exposed>>
      ELSE /\ pipe' = Append(pipe, c)
           /\ exposed' = [k \in SafetyKinds |->
                            CASE k = c.kind -> {}
                              [] c.kind \in Energising -> exposed[k] \cup {c.n}
                              [] OTHER -> exposed[k]]
           /\ WriterGoto(next, IF next = "clear" THEN c ELSE Nil)
           /\ UNCHANGED alive

\* A command was taken: look at the mask again.  When a safety request came
\* meanwhile it is deferred, to be dropped at the top of the loop.
WriterSend ==
    /\ wpc = "received"
    /\ IF mask = {}
         THEN Write(line, "look")
         ELSE WriterGoto("look", Nil) /\ UNCHANGED <<alive, pipe, exposed>>
    /\ UNCHANGED <<mask, queue, shared, fresh, engine, feed, serial, before>>

\* `safety_command`: OFF of everything before OFF of a role before Stop.
SafetyCommand(flags) ==
    CASE "Shutdown" \in flags -> "Shutdown"
      [] "OutputOff" \in flags -> "OutputOff"
      [] "GateOff" \in flags -> "GateOff"
      [] OTHER -> "Stop"

\* The second load selects what is written.
WriterSafety ==
    /\ wpc = "drained"
    /\ Write(Command(SafetyCommand(mask), Nil, 0), "clear")
    /\ UNCHANGED <<mask, queue, shared, fresh, engine, feed, serial, before>>

\* Mutant: the queue is drained after the line was written, with the flag.
ClearDrains ==
    /\ wpc = "clear"
    /\ mask' = mask \ {line.kind} /\ queue' = <<>>
    /\ IF line.kind = "Shutdown"
         THEN WriterGoto("ended", Nil) /\ alive' = FALSE
         ELSE WriterGoto("look", Nil) /\ UNCHANGED alive
    /\ UNCHANGED <<pipe, shared, fresh, engine, feed, serial, before, exposed>>

\* The flag is cleared only after its line was written; Shutdown is the last.
WriterClear ==
    /\ wpc = "clear"
    /\ mask' = mask \ {line.kind}
    /\ IF line.kind = "Shutdown"
         THEN WriterGoto("ended", Nil) /\ alive' = FALSE
         ELSE WriterGoto("look", Nil) /\ UNCHANGED alive
    /\ UNCHANGED <<queue, pipe, shared, fresh, engine, feed, serial, before, exposed>>

\* A heartbeat that cannot be written ends the thread too.
WriterHeartbeat ==
    /\ wpc = "look" /\ mask = {} /\ queue = <<>> /\ dead
    /\ alive' = FALSE
    /\ WriterGoto("ended", Nil)
    /\ UNCHANGED <<mask, queue, pipe, shared, fresh, engine, feed, serial, before, exposed>>

Writer == WriterLook \/ WriterSend \/ WriterSafety \/ WriterClear \/ WriterHeartbeat

-----------------------------------------------------------------------------
(* The reader thread. *)

\* A state line replaces the snapshot.
ReaderState ==
    /\ shared # feed
    /\ shared' = feed /\ fresh' = TRUE
    /\ UNCHANGED <<client, writer, pipe, engine, feed, exposed>>

\* End of the engine's output, a snapshot it still held lost: a live phase becomes Failed, every role counts
\* as disconnected, and the client is no longer alive.
ReaderEnd ==
    /\ dead /\ alive
    /\ shared' = [shared EXCEPT
         !.phase = IF @ \in {"ready", "stopped"} THEN @ ELSE "failed",
         !.err = @ \/ shared.phase \notin {"ready", "stopped"},
         !.on = {}]
    /\ feed' = shared'
    /\ fresh' = TRUE
    /\ alive' = FALSE
    /\ UNCHANGED <<mask, queue, writer, pipe, engine, serial, before, exposed>>

-----------------------------------------------------------------------------
(* The engine, as EngineControl describes it. *)

Cuts(kind) == CASE kind = "GateOff" -> {"gate"}
                [] kind = "Stop" -> {"source"}
                [] OTHER -> {"source", "gate"}

\* The reader latches, refuses or queues the next line; Shutdown ends it.
EngineRead ==
    /\ pipe # <<>> /\ ~dead
    /\ pipe' = Tail(pipe)
    /\ LET c == Head(pipe) IN
         IF c.kind \in Energising /\ (running \/ latched # {})
           THEN rejects' = Append(rejects, c.tag) /\ UNCHANGED <<latched, running, equeue>>
           ELSE /\ equeue' = Append(equeue, c)
                /\ latched' = latched \cup ({c.kind} \cap SafetyKinds)
                /\ running' = (running \/ c.kind \in Energising)
                /\ UNCHANGED rejects
    /\ UNCHANGED <<client, writer, shared, fresh, cur, eng, dead, feed, exposed>>

\* A command begins; connecting and running publish their phase at once.
EngineTake ==
    /\ cur = Nil /\ equeue # <<>> /\ ~dead
    /\ cur' = Head(equeue) /\ equeue' = Tail(equeue)
    /\ eng' = CASE cur'.kind = "Connect" -> [eng EXCEPT !.phase = "connecting", !.err = FALSE]
                [] cur'.kind = "Run" -> [eng EXCEPT !.phase = "running", !.err = FALSE,
                                                    !.run = @ + 1, !.on = @ \cup {"source"}]
                [] OTHER -> eng
    /\ feed' = eng'
    /\ UNCHANGED <<client, writer, pipe, shared, fresh, latched, running, rejects, dead, exposed>>

\* What a command leaves behind: phase, error, energised roles.
Outcomes(c) ==
    LET ok(phase, on) == [phase |-> phase, err |-> eng.err, on |-> on]
        failed(on) == [phase |-> "failed", err |-> TRUE, on |-> on]
    IN CASE c.kind = "Connect" -> {ok("ready", eng.on), failed(eng.on \ {"gate"})}
         [] c.kind = "Run" -> IF latched # {} THEN {ok("stopped", eng.on \ {"source"})}
                                ELSE {ok("ready", eng.on \ {"source"}), failed({})}
         [] c.kind = "SetGate" -> IF latched # {} THEN {failed(eng.on \ {"gate"})}
                                    ELSE {ok(eng.phase, eng.on \cup {"gate"}), failed(eng.on \ {"gate"})}
         [] c.kind = "Stop" -> {ok(IF eng.err THEN eng.phase ELSE "stopped", eng.on \ Cuts("Stop")),
                                failed(eng.on)}
         [] OTHER -> {ok(IF c.kind = "GateOff" THEN eng.phase ELSE "ready", eng.on \ Cuts(c.kind)),
                      failed(eng.on)}

\* The command ends: its latch is cleared, the outputs are free again, its
\* job and the refused ones are completed (the last four are kept), and the
\* snapshot is published.
EngineDone ==
    /\ cur # Nil /\ ~dead
    /\ \E o \in Outcomes(cur) :
         LET refused == rejects # <<>>
             phase == IF refused THEN "failed" ELSE o.phase
             err == o.err \/ refused
             ended == (IF cur.tag = Nil THEN <<>> ELSE <<cur.tag>>)
                        \o SelectSeq(rejects, LAMBDA t : t # Nil)
             all == eng.done \o [i \in DOMAIN ended |->
                                   [tag |-> ended[i], phase |-> phase, err |-> err]]
         IN eng' = [eng EXCEPT !.phase = phase, !.err = err, !.on = o.on,
                      !.rev = @ + (IF cur.kind \in SafetyKinds THEN 1 ELSE 0),
                      !.done = IF Len(all) > 4 THEN SubSeq(all, Len(all) - 3, Len(all)) ELSE all]
    /\ latched' = latched \ {cur.kind}
    /\ running' = (running /\ cur.kind \notin Energising)
    /\ rejects' = <<>> /\ cur' = Nil
    /\ dead' = (cur.kind = "Shutdown")
    /\ feed' = eng'
    /\ UNCHANGED <<client, writer, pipe, shared, fresh, equeue, exposed>>

\* The engine process is lost.
EngineCrash ==
    /\ ~dead
    /\ dead' = TRUE
    /\ UNCHANGED <<client, writer, pipe, shared, fresh, latched, running, equeue, cur, rejects,
                   eng, feed, exposed>>

Engine == EngineRead \/ EngineTake \/ EngineDone

-----------------------------------------------------------------------------
\* An accepted Stop or OFF is never lost and never overtaken: unless its flag
\* still waits to be written, no energising command that was submitted before
\* it has been written since its line.  The writer may swallow a repeated
\* request whose flag it is about to clear, but only when the line it has
\* already written covers everything submitted before the repetition.
SafetyLast ==
    \A k \in SafetyKinds \ mask : \A n \in exposed[k] : n > before[k]
=============================================================================
