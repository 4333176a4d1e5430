--------------------------- MODULE EngineControl ---------------------------
(***************************************************************************)
(* The measurement engine process of iv-desktop (engine.rs): the stdin     *)
(* reader thread, the engine thread that owns every instrument, the stdout *)
(* writer thread, and the Control block of atomics they share.             *)
(*                                                                         *)
(* Every atomic access of the code is a step of its own.  An output        *)
(* operation (Run, SetGateVoltage, SetSourceDc) is abstracted to what its  *)
(* code does between two `control.cancelled()` tests: one drive step.      *)
(* Which output roles may be energised is `live`; `fault` records an OFF   *)
(* that the instrument did not confirm (published as Unknown, with error). *)
(*                                                                         *)
(* `Control::cancelled` loads stop, pending_safety and closed one after    *)
(* the other.  Only the engine thread lowers them, so a call that returns  *)
(* false agrees with one atomic look at the moment of its first load.      *)
(***************************************************************************)
EXTENDS Naturals, Sequences, FiniteSets

CONSTANTS
    Requests,     \* the commands that may arrive on stdin
    NoJob,        \* the tag of a command sent without a GUI-job envelope
    Nil,          \* an empty rejected slot, an idle thread's command
    QueueCap,     \* capacity of the command channel (8 in the code)
    History,      \* completions a snapshot keeps (4 in the code)
    MaxRequests   \* bound: lines read from stdin

Sources == {"source", "source2"}
Roles == Sources \cup {"gate"}
OutputKinds == {"Run", "SetGateVoltage", "SetSourceDc", "SetSource2Dc"}
Slots == {"gate", "source_dc", "run"}
SafetyKinds == {"Stop", "GateOutputOff", "SourceDcOff", "Source2DcOff", "OutputOff"}
OtherKinds  == {"Connect", "Disconnect", "Discover"}
Kinds == OutputKinds \cup SafetyKinds \cup OtherKinds

\* A parsed line: its kind, and the job tag of its envelope.  Only normal
\* commands may carry a tag (`is_gui_job_command`).
Request == [kind : Kinds, tagged : BOOLEAN]

ASSUME RequestsAssumption ==
    /\ Requests \subseteq Request
    /\ \A r \in Requests : r.kind \in SafetyKinds => ~r.tagged
ASSUME QueueCapAssumption == QueueCap \in Nat \ {0}
ASSUME HistoryAssumption == History \in Nat \ {0}
ASSUME MaxRequestsAssumption == MaxRequests \in Nat
ASSUME NilAssumption == NoJob \notin Nat /\ Nil \notin Nat /\ Nil # NoJob

\* A tag is the number of the line that carried it, so no two jobs share one.
Jobs == 1..MaxRequests
Tags == Jobs \cup {NoJob}
Command == [kind : Kinds, job : Tags]

VARIABLES
    stop, off, pending, running, closed, lapsed,  \* Control's atomics; heartbeat older than 2 s
    rejected,                                     \* Control's three rejected-request slots
    queue,                                        \* the bounded command channel
    rpc, req,                                     \* reader thread
    epc, cmd, failed, taken,                      \* engine thread
    wpc,                                          \* writer thread
    connected, live, fault, gui_jobs,             \* engine-owned state
    sent, late, completed                         \* bookkeeping: lines read, drives since the
                                                  \* latch was raised, completions in order

control == <<stop, off, pending, running, closed, lapsed, rejected>>
reader  == <<rpc, req, sent>>
engine  == <<epc, cmd, failed, taken>>
outputs == <<connected, live, fault, late>>
results == <<gui_jobs, completed>>
vars == <<control, queue, reader, engine, wpc, outputs, results>>

Idle == [kind |-> "Discover", job |-> NoJob]
NoneRejected == [s \in Slots |-> Nil]

-----------------------------------------------------------------------------
\* `output_operation`: the commands that reserve the outputs.
OutputOperation(c) == c.kind \in OutputKinds

\* `safety_bit`: the latch bits a command raises and, once processed, clears.
SafetyBits(c) == {c.kind} \cap SafetyKinds

\* The slot a rejected output request is recorded in.
Slot(c) == CASE c.kind = "Run" -> "run"
             [] c.kind \in {"SetSourceDc", "SetSource2Dc"} -> "source_dc"
             [] OTHER -> "gate"

\* Mutant: only OFF requests cancel, a Stop does not.
CancelledByOffOnly == off \/ closed \/ lapsed

\* `Control::cancelled`.
Cancelled == stop \/ pending # {} \/ closed \/ lapsed

\* The roles each operation may energise; a balanced Run drives both sources.
Drives(c) == CASE c.kind = "SetGateVoltage" -> {"gate"}
               [] c.kind = "SetSourceDc" -> {"source"}
               [] c.kind = "SetSource2Dc" -> {"source2"}
               [] c.kind = "Run" -> Sources
               [] OTHER -> {}

\* The roles an OFF, Stop or Disconnect command turns off.
Cuts(c) == CASE c.kind = "GateOutputOff" -> {"gate"}
             [] c.kind = "SourceDcOff" -> {"source"}
             [] c.kind = "Source2DcOff" -> {"source2"}
             [] c.kind = "Stop" -> Sources
             [] c.kind \in {"OutputOff", "Disconnect"} -> Roles
             [] OTHER -> {}

\* Forcing a set of roles OFF: each is verified, or left to the operator as a
\* fault.
TurnOff(roles) ==
    \E unverified \in SUBSET (roles \cap live) :
        /\ live' = live \ (roles \ unverified)
        /\ fault' = (fault \/ unverified # {})

Init ==
    /\ stop = FALSE /\ off = FALSE /\ pending = {} /\ running = FALSE
    /\ closed = FALSE /\ lapsed = FALSE
    /\ rejected = NoneRejected
    /\ queue = <<>>
    /\ rpc = "read" /\ req = Idle
    /\ epc = "loop" /\ cmd = Idle /\ failed = FALSE /\ taken = NoneRejected
    /\ wpc = "run"
    /\ connected = TRUE /\ live = {} /\ fault = FALSE
    /\ gui_jobs = <<>>
    /\ sent = 0 /\ late = 0 /\ completed = <<>>

-----------------------------------------------------------------------------
(* The reader thread. *)

ReaderGoto(pc) == rpc' = pc /\ UNCHANGED <<req, sent>>

\* A line is read, parsed, unwrapped; any line refreshes the heartbeat.
ReadCommand ==
    /\ rpc = "read" /\ sent < MaxRequests
    /\ \E r \in Requests :
        /\ sent' = sent + 1
        /\ req' = [kind |-> r.kind, job |-> IF r.tagged THEN sent + 1 ELSE NoJob]
        /\ rpc' = CASE r.kind \in SafetyKinds -> "latch"
                    [] r.kind \in OutputKinds -> "admit"
                    [] OTHER -> "send"
    /\ lapsed' = FALSE
    /\ UNCHANGED <<stop, off, pending, running, closed, rejected, queue, engine, wpc,
                   outputs, results>>

\* A Heartbeat line only refreshes the lease.
ReadHeartbeat ==
    /\ rpc = "read" /\ lapsed
    /\ lapsed' = FALSE
    /\ UNCHANGED <<stop, off, pending, running, closed, rejected, queue, reader, engine,
                   wpc, outputs, results>>

\* Shutdown, end of file, an oversize line, a line that is not a Command.
ReadEnd ==
    /\ rpc = "read"
    /\ ReaderGoto("exit")
    /\ UNCHANGED <<control, queue, engine, wpc, outputs, results>>

\* Safety commands: raise the latch before anything else.
ReaderLatch ==
    /\ rpc = "latch"
    /\ pending' = pending \cup SafetyBits(req)
    /\ ReaderGoto(IF req.kind = "Stop" THEN "stop" ELSE "off")
    /\ late' = IF pending = {} THEN 0 ELSE late
    /\ UNCHANGED <<stop, off, running, closed, lapsed, rejected, queue, engine, wpc,
                   connected, live, fault, results>>

ReaderOff ==
    /\ rpc = "off"
    /\ off' = TRUE
    /\ ReaderGoto("stop")
    /\ UNCHANGED <<stop, pending, running, closed, lapsed, rejected, queue, engine, wpc,
                   outputs, results>>

ReaderStop ==
    /\ rpc = "stop"
    /\ stop' = TRUE
    /\ ReaderGoto("send")
    /\ UNCHANGED <<off, pending, running, closed, lapsed, rejected, queue, engine, wpc,
                   outputs, results>>

\* Output commands: two loads, then either a rejection or a reservation.
ReaderLoadRunning ==
    /\ rpc = "admit"
    /\ ReaderGoto(IF running THEN "reject" ELSE "admit_safety")
    /\ UNCHANGED <<control, queue, engine, wpc, outputs, results>>

ReaderLoadPending ==
    /\ rpc = "admit_safety"
    /\ ReaderGoto(IF pending # {} THEN "reject" ELSE "reserve")
    /\ UNCHANGED <<control, queue, engine, wpc, outputs, results>>

\* The slot holds one request of each kind; a second one ends the reader.
ReaderReject ==
    /\ rpc = "reject"
    /\ IF rejected[Slot(req)] = Nil
         THEN /\ rejected' = [rejected EXCEPT ![Slot(req)] = req.job]
              /\ ReaderGoto("read")
         ELSE /\ UNCHANGED rejected
              /\ ReaderGoto("exit")
    /\ UNCHANGED <<stop, off, pending, running, closed, lapsed, queue, engine, wpc,
                   outputs, results>>

ReaderReserve ==
    /\ rpc = "reserve"
    /\ running' = TRUE
    /\ ReaderGoto("send")
    /\ UNCHANGED <<stop, off, pending, closed, lapsed, rejected, queue, engine, wpc,
                   outputs, results>>

\* try_send: the channel is bounded and never blocks the reader.
ReaderSend ==
    /\ rpc = "send"
    /\ IF Len(queue) < QueueCap /\ epc # "done"
         THEN /\ queue' = Append(queue, req)
              /\ ReaderGoto("read")
         ELSE /\ UNCHANGED queue
              /\ ReaderGoto(IF OutputOperation(req) THEN "unreserve" ELSE "overflow")
    /\ UNCHANGED <<control, engine, wpc, outputs, results>>

ReaderUnreserve ==
    /\ rpc = "unreserve"
    /\ running' = FALSE
    /\ ReaderGoto("overflow")
    /\ UNCHANGED <<stop, off, pending, closed, lapsed, rejected, queue, engine, wpc,
                   outputs, results>>

\* Mutant: an OFF that does not fit in the channel is dropped.
OverflowDrops ==
    /\ rpc = "overflow"
    /\ closed' = (closed \/ req.kind \notin SafetyKinds)
    /\ ReaderGoto("read")
    /\ UNCHANGED <<stop, off, pending, running, lapsed, rejected, queue, engine, wpc,
                   outputs, results>>

\* A command that cannot be queued closes the engine.  OFF commands keep
\* reading; every other kind ends the reader.
ReaderOverflow ==
    /\ rpc = "overflow"
    /\ closed' = TRUE
    /\ ReaderGoto(IF req.kind \in SafetyKinds \ {"Stop"} THEN "read" ELSE "exit")
    /\ UNCHANGED <<stop, off, pending, running, lapsed, rejected, queue, engine, wpc,
                   outputs, results>>

ReaderExit ==
    /\ \/ /\ rpc = "exit" /\ closed' = TRUE /\ ReaderGoto("exit_stop") /\ UNCHANGED stop
       \/ /\ rpc = "exit_stop" /\ stop' = TRUE /\ ReaderGoto("done") /\ UNCHANGED closed
    /\ UNCHANGED <<off, pending, running, lapsed, rejected, queue, engine, wpc, outputs,
                   results>>

Reader == \/ ReaderLatch \/ ReaderOff \/ ReaderStop
          \/ ReaderLoadRunning \/ ReaderLoadPending \/ ReaderReject \/ ReaderReserve
          \/ ReaderSend \/ ReaderUnreserve \/ ReaderOverflow \/ ReaderExit

-----------------------------------------------------------------------------
(* The writer thread, and the lease. *)

\* A lost stdout consumer cancels acquisition.
WriterLost ==
    /\ \/ /\ wpc = "run" /\ closed' = TRUE /\ wpc' = "stop" /\ UNCHANGED stop
       \/ /\ wpc = "stop" /\ stop' = TRUE /\ wpc' = "lost" /\ UNCHANGED closed
    /\ UNCHANGED <<off, pending, running, lapsed, rejected, queue, reader, engine, outputs,
                   results>>

\* No line for 2 s.
HeartbeatLapse ==
    /\ ~lapsed
    /\ lapsed' = TRUE
    /\ UNCHANGED <<stop, off, pending, running, closed, rejected, queue, reader, engine,
                   wpc, outputs, results>>

-----------------------------------------------------------------------------
(* The engine thread. *)

EngineGoto(pc) == epc' = pc /\ UNCHANGED <<cmd, failed, taken>>

\* Mutant: the loop never looks at the lease.
LoopIgnoresLease ==
    /\ epc = "loop"
    /\ EngineGoto(IF closed THEN "exit" ELSE "recv")
    /\ UNCHANGED <<control, queue, reader, wpc, outputs, results>>

\* Mutant: the loop does not end when the control block is closed.
LoopIgnoresClosed ==
    /\ epc = "loop"
    /\ EngineGoto("recv")
    /\ UNCHANGED <<control, queue, reader, wpc, outputs, results>>

\* Top of the loop: leave when closed, fail safe when the lease lapsed.
EngineLoop ==
    /\ epc = "loop"
    /\ IF closed
         THEN EngineGoto("exit") /\ UNCHANGED <<connected, live, fault>>
         ELSE /\ EngineGoto("recv")
              /\ IF connected /\ lapsed
                   THEN TurnOff(Roles) /\ connected' = FALSE
                   ELSE UNCHANGED <<connected, live, fault>>
    /\ UNCHANGED <<control, queue, reader, wpc, late, results>>

\* recv_timeout: the next command.
EngineRecv ==
    /\ epc = "recv" /\ queue # <<>>
    /\ cmd' = Head(queue)
    /\ queue' = Tail(queue)
    /\ failed' = FALSE
    /\ epc' = IF OutputOperation(Head(queue)) THEN "begin" ELSE "perform"
    /\ UNCHANGED <<control, reader, wpc, taken, outputs, results>>

\* recv_timeout elapsed: the idle checks; a failing one forces outputs off.
EngineIdle ==
    /\ epc = "recv" /\ queue = <<>>
    /\ EngineGoto("loop")
    /\ \/ UNCHANGED <<live, fault>>
       \/ /\ connected /\ live # {}
          /\ \E roles \in {Sources, Roles} : TurnOff(roles)
    /\ UNCHANGED <<control, queue, reader, wpc, connected, late, results>>

\* Connect, Disconnect, Discover, Stop and the OFF commands run to completion.
\* A role OFF fails when it is not verified; Stop and OutputOff report that in
\* the published error instead.  A Stop with an error also shuts the gate.
EnginePerform ==
    /\ epc = "perform"
    /\ \E extra \in (IF cmd.kind = "Stop" THEN {{}, {"gate"}} ELSE {{}}) :
         IF connected THEN TurnOff(Cuts(cmd) \cup extra) ELSE UNCHANGED <<live, fault>>
    /\ failed' \in CASE cmd.kind \in {"GateOutputOff", "SourceDcOff", "Source2DcOff"} ->
                          {~connected \/ live' \cap Cuts(cmd) # {}}
                     [] cmd.kind = "OutputOff" -> {FALSE}
                     [] cmd.kind = "Disconnect" -> {connected /\ live' # {}, TRUE}
                     [] OTHER -> BOOLEAN
    /\ connected' = CASE cmd.kind = "Connect" /\ ~failed' -> TRUE
                      [] cmd.kind = "Disconnect" /\ ~failed' -> FALSE
                      [] OTHER -> connected
    /\ epc' = "settle"
    /\ UNCHANGED <<control, queue, reader, wpc, cmd, taken, late, results>>

\* An output operation is refused untouched (not connected, an unresolved
\* error, a mismatched model) or begins; a Run first takes both sources OFF.
EngineBegin ==
    /\ epc = "begin"
    /\ \/ /\ epc' = "settle" /\ failed' = TRUE
          /\ UNCHANGED <<live, fault>>
       \/ /\ connected
          /\ IF cmd.kind = "Run" THEN TurnOff(Sources) ELSE UNCHANGED <<live, fault>>
          /\ failed' = (cmd.kind = "Run" /\ live' \cap Sources # {})
          /\ epc' = IF failed' THEN "settle" ELSE "test"
    /\ UNCHANGED <<control, queue, reader, wpc, cmd, taken, connected, late, results>>

\* Every write of an output operation follows a test of `cancelled`.  A
\* cancelled Run stops normally; a cancelled DC change is an error.
EngineTest ==
    /\ epc = "test"
    /\ IF Cancelled
         THEN epc' = "unwind" /\ failed' = (cmd.kind # "Run")
         ELSE epc' = "drive" /\ failed' = failed
    /\ UNCHANGED <<control, queue, reader, wpc, cmd, taken, outputs, results>>

\* One write of the operation: output ON, or a level of the ramp or the sweep.
EngineDrive ==
    /\ epc = "drive"
    /\ \E r \in Drives(cmd) : live' = live \cup {r}
    /\ late' = IF pending # {} THEN late + 1 ELSE late
    /\ EngineGoto("test")
    /\ UNCHANGED <<control, queue, reader, wpc, connected, fault, results>>

\* The operation ends: a Run always cleans up, a DC level that is on is held,
\* and any failure unwinds.
EngineFinish ==
    /\ epc = "drive"
    /\ \/ /\ IF cmd.kind = "Run" THEN epc' = "unwind" ELSE epc' = "settle"
          /\ cmd.kind # "Run" => Drives(cmd) \subseteq live
          /\ failed' = FALSE
       \/ /\ epc' = "unwind" /\ failed' = TRUE
    /\ UNCHANGED <<control, queue, reader, wpc, cmd, taken, outputs, results>>

\* Verified OFF of what the operation drives.
EngineUnwind ==
    /\ epc = "unwind"
    /\ TurnOff(Drives(cmd))
    /\ failed' = (failed \/ live' \cap Drives(cmd) # {})
    /\ epc' = "settle"
    /\ UNCHANGED <<control, queue, reader, wpc, cmd, taken, connected, late, results>>

\* The error path of the loop: a failed command also takes the other outputs
\* down, the ordinary sources only when a second source is connected.
EngineSettle ==
    /\ epc = "settle"
    /\ IF failed /\ connected
         THEN \E roles \in {{"gate"}, Roles} : TurnOff(roles)
         ELSE UNCHANGED <<live, fault>>
    /\ EngineGoto("ack")
    /\ UNCHANGED <<control, queue, reader, wpc, connected, late, results>>

\* Mutant: the acknowledgement clears the bit and forgets the stop flag.
AckKeepsStop ==
    /\ epc = "ack"
    /\ pending' = pending \ SafetyBits(cmd)
    /\ EngineGoto("release")
    /\ UNCHANGED <<stop, off, running, closed, lapsed, rejected, queue, reader, wpc,
                   outputs, results>>

\* acknowledge_safety: fetch_and, a second load, then two stores.
EngineAck ==
    /\ epc = "ack"
    /\ pending' = pending \ SafetyBits(cmd)
    /\ EngineGoto(IF SafetyBits(cmd) = {} THEN "release" ELSE "ack_load")
    /\ UNCHANGED <<stop, off, running, closed, lapsed, rejected, queue, reader, wpc,
                   outputs, results>>

EngineAckLoad ==
    /\ epc = "ack_load"
    /\ EngineGoto(IF pending = {} THEN "ack_stop" ELSE "release")
    /\ UNCHANGED <<control, queue, reader, wpc, outputs, results>>

EngineAckStop ==
    /\ \/ epc = "ack_stop" /\ stop' = FALSE /\ EngineGoto("ack_off") /\ UNCHANGED off
       \/ epc = "ack_off" /\ off' = FALSE /\ EngineGoto("release") /\ UNCHANGED stop
    /\ UNCHANGED <<pending, running, closed, lapsed, rejected, queue, reader, wpc, outputs,
                   results>>

\* Mutant: every command releases the reservation, not only its owner.
ReleaseAlways ==
    /\ epc = "release"
    /\ running' = FALSE
    /\ EngineGoto("take_gate")
    /\ UNCHANGED <<stop, off, pending, closed, lapsed, rejected, queue, reader, wpc,
                   outputs, results>>

\* The reservation of an output operation ends with it.
EngineRelease ==
    /\ epc = "release"
    /\ running' = IF OutputOperation(cmd) THEN FALSE ELSE running
    /\ EngineGoto("take_gate")
    /\ UNCHANGED <<stop, off, pending, closed, lapsed, rejected, queue, reader, wpc,
                   outputs, results>>

\* Mutant: the slot is read and not emptied.
TakeKeepsSlot(slot, pc, next) ==
    /\ epc = pc
    /\ taken' = [taken EXCEPT ![slot] = rejected[slot]]
    /\ epc' = next
    /\ UNCHANGED <<control, queue, reader, cmd, failed, wpc, outputs, results>>

\* The three slots are taken one after the other.
EngineTake(slot, pc, next) ==
    /\ epc = pc
    /\ taken' = [taken EXCEPT ![slot] = rejected[slot]]
    /\ rejected' = [rejected EXCEPT ![slot] = Nil]
    /\ epc' = next
    /\ UNCHANGED <<stop, off, pending, running, closed, lapsed, queue, reader, cmd, failed,
                   wpc, outputs, results>>

EngineDrain ==
    \/ EngineTake("gate", "take_gate", "take_source_dc")
    \/ EngineTake("source_dc", "take_source_dc", "take_run")
    \/ EngineTake("run", "take_run", "complete")

\* complete_gui_job, for a command that carries a tag: the snapshot of this
\* moment is pushed, and the oldest completion makes room for it.
CompleteGuiJob(jobs, j, snapshotFailed) ==
    IF j \in Jobs
      THEN Append(IF Len(jobs) = History THEN Tail(jobs) ELSE jobs,
                  [job |-> j, failed |-> snapshotFailed])
      ELSE jobs
\* The same completion in the bookkeeping, which forgets none.
Record(jobs, j, snapshotFailed) ==
    IF j \in Jobs THEN Append(jobs, [job |-> j, failed |-> snapshotFailed]) ELSE jobs

\* Mutant: a failed command returns before its job is completed.
CompleteOnlySuccess ==
    /\ epc = "complete"
    /\ gui_jobs' = IF failed THEN gui_jobs ELSE CompleteGuiJob(gui_jobs, cmd.job, FALSE)
    /\ completed' = IF failed THEN completed ELSE Record(completed, cmd.job, FALSE)
    /\ epc' = "loop" /\ cmd' = Idle /\ failed' = FALSE /\ taken' = NoneRejected
    /\ UNCHANGED <<control, queue, reader, wpc, outputs>>

\* complete_gui_job for the command's own tag, then for the rejected ones, each
\* with the snapshot of this moment: a rejection has set its phase to Failed.
EngineComplete ==
    /\ epc = "complete"
    /\ LET snapshotFailed == failed \/ taken # NoneRejected
           push(jobs, j) == CompleteGuiJob(jobs, j, snapshotFailed)
           record(jobs, j) == Record(jobs, j, snapshotFailed)
       IN /\ gui_jobs' = push(push(push(push(gui_jobs, cmd.job), taken["gate"]),
                                   taken["source_dc"]), taken["run"])
          /\ completed' = record(record(record(record(completed, cmd.job), taken["gate"]),
                                        taken["source_dc"]), taken["run"])
    /\ epc' = "loop" /\ cmd' = Idle /\ failed' = FALSE /\ taken' = NoneRejected
    /\ UNCHANGED <<control, queue, reader, wpc, outputs>>

\* Leaving the loop: verified OFF of everything, then all connections dropped.
EngineExit ==
    /\ epc = "exit"
    /\ IF connected THEN TurnOff(Roles) ELSE UNCHANGED <<live, fault>>
    /\ connected' = FALSE
    /\ EngineGoto("done")
    /\ UNCHANGED <<control, queue, reader, wpc, late, results>>

Engine == \/ EngineLoop \/ EngineRecv \/ EngineIdle \/ EnginePerform
          \/ EngineBegin \/ EngineTest \/ EngineDrive \/ EngineFinish \/ EngineUnwind \/ EngineSettle
          \/ EngineAck \/ EngineAckLoad \/ EngineAckStop \/ EngineRelease \/ EngineDrain
          \/ EngineComplete \/ EngineExit

\* Every thread has ended; the process is gone.
Terminated ==
    /\ rpc = "done" /\ epc = "done"
    /\ UNCHANGED vars

Next == \/ ReadCommand \/ ReadHeartbeat \/ ReadEnd \/ Reader
        \/ WriterLost \/ HeartbeatLapse
        \/ Engine
        \/ Terminated

Spec == Init /\ [][Next]_vars

\* The operating system schedules both threads.  An output operation makes a
\* finite number of writes (its ramp and its sweep are finite), so a test that
\* keeps passing is followed by the end of the operation.  Nothing is assumed
\* of the process that feeds stdin, of the heartbeat or of the writer thread.
Fairness == WF_vars(Reader) /\ WF_vars(Engine) /\ SF_vars(EngineFinish)

FairSpec == Spec /\ Fairness

-----------------------------------------------------------------------------
(* Properties. *)

\* The engine is between receiving a command and clearing its reservation.
Owning == epc \in {"perform", "begin", "test", "drive", "unwind", "settle", "ack", "ack_load",
                   "ack_stop", "ack_off", "release"}

\* Output operations somewhere between admission and release: positions of the
\* queue, 0 for the engine's own command, -1 for the one the reader holds.
QueuedOutputs == {i \in 1..Len(queue) : OutputOperation(queue[i])}
EngineOwns == Owning /\ OutputOperation(cmd)
ReaderHolds == rpc \in {"send", "unreserve"} /\ OutputOperation(req)

\* Output ownership is exclusive: of the operations that may energise an
\* output, at most one is admitted (about to be queued, queued or executing),
\* and while there is one `running` is set.  This is what "Reserve ownership at
\* admission so no second ON request can slip into a ramp/configuration gap"
\* needs although the reservation is two loads and a store, not a
\* compare-and-swap.
OneOutputOwner ==
    /\ \A i, j \in QueuedOutputs : i = j
    /\ EngineOwns => QueuedOutputs = {}
    /\ ReaderHolds => QueuedOutputs = {} /\ ~EngineOwns
    /\ QueuedOutputs # {} \/ EngineOwns \/ ReaderHolds => running

\* A safety command of kind k is on its way to the engine.
InFlight(k) ==
    \/ rpc \in {"off", "stop", "send", "overflow"} /\ req.kind = k
    \/ \E i \in 1..Len(queue) : queue[i].kind = k
    \/ epc \in {"perform", "settle", "ack"} /\ cmd.kind = k

\* No latch without its command: a raised safety bit always has a matching
\* command that will clear it, or the engine is closing.  Otherwise one lost
\* command would cancel every later output operation.
LatchBacked == closed \/ \A k \in pending : InFlight(k)
\* No stuck cancellation: the `stop` flag is only up while a safety command is
\* still to be acknowledged, or the engine is closing.  acknowledge_safety
\* clears it after a second, separate load of pending_safety.
StopBacked ==
    stop => \/ closed \/ rpc = "exit_stop" \/ wpc = "stop"
            \/ \E k \in SafetyKinds :
                  \/ InFlight(k)
                  \/ epc \in {"ack_load", "ack_stop"} /\ cmd.kind = k
\* Both: pending_safety and stop, set and cleared by two threads one after the
\* other, never outlive the command that is to clear them.
FlagsBacked == LatchBacked /\ StopBacked

\* Once a safety request is latched, an output operation makes at most the one
\* write it had already been cleared for, however long its ramp or sweep is.
OneWriteAfterLatch == late <= 1

\* A rejected request is discarded, never replayed: its tag is in no other
\* place, and it is completed at most once.
RejectedJobs == {rejected[s] : s \in Slots} \cup {taken[s] : s \in Slots}
NeverReplayed ==
    /\ \A j \in RejectedJobs \cap Jobs :
         /\ \A i \in 1..Len(queue) : queue[i].job # j
         /\ cmd.job # j
    /\ \A i, k \in 1..Len(completed) : completed[i].job = completed[k].job => i = k

\* Every latched safety request is processed, or the engine has ended.
SafetyProcessed == \A k \in SafetyKinds : k \in pending ~> k \notin pending \/ epc = "done"

\* A lapsed lease cuts the outputs: while no line arrives, an energised output is
\* forced OFF (or reported as unverified), also when no operation is running.
LapseCutsOff == (lapsed /\ live # {}) ~> (~lapsed \/ live = {} \/ fault)

\* A closing engine always ends, and then no output is energised unless an OFF
\* could not be verified, which it has reported.
ClosedEnds == closed ~> epc = "done" /\ (live = {} \/ fault)

\* A tagged command that was queued is eventually completed, or the engine ends.
IsCompleted(j) == \E i \in 1..Len(completed) : completed[i].job = j
QueuedJob(j) == \E i \in 1..Len(queue) : queue[i].job = j
QueuedCompletes == \A j \in Jobs : QueuedJob(j) ~> IsCompleted(j) \/ epc = "done"

=============================================================================
