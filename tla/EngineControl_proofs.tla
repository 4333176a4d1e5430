------------------------ MODULE EngineControl_proofs ------------------------
(* Theorems about EngineControl, for every queue capacity, history length,   *)
(* set of requests and number of lines.                                      *)
EXTENDS EngineControl, TLAPS

-----------------------------------------------------------------------------
(* Types *)

\* A queue element is a command, so is what the channel hands over.
LEMMA QueueFacts ==
    ASSUME NEW s \in Seq(Command)
    PROVE  /\ \A c \in Command : Append(s, c) \in Seq(Command)
                                 /\ Len(Append(s, c)) = Len(s) + 1
                                 /\ Append(s, c)[Len(s) + 1] = c
                                 /\ \A i \in 1..Len(s) : Append(s, c)[i] = s[i]
           /\ Len(s) \in Nat
           /\ \A i \in 1..Len(s) : s[i] \in Command
           /\ s # <<>> => /\ Len(s) > 0 /\ Head(s) = s[1] /\ Head(s) \in Command
                          /\ Tail(s) \in Seq(Command) /\ Len(Tail(s)) = Len(s) - 1
                          /\ \A i \in 1..Len(Tail(s)) : Tail(s)[i] = s[i + 1]
    OBVIOUS

\* The parts of the type invariant the ownership and latch arguments rest on:
\* the queue holds commands, the threads hold commands.
Typed ==
    /\ queue \in Seq(Command)
    /\ req \in Command /\ cmd \in Command
    /\ running \in BOOLEAN /\ pending \subseteq SafetyKinds
    /\ sent \in 0..MaxRequests

\* The channel, the commands the two threads hold and the flags of
\* `Control` keep their types whatever the peer sends.
THEOREM TypedInvariant == Spec => []Typed
<1>1. Init => Typed
  <2> SUFFICES ASSUME Init PROVE Typed
    OBVIOUS
  <2>1. Idle \in Command
    BY DEF Idle, Command, Tags, Kinds, OtherKinds
  <2>2. sent \in 0..MaxRequests
    BY MaxRequestsAssumption DEF Init
  <2>3. queue \in Seq(Command)
    BY DEF Init
  <2>4. running \in BOOLEAN /\ pending \subseteq SafetyKinds
    BY Zenon DEF Init
  <2> QED BY <2>1, <2>2, <2>3, <2>4 DEF Init, Typed
<1>2. Typed /\ [Next]_vars => Typed'
  <2> SUFFICES ASSUME Typed, [Next]_vars PROVE Typed'
    OBVIOUS
  <2> USE DEF Typed
  <2>1. CASE ReadCommand
    <3> PICK r \in Requests : /\ sent' = sent + 1
                              /\ req' = [kind |-> r.kind, job |-> IF r.tagged THEN sent + 1 ELSE NoJob]
      BY <2>1 DEF ReadCommand
    <3>1. sent' \in 0..MaxRequests
      BY <2>1, MaxRequestsAssumption DEF ReadCommand
    <3>2. req' \in Command
      BY <3>1, <2>1, RequestsAssumption, MaxRequestsAssumption
      DEF ReadCommand, Request, Command, Tags, Jobs
    <3> QED BY <3>1, <3>2, <2>1 DEF ReadCommand, engine
  <2>2. CASE ReadHeartbeat \/ ReadEnd
    BY <2>2 DEF ReadHeartbeat, ReadEnd, ReaderGoto, control, reader, engine
  <2>3. CASE Reader
    <3>1. CASE ReaderSend
      BY <3>1, QueueFacts DEF ReaderSend, ReaderGoto, control, engine
    <3>2. CASE ReaderLatch
      BY <3>2 DEF ReaderLatch, ReaderGoto, control, engine, SafetyBits
    <3>3. CASE \/ ReaderOff \/ ReaderStop \/ ReaderLoadRunning \/ ReaderLoadPending
               \/ ReaderReject \/ ReaderReserve \/ ReaderUnreserve \/ ReaderOverflow
               \/ ReaderExit
      BY <3>3 DEF ReaderOff, ReaderStop, ReaderLoadRunning, ReaderLoadPending, ReaderReject,
                  ReaderReserve, ReaderUnreserve, ReaderOverflow, ReaderExit, ReaderGoto,
                  control, engine
    <3> QED BY <2>3, <3>1, <3>2, <3>3 DEF Reader
  <2>4. CASE WriterLost \/ HeartbeatLapse
    BY <2>4 DEF WriterLost, HeartbeatLapse, reader, engine
  <2>5. CASE Engine
    <3>1. CASE EngineRecv
      BY <3>1, QueueFacts DEF EngineRecv, control, reader
    <3>2. CASE EngineComplete
      BY <3>2 DEF EngineComplete, control, reader, Idle, Command, Tags, Kinds, OtherKinds
    <3>3. CASE EngineDrain
      BY <3>3 DEF EngineDrain, EngineTake, reader
    <3>4. CASE \/ EngineAck \/ EngineAckLoad \/ EngineAckStop \/ EngineRelease
      BY <3>4 DEF EngineAck, EngineAckLoad, EngineAckStop, EngineRelease, EngineGoto,
                  control, reader
    <3>5. CASE \/ EngineLoop \/ EngineIdle \/ EnginePerform \/ EngineBegin \/ EngineTest
               \/ EngineDrive \/ EngineFinish \/ EngineUnwind \/ EngineSettle \/ EngineExit
      BY <3>5 DEF EngineLoop, EngineIdle, EnginePerform, EngineBegin, EngineTest, EngineDrive,
                  EngineFinish, EngineUnwind, EngineSettle, EngineExit, EngineGoto,
                  control, reader
    <3> QED BY <2>5, <3>1, <3>2, <3>3, <3>4, <3>5 DEF Engine
  <2>6. CASE Terminated \/ UNCHANGED vars
    BY <2>6 DEF Terminated, vars, control, reader, engine
  <2> QED BY <2>1, <2>2, <2>3, <2>4, <2>5, <2>6 DEF Next
<1> QED BY <1>1, <1>2, PTL DEF Spec

-----------------------------------------------------------------------------
(* Exclusive ownership of the outputs *)

\* Why OneOutputOwner is inductive: between its load of `running` and its store
\* the reader is the only thread that could raise the flag, so a reservation is
\* only made when there is no owner at all.
OwnerInv ==
    /\ OneOutputOwner
    /\ rpc \in {"admit", "admit_safety", "reserve", "unreserve"} => OutputOperation(req)
    /\ rpc \in {"admit_safety", "reserve"} => ~running

\* Steps that leave alone everything the invariant speaks of.
LEMMA OwnerFrame ==
    ASSUME OwnerInv, UNCHANGED <<queue, running, rpc, req, cmd>>,
           Owning' => Owning
    PROVE  OwnerInv'
    BY DEF OwnerInv, OneOutputOwner, QueuedOutputs, EngineOwns, ReaderHolds, OutputOperation

\* A step of the reader that neither queues, reserves nor admits.
LEMMA OwnerReader ==
    ASSUME OwnerInv, UNCHANGED <<queue, running, req, cmd, epc>>,
           rpc' \in {"read", "latch", "off", "stop", "reject", "overflow", "exit", "exit_stop", "done"}
             \/ (rpc' = "send" /\ ~OutputOperation(req))
             \/ (rpc' = "unreserve" /\ rpc = "send" /\ OutputOperation(req))
             \/ (rpc' = "reserve" /\ rpc = "admit_safety")
             \/ (rpc' = "admit_safety" /\ rpc = "admit" /\ ~running)
    PROVE  OwnerInv'
    BY DEF OwnerInv, OneOutputOwner, QueuedOutputs, EngineOwns, ReaderHolds, OutputOperation, Owning

\* The reader's rpc in the safety branch belongs to a safety command, which
\* carries no tag.
SafetyBranch ==
    rpc \in {"latch", "off", "stop"} => req.kind \in SafetyKinds /\ req.job = NoJob

\* Only a Stop or an OFF, never a tagged job, reaches the reader's latching steps.
LEMMA SafetyBranchInvariant == Spec => []SafetyBranch
<1>1. Init => SafetyBranch
  BY DEF Init, SafetyBranch
<1>2. SafetyBranch /\ [Next]_vars => SafetyBranch'
  <2> SUFFICES ASSUME SafetyBranch, [Next]_vars PROVE SafetyBranch'
    OBVIOUS
  <2> USE DEF SafetyBranch
  <2>1. CASE ReadCommand
    BY <2>1, RequestsAssumption DEF ReadCommand
  <2>2. CASE ReadHeartbeat \/ ReadEnd \/ WriterLost \/ HeartbeatLapse \/ Terminated \/ UNCHANGED vars
    BY <2>2 DEF ReadHeartbeat, ReadEnd, WriterLost, HeartbeatLapse, Terminated, vars, reader, ReaderGoto
  <2>3. CASE Reader
    BY <2>3 DEF Reader, ReaderLatch, ReaderOff, ReaderStop, ReaderLoadRunning, ReaderLoadPending,
                ReaderReject, ReaderReserve, ReaderSend, ReaderUnreserve, ReaderOverflow,
                ReaderExit, ReaderGoto
  <2>4. CASE Engine
    BY <2>4 DEF Engine, EngineLoop, EngineRecv, EngineIdle, EnginePerform, EngineBegin,
                EngineTest, EngineDrive, EngineFinish, EngineUnwind, EngineSettle, EngineAck,
                EngineAckLoad, EngineAckStop, EngineRelease, EngineDrain, EngineTake,
                EngineComplete, EngineExit, reader
  <2> QED BY <2>1, <2>2, <2>3, <2>4 DEF Next
<1> QED BY <1>1, <1>2, PTL DEF Spec

\* At most one admitted output operation, and `running` is up while there is one.
THEOREM ExclusiveOwnership == Spec => []OneOutputOwner
<1>1. Init => OwnerInv
  BY DEF Init, OwnerInv, OneOutputOwner, QueuedOutputs, EngineOwns, ReaderHolds, Owning
<1>2. Typed /\ Typed' /\ SafetyBranch /\ OwnerInv /\ [Next]_vars => OwnerInv'
  <2> SUFFICES ASSUME Typed, Typed', SafetyBranch, OwnerInv, [Next]_vars PROVE OwnerInv'
    OBVIOUS
  <2>1. CASE ReadCommand
    <3> PICK r \in Requests :
           /\ req' = [kind |-> r.kind, job |-> IF r.tagged THEN sent + 1 ELSE NoJob]
           /\ rpc' = CASE r.kind \in SafetyKinds -> "latch"
                       [] r.kind \in OutputKinds -> "admit"
                       [] OTHER -> "send"
      BY <2>1 DEF ReadCommand
    <3>1. rpc = "read" /\ UNCHANGED <<queue, running, cmd, epc>>
      BY <2>1 DEF ReadCommand, engine
    <3>2. \/ rpc' = "latch"
          \/ rpc' = "admit" /\ OutputOperation(req')
          \/ rpc' = "send" /\ ~OutputOperation(req')
      BY DEF OutputOperation
    <3> QED BY <3>1, <3>2 DEF OwnerInv, OneOutputOwner, QueuedOutputs, EngineOwns, ReaderHolds,
                              OutputOperation, Owning
  <2>2. CASE ReadHeartbeat \/ WriterLost \/ HeartbeatLapse \/ Terminated \/ UNCHANGED vars
    <3>1. UNCHANGED <<queue, running, rpc, req, cmd, epc>>
      BY <2>2 DEF ReadHeartbeat, WriterLost, HeartbeatLapse, Terminated, vars, control, reader, engine
    <3> QED BY <3>1, OwnerFrame DEF Owning
  <2>3. CASE ReadEnd
    <3>1. UNCHANGED <<queue, running, req, cmd, epc>> /\ rpc' = "exit"
      BY <2>3 DEF ReadEnd, ReaderGoto, control, engine
    <3> QED BY <3>1, OwnerReader
  <2>4. CASE Reader
    <3>1. CASE ReaderSend
      <4>1. CASE Len(queue) < QueueCap /\ epc # "done"
        <5>1. /\ queue' = Append(queue, req) /\ rpc = "send" /\ rpc' = "read"
              /\ UNCHANGED <<running, req, cmd, epc>>
          BY <3>1, <4>1 DEF ReaderSend, ReaderGoto, control, engine
        <5>2. /\ Len(queue) \in Nat /\ Len(queue') = Len(queue) + 1
              /\ queue'[Len(queue) + 1] = req
              /\ \A i \in 1..Len(queue) : queue'[i] = queue[i]
          BY <5>1, QueueFacts DEF Typed
        <5>3. CASE OutputOperation(req)
          <6>1. QueuedOutputs = {} /\ ~EngineOwns /\ running
            BY <5>1, <5>3 DEF OwnerInv, OneOutputOwner, ReaderHolds
          <6>2. QueuedOutputs' \subseteq {Len(queue) + 1}
            BY <5>2, <6>1 DEF QueuedOutputs
          <6> QED BY <5>1, <6>1, <6>2 DEF OwnerInv, OneOutputOwner, EngineOwns, ReaderHolds,
                                          OutputOperation, Owning
        <5>4. CASE ~OutputOperation(req)
          <6>1. QueuedOutputs' = QueuedOutputs
            BY <5>2, <5>4 DEF QueuedOutputs
          <6> QED BY <5>1, <6>1 DEF OwnerInv, OneOutputOwner, EngineOwns, ReaderHolds,
                                    OutputOperation, Owning
        <5> QED BY <5>3, <5>4
      <4>2. CASE ~(Len(queue) < QueueCap /\ epc # "done")
        <5>1. /\ UNCHANGED <<queue, running, req, cmd, epc>> /\ rpc = "send"
              /\ \/ rpc' = "unreserve" /\ OutputOperation(req)
                 \/ rpc' = "overflow"
          BY <3>1, <4>2 DEF ReaderSend, ReaderGoto, control, engine
        <5> QED BY <5>1, OwnerReader
      <4> QED BY <4>1, <4>2
    <3>2. CASE ReaderReserve
      <4>1. /\ rpc = "reserve" /\ rpc' = "send" /\ running' = TRUE
            /\ UNCHANGED <<queue, req, cmd, epc>>
        BY <3>2 DEF ReaderReserve, ReaderGoto, engine
      <4>2. QueuedOutputs = {} /\ ~EngineOwns
        BY <4>1 DEF OwnerInv, OneOutputOwner
      <4> QED BY <4>1, <4>2 DEF OwnerInv, OneOutputOwner, QueuedOutputs, EngineOwns, ReaderHolds,
                                OutputOperation, Owning
    <3>3. CASE ReaderUnreserve
      <4>1. /\ rpc = "unreserve" /\ rpc' = "overflow" /\ running' = FALSE
            /\ UNCHANGED <<queue, req, cmd, epc>>
        BY <3>3 DEF ReaderUnreserve, ReaderGoto, engine
      <4>2. QueuedOutputs = {} /\ ~EngineOwns
        BY <4>1 DEF OwnerInv, OneOutputOwner, ReaderHolds
      <4> QED BY <4>1, <4>2 DEF OwnerInv, OneOutputOwner, QueuedOutputs, EngineOwns, ReaderHolds,
                                OutputOperation, Owning
    <3>4. CASE ReaderLatch \/ ReaderOff \/ ReaderStop
      <4>1. /\ UNCHANGED <<queue, running, req, cmd, epc>>
            /\ rpc \in {"latch", "off", "stop"} /\ rpc' \in {"off", "stop", "send"}
        BY <3>4 DEF ReaderLatch, ReaderOff, ReaderStop, ReaderGoto, engine
      <4>2. ~OutputOperation(req)
        BY <4>1 DEF SafetyBranch, OutputOperation, SafetyKinds, OutputKinds
      <4> QED BY <4>1, <4>2, OwnerReader
    <3>5. CASE ReaderLoadRunning \/ ReaderLoadPending
      <4>1. /\ UNCHANGED <<queue, running, req, cmd, epc>>
            /\ \/ rpc' = "reject"
               \/ rpc = "admit" /\ rpc' = "admit_safety" /\ ~running
               \/ rpc = "admit_safety" /\ rpc' = "reserve"
        BY <3>5 DEF ReaderLoadRunning, ReaderLoadPending, ReaderGoto, engine, control
      <4> QED BY <4>1, OwnerReader
    <3>6. CASE ReaderReject \/ ReaderOverflow \/ ReaderExit
      <4>1. /\ UNCHANGED <<queue, running, req, cmd, epc>>
            /\ rpc' \in {"read", "exit", "exit_stop", "done"}
        BY <3>6 DEF ReaderReject, ReaderOverflow, ReaderExit, ReaderGoto, engine
      <4> QED BY <4>1, OwnerReader
    <3> QED BY <2>4, <3>1, <3>2, <3>3, <3>4, <3>5, <3>6 DEF Reader
  <2>5. CASE Engine
    <3>1. CASE EngineRecv
      <4>1. /\ queue # <<>> /\ cmd' = Head(queue) /\ queue' = Tail(queue)
            /\ UNCHANGED <<running, rpc, req>> /\ epc = "recv" /\ ~Owning
        BY <3>1 DEF EngineRecv, control, reader, Owning
      <4>2. /\ Len(queue) \in Nat /\ Len(queue) > 0 /\ cmd' = queue[1]
            /\ Len(queue') = Len(queue) - 1
            /\ \A i \in 1..Len(queue') : queue'[i] = queue[i + 1]
        BY <4>1, QueueFacts DEF Typed
      <4>3. \A i \in QueuedOutputs' : i + 1 \in QueuedOutputs /\ i \in Nat
        BY <4>2 DEF QueuedOutputs
      <4>4. OutputOperation(cmd') => 1 \in QueuedOutputs
        BY <4>2 DEF QueuedOutputs
      <4>5. \A i, j \in QueuedOutputs : i = j
        BY DEF OwnerInv, OneOutputOwner
      <4>6. \A i, j \in QueuedOutputs' : i = j
        BY <4>3, <4>5, <4>2 DEF QueuedOutputs
      <4>7. OutputOperation(cmd') => QueuedOutputs' = {}
        <5> SUFFICES ASSUME OutputOperation(cmd'), NEW i \in QueuedOutputs' PROVE FALSE
          OBVIOUS
        <5>1. i >= 1
          BY <4>2 DEF QueuedOutputs
        <5> QED BY <5>1, <4>3, <4>4, <4>5
      <4>8. QueuedOutputs' # {} \/ OutputOperation(cmd') => QueuedOutputs # {}
        BY <4>3, <4>4
      <4>9. (EngineOwns' => OutputOperation(cmd')) /\ (ReaderHolds' = ReaderHolds)
        BY <4>1 DEF EngineOwns, ReaderHolds, OutputOperation
      <4> QED BY <4>1, <4>6, <4>7, <4>8, <4>9 DEF OwnerInv, OneOutputOwner, OutputOperation
    <3>2. CASE EngineRelease
      <4>1. /\ epc = "release" /\ epc' = "take_gate" /\ UNCHANGED <<queue, rpc, req, cmd>>
            /\ running' = IF OutputOperation(cmd) THEN FALSE ELSE running
        BY <3>2 DEF EngineRelease, EngineGoto, reader
      <4>2. OutputOperation(cmd) => QueuedOutputs = {} /\ ~ReaderHolds
        BY <4>1 DEF OwnerInv, OneOutputOwner, EngineOwns, Owning
      <4> QED BY <4>1, <4>2 DEF OwnerInv, OneOutputOwner, QueuedOutputs, EngineOwns, ReaderHolds,
                                OutputOperation, Owning
    <3>3. CASE EngineComplete
      <4>1. UNCHANGED <<queue, running, rpc, req>> /\ epc' = "loop"
        BY <3>3 DEF EngineComplete, control, reader
      <4> QED BY <4>1 DEF OwnerInv, OneOutputOwner, QueuedOutputs, EngineOwns, ReaderHolds,
                          OutputOperation, Owning
    <3>4. CASE EngineDrain \/ EngineLoop \/ EngineIdle \/ EngineExit
      <4>1. /\ UNCHANGED <<queue, running, rpc, req, cmd>>
            /\ ~Owning'
        BY <3>4 DEF EngineDrain, EngineTake, EngineLoop, EngineIdle, EngineExit, EngineGoto,
                    control, reader, Owning
      <4> QED BY <4>1, OwnerFrame
    <3>5. CASE \/ EnginePerform \/ EngineBegin \/ EngineTest \/ EngineDrive \/ EngineFinish
               \/ EngineUnwind \/ EngineSettle \/ EngineAck \/ EngineAckLoad \/ EngineAckStop
      <4>1. UNCHANGED <<queue, running, rpc, req, cmd>> /\ Owning
        BY <3>5 DEF EnginePerform, EngineBegin, EngineTest, EngineDrive, EngineFinish,
                    EngineUnwind, EngineSettle, EngineAck, EngineAckLoad, EngineAckStop,
                    EngineGoto, control, reader, Owning
      <4> QED BY <4>1, OwnerFrame
    <3> QED BY <2>5, <3>1, <3>2, <3>3, <3>4, <3>5 DEF Engine
  <2> QED BY <2>1, <2>2, <2>3, <2>4, <2>5 DEF Next
<1>3. OwnerInv => OneOutputOwner
  BY DEF OwnerInv
<1> QED BY <1>1, <1>2, <1>3, TypedInvariant, SafetyBranchInvariant, PTL DEF Spec

-----------------------------------------------------------------------------
(* The write after the latch *)

\* Why OneWriteAfterLatch is inductive: an operation that is about to write was
\* cleared by a test that saw no latch, so if one is up now it was raised since
\* and counts from zero.
LateInv ==
    /\ late \in Nat /\ late <= 1
    /\ epc = "drive" /\ pending # {} => late = 0

\* However long a ramp or a sweep is, it makes at most one write between a Stop
\* or OFF raising the latch and the test of `cancelled` that sees it.
THEOREM AtMostOneLateWrite == Spec => []OneWriteAfterLatch
<1>1. Init => LateInv
  BY DEF Init, LateInv
<1>2. LateInv /\ [Next]_vars => LateInv'
  <2> SUFFICES ASSUME LateInv, [Next]_vars PROVE LateInv'
    OBVIOUS
  <2> USE DEF LateInv
  <2>1. CASE ReadCommand \/ ReadHeartbeat \/ ReadEnd \/ WriterLost \/ HeartbeatLapse
             \/ Terminated \/ UNCHANGED vars
    BY <2>1 DEF ReadCommand, ReadHeartbeat, ReadEnd, WriterLost, HeartbeatLapse, Terminated,
                vars, control, engine, outputs
  <2>2. CASE Reader
    <3>1. CASE ReaderLatch
      BY <3>1 DEF ReaderLatch, engine
    <3>2. CASE \/ ReaderOff \/ ReaderStop \/ ReaderLoadRunning \/ ReaderLoadPending
               \/ ReaderReject \/ ReaderReserve \/ ReaderSend \/ ReaderUnreserve
               \/ ReaderOverflow \/ ReaderExit
      BY <3>2 DEF ReaderOff, ReaderStop, ReaderLoadRunning, ReaderLoadPending, ReaderReject,
                  ReaderReserve, ReaderSend, ReaderUnreserve, ReaderOverflow, ReaderExit,
                  control, engine, outputs
    <3> QED BY <2>2, <3>1, <3>2 DEF Reader
  <2>3. CASE Engine
    <3>1. CASE EngineDrive
      BY <3>1 DEF EngineDrive, EngineGoto, control
    <3>2. CASE EngineTest
      BY <3>2 DEF EngineTest, Cancelled, control, outputs
    <3>3. CASE \/ EngineLoop \/ EngineRecv \/ EngineIdle \/ EnginePerform \/ EngineBegin
               \/ EngineFinish \/ EngineUnwind \/ EngineSettle \/ EngineAck \/ EngineAckLoad
               \/ EngineAckStop \/ EngineRelease \/ EngineDrain \/ EngineComplete \/ EngineExit
      <4>1. late' = late
        BY <3>3 DEF EngineLoop, EngineRecv, EngineIdle, EnginePerform, EngineBegin,
                    EngineFinish, EngineUnwind, EngineSettle, EngineAck, EngineAckLoad,
                    EngineAckStop, EngineRelease, EngineDrain, EngineTake, EngineComplete,
                    EngineExit, outputs
      <4>2. epc' # "drive"
        BY <3>3 DEF EngineLoop, EngineRecv, EngineIdle, EnginePerform, EngineBegin,
                    EngineFinish, EngineUnwind, EngineSettle, EngineAck, EngineAckLoad,
                    EngineAckStop, EngineRelease, EngineDrain, EngineTake, EngineComplete,
                    EngineExit, EngineGoto
      <4> QED BY <4>1, <4>2
    <3> QED BY <2>3, <3>1, <3>2, <3>3 DEF Engine
  <2> QED BY <2>1, <2>2, <2>3 DEF Next
<1>3. LateInv => OneWriteAfterLatch
  BY DEF LateInv, OneWriteAfterLatch
<1> QED BY <1>1, <1>2, <1>3, PTL DEF Spec

-----------------------------------------------------------------------------
(* Latch and stop flag *)

\* Nothing reopens a closed control block.
LEMMA ClosedStays ==
    ASSUME [Next]_vars, closed
    PROVE  closed'
<1>1. CASE ReadCommand \/ ReadHeartbeat \/ ReadEnd \/ WriterLost \/ HeartbeatLapse
           \/ Terminated \/ UNCHANGED vars
  BY <1>1 DEF ReadCommand, ReadHeartbeat, ReadEnd, WriterLost, HeartbeatLapse, Terminated,
              vars, control
<1>2. CASE Reader
  BY <1>2 DEF Reader, ReaderLatch, ReaderOff, ReaderStop, ReaderLoadRunning, ReaderLoadPending,
              ReaderReject, ReaderReserve, ReaderSend, ReaderUnreserve, ReaderOverflow,
              ReaderExit, control
<1>3. CASE Engine
  BY <1>3 DEF Engine, EngineLoop, EngineRecv, EngineIdle, EnginePerform, EngineBegin,
              EngineTest, EngineDrive, EngineFinish, EngineUnwind, EngineSettle, EngineAck,
              EngineAckLoad, EngineAckStop, EngineRelease, EngineDrain, EngineTake,
              EngineComplete, EngineExit, control
<1> QED BY <1>1, <1>2, <1>3 DEF Next

\* A safety command on its way stays on its way (reader, channel, engine) until
\* the engine acknowledges it, unless the engine is closing.
LEMMA FlightKept ==
    ASSUME Typed, [Next]_vars, NEW k \in SafetyKinds, InFlight(k)
    PROVE  \/ closed' \/ InFlight(k)'
           \/ /\ EngineAck /\ cmd.kind = k
              /\ cmd' = cmd /\ epc' = "ack_load" /\ pending' = pending \ {k}
<1>1. CASE ReadCommand \/ ReadHeartbeat \/ ReadEnd \/ WriterLost \/ HeartbeatLapse
           \/ Terminated \/ UNCHANGED vars
  <2>1. UNCHANGED <<queue, epc, cmd>> /\ (UNCHANGED <<rpc, req>> \/ rpc = "read")
    BY <1>1 DEF ReadCommand, ReadHeartbeat, ReadEnd, WriterLost, HeartbeatLapse, Terminated,
                vars, reader, engine
  <2> QED BY <2>1 DEF InFlight
<1>2. CASE Reader
  <2>1. CASE ReaderSend
    <3>1. CASE Len(queue) < QueueCap /\ epc # "done"
      <4>1. queue' = Append(queue, req) /\ UNCHANGED <<epc, cmd>> /\ rpc = "send"
        BY <2>1, <3>1 DEF ReaderSend, engine
      <4>2. /\ Len(queue) \in Nat /\ Len(queue') = Len(queue) + 1
            /\ queue'[Len(queue) + 1] = req
            /\ \A i \in 1..Len(queue) : queue'[i] = queue[i]
        BY <4>1, QueueFacts DEF Typed
      <4>3. \A i \in 1..Len(queue) : i \in 1..Len(queue') /\ queue'[i].kind = queue[i].kind
        BY <4>2
      <4>4. Len(queue) + 1 \in 1..Len(queue') /\ queue'[Len(queue) + 1].kind = req.kind
        BY <4>2
      <4> QED BY <4>1, <4>3, <4>4 DEF InFlight
    <3>2. CASE ~(Len(queue) < QueueCap /\ epc # "done")
      <4>1. /\ UNCHANGED <<queue, epc, cmd, req>> /\ rpc = "send"
            /\ rpc' = IF OutputOperation(req) THEN "unreserve" ELSE "overflow"
        BY <2>1, <3>2 DEF ReaderSend, ReaderGoto, engine
      <4>2. req.kind = k => ~OutputOperation(req)
        BY DEF OutputOperation, SafetyKinds, OutputKinds
      <4> QED BY <4>1, <4>2 DEF InFlight
    <3> QED BY <3>1, <3>2
  <2>2. CASE ReaderOverflow
    BY <2>2 DEF ReaderOverflow
  <2>3. CASE ReaderOff \/ ReaderStop
    <3>1. UNCHANGED <<queue, epc, cmd, req>> /\ rpc' \in {"stop", "send"}
      BY <2>3 DEF ReaderOff, ReaderStop, ReaderGoto, engine
    <3> QED BY <3>1 DEF InFlight
  <2>4. CASE \/ ReaderLatch \/ ReaderLoadRunning \/ ReaderLoadPending \/ ReaderReject
             \/ ReaderReserve \/ ReaderUnreserve \/ ReaderExit
    <3>1. UNCHANGED <<queue, epc, cmd>> /\ rpc \notin {"off", "stop", "send", "overflow"}
      BY <2>4 DEF ReaderLatch, ReaderLoadRunning, ReaderLoadPending, ReaderReject,
                  ReaderReserve, ReaderUnreserve, ReaderExit, engine
    <3> QED BY <3>1 DEF InFlight
  <2> QED BY <1>2, <2>1, <2>2, <2>3, <2>4 DEF Reader
<1>3. CASE Engine
  <2>1. CASE EngineRecv
    <3>1. /\ queue # <<>> /\ cmd' = Head(queue) /\ queue' = Tail(queue) /\ epc = "recv"
          /\ epc' = IF OutputOperation(Head(queue)) THEN "begin" ELSE "perform"
          /\ UNCHANGED <<rpc, req>>
      BY <2>1 DEF EngineRecv, reader
    <3>2. /\ Len(queue) \in Nat /\ cmd' = queue[1] /\ Head(queue) = queue[1]
          /\ Len(queue') = Len(queue) - 1
          /\ \A i \in 1..Len(queue') : queue'[i] = queue[i + 1]
      BY <3>1, QueueFacts DEF Typed
    <3>3. ASSUME NEW i \in 1..Len(queue), queue[i].kind = k PROVE InFlight(k)'
      <4>1. CASE i = 1
        <5>1. ~OutputOperation(Head(queue))
          BY <3>2, <3>3, <4>1 DEF OutputOperation, SafetyKinds, OutputKinds
        <5> QED BY <3>1, <3>2, <3>3, <4>1, <5>1 DEF InFlight
      <4>2. CASE i # 1
        <5>1. i - 1 \in 1..Len(queue') /\ queue'[i - 1] = queue[i]
          BY <3>2, <4>2
        <5> QED BY <5>1, <3>3 DEF InFlight
      <4> QED BY <4>1, <4>2
    <3> QED BY <3>1, <3>3 DEF InFlight
  <2>2. CASE EngineAck
    <3>1. /\ UNCHANGED <<queue, rpc, req, cmd>> /\ epc = "ack"
          /\ pending' = pending \ SafetyBits(cmd)
          /\ epc' = IF SafetyBits(cmd) = {} THEN "release" ELSE "ack_load"
      BY <2>2 DEF EngineAck, EngineGoto, reader
    <3>2. cmd.kind = k => SafetyBits(cmd) = {k}
      BY DEF SafetyBits
    <3>3. CASE cmd.kind = k
      BY <2>2, <3>1, <3>2, <3>3
    <3>4. CASE cmd.kind # k
      BY <3>1, <3>4 DEF InFlight
    <3> QED BY <3>3, <3>4
  <2>3. CASE EnginePerform \/ EngineUnwind \/ EngineSettle \/ EngineBegin \/ EngineTest
    <3>1. UNCHANGED <<queue, rpc, req, cmd>>
      BY <2>3 DEF EnginePerform, EngineUnwind, EngineSettle, EngineBegin, EngineTest,
                  EngineGoto, reader
    <3>2. epc \in {"perform", "settle", "ack"} => epc' \in {"settle", "ack"}
      BY <2>3 DEF EnginePerform, EngineUnwind, EngineSettle, EngineBegin, EngineTest, EngineGoto
    <3> QED BY <3>1, <3>2 DEF InFlight
  <2>4. CASE \/ EngineLoop \/ EngineIdle \/ EngineDrive \/ EngineFinish \/ EngineAckLoad
             \/ EngineAckStop \/ EngineRelease \/ EngineDrain \/ EngineComplete \/ EngineExit
    <3>1. UNCHANGED <<queue, rpc, req>> /\ epc \notin {"perform", "settle", "ack"}
      BY <2>4 DEF EngineLoop, EngineIdle, EngineDrive, EngineFinish, EngineAckLoad,
                  EngineAckStop, EngineRelease, EngineDrain, EngineTake, EngineComplete,
                  EngineExit, EngineGoto, reader
    <3> QED BY <3>1 DEF InFlight
  <2> QED BY <1>3, <2>1, <2>2, <2>3, <2>4 DEF Engine
<1> QED BY <1>1, <1>2, <1>3 DEF Next

\* Only the reader raises a latch bit, with the command that will clear it in
\* its hands.
LEMMA LatchRaised ==
    ASSUME [Next]_vars, NEW k, k \in pending', k \notin pending
    PROVE  InFlight(k)'
<1>1. CASE ReaderLatch
  BY <1>1 DEF ReaderLatch, ReaderGoto, SafetyBits, InFlight
<1>2. CASE ReadCommand \/ ReadHeartbeat \/ ReadEnd \/ WriterLost \/ HeartbeatLapse
           \/ Terminated \/ UNCHANGED vars
  BY <1>2 DEF ReadCommand, ReadHeartbeat, ReadEnd, WriterLost, HeartbeatLapse, Terminated,
              vars, control
<1>3. CASE Reader
  BY <1>1, <1>3 DEF Reader, ReaderOff, ReaderStop, ReaderLoadRunning, ReaderLoadPending,
              ReaderReject, ReaderReserve, ReaderSend, ReaderUnreserve, ReaderOverflow,
              ReaderExit, control
<1>4. CASE Engine
  BY <1>4 DEF Engine, EngineLoop, EngineRecv, EngineIdle, EnginePerform, EngineBegin,
              EngineTest, EngineDrive, EngineFinish, EngineUnwind, EngineSettle, EngineAck,
              EngineAckLoad, EngineAckStop, EngineRelease, EngineDrain, EngineTake,
              EngineComplete, EngineExit, control
<1> QED BY <1>1, <1>2, <1>3, <1>4 DEF Next

\* The stop flag goes up behind a latched command, or with the block closed.
LEMMA StopRaised ==
    ASSUME [Next]_vars, SafetyBranch, stop', ~stop
    PROVE  \/ rpc = "exit_stop" \/ wpc = "stop"
           \/ \E k \in SafetyKinds : InFlight(k)'
<1>1. CASE ReaderStop
  BY <1>1 DEF ReaderStop, ReaderGoto, SafetyBranch, InFlight
<1>2. CASE ReadCommand \/ ReadHeartbeat \/ ReadEnd \/ WriterLost \/ HeartbeatLapse
           \/ Terminated \/ UNCHANGED vars
  BY <1>2 DEF ReadCommand, ReadHeartbeat, ReadEnd, WriterLost, HeartbeatLapse, Terminated,
              vars, control
<1>3. CASE Reader
  BY <1>1, <1>3 DEF Reader, ReaderLatch, ReaderOff, ReaderLoadRunning, ReaderLoadPending,
              ReaderReject, ReaderReserve, ReaderSend, ReaderUnreserve, ReaderOverflow,
              ReaderExit, control
<1>4. CASE Engine
  BY <1>4 DEF Engine, EngineLoop, EngineRecv, EngineIdle, EnginePerform, EngineBegin,
              EngineTest, EngineDrive, EngineFinish, EngineUnwind, EngineSettle, EngineAck,
              EngineAckLoad, EngineAckStop, EngineRelease, EngineDrain, EngineTake,
              EngineComplete, EngineExit, control
<1> QED BY <1>1, <1>2, <1>3, <1>4 DEF Next

\* The engine is acknowledging the safety command k.
Acknowledging(k) == epc \in {"ack_load", "ack_stop"} /\ cmd.kind = k

\* Why FlagsBacked is inductive: the threads that end close the block before
\* they raise `stop`, and an acknowledgement that sees another latch leaves the
\* flag to the command behind that latch.
FlagInv ==
    /\ FlagsBacked
    /\ rpc = "exit_stop" \/ wpc = "stop" => closed

\* The acknowledgement of k moves on, or lowers the flag, or hands it over.
LEMMA AcknowledgingKept ==
    ASSUME [Next]_vars, NEW k, Acknowledging(k)
    PROVE  \/ Acknowledging(k)' \/ ~stop'
           \/ pending # {} /\ UNCHANGED <<pending, queue, rpc, req, cmd>>
              /\ epc = "ack_load" /\ epc' = "release"
<1>1. CASE ReadCommand \/ ReadHeartbeat \/ ReadEnd \/ WriterLost \/ HeartbeatLapse
           \/ Terminated \/ UNCHANGED vars
  BY <1>1 DEF ReadCommand, ReadHeartbeat, ReadEnd, WriterLost, HeartbeatLapse, Terminated,
              vars, engine, Acknowledging
<1>2. CASE Reader
  BY <1>2 DEF Reader, ReaderLatch, ReaderOff, ReaderStop, ReaderLoadRunning, ReaderLoadPending,
              ReaderReject, ReaderReserve, ReaderSend, ReaderUnreserve, ReaderOverflow,
              ReaderExit, engine, Acknowledging
<1>3. CASE EngineAckLoad \/ EngineAckStop
  BY <1>3 DEF EngineAckLoad, EngineAckStop, EngineGoto, Acknowledging, control, reader
<1>4. CASE Engine /\ ~EngineAckLoad /\ ~EngineAckStop
  BY <1>4 DEF Engine, EngineLoop, EngineRecv, EngineIdle, EnginePerform, EngineBegin,
              EngineTest, EngineDrive, EngineFinish, EngineUnwind, EngineSettle, EngineAck,
              EngineRelease, EngineDrain, EngineTake, EngineComplete, EngineExit, Acknowledging
<1> QED BY <1>1, <1>2, <1>3, <1>4 DEF Next

\* A thread closes the block before it reaches the step that raises `stop`.
LEMMA ClosingFirst ==
    ASSUME [Next]_vars, rpc = "exit_stop" \/ wpc = "stop" => closed
    PROVE  (rpc = "exit_stop" \/ wpc = "stop" => closed)'
<1>1. CASE ReadCommand \/ ReadHeartbeat \/ ReadEnd \/ WriterLost \/ HeartbeatLapse
           \/ Terminated \/ UNCHANGED vars
  BY <1>1 DEF ReadCommand, ReadHeartbeat, ReadEnd, WriterLost, HeartbeatLapse, Terminated,
              vars, control, reader, ReaderGoto
<1>2. CASE Reader
  BY <1>2 DEF Reader, ReaderLatch, ReaderOff, ReaderStop, ReaderLoadRunning, ReaderLoadPending,
              ReaderReject, ReaderReserve, ReaderSend, ReaderUnreserve, ReaderOverflow,
              ReaderExit, ReaderGoto, control
<1>3. CASE Engine
  <2>1. UNCHANGED <<rpc, wpc>>
    BY <1>3 DEF Engine, EngineLoop, EngineRecv, EngineIdle, EnginePerform, EngineBegin,
                EngineTest, EngineDrive, EngineFinish, EngineUnwind, EngineSettle, EngineAck,
                EngineAckLoad, EngineAckStop, EngineRelease, EngineDrain, EngineTake,
                EngineComplete, EngineExit, reader
  <2> QED BY <2>1, ClosedStays
<1> QED BY <1>1, <1>2, <1>3 DEF Next

\* pending_safety and stop never outlive the command that is to clear them,
\* although the reader raises them and the engine clears them in separate steps.
THEOREM FlagsNeverStuck == Spec => []FlagsBacked
<1>1. Init => FlagInv
  BY DEF Init, FlagInv, FlagsBacked, LatchBacked, StopBacked
<1>2. Typed /\ Typed' /\ SafetyBranch /\ FlagInv /\ [Next]_vars => FlagInv'
  <2> SUFFICES ASSUME Typed, Typed', SafetyBranch, FlagInv, [Next]_vars PROVE FlagInv'
    OBVIOUS
  <2>1. CASE closed
    BY <2>1, ClosedStays DEF FlagInv, FlagsBacked, LatchBacked, StopBacked
  <2>2. CASE ~closed
    <3>1. \A k \in pending : k \in SafetyKinds /\ InFlight(k)
      BY <2>2 DEF FlagInv, FlagsBacked, LatchBacked, Typed
    <3>2. LatchBacked'
      <4> SUFFICES ASSUME ~closed', NEW k \in pending' PROVE InFlight(k)'
        BY DEF LatchBacked
      <4>1. CASE k \in pending
        BY <3>1, <4>1, FlightKept
      <4>2. CASE k \notin pending
        BY <4>2, LatchRaised
      <4> QED BY <4>1, <4>2
    <3>3. StopBacked'
      <4> SUFFICES ASSUME ~closed', stop'
                   PROVE  \E k \in SafetyKinds : InFlight(k)' \/ Acknowledging(k)'
        BY DEF StopBacked, Acknowledging
      <4>1. CASE ~stop
        BY <4>1, <2>2, StopRaised DEF FlagInv
      <4>2. CASE stop
        <5>1. PICK k \in SafetyKinds : InFlight(k) \/ Acknowledging(k)
          BY <4>2, <2>2 DEF FlagInv, FlagsBacked, StopBacked, Acknowledging
        <5>2. CASE InFlight(k)
          BY <5>2, FlightKept DEF Acknowledging
        <5>3. CASE Acknowledging(k)
          <6>1. CASE pending # {} /\ UNCHANGED <<pending, queue, rpc, req, cmd>>
                     /\ epc = "ack_load" /\ epc' = "release"
            <7>1. PICK l \in pending : l \in SafetyKinds /\ InFlight(l)
              BY <6>1, <3>1
            <7> QED BY <7>1, <6>1 DEF InFlight
          <6> QED BY <5>3, <6>1, AcknowledgingKept
        <5> QED BY <5>1, <5>2, <5>3
      <4> QED BY <4>1, <4>2
    <3> QED BY <3>2, <3>3, ClosingFirst DEF FlagInv, FlagsBacked
  <2> QED BY <2>1, <2>2
<1>3. FlagInv => FlagsBacked
  BY DEF FlagInv
<1> QED BY <1>1, <1>2, <1>3, TypedInvariant, SafetyBranchInvariant, PTL DEF Spec

-----------------------------------------------------------------------------
(* Where the tag of a job is *)

\* The tag of the request the reader still has to queue or to reject, and the
\* tags of the queue, of the engine's command, of the slots, of the engine's
\* three locals and of the completions.
HeldTags == IF rpc \in {"admit", "admit_safety", "reserve", "reject", "send"} THEN {req.job} ELSE {}
QueueTags == {queue[i].job : i \in 1..Len(queue)}
SlotTags(slots) == {slots[s] : s \in Slots}
DoneTags(jobs) == {jobs[i].job : i \in 1..Len(jobs)}

Completion == [job : Jobs, failed : BOOLEAN]

\* A tag in one of two sets of places is not in the other.
Apart(S, T) == S \cap T \cap Jobs = {}

\* No tag is twice in the queue, in the slots, or among the completions.
OnceQueued == \A i, k \in 1..Len(queue) : queue[i].job \in Jobs /\ queue[i].job = queue[k].job => i = k
OnceInSlots(slots) == \A s, t \in Slots : slots[s] \in Jobs /\ slots[s] = slots[t] => s = t
OnceDone(jobs) == \A i, k \in 1..Len(jobs) : jobs[i].job = jobs[k].job => i = k

TagTypes ==
    /\ rejected \in [Slots -> Tags \cup {Nil}]
    /\ taken \in [Slots -> Tags \cup {Nil}]
    /\ completed \in Seq(Completion)

\* Every tag in use was read from a line, and no tag is in two places.
TagPlaces ==
    /\ (HeldTags \cup QueueTags \cup {cmd.job} \cup SlotTags(rejected) \cup SlotTags(taken)
          \cup DoneTags(completed)) \cap Jobs \subseteq 1..sent
    /\ Apart(HeldTags, QueueTags) /\ Apart(HeldTags, {cmd.job})
    /\ Apart(HeldTags, SlotTags(rejected)) /\ Apart(HeldTags, SlotTags(taken))
    /\ Apart(HeldTags, DoneTags(completed))
    /\ Apart(QueueTags, {cmd.job}) /\ Apart(QueueTags, SlotTags(rejected))
    /\ Apart(QueueTags, SlotTags(taken)) /\ Apart(QueueTags, DoneTags(completed))
    /\ Apart({cmd.job}, SlotTags(rejected)) /\ Apart({cmd.job}, SlotTags(taken))
    /\ Apart({cmd.job}, DoneTags(completed))
    /\ Apart(SlotTags(rejected), SlotTags(taken)) /\ Apart(SlotTags(rejected), DoneTags(completed))
    /\ Apart(SlotTags(taken), DoneTags(completed))

\* Why NeverReplayed is inductive: a tag moves from place to place and is never
\* copied, and a slot is empty when the engine is about to fill its local.
TagInv ==
    /\ TagTypes /\ TagPlaces
    /\ OnceQueued /\ OnceInSlots(rejected) /\ OnceInSlots(taken) /\ OnceDone(completed)
    /\ epc \notin {"take_source_dc", "take_run", "complete"} => taken["gate"] = Nil
    /\ epc \notin {"take_run", "complete"} => taken["source_dc"] = Nil
    /\ epc # "complete" => taken["run"] = Nil

\* Job tags are numbers, so the marks of an empty slot and of an untagged
\* command are none.
LEMMA TagFacts == /\ Nil \notin Jobs /\ NoJob \notin Jobs
                  /\ MaxRequests \in Nat /\ Jobs = 1..MaxRequests
  BY NilAssumption, MaxRequestsAssumption DEF Jobs

\* What `complete_gui_job` adds: one completion, for a tag that has none yet.
LEMMA RecordFacts ==
    ASSUME NEW jobs \in Seq(Completion), NEW j, NEW f \in BOOLEAN,
           OnceDone(jobs), j \in Jobs => j \notin DoneTags(jobs)
    PROVE  /\ Record(jobs, j, f) \in Seq(Completion)
           /\ OnceDone(Record(jobs, j, f))
           /\ DoneTags(Record(jobs, j, f)) = DoneTags(jobs) \cup ({j} \cap Jobs)
<1>1. CASE j \notin Jobs
  BY <1>1 DEF Record
<1>2. CASE j \in Jobs
  <2> DEFINE c == [job |-> j, failed |-> f]
             new == Append(jobs, c)
  <2>1. c \in Completion /\ c.job = j
    BY <1>2 DEF Completion
  <2>2. Record(jobs, j, f) = new
    BY <1>2 DEF Record
  <2> HIDE DEF c
  <2>3. /\ new \in Seq(Completion) /\ Len(jobs) \in Nat /\ Len(new) = Len(jobs) + 1
        /\ new[Len(jobs) + 1] = c
        /\ \A i \in 1..Len(jobs) : new[i] = jobs[i]
    BY <2>1
  <2> HIDE DEF new
  <2>4. \A i \in 1..Len(jobs) : jobs[i].job \in DoneTags(jobs) /\ jobs[i].job # j
    BY <1>2 DEF DoneTags
  <2>5. OnceDone(new)
    <3> SUFFICES ASSUME NEW i \in 1..Len(new), NEW k \in 1..Len(new),
                        new[i].job = new[k].job
                 PROVE  i = k
      BY DEF OnceDone
    <3>1. CASE i \in 1..Len(jobs) /\ k \in 1..Len(jobs)
      BY <3>1, <2>3 DEF OnceDone
    <3>2. CASE i = Len(jobs) + 1 \/ k = Len(jobs) + 1
      BY <3>2, <2>1, <2>3, <2>4
    <3> QED BY <3>1, <3>2, <2>3
  <2>6. DoneTags(new) = DoneTags(jobs) \cup {j}
    <3>1. \A t \in DoneTags(new) : t \in DoneTags(jobs) \cup {j}
      <4> SUFFICES ASSUME NEW i \in 1..Len(new) PROVE new[i].job \in DoneTags(jobs) \cup {j}
        BY DEF DoneTags
      <4>1. CASE i \in 1..Len(jobs)
        BY <4>1, <2>3, <2>4
      <4>2. CASE i = Len(jobs) + 1
        BY <4>2, <2>1, <2>3
      <4> QED BY <4>1, <4>2, <2>3
    <3>2. ASSUME NEW i \in 1..Len(jobs) PROVE jobs[i].job \in DoneTags(new)
      <4>1. i \in 1..Len(new) /\ new[i] = jobs[i]
        BY <2>3
      <4> QED BY <4>1 DEF DoneTags
    <3>3. j \in DoneTags(new)
      <4>1. Len(jobs) + 1 \in 1..Len(new) /\ new[Len(jobs) + 1].job = j
        BY <2>1, <2>3
      <4> QED BY <4>1 DEF DoneTags
    <3>4. \A t \in DoneTags(jobs) : t \in DoneTags(new)
      BY <3>2 DEF DoneTags
    <3> QED BY <3>1, <3>3, <3>4
  <2> QED BY <1>2, <2>2, <2>3, <2>5, <2>6
<1> QED BY <1>1, <1>2

\* The points of the engine thread at which its three locals may be filled.
TakePc == {"take_source_dc", "take_run", "complete"}

\* Steps that move no tag, or let the reader's own one go.
LEMMA TagFrame ==
    ASSUME TagInv, UNCHANGED <<queue, cmd, rejected, taken, completed, sent>>,
           HeldTags' \subseteq HeldTags \cup {NoJob}, epc \notin TakePc \/ epc' = epc
    PROVE  TagInv'
<1>1. QueueTags' = QueueTags /\ OnceQueued'
  BY DEF QueueTags, OnceQueued, TagInv
<1>2. TagTypes' /\ OnceInSlots(rejected)' /\ OnceInSlots(taken)' /\ OnceDone(completed)'
  BY DEF TagTypes, TagInv
<1>3. TagPlaces'
  BY <1>1, TagFacts DEF TagPlaces, Apart, TagInv
<1>4. /\ epc' \notin {"take_source_dc", "take_run", "complete"} => taken'["gate"] = Nil
      /\ epc' \notin {"take_run", "complete"} => taken'["source_dc"] = Nil
      /\ epc' # "complete" => taken'["run"] = Nil
  BY DEF TagInv, TakePc
<1> QED BY <1>1, <1>2, <1>3, <1>4 DEF TagInv

\* A line that is read brings a tag no place has seen.
LEMMA TagRead ==
    ASSUME Typed, TagInv, ReadCommand
    PROVE  TagInv'
<1>1. /\ UNCHANGED <<queue, cmd, rejected, taken, completed, epc>>
      /\ sent' = sent + 1
      /\ req'.job \in {sent + 1, NoJob}
  BY DEF ReadCommand, engine, results
<1>2. QueueTags' = QueueTags /\ OnceQueued'
  BY <1>1 DEF QueueTags, OnceQueued, TagInv
<1>3. HeldTags' \subseteq {sent + 1, NoJob}
  BY <1>1 DEF HeldTags
<1>4. NoJob \notin Jobs /\ sent \in Nat
  BY TagFacts DEF Typed
<1>5. sent + 1 \notin 1..sent /\ 1..sent \subseteq 1..sent' /\ sent + 1 \in 1..sent'
  BY <1>1, <1>4
<1> DEFINE n == sent + 1
           now == 1..sent
           then == 1..sent'
<1>6. n \notin now /\ now \subseteq then /\ n \in then /\ HeldTags' \subseteq {n, NoJob}
  BY <1>3, <1>5
<1>7. /\ (QueueTags \cup {cmd.job} \cup SlotTags(rejected) \cup SlotTags(taken)
            \cup DoneTags(completed)) \cap Jobs \subseteq now
      /\ Apart(QueueTags, {cmd.job}) /\ Apart(QueueTags, SlotTags(rejected))
      /\ Apart(QueueTags, SlotTags(taken)) /\ Apart(QueueTags, DoneTags(completed))
      /\ Apart({cmd.job}, SlotTags(rejected)) /\ Apart({cmd.job}, SlotTags(taken))
      /\ Apart({cmd.job}, DoneTags(completed))
      /\ Apart(SlotTags(rejected), SlotTags(taken)) /\ Apart(SlotTags(rejected), DoneTags(completed))
      /\ Apart(SlotTags(taken), DoneTags(completed))
  BY DEF TagInv, TagPlaces
<1> HIDE DEF n, now
<1>8. /\ Apart(HeldTags', QueueTags) /\ Apart(HeldTags', {cmd.job})
      /\ Apart(HeldTags', SlotTags(rejected)) /\ Apart(HeldTags', SlotTags(taken))
      /\ Apart(HeldTags', DoneTags(completed))
  BY <1>4, <1>6, <1>7 DEF Apart
<1>9. (HeldTags' \cup QueueTags \cup {cmd.job} \cup SlotTags(rejected) \cup SlotTags(taken)
         \cup DoneTags(completed)) \cap Jobs \subseteq then
  <2> HIDE DEF then
  <2> QED BY <1>4, <1>6, <1>7
<1>10. TagPlaces'
  BY <1>1, <1>2, <1>7, <1>8, <1>9 DEF TagPlaces
<1> QED BY <1>1, <1>2, <1>10 DEF TagInv, TagTypes

\* The channel takes the tag over from the reader.
LEMMA TagSend ==
    ASSUME Typed, TagInv, ReaderSend
    PROVE  TagInv'
<1>1. CASE Len(queue) < QueueCap /\ epc # "done"
  <2>1. /\ queue' = Append(queue, req) /\ rpc = "send" /\ rpc' = "read"
        /\ UNCHANGED <<cmd, rejected, taken, completed, sent, epc>>
    BY <1>1 DEF ReaderSend, ReaderGoto, control, engine, results
  <2>2. /\ Len(queue) \in Nat /\ Len(queue') = Len(queue) + 1
        /\ queue'[Len(queue) + 1] = req
        /\ \A i \in 1..Len(queue) : queue'[i] = queue[i]
    BY <2>1, QueueFacts DEF Typed
  <2>3. HeldTags = {req.job} /\ HeldTags' = {}
    BY <2>1 DEF HeldTags
  <2>4. QueueTags' \subseteq QueueTags \cup {req.job}
    <3> SUFFICES ASSUME NEW i \in 1..Len(queue') PROVE queue'[i].job \in QueueTags \cup {req.job}
      BY DEF QueueTags
    <3>1. CASE i \in 1..Len(queue)
      BY <3>1, <2>2 DEF QueueTags
    <3>2. CASE i = Len(queue) + 1
      BY <3>2, <2>2
    <3> QED BY <3>1, <3>2, <2>2
  <2>5. \A i \in 1..Len(queue) : queue[i].job \in Jobs => queue[i].job # req.job
    BY <2>3 DEF TagInv, TagPlaces, Apart, QueueTags
  <2>6. OnceQueued'
    <3> SUFFICES ASSUME NEW i \in 1..Len(queue'), NEW k \in 1..Len(queue'),
                        queue'[i].job \in Jobs, queue'[i].job = queue'[k].job
                 PROVE  i = k
      BY DEF OnceQueued
    <3>1. CASE i \in 1..Len(queue) /\ k \in 1..Len(queue)
      BY <3>1, <2>2 DEF OnceQueued, TagInv
    <3>2. CASE i = Len(queue) + 1 \/ k = Len(queue) + 1
      BY <3>2, <2>2, <2>5
    <3> QED BY <3>1, <3>2, <2>2
  <2>7. TagPlaces'
    BY <2>1, <2>3, <2>4 DEF TagPlaces, Apart, TagInv
  <2> QED BY <2>1, <2>6, <2>7 DEF TagInv, TagTypes
<1>2. CASE ~(Len(queue) < QueueCap /\ epc # "done")
  <2>1. /\ rpc' \in {"unreserve", "overflow"}
        /\ UNCHANGED <<queue, cmd, rejected, taken, completed, sent, epc>>
    BY <1>2 DEF ReaderSend, ReaderGoto, control, engine, results
  <2>2. HeldTags' = {}
    BY <2>1 DEF HeldTags
  <2> QED BY <2>1, <2>2, TagFrame
<1> QED BY <1>1, <1>2

\* A slot takes the tag over from the reader.
LEMMA TagReject ==
    ASSUME Typed, TagInv, ReaderReject
    PROVE  TagInv'
<1>1. CASE rejected[Slot(req)] = Nil
  <2> DEFINE slot == Slot(req)
  <2>1. slot \in Slots
    BY DEF Slot, Slots
  <2> HIDE DEF slot
  <2>2. /\ rejected' = [rejected EXCEPT ![slot] = req.job] /\ rpc = "reject" /\ rpc' = "read"
        /\ UNCHANGED <<queue, cmd, taken, completed, sent, epc>>
    BY <1>1 DEF ReaderReject, ReaderGoto, engine, results, slot
  <2>3. HeldTags = {req.job} /\ HeldTags' = {}
    BY <2>2 DEF HeldTags
  <2>4. rejected \in [Slots -> Tags \cup {Nil}] /\ req.job \in Tags
    BY DEF TagInv, TagTypes, Typed, Command
  <2>5. /\ rejected' \in [Slots -> Tags \cup {Nil}]
        /\ rejected'[slot] = req.job
        /\ \A s \in Slots : s # slot => rejected'[s] = rejected[s]
    BY <2>1, <2>2, <2>4
  <2>6. SlotTags(rejected)' \subseteq SlotTags(rejected) \cup {req.job}
    BY <2>5 DEF SlotTags
  <2>7. \A s \in Slots : rejected[s] \in Jobs => rejected[s] # req.job
    BY <2>3 DEF TagInv, TagPlaces, Apart, SlotTags
  <2>8. OnceInSlots(rejected)'
    BY <2>5, <2>7 DEF OnceInSlots, TagInv
  <2>9. QueueTags' = QueueTags /\ OnceQueued'
    BY <2>2 DEF QueueTags, OnceQueued, TagInv
  <2>10. TagPlaces'
    BY <2>2, <2>3, <2>6, <2>9 DEF TagPlaces, Apart, TagInv
  <2> QED BY <2>2, <2>5, <2>8, <2>9, <2>10 DEF TagInv, TagTypes
<1>2. CASE rejected[Slot(req)] # Nil
  <2>1. rpc' = "exit" /\ UNCHANGED <<queue, cmd, rejected, taken, completed, sent, epc>>
    BY <1>2 DEF ReaderReject, ReaderGoto, engine, results
  <2>2. HeldTags' = {}
    BY <2>1 DEF HeldTags
  <2> QED BY <2>1, <2>2, TagFrame
<1> QED BY <1>1, <1>2

\* The engine's command takes the tag over from the channel.
LEMMA TagRecv ==
    ASSUME Typed, TagInv, EngineRecv
    PROVE  TagInv'
<1>1. /\ queue # <<>> /\ cmd' = Head(queue) /\ queue' = Tail(queue)
      /\ UNCHANGED <<rpc, req, rejected, taken, completed, sent>>
      /\ epc = "recv" /\ epc' \in {"begin", "perform"}
  BY DEF EngineRecv, control, reader, results
<1>2. /\ Len(queue) \in Nat /\ Len(queue) > 0 /\ cmd' = queue[1]
      /\ Len(queue') = Len(queue) - 1
      /\ \A i \in 1..Len(queue') : queue'[i] = queue[i + 1]
  BY <1>1, QueueFacts DEF Typed
<1>3. 1 \in 1..Len(queue) /\ \A i \in 1..Len(queue') : i + 1 \in 1..Len(queue) /\ i + 1 # 1
  BY <1>2
<1>4. cmd'.job \in QueueTags /\ QueueTags' \subseteq QueueTags
  BY <1>2, <1>3 DEF QueueTags
<1>5. Apart(QueueTags', {cmd'.job})
  <2> SUFFICES ASSUME NEW i \in 1..Len(queue'), queue'[i].job = cmd'.job, cmd'.job \in Jobs
               PROVE  FALSE
    BY DEF Apart, QueueTags
  <2>1. queue[i + 1].job = queue[1].job /\ queue[1].job \in Jobs
    BY <1>2
  <2> QED BY <2>1, <1>3 DEF OnceQueued, TagInv
<1>6. OnceQueued'
  <2> SUFFICES ASSUME NEW i \in 1..Len(queue'), NEW k \in 1..Len(queue'),
                      queue'[i].job \in Jobs, queue'[i].job = queue'[k].job
               PROVE  i = k
    BY DEF OnceQueued
  <2>1. i + 1 = k + 1
    BY <1>2, <1>3 DEF OnceQueued, TagInv
  <2> QED BY <2>1
<1>7. HeldTags' = HeldTags
  BY <1>1 DEF HeldTags
<1>8. TagPlaces'
  BY <1>1, <1>4, <1>5, <1>7 DEF TagPlaces, Apart, TagInv
<1> QED BY <1>1, <1>6, <1>8 DEF TagInv, TagTypes

\* The engine's local takes the tag over from the slot, which it empties.
LEMMA TagTake ==
    ASSUME Typed, TagInv, NEW slot \in Slots, NEW pc, NEW next, EngineTake(slot, pc, next),
           taken[slot] = Nil
    PROVE  /\ TagTypes' /\ TagPlaces' /\ OnceQueued'
           /\ OnceInSlots(rejected)' /\ OnceInSlots(taken)' /\ OnceDone(completed)'
           /\ \A s \in Slots : s # slot => taken'[s] = taken[s]
<1>1. /\ taken' = [taken EXCEPT ![slot] = rejected[slot]]
      /\ rejected' = [rejected EXCEPT ![slot] = Nil]
      /\ UNCHANGED <<queue, cmd, completed, sent, rpc, req>>
  BY DEF EngineTake, reader, results
<1>2. rejected \in [Slots -> Tags \cup {Nil}] /\ taken \in [Slots -> Tags \cup {Nil}]
  BY DEF TagInv, TagTypes
<1>3. /\ rejected' \in [Slots -> Tags \cup {Nil}] /\ taken' \in [Slots -> Tags \cup {Nil}]
      /\ rejected'[slot] = Nil /\ taken'[slot] = rejected[slot]
      /\ \A s \in Slots : s # slot => rejected'[s] = rejected[s] /\ taken'[s] = taken[s]
  BY <1>1, <1>2
<1>4. rejected[slot] \in SlotTags(rejected)
  BY DEF SlotTags
<1>5. SlotTags(taken)' \subseteq SlotTags(taken) \cup {rejected[slot]}
  BY <1>3 DEF SlotTags
<1>6. SlotTags(rejected)' \subseteq SlotTags(rejected) \cup {Nil}
  BY <1>3 DEF SlotTags
<1>7. Nil \notin Jobs
  BY TagFacts
<1>8. rejected[slot] \in Jobs => rejected[slot] \notin SlotTags(rejected)'
  <2> SUFFICES ASSUME rejected[slot] \in Jobs, NEW s \in Slots, rejected'[s] = rejected[slot]
               PROVE  FALSE
    BY DEF SlotTags
  <2>1. s # slot
    BY <1>3, <1>7
  <2> QED BY <2>1, <1>3 DEF OnceInSlots, TagInv
<1>9. \A s \in Slots : taken[s] \in Jobs => taken[s] # rejected[slot]
  BY <1>4 DEF TagInv, TagPlaces, Apart, SlotTags
<1>10. OnceInSlots(rejected)' /\ OnceInSlots(taken)'
  BY <1>3, <1>7, <1>9 DEF OnceInSlots, TagInv
<1>11. QueueTags' = QueueTags /\ OnceQueued' /\ HeldTags' = HeldTags
  BY <1>1 DEF QueueTags, OnceQueued, HeldTags, TagInv
<1>12. TagPlaces'
  <2> DEFINE R == SlotTags(rejected)'
             T == SlotTags(taken)'
  <2>1. Apart(R, T)
    BY <1>5, <1>6, <1>7, <1>8 DEF TagInv, TagPlaces, Apart
  <2>2. /\ R \cap Jobs \subseteq SlotTags(rejected)
        /\ T \subseteq SlotTags(taken) \cup SlotTags(rejected)
    BY <1>4, <1>5, <1>6, <1>7
  <2> HIDE DEF R, T
  <2>3. /\ Apart(HeldTags, R) /\ Apart(HeldTags, T) /\ Apart(QueueTags, R) /\ Apart(QueueTags, T)
        /\ Apart({cmd.job}, R) /\ Apart({cmd.job}, T)
        /\ Apart(R, DoneTags(completed)) /\ Apart(T, DoneTags(completed))
        /\ (R \cup T) \cap Jobs \subseteq 1..sent
    BY <2>2 DEF TagInv, TagPlaces, Apart
  <2>4. TagPlaces
    BY DEF TagInv
  <2> QED BY <1>1, <1>11, <2>1, <2>3, <2>4 DEF TagPlaces, R, T
<1> QED BY <1>1, <1>3, <1>10, <1>11, <1>12 DEF TagInv, TagTypes

\* The completions take the tags over from the command and the three locals.
LEMMA TagComplete ==
    ASSUME Typed, TagInv, EngineComplete
    PROVE  TagInv'
<1> DEFINE f == failed \/ taken # NoneRejected
           d1 == Record(completed, cmd.job, f)
           d2 == Record(d1, taken["gate"], f)
           d3 == Record(d2, taken["source_dc"], f)
           d4 == Record(d3, taken["run"], f)
<1>1. /\ completed' = d4 /\ cmd' = Idle /\ taken' = NoneRejected /\ epc' = "loop"
      /\ UNCHANGED <<queue, rejected, sent, rpc, req>>
  BY DEF EngineComplete, control, reader
<1>2. f \in BOOLEAN
  OBVIOUS
<1> HIDE DEF f, d1, d2, d3, d4
<1>3. {"gate", "source_dc", "run"} = Slots
  BY DEF Slots
<1>4. /\ taken["gate"] \in SlotTags(taken) /\ taken["source_dc"] \in SlotTags(taken)
      /\ taken["run"] \in SlotTags(taken)
  BY <1>3 DEF SlotTags
<1>5. /\ cmd.job \in Jobs => cmd.job \notin SlotTags(taken) \cup DoneTags(completed)
      /\ \A t \in SlotTags(taken) \cap Jobs : t \notin DoneTags(completed)
  BY DEF TagInv, TagPlaces, Apart
<1>6. /\ taken["gate"] \in Jobs => taken["gate"] \notin {taken["source_dc"], taken["run"]}
      /\ taken["source_dc"] \in Jobs => taken["source_dc"] # taken["run"]
  BY <1>3 DEF TagInv, OnceInSlots
<1>7. d1 \in Seq(Completion) /\ OnceDone(d1) /\ DoneTags(d1) = DoneTags(completed) \cup ({cmd.job} \cap Jobs)
  <2>1. completed \in Seq(Completion) /\ OnceDone(completed)
    BY DEF TagInv, TagTypes
  <2> QED BY <1>2, <1>5, <2>1, RecordFacts DEF d1
<1>8. d2 \in Seq(Completion) /\ OnceDone(d2) /\ DoneTags(d2) = DoneTags(d1) \cup ({taken["gate"]} \cap Jobs)
  <2>1. taken["gate"] \in Jobs => taken["gate"] \notin DoneTags(d1)
    BY <1>4, <1>5, <1>7
  <2> QED BY <1>2, <1>7, <2>1, RecordFacts DEF d2
<1>9. d3 \in Seq(Completion) /\ OnceDone(d3) /\ DoneTags(d3) = DoneTags(d2) \cup ({taken["source_dc"]} \cap Jobs)
  <2>1. taken["source_dc"] \in Jobs => taken["source_dc"] \notin DoneTags(d2)
    BY <1>4, <1>5, <1>6, <1>7, <1>8
  <2> QED BY <1>2, <1>8, <2>1, RecordFacts DEF d3
<1>10. d4 \in Seq(Completion) /\ OnceDone(d4) /\ DoneTags(d4) = DoneTags(d3) \cup ({taken["run"]} \cap Jobs)
  <2>1. taken["run"] \in Jobs => taken["run"] \notin DoneTags(d3)
    BY <1>4, <1>5, <1>6, <1>7, <1>8, <1>9
  <2> QED BY <1>2, <1>9, <2>1, RecordFacts DEF d4
<1>11. DoneTags(completed)' \subseteq DoneTags(completed) \cup {cmd.job} \cup SlotTags(taken)
  BY <1>1, <1>4, <1>7, <1>8, <1>9, <1>10
<1>12. cmd'.job = NoJob /\ SlotTags(taken)' \subseteq {Nil} /\ NoJob \notin Jobs /\ Nil \notin Jobs
  BY <1>1, TagFacts DEF Idle, SlotTags, NoneRejected
<1>13. OnceInSlots(taken)' /\ taken' \in [Slots -> Tags \cup {Nil}]
  BY <1>1, <1>12 DEF OnceInSlots, NoneRejected
<1>14. QueueTags' = QueueTags /\ OnceQueued' /\ HeldTags' = HeldTags
  BY <1>1 DEF QueueTags, OnceQueued, HeldTags, TagInv
<1>15. TagPlaces'
  BY <1>1, <1>11, <1>12, <1>14 DEF TagPlaces, Apart, TagInv
<1>16. taken'["gate"] = Nil /\ taken'["source_dc"] = Nil /\ taken'["run"] = Nil
  BY <1>1, <1>3 DEF NoneRejected
<1> QED BY <1>1, <1>10, <1>13, <1>14, <1>15, <1>16 DEF TagInv, TagTypes

\* A job that was rejected is neither queued nor executed, and no job is
\* completed twice: the slots are filled by the reader and emptied by the
\* engine, one at a time, while commands pass through the channel.
THEOREM RejectedNeverReplayed == Spec => []NeverReplayed
<1>1. Init => TagInv
  <2> SUFFICES ASSUME Init PROVE TagInv
    OBVIOUS
  <2>1. /\ queue = <<>> /\ completed = <<>> /\ cmd = Idle /\ rejected = NoneRejected
        /\ taken = NoneRejected /\ HeldTags = {}
    BY DEF Init, HeldTags
  <2>2. QueueTags = {} /\ DoneTags(completed) = {} /\ OnceQueued /\ OnceDone(completed)
    BY <2>1 DEF QueueTags, DoneTags, OnceQueued, OnceDone
  <2>3. /\ SlotTags(rejected) \subseteq {Nil} /\ SlotTags(taken) \subseteq {Nil}
        /\ cmd.job = NoJob /\ Nil \notin Jobs /\ NoJob \notin Jobs
    BY <2>1, TagFacts DEF SlotTags, NoneRejected, Idle
  <2>4. OnceInSlots(rejected) /\ OnceInSlots(taken)
    BY <2>1, <2>3 DEF OnceInSlots, NoneRejected
  <2>5. TagTypes
    BY <2>1 DEF TagTypes, NoneRejected
  <2>6. TagPlaces
    BY <2>1, <2>2, <2>3 DEF TagPlaces, Apart
  <2>7. taken["gate"] = Nil /\ taken["source_dc"] = Nil /\ taken["run"] = Nil
    BY <2>1 DEF NoneRejected, Slots
  <2> QED BY <2>2, <2>4, <2>5, <2>6, <2>7 DEF TagInv
<1>2. Typed /\ SafetyBranch /\ TagInv /\ [Next]_vars => TagInv'
  <2> SUFFICES ASSUME Typed, SafetyBranch, TagInv, [Next]_vars PROVE TagInv'
    OBVIOUS
  <2>1. CASE ReadCommand
    BY <2>1, TagRead
  <2>2. CASE ReadHeartbeat \/ ReadEnd \/ WriterLost \/ HeartbeatLapse \/ Terminated \/ UNCHANGED vars
    <3>1. /\ UNCHANGED <<queue, cmd, rejected, taken, completed, sent, epc, req>>
          /\ rpc' = rpc \/ rpc' = "exit"
      BY <2>2 DEF ReadHeartbeat, ReadEnd, WriterLost, HeartbeatLapse, Terminated, vars, control,
                  reader, engine, results, ReaderGoto
    <3>2. HeldTags' \subseteq HeldTags
      BY <3>1 DEF HeldTags
    <3> QED BY <3>1, <3>2, TagFrame
  <2>3. CASE Reader
    <3>1. CASE ReaderSend
      BY <3>1, TagSend
    <3>2. CASE ReaderReject
      BY <3>2, TagReject
    <3>3. CASE ReaderLatch \/ ReaderOff \/ ReaderUnreserve \/ ReaderOverflow \/ ReaderExit
      <4>1. /\ UNCHANGED <<queue, cmd, rejected, taken, completed, sent, epc, req>>
            /\ rpc' \in {"off", "stop", "overflow", "read", "exit", "exit_stop", "done"}
        BY <3>3 DEF ReaderLatch, ReaderOff, ReaderUnreserve, ReaderOverflow, ReaderExit,
                    engine, results, ReaderGoto
      <4>2. HeldTags' \subseteq HeldTags
        BY <4>1 DEF HeldTags
      <4> QED BY <4>1, <4>2, TagFrame
    <3>4. CASE ReaderLoadRunning \/ ReaderLoadPending \/ ReaderReserve
      <4>1. /\ UNCHANGED <<queue, cmd, rejected, taken, completed, sent, epc, req>>
            /\ rpc \in {"admit", "admit_safety", "reserve"}
        BY <3>4 DEF ReaderLoadRunning, ReaderLoadPending, ReaderReserve, control, engine,
                    results, ReaderGoto
      <4>2. HeldTags' \subseteq HeldTags
        BY <4>1 DEF HeldTags
      <4> QED BY <4>1, <4>2, TagFrame
    <3>5. CASE ReaderStop
      <4>1. /\ UNCHANGED <<queue, cmd, rejected, taken, completed, sent, epc, req>>
            /\ rpc = "stop" /\ rpc' = "send"
        BY <3>5 DEF ReaderStop, engine, results, ReaderGoto
      <4>2. HeldTags' \subseteq {NoJob}
        BY <4>1 DEF HeldTags, SafetyBranch
      <4> QED BY <4>1, <4>2, TagFrame
    <3> QED BY <2>3, <3>1, <3>2, <3>3, <3>4, <3>5 DEF Reader
  <2>4. CASE Engine
    <3>1. CASE EngineRecv
      BY <3>1, TagRecv
    <3>2. CASE EngineComplete
      BY <3>2, TagComplete
    <3>3. CASE EngineTake("gate", "take_gate", "take_source_dc")
      <4>1. "gate" \in Slots /\ "source_dc" \in Slots /\ "run" \in Slots
        BY DEF Slots
      <4>2. epc = "take_gate" /\ epc' = "take_source_dc"
        BY <3>3 DEF EngineTake
      <4>3. taken["gate"] = Nil /\ taken["source_dc"] = Nil /\ taken["run"] = Nil
        BY <4>2 DEF TagInv
      <4> QED BY <3>3, <4>1, <4>2, <4>3, TagTake DEF TagInv
    <3>4. CASE EngineTake("source_dc", "take_source_dc", "take_run")
      <4>1. "gate" \in Slots /\ "source_dc" \in Slots /\ "run" \in Slots
        BY DEF Slots
      <4>2. epc = "take_source_dc" /\ epc' = "take_run"
        BY <3>4 DEF EngineTake
      <4>3. taken["source_dc"] = Nil /\ taken["run"] = Nil
        BY <4>2 DEF TagInv
      <4> QED BY <3>4, <4>1, <4>2, <4>3, TagTake DEF TagInv
    <3>5. CASE EngineTake("run", "take_run", "complete")
      <4>1. "run" \in Slots
        BY DEF Slots
      <4>2. epc = "take_run" /\ epc' = "complete"
        BY <3>5 DEF EngineTake
      <4>3. taken["run"] = Nil
        BY <4>2 DEF TagInv
      <4> QED BY <3>5, <4>1, <4>2, <4>3, TagTake DEF TagInv
    <3>6. CASE \/ EngineLoop \/ EngineIdle \/ EnginePerform \/ EngineBegin \/ EngineTest
               \/ EngineDrive \/ EngineFinish \/ EngineUnwind \/ EngineSettle \/ EngineExit
               \/ EngineAck \/ EngineAckLoad \/ EngineAckStop \/ EngineRelease
      <4>1. /\ UNCHANGED <<queue, cmd, rejected, taken, completed, sent, rpc, req>>
            /\ epc \notin TakePc
        BY <3>6 DEF EngineLoop, EngineIdle, EnginePerform, EngineBegin, EngineTest, EngineDrive,
                    EngineFinish, EngineUnwind, EngineSettle, EngineExit, EngineAck,
                    EngineAckLoad, EngineAckStop, EngineRelease, EngineGoto, control, reader,
                    results, TakePc
      <4>2. HeldTags' = HeldTags
        BY <4>1 DEF HeldTags
      <4> QED BY <4>1, <4>2, TagFrame
    <3> QED BY <2>4, <3>1, <3>2, <3>3, <3>4, <3>5, <3>6 DEF Engine, EngineDrain
  <2> QED BY <2>1, <2>2, <2>3, <2>4 DEF Next
<1>3. TagInv => NeverReplayed
  <2> SUFFICES ASSUME TagInv PROVE NeverReplayed
    OBVIOUS
  <2>1. RejectedJobs = SlotTags(rejected) \cup SlotTags(taken)
    BY DEF RejectedJobs, SlotTags
  <2>2. \A i \in 1..Len(queue) : queue[i].job \in QueueTags
    BY DEF QueueTags
  <2> QED BY <2>1, <2>2 DEF TagInv, TagPlaces, Apart, OnceDone, NeverReplayed
<1> QED BY <1>1, <1>2, <1>3, TypedInvariant, SafetyBranchInvariant, PTL DEF Spec

=============================================================================
