-------------------------- MODULE GuiControl_proofs --------------------------
(* Theorems about GuiControl and the EngineClient it extends, for any number *)
(* of clients and request_ids, any capacity of the command queue and any     *)
(* number of receipts.                                                       *)
EXTENDS GuiControl, SequenceTheorems, TLAPS

-----------------------------------------------------------------------------
(* The inductive invariant *)

JobKinds == {"Run", "SetGate", "Connect"}
Tags == {Nil} \cup (Ids \X Nat)
Line == [kind : JobKinds, tag : Tags, n : Nat]

\* Commands that may still reach the pipe, and carry the numbers of Energising.
Waiting == {queue[i] : i \in 1..Len(queue)} \cup (IF wpc = "received" THEN {line} ELSE {})

ClientType ==
    /\ mask \subseteq SafetyKinds /\ serial \in Nat /\ before \in [SafetyKinds -> Nat]
    /\ exposed \in [SafetyKinds -> SUBSET Nat]
    /\ queue \in Seq(Line)
    /\ wpc \in {"look", "received", "drained", "clear", "ended"}
    /\ wpc = "received" => line \in Line
    /\ wpc = "clear" => line.kind \in SafetyKinds

\* What can still be written is younger than every safety request that does not
\* wait any more; while one is being written nothing energising waits.
ClientInv ==
    /\ ClientType
    /\ \A k \in SafetyKinds : before[k] <= serial
    /\ SafetyLast
    /\ \A k \in SafetyKinds \ mask : \A c \in Waiting : c.kind \in Energising => c.n > before[k]
    /\ wpc \in {"drained", "clear"} => mask # {} /\ \A c \in Waiting : c.kind \notin Energising
    /\ wpc = "clear" => exposed[line.kind] = {}

IsJob(a) == \E i \in Ids, t \in Tags, c \in Seq(JobKinds) : \E s :
                a = [id |-> i, tag |-> t, commands |-> c, safety |-> s]

\* The commands a job has left and those dispatched are together its method's.
JobInv ==
    /\ used \subseteq Ids \X Methods /\ spent \in [Ids -> Nat]
    /\ \A u, v \in used : u[1] = v[1] => u = v
    /\ \A i \in Ids : spent[i] > 0 => \E u \in used : u[1] = i
    /\ AtMostOnce
    /\ active # Nil => /\ IsJob(active)
                       /\ \E u \in used : /\ u[1] = active.id
                                          /\ spent[u[1]] + Len(active.commands) <= Len(Commands[u[2]])

\* Between the loss of a lease and the end of the lock nobody has the lease, and
\* the job in progress has no commands left.
RetireInv == retiring => owner = Nil /\ (active # Nil => active.commands = <<>>)

Inv == ClientInv /\ JobInv /\ RetireInv

-----------------------------------------------------------------------------
(* The engine client *)

clientVars == <<mask, queue, serial, before, wpc, line, exposed>>

\* Steps of the other threads.
LEMMA ClientStutter ==
    ASSUME ClientInv, UNCHANGED clientVars
    PROVE  ClientInv'
BY DEF ClientInv, ClientType, SafetyLast, Waiting, clientVars

\* A command at the end of the queue.
LEMMA QueueAppend ==
    ASSUME NEW q \in Seq(Line), NEW c \in Line
    PROVE  /\ Append(q, c) \in Seq(Line)
           /\ \A d \in {Append(q, c)[i] : i \in 1..Len(Append(q, c))} :
                d = c \/ d \in {q[i] : i \in 1..Len(q)}
<1>1. /\ Append(q, c) \in Seq(Line) /\ Len(Append(q, c)) = Len(q) + 1 /\ Len(q) \in Nat
      /\ \A i \in 1..Len(q) : Append(q, c)[i] = q[i]
      /\ Append(q, c)[Len(q) + 1] = c
  OBVIOUS
<1>2. ASSUME NEW i \in 1..Len(Append(q, c))
      PROVE  Append(q, c)[i] = c \/ Append(q, c)[i] \in {q[j] : j \in 1..Len(q)}
  <2>1. i \in 1..Len(q) \/ i = Len(q) + 1
    BY <1>1
  <2> QED BY <1>1, <2>1
<1> QED BY <1>1, <1>2

\* submit_command: a safety request is younger than everything that waits, and
\* an energising command is accepted only when no request waits.
LEMMA SubmitClient ==
    ASSUME ClientInv, NEW kind \in SafetyKinds \cup JobKinds, NEW tag \in Tags,
           Accepts(kind), Submit(kind, tag), UNCHANGED <<wpc, line, exposed>>
    PROVE  ClientInv'
<1> USE DEF ClientInv
<1>1. CASE kind \in SafetyKinds
  <2>1. /\ mask' = mask \cup {kind} /\ before' = [before EXCEPT ![kind] = serial]
        /\ queue' = queue /\ serial' = serial
    BY <1>1 DEF Submit
  <2>2. ClientType'
    BY <1>1, <2>1 DEF ClientType
  <2>3. Waiting' = Waiting
    BY <2>1 DEF Waiting
  <2>4. \A k \in SafetyKinds : before'[k] <= serial'
    BY <1>1, <2>1 DEF ClientType
  <2>5. \A k \in SafetyKinds \ mask' : before'[k] = before[k] /\ k \notin mask
    BY <1>1, <2>1 DEF ClientType
  <2> QED BY <2>1, <2>2, <2>3, <2>4, <2>5 DEF SafetyLast
<1>2. CASE kind \notin SafetyKinds
  <2> DEFINE c == Command(kind, tag, serial')
  <2>1. /\ serial' = serial + (IF kind \in Energising THEN 1 ELSE 0)
        /\ queue' = Append(queue, c) /\ mask' = mask /\ before' = before
    BY <1>2 DEF Submit
  <2>2. kind \in Energising => mask = {}
    BY <1>2 DEF Accepts
  <2>3. serial \in Nat /\ serial' \in Nat /\ serial' >= serial
        /\ (kind \in Energising => serial' = serial + 1)
    BY <2>1 DEF ClientType
  <2>4. c \in Line /\ c.kind = kind /\ c.n = serial'
    BY <1>2, <2>3 DEF Command, Line
  <2> HIDE DEF c
  <2>5. queue' \in Seq(Line) /\ \A d \in Waiting' : d = c \/ d \in Waiting
    BY <2>1, <2>4, QueueAppend DEF Waiting, ClientType
  <2>6. ClientType'
    BY <2>1, <2>3, <2>5 DEF ClientType
  <2>7. \A k \in SafetyKinds : before'[k] <= serial'
    BY <2>1, <2>3 DEF ClientType
  <2>8. \A k \in SafetyKinds : c.kind \in Energising => c.n > before[k]
    BY <2>3, <2>4 DEF ClientType
  <2>9. \A k \in SafetyKinds \ mask' : \A d \in Waiting' : d.kind \in Energising => d.n > before'[k]
    BY <2>1, <2>5, <2>8
  <2>10. wpc' \in {"drained", "clear"} => mask' # {} /\ \A d \in Waiting' : d.kind \notin Energising
    BY <2>1, <2>2, <2>4, <2>5
  <2> QED BY <2>1, <2>6, <2>7, <2>9, <2>10 DEF SafetyLast
<1> QED BY <1>1, <1>2

\* The top of the writer's loop: everything waiting is dropped when a safety
\* request waits, else one command is taken.
LEMMA LookClient ==
    ASSUME ClientInv, WriterLook
    PROVE  ClientInv'
<1> USE DEF ClientInv
<1>1. UNCHANGED <<mask, serial, before, exposed>> /\ wpc = "look" /\ queue \in Seq(Line)
  BY DEF WriterLook, ClientType
<1>2. CASE mask # {} /\ wpc' = "drained" /\ queue' = <<>>
  <2>1. queue' \in Seq(Line) /\ Waiting' = {}
    BY <1>2 DEF Waiting
  <2>2. ClientType'
    BY <1>1, <1>2, <2>1 DEF ClientType
  <2> QED BY <1>1, <1>2, <2>1, <2>2 DEF SafetyLast
<1>3. CASE queue # <<>> /\ wpc' = "received" /\ line' = Head(queue) /\ queue' = Tail(queue)
  <2>1. /\ Head(queue) \in Line /\ Tail(queue) \in Seq(Line) /\ Head(queue) = queue[1]
        /\ Len(Tail(queue)) = Len(queue) - 1 /\ Len(queue) \in Nat /\ Len(queue) # 0
        /\ \A i \in 1..Len(Tail(queue)) : Tail(queue)[i] = queue[i + 1]
    BY <1>1, <1>3, HeadTailProperties
  <2>2. ASSUME NEW c \in Waiting' PROVE c \in Waiting
    <3>1. CASE c = Head(queue)
      <4>1. 1 \in 1..Len(queue)
        BY <2>1
      <4> QED BY <2>1, <3>1, <4>1 DEF Waiting
    <3>2. CASE c # Head(queue)
      <4>1. PICK i \in 1..Len(Tail(queue)) : c = Tail(queue)[i]
        BY <1>3, <3>2 DEF Waiting
      <4>2. i + 1 \in 1..Len(queue) /\ c = queue[i + 1]
        BY <2>1, <4>1
      <4> QED BY <4>2 DEF Waiting
    <3> QED BY <3>1, <3>2
  <2>3. ClientType'
    BY <1>1, <1>3, <2>1 DEF ClientType
  <2> QED BY <1>1, <1>3, <2>2, <2>3 DEF SafetyLast
<1> QED BY <1>2, <1>3 DEF WriterLook, WriterGoto

\* write_command of a line.
LEMMA WriteFacts ==
    ASSUME NEW c, NEW next, Write(c, next)
    PROVE  \/ wpc' = "ended" /\ UNCHANGED exposed
           \/ /\ wpc' = next /\ (next = "clear" => line' = c)
              /\ exposed' = [k \in SafetyKinds |->
                               CASE k = c.kind -> {}
                                 [] c.kind \in Energising -> exposed[k] \cup {c.n}
                                 [] OTHER -> exposed[k]]
BY DEF Write, WriterGoto

\* The command in hand is written only when no safety request came meanwhile.
LEMMA SendClient ==
    ASSUME ClientInv, WriterSend
    PROVE  ClientInv'
<1> USE DEF ClientInv
<1>1. UNCHANGED <<mask, queue, serial, before>> /\ wpc = "received" /\ line \in Line /\ line \in Waiting
  BY DEF WriterSend, ClientType, Waiting
<1>2. wpc' \in {"look", "ended"} => Waiting' \subseteq Waiting
  BY <1>1 DEF Waiting
<1>3. CASE wpc' \in {"look", "ended"} /\ exposed' = exposed
  <2>1. ClientType'
    BY <1>1, <1>3 DEF ClientType
  <2> QED BY <1>1, <1>2, <1>3, <2>1 DEF SafetyLast
<1>4. CASE /\ wpc' = "look" /\ mask = {}
           /\ exposed' = [k \in SafetyKinds |->
                            CASE k = line.kind -> {}
                              [] line.kind \in Energising -> exposed[k] \cup {line.n}
                              [] OTHER -> exposed[k]]
  <2>1. line.kind \notin SafetyKinds /\ line.n \in Nat
    BY <1>1 DEF Line, JobKinds, SafetyKinds
  <2>2. ASSUME NEW k \in SafetyKinds
        PROVE  /\ exposed'[k] \subseteq Nat
               /\ \A n \in exposed'[k] : n \in exposed[k] \/ (line.kind \in Energising /\ n = line.n)
    <3>1. exposed'[k] = IF line.kind \in Energising THEN exposed[k] \cup {line.n} ELSE exposed[k]
      BY <1>4, <2>1
    <3> QED BY <2>1, <3>1 DEF ClientType
  <2>3. exposed' \in [SafetyKinds -> SUBSET Nat]
    <3>1. exposed' = [k \in SafetyKinds |-> exposed'[k]]
      BY <1>4
    <3> QED BY <2>2, <3>1
  <2>4. ClientType'
    BY <1>1, <1>4, <2>3 DEF ClientType
  <2>5. SafetyLast'
    BY <1>1, <1>4, <2>2 DEF SafetyLast
  <2> QED BY <1>1, <1>2, <1>4, <2>4, <2>5
<1> QED BY <1>3, <1>4, WriteFacts DEF WriterSend, WriterGoto

\* The line of a safety request: nothing submitted before it was written since.
LEMMA SafetyClient ==
    ASSUME ClientInv, WriterSafety
    PROVE  ClientInv'
<1> USE DEF ClientInv
<1> DEFINE c == Command(SafetyCommand(mask), Nil, 0)
<1>1. UNCHANGED <<mask, queue, serial, before>> /\ wpc = "drained"
  BY DEF WriterSafety
<1>2. c.kind \in SafetyKinds /\ c.kind \notin Energising
  BY DEF Command, SafetyCommand, SafetyKinds, Energising
<1>3. Write(c, "clear")
  BY DEF WriterSafety
<1> HIDE DEF c
<1>4. wpc' \in {"clear", "ended"} => Waiting' = Waiting
  BY <1>1 DEF Waiting
<1>5. CASE wpc' = "ended" /\ exposed' = exposed
  <2>1. ClientType'
    BY <1>1, <1>5 DEF ClientType
  <2> QED BY <1>1, <1>4, <1>5, <2>1 DEF SafetyLast
<1>6. CASE /\ wpc' = "clear" /\ line' = c
           /\ exposed' = [k \in SafetyKinds |->
                            CASE k = c.kind -> {}
                              [] c.kind \in Energising -> exposed[k] \cup {c.n}
                              [] OTHER -> exposed[k]]
  <2>1. \A k \in SafetyKinds : exposed'[k] = IF k = c.kind THEN {} ELSE exposed[k]
    BY <1>2, <1>6
  <2>2. exposed' \in [SafetyKinds -> SUBSET Nat]
    <3>1. exposed' = [k \in SafetyKinds |-> exposed'[k]]
      BY <1>6
    <3> QED BY <2>1, <3>1 DEF ClientType
  <2>3. ClientType'
    BY <1>1, <1>2, <1>6, <2>2 DEF ClientType
  <2>4. SafetyLast'
    BY <1>1, <2>1 DEF SafetyLast
  <2>5. exposed'[line'.kind] = {}
    BY <1>2, <1>6, <2>1
  <2> QED BY <1>1, <1>4, <1>6, <2>3, <2>4, <2>5
<1> QED BY <1>3, <1>5, <1>6, WriteFacts

\* Its flag goes: nothing energising waits, and nothing was written since.
LEMMA ClearClient ==
    ASSUME ClientInv, WriterClear
    PROVE  ClientInv'
<1> USE DEF ClientInv
<1>1. /\ UNCHANGED <<queue, serial, before, exposed>> /\ mask' = mask \ {line.kind} /\ wpc = "clear"
      /\ wpc' \in {"look", "ended"}
  BY DEF WriterClear, WriterGoto
<1>2. ClientType' /\ Waiting' = Waiting
  BY <1>1 DEF ClientType, Waiting
<1>3. SafetyLast'
  BY <1>1 DEF SafetyLast
<1> QED BY <1>1, <1>2, <1>3

\* A heartbeat that cannot be written ends the thread.
LEMMA HeartbeatClient ==
    ASSUME ClientInv, WriterHeartbeat
    PROVE  ClientInv'
<1> USE DEF ClientInv
<1>1. UNCHANGED <<mask, queue, serial, before, exposed>> /\ wpc = "look" /\ wpc' = "ended"
  BY DEF WriterHeartbeat, WriterGoto
<1>2. ClientType' /\ Waiting' = Waiting
  BY <1>1 DEF ClientType, Waiting
<1> QED BY <1>1, <1>2 DEF SafetyLast

-----------------------------------------------------------------------------
(* Jobs *)

\* What a step of the GUI thread does to the command channel: at most one
\* submission, of a known kind.
OneSubmission ==
    /\ UNCHANGED <<wpc, line, exposed>>
    /\ \/ UNCHANGED <<mask, queue, serial, before>>
       \/ \E kind \in SafetyKinds \cup JobKinds, tag \in Tags : Accepts(kind) /\ Submit(kind, tag)

\* `IvApp::send` of a safety command.
LEMMA SendOne ==
    ASSUME NEW kind \in SafetyKinds, Send(kind), UNCHANGED outside
    PROVE  OneSubmission
BY DEF Send, OneSubmission, outside, client, writer, Tags

\* A step that submits nothing.
LEMMA QuietOne ==
    ASSUME UNCHANGED client, UNCHANGED outside
    PROVE  OneSubmission
BY DEF OneSubmission, outside, client, writer

\* The methods and their commands.
LEMMA CommandsFacts ==
    \A m \in Methods : Commands[m] \in Seq(JobKinds)
<1>1. Methods = {"start", "connect", "set_gate_voltage"}
  BY DEF Methods, Commands
<1>2. /\ Commands["start"] = <<"Run">> /\ Commands["connect"] = <<"Connect", "Connect">>
      /\ Commands["set_gate_voltage"] = <<"SetGate">>
  BY DEF Commands
<1>3. /\ <<"Run">> \in Seq(JobKinds) /\ <<"Connect", "Connect">> \in Seq(JobKinds)
      /\ <<"SetGate">> \in Seq(JobKinds)
  BY DEF JobKinds
<1> QED BY <1>1, <1>2, <1>3

\* A job without its remaining commands.
LEMMA JobCut ==
    ASSUME NEW a, IsJob(a)
    PROVE  /\ IsJob([a EXCEPT !.commands = <<>>])
           /\ [a EXCEPT !.commands = <<>>].id = a.id
           /\ [a EXCEPT !.commands = <<>>].commands = <<>>
           /\ a.id \in Ids /\ a.commands \in Seq(JobKinds) /\ Len(a.commands) \in Nat /\ Len(<<>>) = 0
<1>1. PICK i \in Ids, t \in Tags, c \in Seq(JobKinds) : \E s :
          a = [id |-> i, tag |-> t, commands |-> c, safety |-> s]
  BY DEF IsJob
<1>2. PICK s : a = [id |-> i, tag |-> t, commands |-> c, safety |-> s]
  BY <1>1
<1>3. [a EXCEPT !.commands = <<>>] = [id |-> i, tag |-> t, commands |-> <<>>, safety |-> s]
  BY <1>2
<1>4. <<>> \in Seq(JobKinds) /\ Len(<<>>) = 0
  OBVIOUS
<1>5. IsJob([a EXCEPT !.commands = <<>>])
  BY <1>3, <1>4 DEF IsJob
<1> QED BY <1>2, <1>3, <1>4, <1>5

\* Steps that dispatch nothing and begin nothing: the job goes on, is cut short
\* or ends.
LEMMA JobKept ==
    ASSUME JobInv, UNCHANGED <<used, spent>>,
           \/ active' = active
           \/ active' = Nil
           \/ active # Nil /\ active' = [active EXCEPT !.commands = <<>>]
    PROVE  JobInv'
<1>1. CASE active' = active
  BY <1>1 DEF JobInv, AtMostOnce
<1>2. CASE active' = Nil
  BY <1>2 DEF JobInv, AtMostOnce
<1>3. CASE active # Nil /\ active' = [active EXCEPT !.commands = <<>>]
  <2>1. PICK u \in used : u[1] = active.id /\ spent[u[1]] + Len(active.commands) <= Len(Commands[u[2]])
    BY <1>3 DEF JobInv
  <2>2. u[1] \in Ids /\ u[2] \in Methods /\ spent[u[1]] \in Nat
    BY <2>1 DEF JobInv
  <2>3. Len(Commands[u[2]]) \in Nat
    BY <2>2, CommandsFacts
  <2>4. /\ IsJob(active') /\ active'.id = active.id /\ active'.commands = <<>>
        /\ Len(active.commands) \in Nat /\ Len(active'.commands) = 0
    BY <1>3, JobCut DEF JobInv
  <2>5. spent[u[1]] + Len(active'.commands) <= Len(Commands[u[2]])
    BY <2>1, <2>2, <2>3, <2>4
  <2> QED BY <2>1, <2>4, <2>5 DEF JobInv, AtMostOnce
<1> QED BY <1>1, <1>2, <1>3

\* begin_job: a request_id that was never used.
LEMMA JobBegun ==
    ASSUME JobInv, NEW id \in Ids, NEW m \in Methods, ~Known(id), UNCHANGED spent, NEW s,
           used' = used \cup {<<id, m>>},
           active' = [id |-> id, tag |-> Nil, commands |-> Commands[m], safety |-> s]
    PROVE  JobInv'
<1> DEFINE new == <<id, m>>
<1>1. ASSUME NEW u \in used PROVE u[1] # id
  <2>1. u \in Ids \X Methods
    BY DEF JobInv
  <2>2. u = <<u[1], u[2]>> /\ u[2] \in Methods
    BY <2>1
  <2>3. ~(<<id, u[2]>> \in used)
    BY <2>2 DEF Known
  <2> QED BY <2>2, <2>3
<1>2. spent[id] = 0
  BY <1>1 DEF JobInv
<1>3. Commands[m] \in Seq(JobKinds) /\ Len(Commands[m]) \in Nat /\ Nil \in Tags
  BY CommandsFacts DEF Tags
<1>4. used' \subseteq Ids \X Methods
  BY DEF JobInv
<1>5. \A u, v \in used' : u[1] = v[1] => u = v
  <2> SUFFICES ASSUME NEW u \in used', NEW v \in used', u[1] = v[1]
               PROVE  u = v
    OBVIOUS
  <2>1. (u \in used \/ u = new) /\ (v \in used \/ v = new) /\ new[1] = id
    OBVIOUS
  <2> HIDE DEF new
  <2>2. CASE u \in used /\ v \in used
    BY <2>2 DEF JobInv
  <2>3. CASE ~(u \in used /\ v \in used)
    BY <1>1, <2>1, <2>3
  <2> QED BY <2>2, <2>3
<1>6. \A i \in Ids : spent'[i] > 0 => \E u \in used' : u[1] = i
  BY DEF JobInv
<1>7. AtMostOnce'
  <2>1. \A u \in used' : spent[u[1]] <= Len(Commands[u[2]])
    BY <1>2, <1>3 DEF JobInv, AtMostOnce
  <2> QED BY <2>1 DEF AtMostOnce
<1>8. IsJob(active') /\ active'.id = id /\ active'.commands = Commands[m]
  BY <1>3 DEF IsJob
<1>9. \E u \in used' : u[1] = active'.id /\ spent'[u[1]] + Len(active'.commands) <= Len(Commands[u[2]])
  <2>1. new \in used' /\ new[1] = active'.id /\ spent'[new[1]] + Len(active'.commands) <= Len(Commands[new[2]])
    BY <1>2, <1>3, <1>8
  <2> QED BY <2>1
<1> QED BY <1>4, <1>5, <1>6, <1>7, <1>8, <1>9 DEF JobInv

\* dispatch_api_command: one more command spent, one less left.
LEMMA JobDispatched ==
    ASSUME JobInv, active # Nil, active.commands # <<>>, UNCHANGED used,
           Dispatch(Head(active.commands), Tail(active.commands)), UNCHANGED outside
    PROVE  JobInv' /\ OneSubmission
<1> DEFINE kind == Head(active.commands)
           tag == <<active.id, spent[active.id] + 1>>
           left == Tail(active.commands)
<1>1. PICK i \in Ids, t \in Tags, c \in Seq(JobKinds) : \E s :
          active = [id |-> i, tag |-> t, commands |-> c, safety |-> s]
  BY DEF JobInv, IsJob
<1>2. PICK s : active = [id |-> i, tag |-> t, commands |-> c, safety |-> s]
  BY <1>1
<1>3. active.id = i /\ active.commands = c /\ c # <<>>
  BY <1>2
<1>4. kind \in JobKinds /\ left \in Seq(JobKinds) /\ Len(left) = Len(c) - 1 /\ Len(c) \in Nat
  BY <1>3, HeadTailProperties
<1>5. spent[i] \in Nat /\ tag \in Tags
  BY <1>3 DEF JobInv, Tags
<1>6. /\ spent' = [spent EXCEPT ![i] = @ + 1]
      /\ \/ Accepts(kind) /\ Submit(kind, tag) /\ active' = [active EXCEPT !.tag = tag, !.commands = left]
         \/ active' = Nil /\ Send("OutputOff")
  BY <1>3 DEF Dispatch, Finish
<1>7. OneSubmission
  <2>1. CASE Accepts(kind) /\ Submit(kind, tag)
    BY <1>4, <1>5, <2>1 DEF OneSubmission, outside, writer
  <2>2. CASE Send("OutputOff")
    BY <2>2, SendOne DEF SafetyKinds
  <2> QED BY <1>6, <2>1, <2>2
<1> HIDE DEF kind, tag, left
<1>8. PICK u \in used : u[1] = i /\ spent[u[1]] + Len(c) <= Len(Commands[u[2]])
  BY <1>3 DEF JobInv
<1>9. u[2] \in Methods /\ Len(Commands[u[2]]) \in Nat
  BY <1>8, CommandsFacts DEF JobInv
<1>10. spent' \in [Ids -> Nat] /\ spent'[i] = spent[i] + 1 /\ \A j \in Ids \ {i} : spent'[j] = spent[j]
  BY <1>5, <1>6 DEF JobInv
<1>11. \A j \in Ids : spent'[j] > 0 => \E v \in used : v[1] = j
  BY <1>8, <1>10 DEF JobInv
<1>12. Len(left) \in Nat /\ spent'[i] + Len(left) <= Len(Commands[u[2]])
  <2>1. Len(left) \in Nat
    BY <1>4
  <2> QED BY <1>4, <1>5, <1>8, <1>9, <1>10, <2>1
<1>13. AtMostOnce'
  <2>1. ASSUME NEW v \in used PROVE spent'[v[1]] <= Len(Commands[v[2]])
    <3>1. CASE v[1] = i
      <4>1. v = u
        BY <1>8, <3>1 DEF JobInv
      <4> QED BY <1>8, <1>9, <1>10, <1>12, <4>1
    <3>2. CASE v[1] # i
      BY <1>10, <3>2 DEF JobInv, AtMostOnce
    <3> QED BY <3>1, <3>2
  <2> QED BY <2>1 DEF AtMostOnce
<1>14. active' # Nil => /\ IsJob(active')
                        /\ \E v \in used : /\ v[1] = active'.id
                                           /\ spent'[v[1]] + Len(active'.commands) <= Len(Commands[v[2]])
  <2>1. CASE active' = Nil
    BY <2>1
  <2>2. CASE active' = [active EXCEPT !.tag = tag, !.commands = left]
    <3>1. active' = [id |-> i, tag |-> tag, commands |-> left, safety |-> s]
      BY <1>2, <2>2
    <3>2. IsJob(active') /\ active'.id = i /\ active'.commands = left
      BY <1>4, <1>5, <3>1 DEF IsJob
    <3> QED BY <1>8, <1>12, <3>2
  <2> QED BY <1>6, <2>1, <2>2
<1>15. JobInv'
  BY <1>10, <1>11, <1>13, <1>14 DEF JobInv
<1> QED BY <1>7, <1>15

-----------------------------------------------------------------------------
(* The steps of the GUI thread *)

\* What a step of the GUI thread must show.
GuiStep ==
    /\ OneSubmission
    /\ JobInv'
    /\ RetireInv'
    /\ retiring => spent' = spent

\* A job that is cut short, ended or left alone keeps the lock's promise.
LEMMA RetireKept ==
    ASSUME RetireInv, JobInv,
           \/ active' = active
           \/ active' = Nil
           \/ active # Nil /\ active' = [active EXCEPT !.commands = <<>>],
           retiring' => retiring, retiring' => owner' = owner
    PROVE  RetireInv'
BY JobCut DEF RetireInv, JobInv

\* `cancel_pending`, and `revoke`, leave no commands.
LEMMA CancelFacts ==
    ASSUME JobInv, CancelPending
    PROVE  /\ \/ active' = Nil
              \/ active # Nil /\ active' = [active EXCEPT !.commands = <<>>]
           /\ active' # Nil => active'.commands = <<>>
BY JobCut DEF JobInv, CancelPending

\* advance: the job waits, ends, or dispatches its next command.
LEMMA AdvanceFacts ==
    ASSUME AdvanceJob
    PROVE  \/ UNCHANGED <<active, spent, client>>
           \/ active' = Nil /\ UNCHANGED <<spent, client>>
           \/ active # Nil /\ active.commands # <<>> /\ Dispatch(Head(active.commands), Tail(active.commands))
BY DEF AdvanceJob, Finish

\* Both times a frame advances the job.
LEMMA AdvanceStep ==
    ASSUME JobInv, RetireInv, AdvanceJob, UNCHANGED <<outside, used, owner>>, retiring' => retiring
    PROVE  GuiStep
<1>1. CASE UNCHANGED <<active, spent, client>>
  BY <1>1, QuietOne, JobKept, RetireKept DEF GuiStep
<1>2. CASE active' = Nil /\ UNCHANGED <<spent, client>>
  BY <1>2, QuietOne, JobKept, RetireKept DEF GuiStep
<1>3. CASE active # Nil /\ active.commands # <<>> /\ Dispatch(Head(active.commands), Tail(active.commands))
  <2>1. ~retiring
    BY <1>3 DEF RetireInv
  <2>2. JobInv' /\ OneSubmission
    BY <1>3, JobDispatched
  <2> QED BY <2>1, <2>2 DEF GuiStep, RetireInv
<1> QED BY <1>1, <1>2, <1>3, AdvanceFacts

\* The frame: the lease is in time, expired or lost with the engine, and the
\* job advances twice.
LEMMA FrameStep ==
    ASSUME JobInv, RetireInv, Frame \/ FrameExpires
    PROVE  GuiStep
<1>1. CASE FrameBegin
  <2>1. UNCHANGED <<outside, used, spent>>
    BY <1>1 DEF FrameBegin
  <2>2. CASE LeaseKept
    BY <2>1, <2>2, QuietOne, JobKept, RetireKept DEF LeaseKept, lease, GuiStep
  <2>3. CASE EngineLost
    <3>1. ~retiring' /\ UNCHANGED client /\ (active' = active \/ active' = Nil)
      BY <2>3 DEF EngineLost, Finish
    <3> QED BY <2>1, <3>1, QuietOne, JobKept, RetireKept DEF GuiStep
  <2> QED BY <1>1, <2>2, <2>3 DEF FrameBegin
<1>2. CASE FrameExpires
  <2>1. UNCHANGED <<outside, used, spent>> /\ LeaseExpired
    BY <1>2 DEF FrameExpires
  <2>2. CASE owner.stops
    <3>1. CancelPending /\ owner' = Nil /\ Send("OutputOff")
      BY <2>1, <2>2 DEF LeaseExpired, Revoke, CancelPending
    <3>2. OneSubmission
      BY <2>1, <3>1, SendOne DEF SafetyKinds
    <3> QED BY <2>1, <3>1, <3>2, CancelFacts, JobKept DEF GuiStep, RetireInv
  <2>3. CASE ~owner.stops
    <3>1. ~retiring' /\ active' = active /\ UNCHANGED client
      BY <2>1, <2>3 DEF LeaseExpired
    <3> QED BY <2>1, <3>1, QuietOne, JobKept, RetireKept DEF GuiStep
  <2> QED BY <2>2, <2>3
<1>3. CASE AdvanceFirst
  <2>1. AdvanceJob /\ UNCHANGED <<outside, used, owner>> /\ (retiring' => retiring)
    BY <1>3 DEF AdvanceFirst, Settle
  <2> QED BY <2>1, AdvanceStep
<1>4. CASE AdvanceAgain
  <2>1. AdvanceJob /\ UNCHANGED <<outside, used, owner>> /\ (retiring' => retiring)
    BY <1>4 DEF AdvanceAgain, lease
  <2> QED BY <2>1, AdvanceStep
<1> QED BY <1>1, <1>2, <1>3, <1>4 DEF Frame

\* The requests of a Python client.
LEMMA RequestStep ==
    ASSUME JobInv, RetireInv, Request
    PROVE  GuiStep
<1>1. ASSUME NEW c \in Clients, NEW stops \in BOOLEAN, Acquire(c, stops) PROVE GuiStep
  <2>1. /\ UNCHANGED <<outside, spent, used, active, client>> /\ retiring' = retiring
        /\ (owner = Nil => ~retiring)
    BY <1>1 DEF Acquire, Answer, HasLease
  <2>2. ~retiring
    BY <2>1 DEF RetireInv
  <2> QED BY <2>1, <2>2, QuietOne, JobKept DEF GuiStep, RetireInv
<1>2. CASE Detach
  <2>1. /\ UNCHANGED <<outside, spent, used, active, client>> /\ retiring' = retiring /\ owner' = Nil
    BY <1>2 DEF Detach, Serve, Answer
  <2> QED BY <2>1, QuietOne, JobKept DEF GuiStep, RetireInv
<1>3. CASE Release
  <2>1. /\ UNCHANGED <<outside, spent, used>> /\ owner # Nil /\ Send("OutputOff")
        /\ (CancelPending \/ (active = Nil /\ active' = active))
        /\ ((owner' = Nil) \/ retiring' = retiring)
    BY <1>3 DEF Release, Serve, Answer
  <2>2. ~retiring
    BY <2>1 DEF RetireInv
  <2>3. OneSubmission
    BY <2>1, SendOne DEF SafetyKinds
  <2>4. /\ \/ active' = Nil
           \/ active # Nil /\ active' = [active EXCEPT !.commands = <<>>]
        /\ active' # Nil => active'.commands = <<>>
    BY <2>1, CancelFacts
  <2> QED BY <2>1, <2>2, <2>3, <2>4, JobKept DEF GuiStep, RetireInv
<1>4. ASSUME NEW kind \in {"Stop", "OutputOff", "GateOff"}, RequestSafety(kind) PROVE GuiStep
  <2>1. /\ UNCHANGED <<outside, spent, used, owner, retiring>> /\ Send(kind) /\ CancelPending
    BY <1>4 DEF RequestSafety, Serve, Answer, lease
  <2>2. OneSubmission
    BY <2>1, SendOne DEF SafetyKinds
  <2> QED BY <2>1, <2>2, CancelFacts, JobKept, RetireKept DEF GuiStep
<1>5. ASSUME NEW id \in Ids, NEW method \in Methods, BeginJob(id, method) PROVE GuiStep
  <2>1. /\ UNCHANGED <<outside, spent, client, owner, retiring>> /\ owner # Nil /\ ~Known(id)
        /\ active' = [id |-> id, tag |-> Nil, commands |-> Commands[method], safety |-> view.rev]
        /\ used' = used \cup {<<id, method>>}
    BY <1>5 DEF BeginJob, Serve, Answer, lease
  <2>2. ~retiring
    BY <2>1 DEF RetireInv
  <2>3. JobInv'
    BY <2>1, JobBegun
  <2> QED BY <2>1, <2>2, <2>3, QuietOne DEF GuiStep, RetireInv
<1> QED BY <1>1, <1>2, <1>3, <1>4, <1>5 DEF Request

\* The operator's buttons.
LEMMA OperatorStep ==
    ASSUME JobInv, RetireInv, Operator
    PROVE  GuiStep
<1>1. CASE BannerStop
  <2>1. UNCHANGED <<outside, spent, used, owner, retiring>> /\ Send("Stop") /\ CancelPending
    BY <1>1 DEF BannerStop, Click, lease
  <2>2. OneSubmission
    BY <2>1, SendOne DEF SafetyKinds
  <2> QED BY <2>1, <2>2, CancelFacts, JobKept, RetireKept DEF GuiStep
<1>2. CASE TakeControl
  <2>1. UNCHANGED <<outside, spent, used>> /\ owner' = Nil /\ Send("OutputOff") /\ CancelPending
    BY <1>2 DEF TakeControl, Click, Revoke, CancelPending
  <2>2. OneSubmission
    BY <2>1, SendOne DEF SafetyKinds
  <2> QED BY <2>1, <2>2, CancelFacts, JobKept DEF GuiStep, RetireInv
<1>3. CASE StartRun
  <2>1. UNCHANGED <<outside, spent, used, owner, retiring, active>> /\ Accepts("Run") /\ Submit("Run", Nil)
    BY <1>3 DEF StartRun, Click, lease
  <2>2. OneSubmission
    <3>1. "Run" \in SafetyKinds \cup JobKinds /\ Nil \in Tags
      BY DEF JobKinds, Tags
    <3> QED BY <2>1, <3>1 DEF OneSubmission, outside, writer
  <2> QED BY <2>1, <2>2, JobKept, RetireKept DEF GuiStep
<1>4. CASE StopButton \/ RequestClose
  <2>1. UNCHANGED <<outside, spent, used, owner, retiring, active>> /\ Send("Stop")
    BY <1>4 DEF StopButton, RequestClose, Click, lease
  <2>2. OneSubmission
    BY <2>1, SendOne DEF SafetyKinds
  <2> QED BY <2>1, <2>2, JobKept, RetireKept DEF GuiStep
<1>5. CASE Close
  <2>1. UNCHANGED <<outside, spent, used, owner, retiring, active>> /\ Send("Shutdown")
    BY <1>5 DEF Close, lease, work
  <2>2. OneSubmission
    BY <2>1, SendOne DEF SafetyKinds
  <2> QED BY <2>1, <2>2, JobKept, RetireKept DEF GuiStep
<1> QED BY <1>1, <1>2, <1>3, <1>4, <1>5 DEF Operator

-----------------------------------------------------------------------------
(* The other threads *)

\* The writer thread.
LEMMA WriterClient ==
    ASSUME ClientInv, Writer
    PROVE  ClientInv'
BY LookClient, SendClient, SafetyClient, ClearClient, HeartbeatClient DEF Writer

\* The reader thread and the engine do not touch what waits to be written.
LEMMA EngineQuiet ==
    ASSUME ReaderState \/ ReaderEnd \/ Engine \/ EngineCrash
    PROVE  UNCHANGED clientVars
<1>1. CASE ReaderState
  BY <1>1 DEF ReaderState, client, writer, clientVars
<1>2. CASE ReaderEnd
  BY <1>2 DEF ReaderEnd, writer, clientVars
<1>3. CASE EngineRead
  BY <1>3 DEF EngineRead, client, writer, clientVars
<1>4. CASE EngineTake
  BY <1>4 DEF EngineTake, client, writer, clientVars
<1>5. CASE EngineDone
  BY <1>5 DEF EngineDone, client, writer, clientVars
<1>6. CASE EngineCrash
  BY <1>6 DEF EngineCrash, client, writer, clientVars
<1> QED BY <1>1, <1>2, <1>3, <1>4, <1>5, <1>6 DEF Engine

\* A step that changes nothing of the GUI's.
LEMMA GuiQuiet ==
    ASSUME JobInv, RetireInv, UNCHANGED gui
    PROVE  JobInv' /\ RetireInv' /\ spent' = spent
<1>1. UNCHANGED <<used, spent, active, owner, retiring>>
  BY DEF gui, work, lease
<1> QED BY <1>1, JobKept, RetireKept

-----------------------------------------------------------------------------
\* The client starts with nothing waiting, the GUI without jobs or a lease.
LEMMA InitInv == Init => Inv
<1> SUFFICES ASSUME Init PROVE Inv
  OBVIOUS
<1>1. /\ mask = {} /\ queue = <<>> /\ wpc = "look" /\ serial = 0
      /\ before = [k \in SafetyKinds |-> 0] /\ exposed = [k \in SafetyKinds |-> {}]
  BY DEF Init, ClientInit
<1>2. queue \in Seq(Line) /\ Waiting = {}
  BY <1>1 DEF Waiting
<1>3. before \in [SafetyKinds -> Nat] /\ exposed \in [SafetyKinds -> SUBSET Nat]
  BY <1>1
<1>4. ClientInv
  BY <1>1, <1>2, <1>3 DEF ClientInv, ClientType, SafetyLast
<1>5. active = Nil /\ used = {} /\ spent = [i \in Ids |-> 0] /\ ~retiring
  BY DEF Init
<1>6. JobInv /\ RetireInv
  BY <1>5 DEF JobInv, RetireInv, AtMostOnce
<1> QED BY <1>4, <1>6 DEF Inv

\* Every step keeps the invariant and dispatches nothing under the lock.
LEMMA NextInv ==
    ASSUME Inv, [Next]_vars
    PROVE  Inv' /\ (retiring => spent' = spent)
<1> USE DEF Inv
<1>1. CASE Frame \/ FrameExpires \/ Request \/ Operator
  <2>1. GuiStep
    BY <1>1, FrameStep, RequestStep, OperatorStep
  <2>2. ClientInv'
    <3>1. CASE UNCHANGED <<mask, queue, serial, before>>
      BY <2>1, <3>1, ClientStutter DEF GuiStep, OneSubmission, clientVars
    <3>2. ASSUME NEW kind \in SafetyKinds \cup JobKinds, NEW tag \in Tags, Accepts(kind), Submit(kind, tag)
          PROVE  ClientInv'
      BY <2>1, <3>2, SubmitClient DEF GuiStep, OneSubmission
    <3> QED BY <2>1, <3>1, <3>2 DEF GuiStep, OneSubmission
  <2> QED BY <2>1, <2>2 DEF GuiStep
<1>2. CASE Threads
  <2>1. UNCHANGED gui /\ ClientInv'
    BY <1>2, WriterClient, EngineQuiet, ClientStutter DEF Threads
  <2> QED BY <2>1, GuiQuiet
<1>3. CASE Crash
  <2>1. UNCHANGED gui /\ ClientInv'
    BY <1>3, EngineQuiet, ClientStutter DEF Crash
  <2> QED BY <2>1, GuiQuiet
<1>4. CASE UNCHANGED vars
  <2>1. UNCHANGED gui /\ UNCHANGED clientVars
    BY <1>4 DEF vars, evars, client, writer, clientVars
  <2> QED BY <2>1, GuiQuiet, ClientStutter
<1> QED BY <1>1, <1>2, <1>3, <1>4 DEF Next

\* The inductive invariant holds of every behaviour of the GUI with its client.
THEOREM GuiInvariant == Spec => []Inv
<1>1. Inv /\ [Next]_vars => Inv'
  BY NextInv
<1> QED BY <1>1, InitInv, PTL DEF Spec

\* An accepted Stop or OFF is never lost and never overtaken, whatever the
\* interleaving of submit_command with the writer thread's looks at the mask.
THEOREM SafetyNeverOvertaken == Spec => []SafetyLast
<1>1. Inv => SafetyLast
  BY DEF Inv, ClientInv
<1> QED BY <1>1, GuiInvariant, PTL

\* A request_id runs its method's commands at most once: `used` outlives the
\* receipts, and begin_job and dispatch_api_command keep count.
THEOREM JobsAtMostOnce == Spec => []AtMostOnce
<1>1. Inv => AtMostOnce
  BY DEF Inv, JobInv
<1> QED BY <1>1, GuiInvariant, PTL

\* Between the loss of a lease (revoke, release) and settle_release no command of
\* a job is dispatched.
THEOREM LockedStaysSilent == Spec => RetiringSilent
<1>1. Inv /\ [Next]_vars => [retiring => spent' = spent]_vars
  BY NextInv
<1> QED BY <1>1, GuiInvariant, PTL DEF Spec, RetiringSilent

-----------------------------------------------------------------------------
(* No job waits for something that cannot come *)

Elems(q) == {q[i] : i \in 1..Len(q)}

Cmd == [kind : SafetyKinds \cup JobKinds, tag : Tags, n : Nat]
Snapshot(s) == \E r \in Nat : \E p, u, o, e, d :
                  s = [rev |-> r, phase |-> p, run |-> u, on |-> o, err |-> e, done |-> d]

\* The pipe, the engine and the snapshots on their way to the GUI.
WireType ==
    /\ pipe \in Seq(Cmd) /\ equeue \in Seq(Cmd) /\ rejects \in Seq(Tags) /\ cur \in Cmd \cup {Nil}
    /\ Snapshot(eng) /\ Snapshot(feed) /\ Snapshot(shared) /\ Snapshot(view)

\* The safety revision only grows on its way from the GUI's copy to the engine.
RevInv ==
    /\ view.rev <= eng.rev /\ shared.rev <= eng.rev /\ feed.rev <= eng.rev
    /\ active # Nil => active.safety \in Nat /\ active.safety <= eng.rev

\* The command is in the window of completions.
Completed(t) == \E i \in DOMAIN eng.done : eng.done[i].tag = t

\* The engine executes, has refused or has completed the command.
Given(t) == (cur # Nil /\ cur.tag = t) \/ t \in Elems(rejects) \/ Completed(t)

\* The command is on its way to the engine thread.
Upstream(t) ==
    \/ \E c \in Elems(queue) : c.tag = t
    \/ wpc = "received" /\ line.tag = t
    \/ \E c \in Elems(pipe) : c.tag = t
    \/ \E c \in Elems(equeue) : c.tag = t

\* The writer has dropped commands, or is about to, and owes a safety line.
Dropping == wpc = "drained" \/ (wpc = "look" /\ mask # {})

\* A safety line the engine has not finished yet.
OffComing ==
    \/ \E c \in Elems(pipe) : c.kind \in SafetyKinds
    \/ \E c \in Elems(equeue) : c.kind \in SafetyKinds
    \/ cur # Nil /\ cur.kind \in SafetyKinds

Accounted(t, s) == Upstream(t) \/ Given(t) \/ Dropping \/ OffComing \/ eng.rev > s \/ dead

\* What a job waits for is accounted for along the whole way: a command the
\* writer drops is followed by a safety line, and that by a newer revision.
HeldInv == active # Nil /\ active.tag # Nil => Accounted(active.tag, active.safety)

WaitInv == WireType /\ RevInv /\ HeldInv

\* The engine keeps four completions (complete_gui_job, `gui_jobs`).  Those of
\* commands that were sent for earlier jobs and are finished later push out the
\* one the active job waits for.
Evicts ==
    /\ EngineDone
    /\ active # Nil /\ active.tag # Nil
    /\ Given(active.tag) /\ ~Completed(active.tag)'

\* A queue that grows.
LEMMA ElemsAppend ==
    ASSUME NEW S, NEW q \in Seq(S), NEW c \in S
    PROVE  Append(q, c) \in Seq(S) /\ Elems(Append(q, c)) = Elems(q) \cup {c}
<1>1. /\ Append(q, c) \in Seq(S) /\ Len(Append(q, c)) = Len(q) + 1 /\ Len(q) \in Nat
      /\ \A i \in 1..Len(q) : Append(q, c)[i] = q[i]
      /\ Append(q, c)[Len(q) + 1] = c
  OBVIOUS
<1>2. 1..(Len(q) + 1) = (1..Len(q)) \cup {Len(q) + 1}
  BY <1>1
<1> QED BY <1>1, <1>2 DEF Elems

\* A queue that loses its head.
LEMMA ElemsHead ==
    ASSUME NEW S, NEW q \in Seq(S), q # <<>>
    PROVE  /\ Head(q) \in S /\ Tail(q) \in Seq(S)
           /\ Elems(q) = Elems(Tail(q)) \cup {Head(q)}
<1>1. /\ Head(q) \in S /\ Tail(q) \in Seq(S) /\ Len(q) \in Nat \ {0}
      /\ Head(q) = q[1] /\ Len(Tail(q)) = Len(q) - 1
      /\ \A i \in 1..Len(Tail(q)) : Tail(q)[i] = q[i + 1]
  BY HeadTailProperties, EmptySeq
<1>2. ASSUME NEW i \in 1..Len(q) PROVE q[i] \in Elems(Tail(q)) \cup {Head(q)}
  <2>1. CASE i = 1
    BY <1>1, <2>1
  <2>2. CASE i # 1
    <3>1. i - 1 \in 1..Len(Tail(q)) /\ Tail(q)[i - 1] = q[(i - 1) + 1] /\ (i - 1) + 1 = i
      BY <1>1, <2>2
    <3> QED BY <3>1 DEF Elems
  <2> QED BY <2>1, <2>2
<1>3. ASSUME NEW i \in 1..Len(Tail(q)) PROVE Tail(q)[i] \in Elems(q)
  <2>1. i + 1 \in 1..Len(q) /\ Tail(q)[i] = q[i + 1]
    BY <1>1
  <2> QED BY <2>1 DEF Elems
<1>4. Head(q) \in Elems(q)
  BY <1>1 DEF Elems
<1> QED BY <1>1, <1>2, <1>3, <1>4 DEF Elems

\* The safety revision of a snapshot is a count.
LEMMA SnapshotNat ==
    ASSUME NEW s, Snapshot(s)
    PROVE  s.rev \in Nat
<1>1. PICK r \in Nat : \E p, u, o, e, d :
          s = [rev |-> r, phase |-> p, run |-> u, on |-> o, err |-> e, done |-> d]
  BY DEF Snapshot
<1>2. PICK p, u, o, e, d :
          s = [rev |-> r, phase |-> p, run |-> u, on |-> o, err |-> e, done |-> d]
  BY <1>1
<1> QED BY <1>2

\* A copy of a snapshot with another phase.
LEMMA SnapshotPhase ==
    ASSUME NEW s, Snapshot(s), NEW v, NEW t, t = [s EXCEPT !.phase = v]
    PROVE  Snapshot(t) /\ t.rev = s.rev /\ t.done = s.done
<1>1. PICK r \in Nat : \E p, u, o, e, d :
          s = [rev |-> r, phase |-> p, run |-> u, on |-> o, err |-> e, done |-> d]
  BY DEF Snapshot
<1>2. PICK p, u, o, e, d :
          s = [rev |-> r, phase |-> p, run |-> u, on |-> o, err |-> e, done |-> d]
  BY <1>1
<1>3. t = [rev |-> r, phase |-> v, run |-> u, on |-> o, err |-> e, done |-> d]
  BY <1>2
<1> QED BY <1>2, <1>3 DEF Snapshot

\* A copy of a snapshot with another error.
LEMMA SnapshotErr ==
    ASSUME NEW s, Snapshot(s), NEW v, NEW t, t = [s EXCEPT !.err = v]
    PROVE  Snapshot(t) /\ t.rev = s.rev /\ t.done = s.done
<1>1. PICK r \in Nat : \E p, u, o, e, d :
          s = [rev |-> r, phase |-> p, run |-> u, on |-> o, err |-> e, done |-> d]
  BY DEF Snapshot
<1>2. PICK p, u, o, e, d :
          s = [rev |-> r, phase |-> p, run |-> u, on |-> o, err |-> e, done |-> d]
  BY <1>1
<1>3. t = [rev |-> r, phase |-> p, run |-> u, on |-> o, err |-> v, done |-> d]
  BY <1>2
<1> QED BY <1>2, <1>3 DEF Snapshot

\* A copy of a snapshot with another energised roles.
LEMMA SnapshotOn ==
    ASSUME NEW s, Snapshot(s), NEW v, NEW t, t = [s EXCEPT !.on = v]
    PROVE  Snapshot(t) /\ t.rev = s.rev /\ t.done = s.done
<1>1. PICK r \in Nat : \E p, u, o, e, d :
          s = [rev |-> r, phase |-> p, run |-> u, on |-> o, err |-> e, done |-> d]
  BY DEF Snapshot
<1>2. PICK p, u, o, e, d :
          s = [rev |-> r, phase |-> p, run |-> u, on |-> o, err |-> e, done |-> d]
  BY <1>1
<1>3. t = [rev |-> r, phase |-> p, run |-> u, on |-> v, err |-> e, done |-> d]
  BY <1>2
<1> QED BY <1>2, <1>3 DEF Snapshot

\* A copy of a snapshot with another run counter.
LEMMA SnapshotRun ==
    ASSUME NEW s, Snapshot(s), NEW v, NEW t, t = [s EXCEPT !.run = v]
    PROVE  Snapshot(t) /\ t.rev = s.rev /\ t.done = s.done
<1>1. PICK r \in Nat : \E p, u, o, e, d :
          s = [rev |-> r, phase |-> p, run |-> u, on |-> o, err |-> e, done |-> d]
  BY DEF Snapshot
<1>2. PICK p, u, o, e, d :
          s = [rev |-> r, phase |-> p, run |-> u, on |-> o, err |-> e, done |-> d]
  BY <1>1
<1>3. t = [rev |-> r, phase |-> p, run |-> v, on |-> o, err |-> e, done |-> d]
  BY <1>2
<1> QED BY <1>2, <1>3 DEF Snapshot

\* A copy of a snapshot with another window of completions.
LEMMA SnapshotWindow ==
    ASSUME NEW s, Snapshot(s), NEW v, NEW t, t = [s EXCEPT !.done = v]
    PROVE  Snapshot(t) /\ t.rev = s.rev
<1>1. PICK r \in Nat : \E p, u, o, e, d :
          s = [rev |-> r, phase |-> p, run |-> u, on |-> o, err |-> e, done |-> d]
  BY DEF Snapshot
<1>2. PICK p, u, o, e, d :
          s = [rev |-> r, phase |-> p, run |-> u, on |-> o, err |-> e, done |-> d]
  BY <1>1
<1>3. t = [rev |-> r, phase |-> p, run |-> u, on |-> o, err |-> e, done |-> v]
  BY <1>2
<1> QED BY <1>2, <1>3 DEF Snapshot

\* A copy of a snapshot with another safety revision.
LEMMA SnapshotRev ==
    ASSUME NEW s, Snapshot(s), NEW v \in Nat, NEW t, t = [s EXCEPT !.rev = v]
    PROVE  Snapshot(t) /\ t.rev = v
<1>1. PICK r \in Nat : \E p, u, o, e, d :
          s = [rev |-> r, phase |-> p, run |-> u, on |-> o, err |-> e, done |-> d]
  BY DEF Snapshot
<1>2. PICK p, u, o, e, d :
          s = [rev |-> r, phase |-> p, run |-> u, on |-> o, err |-> e, done |-> d]
  BY <1>1
<1>3. t = [rev |-> v, phase |-> p, run |-> u, on |-> o, err |-> e, done |-> d]
  BY <1>2
<1> QED BY <1>2, <1>3 DEF Snapshot

\* The GUI's own copies: a Run that was submitted shows as Preparing.
LEMMA SnapshotPrepared ==
    ASSUME NEW s, Snapshot(s)
    PROVE  /\ s.rev \in Nat
           /\ LET t == [s EXCEPT !.phase = "preparing"] IN Snapshot(t) /\ t.rev = s.rev
           /\ LET t == [s EXCEPT !.err = FALSE, !.phase = "preparing"]
              IN Snapshot(t) /\ t.rev = s.rev
<1> DEFINE e1 == [s EXCEPT !.err = FALSE]
           e2 == [e1 EXCEPT !.phase = "preparing"]
<1>1. [s EXCEPT !.err = FALSE, !.phase = "preparing"] = e2
  OBVIOUS
<1>2. Snapshot(e1) /\ e1.rev = s.rev
  BY SnapshotErr
<1> HIDE DEF e1
<1>3. Snapshot(e2) /\ e2.rev = s.rev
  BY <1>2, SnapshotPhase
<1> HIDE DEF e2
<1>4. s.rev \in Nat /\ LET t == [s EXCEPT !.phase = "preparing"] IN Snapshot(t) /\ t.rev = s.rev
  BY SnapshotNat, SnapshotPhase
<1> QED BY <1>1, <1>3, <1>4

\* The copies the reader thread makes at the engine's end, and those the engine
\* publishes when a command begins and when it ends.
Ended(s, p, e, o) == [s EXCEPT !.phase = p, !.err = e, !.on = o]
Connecting(s) == [s EXCEPT !.phase = "connecting", !.err = FALSE]
Running(s, u, o) == [s EXCEPT !.phase = "running", !.err = FALSE, !.run = u, !.on = o]
Finished(s, p, e, o, k, d) ==
    [s EXCEPT !.phase = p, !.err = e, !.on = o, !.rev = @ + k, !.done = d]

\* What the reader thread makes of the last snapshot at the engine's end.
LEMMA SnapshotEnded ==
    ASSUME NEW s, Snapshot(s), NEW p, NEW e, NEW o
    PROVE  Snapshot(Ended(s, p, e, o)) /\ Ended(s, p, e, o).rev = s.rev
<1> DEFINE s1 == [s EXCEPT !.phase = p]
           s2 == [s1 EXCEPT !.err = e]
           s3 == [s2 EXCEPT !.on = o]
<1>1. Ended(s, p, e, o) = s3
  BY DEF Ended
<1>2. Snapshot(s1) /\ s1.rev = s.rev
  BY SnapshotPhase
<1> HIDE DEF s1
<1>3. Snapshot(s2) /\ s2.rev = s.rev
  BY <1>2, SnapshotErr
<1> HIDE DEF s2
<1>4. Snapshot(s3) /\ s3.rev = s.rev
  BY <1>3, SnapshotOn
<1> HIDE DEF s3
<1> QED BY <1>1, <1>4

\* What the engine publishes when it begins to connect.
LEMMA SnapshotConnecting ==
    ASSUME NEW s, Snapshot(s)
    PROVE  /\ Snapshot(Connecting(s))
           /\ Connecting(s).rev = s.rev /\ Connecting(s).done = s.done
<1> DEFINE c1 == [s EXCEPT !.phase = "connecting"]
           c2 == [c1 EXCEPT !.err = FALSE]
<1>1. Connecting(s) = c2
  BY DEF Connecting
<1>2. Snapshot(c1) /\ c1.rev = s.rev /\ c1.done = s.done
  BY SnapshotPhase
<1> HIDE DEF c1
<1>3. Snapshot(c2) /\ c2.rev = s.rev /\ c2.done = s.done
  BY <1>2, SnapshotErr
<1> HIDE DEF c2
<1> QED BY <1>1, <1>3

\* What it publishes when a run begins.
LEMMA SnapshotRunning ==
    ASSUME NEW s, Snapshot(s), NEW u, NEW o
    PROVE  /\ Snapshot(Running(s, u, o))
           /\ Running(s, u, o).rev = s.rev /\ Running(s, u, o).done = s.done
<1> DEFINE r1 == [s EXCEPT !.phase = "running"]
           r2 == [r1 EXCEPT !.err = FALSE]
           r3 == [r2 EXCEPT !.run = u]
           r4 == [r3 EXCEPT !.on = o]
<1>1. Running(s, u, o) = r4
  BY DEF Running
<1>2. Snapshot(r1) /\ r1.rev = s.rev /\ r1.done = s.done
  BY SnapshotPhase
<1> HIDE DEF r1
<1>3. Snapshot(r2) /\ r2.rev = s.rev /\ r2.done = s.done
  BY <1>2, SnapshotErr
<1> HIDE DEF r2
<1>4. Snapshot(r3) /\ r3.rev = s.rev /\ r3.done = s.done
  BY <1>3, SnapshotRun
<1> HIDE DEF r3
<1>5. Snapshot(r4) /\ r4.rev = s.rev /\ r4.done = s.done
  BY <1>4, SnapshotOn
<1> HIDE DEF r4
<1> QED BY <1>1, <1>5

\* What it publishes when a command ends.
LEMMA SnapshotFinished ==
    ASSUME NEW s, Snapshot(s), NEW p, NEW e, NEW o, NEW k \in Nat, NEW d
    PROVE  /\ Snapshot(Finished(s, p, e, o, k, d))
           /\ Finished(s, p, e, o, k, d).rev = s.rev + k
<1> DEFINE s3 == Ended(s, p, e, o)
           s4 == [s3 EXCEPT !.rev = s3.rev + k]
           s5 == [s4 EXCEPT !.done = d]
<1>1. Finished(s, p, e, o, k, d) = s5
  BY DEF Finished, Ended
<1>2. Snapshot(s3) /\ s3.rev = s.rev /\ s.rev \in Nat
  BY SnapshotEnded, SnapshotNat
<1> HIDE DEF s3
<1>3. s3.rev + k \in Nat
  BY <1>2
<1>4. Snapshot(s4) /\ s4.rev = s.rev + k
  BY <1>2, <1>3, SnapshotRev
<1> HIDE DEF s4
<1>5. Snapshot(s5) /\ s5.rev = s.rev + k
  BY <1>4, SnapshotWindow
<1> HIDE DEF s5
<1> QED BY <1>1, <1>5

\* What a step of the GUI thread does to the job that waits: it ends, goes on
\* waiting, begins, or dispatches what it then waits for.
GuiHolds ==
    /\ UNCHANGED <<wpc, line, pipe, shared, engine, feed>>
    /\ Snapshot(view') /\ (view'.rev = view.rev \/ view' = shared)
    /\ \/ active' = Nil
       \/ /\ active # Nil /\ active' # Nil
          /\ active'.tag = active.tag /\ active'.safety = active.safety
          /\ OneSubmission
       \/ active' # Nil /\ active'.tag = Nil /\ active'.safety = view.rev
       \/ /\ active # Nil /\ active'.safety = active.safety
          /\ \E kind \in JobKinds : Submit(kind, active'.tag)

\* A submission only adds to the queue or raises a flag.
LEMMA SubmissionAdds ==
    ASSUME ClientType, OneSubmission
    PROVE  Elems(queue) \subseteq Elems(queue') /\ mask \subseteq mask'
<1>1. CASE UNCHANGED <<mask, queue, serial, before>>
  BY <1>1
<1>2. ASSUME NEW kind \in SafetyKinds \cup JobKinds, NEW tag \in Tags, Submit(kind, tag)
      PROVE  Elems(queue) \subseteq Elems(queue') /\ mask \subseteq mask'
  <2>1. CASE kind \in SafetyKinds
    BY <1>2, <2>1 DEF Submit
  <2>2. CASE kind \notin SafetyKinds
    <3> DEFINE c == Command(kind, tag, serial')
    <3>1. queue' = Append(queue, c) /\ mask' = mask
          /\ serial' = serial + (IF kind \in Energising THEN 1 ELSE 0)
      BY <1>2, <2>2 DEF Submit
    <3>2. c \in Line
      BY <2>2, <3>1 DEF ClientType, Command, Line
    <3> HIDE DEF c
    <3>3. Elems(queue') = Elems(queue) \cup {c}
      BY <3>1, <3>2, ElemsAppend DEF ClientType
    <3> QED BY <3>1, <3>3
  <2> QED BY <2>1, <2>2
<1> QED BY <1>1, <1>2 DEF OneSubmission

\* The command that is dispatched is in the queue.
LEMMA SubmissionQueued ==
    ASSUME ClientType, NEW kind \in JobKinds, NEW tag, tag \in Tags, Submit(kind, tag)
    PROVE  \E c \in Elems(queue') : c.tag = tag
<1> DEFINE c == Command(kind, tag, serial')
<1>1. kind \notin SafetyKinds
  BY DEF JobKinds, SafetyKinds
<1>2. queue' = Append(queue, c)
      /\ serial' = serial + (IF kind \in Energising THEN 1 ELSE 0)
  BY <1>1 DEF Submit
<1>3. c \in Line /\ c.tag = tag
  BY <1>2 DEF ClientType, Command, Line
<1> HIDE DEF c
<1>4. Elems(queue') = Elems(queue) \cup {c}
  BY <1>2, <1>3, ElemsAppend DEF ClientType
<1> QED BY <1>3, <1>4

\* What the GUI thread does keeps every waiting job accounted for.
LEMMA GuiWait ==
    ASSUME ClientType, JobInv', WaitInv, GuiHolds
    PROVE  WaitInv'
<1>1. UNCHANGED <<wpc, line, pipe, shared, equeue, rejects, cur, eng, dead, feed>>
  BY DEF GuiHolds, engine
<1>2. WireType'
  BY <1>1 DEF GuiHolds, WaitInv, WireType
<1>3. RevInv'
  <2>1. view.rev \in Nat /\ shared.rev \in Nat /\ eng.rev \in Nat
    BY SnapshotNat DEF WaitInv, WireType
  <2>2. view'.rev <= eng.rev
    BY DEF GuiHolds, WaitInv, RevInv
  <2>3. active' # Nil => active'.safety \in Nat /\ active'.safety <= eng.rev
    BY <2>1 DEF GuiHolds, WaitInv, RevInv
  <2> QED BY <1>1, <2>2, <2>3 DEF WaitInv, RevInv
<1>4. HeldInv'
  <2>1. CASE active' = Nil
    BY <2>1 DEF HeldInv
  <2>2. CASE active' # Nil /\ active'.tag = Nil
    BY <2>2 DEF HeldInv
  <2>3. CASE /\ active # Nil /\ active' # Nil /\ active'.tag = active.tag
             /\ active'.safety = active.safety /\ OneSubmission
    <3>1. active.tag # Nil => Accounted(active.tag, active.safety)
      BY <2>3 DEF WaitInv, HeldInv
    <3>2. Elems(queue) \subseteq Elems(queue') /\ mask \subseteq mask'
      BY <2>3, SubmissionAdds
    <3>3. ASSUME NEW t, NEW s, Accounted(t, s) PROVE Accounted(t, s)'
      BY <1>1, <3>2, <3>3 DEF Accounted, Upstream, Given, Completed, Dropping, OffComing, Elems
    <3> QED BY <2>3, <3>1, <3>3 DEF HeldInv
  <2>4. CASE active' # Nil /\ \E kind \in JobKinds : Submit(kind, active'.tag)
    <3>1. active'.tag \in Tags
      BY <2>4 DEF JobInv, IsJob
    <3>2. \E c \in Elems(queue') : c.tag = active'.tag
      BY <2>4, <3>1, SubmissionQueued
    <3> QED BY <3>2 DEF HeldInv, Accounted, Upstream
  <2> QED BY <2>1, <2>2, <2>3, <2>4 DEF GuiHolds
<1> QED BY <1>2, <1>3, <1>4 DEF WaitInv

\* A job that is cut short, ended or left alone goes on waiting for the same.
LEMMA JobWaits ==
    ASSUME JobInv, WaitInv, OneSubmission,
           UNCHANGED <<pipe, shared, engine, feed>>,
           Snapshot(view'), view'.rev = view.rev \/ view' = shared,
           \/ active' = active
           \/ active' = Nil
           \/ active # Nil /\ active' = [active EXCEPT !.commands = <<>>]
    PROVE  GuiHolds
<1>1. UNCHANGED <<wpc, line>>
  BY DEF OneSubmission
<1>2. CASE active' = active
  BY <1>1, <1>2 DEF GuiHolds
<1>3. CASE active' = Nil
  BY <1>1, <1>3 DEF GuiHolds
<1>4. CASE active # Nil /\ active' = [active EXCEPT !.commands = <<>>]
  <2>1. PICK i \in Ids, t \in Tags, c \in Seq(JobKinds) : \E s :
            active = [id |-> i, tag |-> t, commands |-> c, safety |-> s]
    BY <1>4 DEF JobInv, IsJob
  <2>2. PICK s : active = [id |-> i, tag |-> t, commands |-> c, safety |-> s]
    BY <2>1
  <2>3. active' = [id |-> i, tag |-> t, commands |-> <<>>, safety |-> s]
    BY <1>4, <2>2
  <2>4. active'.tag = active.tag /\ active'.safety = active.safety
    BY <2>2, <2>3
  <2> QED BY <1>1, <1>4, <2>4 DEF GuiHolds
<1> QED BY <1>2, <1>3, <1>4

\* advance and dispatch_api_command: the job waits for what was dispatched.
LEMMA AdvanceHolds ==
    ASSUME JobInv, WaitInv, AdvanceJob, UNCHANGED outside
    PROVE  GuiHolds
<1>1. UNCHANGED <<wpc, line, pipe, shared, engine, feed>>
  BY DEF outside, writer
<1>2. Snapshot(view)
  BY DEF WaitInv, WireType
<1>3. CASE UNCHANGED <<view, active, client>>
  <2>1. Snapshot(view') /\ view'.rev = view.rev
    BY <1>2, <1>3
  <2> QED BY <1>1, <1>3, <2>1, QuietOne, JobWaits
<1>4. CASE active' = Nil /\ UNCHANGED <<view, client>>
  BY <1>1, <1>2, <1>4 DEF GuiHolds
<1>5. CASE active # Nil /\ active.commands # <<>> /\ Dispatch(Head(active.commands), Tail(active.commands))
  <2> DEFINE kind == Head(active.commands)
             tag == <<active.id, spent[active.id] + 1>>
             left == Tail(active.commands)
  <2>1. PICK i \in Ids, t \in Tags, c \in Seq(JobKinds) : \E s :
            active = [id |-> i, tag |-> t, commands |-> c, safety |-> s]
    BY <1>5 DEF JobInv, IsJob
  <2>2. PICK s : active = [id |-> i, tag |-> t, commands |-> c, safety |-> s]
    BY <2>1
  <2>3. active.commands = c /\ c # <<>> /\ active.safety = s
    BY <1>5, <2>2
  <2>4. kind \in JobKinds
    BY <2>3, HeadTailProperties
  <2>5. /\ \/ view' = [view EXCEPT !.err = FALSE, !.phase = "preparing"]
           \/ view' = view
        /\ \/ Submit(kind, tag) /\ active' = [active EXCEPT !.tag = tag, !.commands = left]
           \/ active' = Nil
    BY <1>5 DEF Dispatch, Finish
  <2>6. Snapshot(view') /\ view'.rev = view.rev
    BY <1>2, <2>5, SnapshotPrepared
  <2> HIDE DEF kind, tag, left
  <2>7. CASE active' = Nil
    BY <1>1, <2>6, <2>7 DEF GuiHolds
  <2>8. CASE Submit(kind, tag) /\ active' = [active EXCEPT !.tag = tag, !.commands = left]
    <3>1. active' = [id |-> i, tag |-> tag, commands |-> left, safety |-> s]
      BY <2>2, <2>8
    <3>2. active'.tag = tag /\ active'.safety = s
      BY <3>1
    <3> QED BY <1>1, <1>5, <2>3, <2>4, <2>6, <2>8, <3>2 DEF GuiHolds
  <2> QED BY <2>5, <2>7, <2>8
<1> QED BY <1>3, <1>4, <1>5 DEF AdvanceJob, Finish

\* sync: the GUI's copy is the published snapshot, or keeps its revision.
LEMMA SyncHolds ==
    ASSUME WaitInv, Sync
    PROVE  Snapshot(view') /\ (view'.rev = view.rev \/ view' = shared)
<1>1. Snapshot(view) /\ Snapshot(shared)
  BY DEF WaitInv, WireType
<1>2. view' = view \/ view' = [view EXCEPT !.phase = "preparing"] \/ view' = shared
  BY DEF Sync
<1> QED BY <1>1, <1>2, SnapshotPrepared

\* The frame.
LEMMA FrameHolds ==
    ASSUME JobInv, WaitInv, Frame \/ FrameExpires
    PROVE  GuiHolds
<1>1. CASE FrameBegin
  <2>1. UNCHANGED outside /\ Sync
    BY <1>1 DEF FrameBegin
  <2>2. UNCHANGED <<pipe, shared, engine, feed>>
    BY <2>1 DEF outside
  <2>3. UNCHANGED client /\ (active' = active \/ active' = Nil)
    BY <1>1 DEF FrameBegin, LeaseKept, EngineLost, Finish
  <2> QED BY <2>1, <2>2, <2>3, QuietOne, SyncHolds, JobWaits
<1>2. CASE FrameExpires
  <2>1. UNCHANGED outside /\ Sync /\ LeaseExpired
    BY <1>2 DEF FrameExpires
  <2>2. UNCHANGED <<pipe, shared, engine, feed>>
    BY <2>1 DEF outside
  <2>3. CASE owner.stops
    <3>1. CancelPending /\ Send("OutputOff")
      BY <2>1, <2>3 DEF LeaseExpired, Revoke, CancelPending
    <3>2. OneSubmission
      BY <2>1, <3>1, SendOne DEF SafetyKinds
    <3> QED BY <2>1, <2>2, <3>1, <3>2, CancelFacts, SyncHolds, JobWaits
  <2>4. CASE ~owner.stops
    <3>1. active' = active /\ UNCHANGED client
      BY <2>1, <2>4 DEF LeaseExpired
    <3> QED BY <2>1, <2>2, <3>1, QuietOne, SyncHolds, JobWaits
  <2> QED BY <2>3, <2>4
<1>3. CASE AdvanceFirst \/ AdvanceAgain
  <2>1. AdvanceJob /\ UNCHANGED outside
    BY <1>3 DEF AdvanceFirst, AdvanceAgain
  <2> QED BY <2>1, AdvanceHolds
<1> QED BY <1>1, <1>2, <1>3 DEF Frame

\* What a request or a click does to a waiting job.
LEMMA CancelHolds ==
    ASSUME JobInv, WaitInv, UNCHANGED <<outside, view>>, OneSubmission,
           CancelPending \/ active' = active
    PROVE  GuiHolds
<1>1. UNCHANGED <<pipe, shared, engine, feed>> /\ Snapshot(view') /\ view'.rev = view.rev
  BY DEF outside, WaitInv, WireType
<1> QED BY <1>1, CancelFacts, JobWaits

\* The requests of a Python client.
LEMMA RequestHolds ==
    ASSUME JobInv, WaitInv, Request
    PROVE  GuiHolds
<1>1. UNCHANGED <<outside, view>>
  BY DEF Request, Acquire, Detach, Release, RequestSafety, BeginJob, Serve, Answer
<1>2. CASE (\E c \in Clients, stops \in BOOLEAN : Acquire(c, stops)) \/ Detach
  <2>1. active' = active /\ UNCHANGED client
    BY <1>2 DEF Acquire, Detach
  <2> QED BY <1>1, <2>1, QuietOne, CancelHolds
<1>3. CASE Release
  <2>1. Send("OutputOff") /\ (CancelPending \/ active' = active)
    BY <1>3 DEF Release
  <2>2. OneSubmission
    BY <1>1, <2>1, SendOne DEF SafetyKinds
  <2> QED BY <1>1, <2>1, <2>2, CancelHolds
<1>4. ASSUME NEW kind \in {"Stop", "OutputOff", "GateOff"}, RequestSafety(kind) PROVE GuiHolds
  <2>1. Send(kind) /\ CancelPending
    BY <1>4 DEF RequestSafety
  <2>2. OneSubmission
    BY <1>1, <2>1, SendOne DEF SafetyKinds
  <2> QED BY <1>1, <2>1, <2>2, CancelHolds
<1>5. ASSUME NEW id \in Ids, NEW method \in Methods, BeginJob(id, method) PROVE GuiHolds
  <2>1. active' = [id |-> id, tag |-> Nil, commands |-> Commands[method], safety |-> view.rev]
    BY <1>5 DEF BeginJob
  <2>2. active'.tag = Nil /\ active'.safety = view.rev
    BY <2>1
  <2>3. UNCHANGED <<wpc, line, pipe, shared, engine, feed>> /\ Snapshot(view') /\ view'.rev = view.rev
    BY <1>1 DEF outside, writer, WaitInv, WireType
  <2> QED BY <2>2, <2>3 DEF GuiHolds
<1> QED BY <1>2, <1>3, <1>4, <1>5 DEF Request

\* The operator's buttons.
LEMMA OperatorHolds ==
    ASSUME JobInv, WaitInv, Operator
    PROVE  GuiHolds
<1>1. CASE BannerStop \/ TakeControl
  <2>1. UNCHANGED <<outside, view>> /\ CancelPending /\ (Send("Stop") \/ Send("OutputOff"))
    BY <1>1 DEF BannerStop, TakeControl, Click, Revoke, CancelPending
  <2>2. OneSubmission
    BY <2>1, SendOne DEF SafetyKinds
  <2> QED BY <2>1, <2>2, CancelHolds
<1>2. CASE StartRun
  <2>1. /\ UNCHANGED <<outside, active>> /\ Accepts("Run") /\ Submit("Run", Nil)
        /\ view' = [view EXCEPT !.err = FALSE, !.phase = "preparing"]
    BY <1>2 DEF StartRun, Click
  <2>2. OneSubmission
    <3>1. "Run" \in SafetyKinds \cup JobKinds /\ Nil \in Tags
      BY DEF JobKinds, Tags
    <3> QED BY <2>1, <3>1 DEF OneSubmission, outside, writer
  <2>3. Snapshot(view') /\ view'.rev = view.rev
    <3>1. Snapshot(view)
      BY DEF WaitInv, WireType
    <3> QED BY <2>1, <3>1, SnapshotPrepared
  <2>4. UNCHANGED <<pipe, shared, engine, feed>>
    BY <2>1 DEF outside
  <2> QED BY <2>1, <2>2, <2>3, <2>4, JobWaits
<1>3. CASE StopButton \/ RequestClose \/ Close
  <2>1. UNCHANGED <<outside, view, active>> /\ (Send("Stop") \/ Send("Shutdown"))
    BY <1>3 DEF StopButton, RequestClose, Close, Click, work
  <2>2. OneSubmission
    BY <2>1, SendOne DEF SafetyKinds
  <2> QED BY <2>1, <2>2, CancelHolds
<1> QED BY <1>1, <1>2, <1>3 DEF Operator

-----------------------------------------------------------------------------
(* The other threads and a waiting job *)

\* Steps that leave the job and the snapshots alone.
LEMMA WaitKept ==
    ASSUME WaitInv, UNCHANGED <<active, view, shared, feed, eng, rejects, cur, equeue>>,
           pipe' \in Seq(Cmd),
           \A t, s : Accounted(t, s) => Accounted(t, s)'
    PROVE  WaitInv'
<1>1. WireType'
  BY DEF WaitInv, WireType
<1>2. RevInv'
  BY DEF WaitInv, RevInv
<1>3. HeldInv'
  BY DEF WaitInv, HeldInv
<1> QED BY <1>1, <1>2, <1>3 DEF WaitInv

\* What the writer holds and sends.
LEMMA LineFacts ==
    /\ Line \subseteq Cmd
    /\ \A flags : SafetyCommand(flags) \in SafetyKinds /\ Command(SafetyCommand(flags), Nil, 0) \in Cmd
                  /\ Command(SafetyCommand(flags), Nil, 0).kind \in SafetyKinds
<1>1. Line \subseteq Cmd
  BY DEF Line, Cmd
<1>2. ASSUME NEW flags PROVE SafetyCommand(flags) \in SafetyKinds
  BY DEF SafetyCommand, SafetyKinds
<1>3. ASSUME NEW flags, NEW k, k = SafetyCommand(flags)
      PROVE  Command(k, Nil, 0) \in Cmd /\ Command(k, Nil, 0).kind \in SafetyKinds
  BY <1>2, <1>3 DEF Command, Cmd, Tags
<1> QED BY <1>1, <1>2, <1>3

\* The writer: what it drops is followed by a safety line.
LEMMA WriterWait ==
    ASSUME ClientType, WaitInv, Writer, UNCHANGED gui
    PROVE  WaitInv'
<1>1. UNCHANGED <<active, view, shared, feed, eng, rejects, cur, equeue, dead>>
  BY DEF Writer, WriterLook, WriterSend, WriterSafety, WriterClear, WriterHeartbeat, gui, work, engine
<1>2. CASE WriterLook
  <2>1. wpc = "look" /\ pipe' = pipe /\ mask' = mask
    BY <1>2 DEF WriterLook
  <2>2. pipe' \in Seq(Cmd)
    BY <2>1 DEF WaitInv, WireType
  <2>3. CASE mask # {}
    <3>1. wpc' = "drained"
      BY <1>2, <2>3 DEF WriterLook, WriterGoto
    <3>2. \A t, s : Accounted(t, s)'
      BY <3>1 DEF Accounted, Dropping
    <3> QED BY <1>1, <2>2, <3>2, WaitKept
  <2>4. CASE mask = {}
    <3>1. queue # <<>> /\ wpc' = "received" /\ line' = Head(queue) /\ queue' = Tail(queue)
      BY <1>2, <2>4 DEF WriterLook, WriterGoto
    <3>2. Elems(queue) = Elems(queue') \cup {line'}
      BY <3>1, ElemsHead DEF ClientType
    <3>3. ASSUME NEW t, NEW s, Accounted(t, s) PROVE Accounted(t, s)'
      BY <1>1, <2>1, <2>4, <3>1, <3>2, <3>3
         DEF Accounted, Upstream, Given, Completed, Dropping, OffComing, Elems
    <3> QED BY <1>1, <2>2, <3>3, WaitKept
  <2> QED BY <2>3, <2>4
<1>3. CASE WriterSend
  <2>1. wpc = "received" /\ queue' = queue /\ mask' = mask /\ line \in Cmd
    BY <1>3, LineFacts DEF WriterSend, ClientType
  <2>2. CASE mask # {}
    <3>1. wpc' = "look" /\ pipe' = pipe
      BY <1>3, <2>2 DEF WriterSend, WriterGoto
    <3>2. \A t, s : Accounted(t, s)'
      BY <2>1, <2>2, <3>1 DEF Accounted, Dropping
    <3>3. pipe' \in Seq(Cmd)
      BY <3>1 DEF WaitInv, WireType
    <3> QED BY <1>1, <3>2, <3>3, WaitKept
  <2>3. CASE mask = {} /\ dead
    <3>1. pipe' = pipe
      BY <1>3, <2>3 DEF WriterSend, Write
    <3>2. \A t, s : Accounted(t, s)'
      BY <1>1, <2>3 DEF Accounted
    <3>3. pipe' \in Seq(Cmd)
      BY <3>1 DEF WaitInv, WireType
    <3> QED BY <1>1, <3>2, <3>3, WaitKept
  <2>4. CASE mask = {} /\ ~dead
    <3>1. pipe' = Append(pipe, line)
      BY <1>3, <2>4 DEF WriterSend, Write
    <3>2. pipe' \in Seq(Cmd) /\ Elems(pipe') = Elems(pipe) \cup {line}
      BY <2>1, <3>1, ElemsAppend DEF WaitInv, WireType
    <3>3. ASSUME NEW t, NEW s, Accounted(t, s) PROVE Accounted(t, s)'
      <4>1. Elems(queue') = Elems(queue) /\ Elems(equeue') = Elems(equeue) /\ Elems(rejects') = Elems(rejects)
        BY <1>1, <2>1
      <4>2. Upstream(t) => Upstream(t)'
        BY <2>1, <3>2, <4>1 DEF Upstream
      <4>3. Given(t) => Given(t)'
        BY <1>1, <4>1 DEF Given, Completed
      <4>4. OffComing => OffComing'
        BY <1>1, <3>2, <4>1 DEF OffComing
      <4>5. ~Dropping
        BY <2>1 DEF Dropping
      <4> QED BY <1>1, <3>3, <4>2, <4>3, <4>4, <4>5 DEF Accounted
    <3> QED BY <1>1, <3>2, <3>3, WaitKept
  <2> QED BY <2>2, <2>3, <2>4
<1>4. CASE WriterSafety
  <2> DEFINE c == Command(SafetyCommand(mask), Nil, 0)
  <2>1. c \in Cmd /\ c.kind \in SafetyKinds
    BY LineFacts
  <2>2. CASE dead
    <3>1. pipe' = pipe
      BY <1>4, <2>2 DEF WriterSafety, Write
    <3>2. \A t, s : Accounted(t, s)'
      BY <1>1, <2>2 DEF Accounted
    <3>3. pipe' \in Seq(Cmd)
      BY <3>1 DEF WaitInv, WireType
    <3> QED BY <1>1, <3>2, <3>3, WaitKept
  <2>3. CASE ~dead
    <3>1. pipe' = Append(pipe, c)
      BY <1>4, <2>3 DEF WriterSafety, Write
    <3> HIDE DEF c
    <3>2. pipe' \in Seq(Cmd) /\ Elems(pipe') = Elems(pipe) \cup {c}
      BY <2>1, <3>1, ElemsAppend DEF WaitInv, WireType
    <3>3. \A t, s : Accounted(t, s)'
      BY <2>1, <3>2 DEF Accounted, OffComing
    <3> QED BY <1>1, <3>2, <3>3, WaitKept
  <2> QED BY <2>2, <2>3
<1>5. CASE WriterClear
  <2>1. wpc = "clear" /\ queue' = queue /\ pipe' = pipe
    BY <1>5 DEF WriterClear
  <2>2. pipe' \in Seq(Cmd)
    BY <2>1 DEF WaitInv, WireType
  <2>3. ASSUME NEW t, NEW s, Accounted(t, s) PROVE Accounted(t, s)'
    BY <1>1, <2>1, <2>3 DEF Accounted, Upstream, Given, Completed, Dropping, OffComing, Elems
  <2> QED BY <1>1, <2>2, <2>3, WaitKept
<1>6. CASE WriterHeartbeat
  <2>1. dead /\ pipe' = pipe
    BY <1>6 DEF WriterHeartbeat
  <2>2. pipe' \in Seq(Cmd)
    BY <2>1 DEF WaitInv, WireType
  <2>3. \A t, s : Accounted(t, s)'
    BY <1>1, <2>1 DEF Accounted
  <2> QED BY <1>1, <2>2, <2>3, WaitKept
<1> QED BY <1>2, <1>3, <1>4, <1>5, <1>6 DEF Writer

\* The reader thread hands on what the engine published.
LEMMA ReaderWait ==
    ASSUME WaitInv, ReaderState \/ ReaderEnd, UNCHANGED gui
    PROVE  WaitInv'
<1>1. UNCHANGED <<active, view, queue, pipe, wpc, line, mask, equeue, rejects, cur, eng, dead>>
  BY DEF ReaderState, ReaderEnd, client, writer, engine, gui, work
<1>2. Snapshot(shared) /\ Snapshot(feed) /\ shared.rev <= eng.rev /\ feed.rev <= eng.rev
  BY DEF WaitInv, WireType, RevInv
<1>3. Snapshot(shared') /\ Snapshot(feed') /\ shared'.rev <= eng.rev /\ feed'.rev <= eng.rev
  <2>1. CASE ReaderState
    BY <1>2, <2>1 DEF ReaderState
  <2>2. CASE ReaderEnd
    <3>1. \E p, e : shared' = Ended(shared, p, e, {})
      BY <2>2 DEF ReaderEnd, Ended
    <3>2. Snapshot(shared') /\ shared'.rev = shared.rev
      BY <1>2, <3>1, SnapshotEnded
    <3>3. feed' = shared'
      BY <2>2 DEF ReaderEnd
    <3> QED BY <1>2, <3>2, <3>3
  <2> QED BY <2>1, <2>2
<1>4. WireType'
  BY <1>1, <1>3 DEF WaitInv, WireType
<1>5. RevInv'
  BY <1>1, <1>3 DEF WaitInv, RevInv
<1>6. HeldInv'
  BY <1>1 DEF WaitInv, HeldInv, Accounted, Upstream, Given, Completed, Dropping, OffComing, Elems
<1> QED BY <1>4, <1>5, <1>6 DEF WaitInv

\* A line the engine reads goes to its queue or among the refused.
LEMMA ReadWait ==
    ASSUME WaitInv, EngineRead, UNCHANGED gui
    PROVE  WaitInv'
<1> DEFINE c == Head(pipe)
<1>1. UNCHANGED <<active, view, queue, wpc, line, mask, shared, feed, cur, eng, dead>>
  BY DEF EngineRead, client, writer, gui, work
<1>2. pipe # <<>> /\ pipe' = Tail(pipe)
  BY DEF EngineRead
<1>3. c \in Cmd /\ pipe' \in Seq(Cmd) /\ Elems(pipe) = Elems(pipe') \cup {c}
  BY <1>2, ElemsHead DEF WaitInv, WireType
<1>4. \/ c.kind \in Energising /\ rejects' = Append(rejects, c.tag) /\ equeue' = equeue
      \/ equeue' = Append(equeue, c) /\ rejects' = rejects
  BY DEF EngineRead
<1> HIDE DEF c
<1>5. c.tag \in Tags /\ (c.kind \in Energising => c.kind \notin SafetyKinds)
  BY <1>3 DEF Cmd, Energising, SafetyKinds
<1>6. equeue \in Seq(Cmd) /\ rejects \in Seq(Tags)
  BY DEF WaitInv, WireType
<1>7. /\ equeue' \in Seq(Cmd) /\ rejects' \in Seq(Tags)
      /\ \/ /\ c.kind \notin SafetyKinds
            /\ Elems(rejects') = Elems(rejects) \cup {c.tag} /\ Elems(equeue') = Elems(equeue)
         \/ /\ Elems(equeue') = Elems(equeue) \cup {c} /\ Elems(rejects') = Elems(rejects)
  <2>1. CASE c.kind \in Energising /\ rejects' = Append(rejects, c.tag) /\ equeue' = equeue
    BY <1>5, <1>6, <2>1, ElemsAppend
  <2>2. CASE equeue' = Append(equeue, c) /\ rejects' = rejects
    BY <1>3, <1>6, <2>2, ElemsAppend
  <2> QED BY <1>4, <2>1, <2>2
<1>8. WireType'
  BY <1>1, <1>3, <1>7 DEF WaitInv, WireType
<1>9. RevInv'
  BY <1>1 DEF WaitInv, RevInv
<1>10. ASSUME NEW t, NEW s, Accounted(t, s) PROVE Accounted(t, s)'
  <2>1. Elems(queue') = Elems(queue)
    BY <1>1
  <2>2. Upstream(t) => Upstream(t)' \/ Given(t)'
    BY <1>1, <1>3, <1>7, <2>1 DEF Upstream, Given
  <2>3. Given(t) => Given(t)'
    BY <1>1, <1>7 DEF Given, Completed
  <2>4. OffComing => OffComing'
    BY <1>1, <1>3, <1>7 DEF OffComing
  <2>5. Dropping => Dropping'
    BY <1>1 DEF Dropping
  <2> QED BY <1>1, <1>10, <2>2, <2>3, <2>4, <2>5 DEF Accounted
<1>11. HeldInv'
  BY <1>1, <1>10 DEF WaitInv, HeldInv
<1> QED BY <1>8, <1>9, <1>11 DEF WaitInv

\* A command begins.
LEMMA TakeWait ==
    ASSUME WaitInv, EngineTake, UNCHANGED gui
    PROVE  WaitInv'
<1>1. UNCHANGED <<active, view, queue, pipe, wpc, line, mask, shared, rejects, dead>>
  BY DEF EngineTake, client, writer, gui, work
<1>2. cur = Nil /\ equeue # <<>> /\ cur' = Head(equeue) /\ equeue' = Tail(equeue) /\ feed' = eng'
  BY DEF EngineTake
<1>3. cur' \in Cmd /\ equeue' \in Seq(Cmd) /\ Elems(equeue) = Elems(equeue') \cup {cur'}
  BY <1>2, ElemsHead DEF WaitInv, WireType
<1>4. cur' # Nil
  BY <1>3, NilAssumption DEF Cmd, JobKinds, Tags
<1>5. Snapshot(eng') /\ eng'.rev = eng.rev /\ eng'.done = eng.done
  <2>1. \/ eng' = eng
        \/ eng' = Connecting(eng)
        \/ eng' = Running(eng, eng.run + 1, eng.on \cup {"source"})
    BY DEF EngineTake, Connecting, Running
  <2>2. Snapshot(eng)
    BY DEF WaitInv, WireType
  <2> QED BY <2>1, <2>2, SnapshotConnecting, SnapshotRunning
<1>6. WireType'
  BY <1>1, <1>2, <1>3, <1>5 DEF WaitInv, WireType
<1>7. RevInv'
  <2>1. eng.rev \in Nat
    BY SnapshotNat DEF WaitInv, WireType
  <2> QED BY <1>1, <1>2, <1>5, <2>1 DEF WaitInv, RevInv
<1>8. ASSUME NEW t, NEW s, Accounted(t, s) PROVE Accounted(t, s)'
  <2>1. Elems(queue') = Elems(queue) /\ Elems(pipe') = Elems(pipe) /\ Elems(rejects') = Elems(rejects)
    BY <1>1
  <2>2. Upstream(t) => Upstream(t)' \/ Given(t)'
    BY <1>1, <1>3, <1>4, <2>1 DEF Upstream, Given
  <2>3. Given(t) => Given(t)'
    BY <1>2, <1>5, <2>1 DEF Given, Completed
  <2>4. OffComing => OffComing'
    BY <1>2, <1>3, <1>4, <2>1 DEF OffComing
  <2>5. Dropping => Dropping'
    BY <1>1 DEF Dropping
  <2> QED BY <1>1, <1>5, <1>8, <2>2, <2>3, <2>4, <2>5 DEF Accounted
<1>9. HeldInv'
  BY <1>1, <1>8 DEF WaitInv, HeldInv
<1> QED BY <1>6, <1>7, <1>9 DEF WaitInv

\* A command ends: the completion the job waits for is in the window, unless it
\* was pushed out, and a safety command is followed by its revision.
LEMMA DoneWait ==
    ASSUME WaitInv, EngineDone, ~Evicts, UNCHANGED gui
    PROVE  WaitInv'
<1> DEFINE k == IF cur.kind \in SafetyKinds THEN 1 ELSE 0
<1>1. /\ UNCHANGED <<active, view, queue, pipe, wpc, line, mask, shared, equeue>>
      /\ cur # Nil /\ cur' = Nil /\ rejects' = <<>> /\ feed' = eng' /\ ~dead
  BY DEF EngineDone, client, writer, gui, work
<1>2. k \in Nat /\ (cur.kind \in SafetyKinds => k = 1)
  OBVIOUS
<1>3. \E p, e, o, d : eng' = Finished(eng, p, e, o, k, d)
  <2>1. PICK w \in Outcomes(cur) :
          LET refused == rejects # <<>>
              phase == IF refused THEN "failed" ELSE w.phase
              err == w.err \/ refused
              ended == (IF cur.tag = Nil THEN <<>> ELSE <<cur.tag>>)
                         \o SelectSeq(rejects, LAMBDA t : t # Nil)
              all == eng.done \o [i \in DOMAIN ended |->
                                    [tag |-> ended[i], phase |-> phase, err |-> err]]
          IN eng' = Finished(eng, phase, err, w.on, k,
                             IF Len(all) > 4 THEN SubSeq(all, Len(all) - 3, Len(all)) ELSE all)
    BY Zenon DEF EngineDone, Finished
  <2> QED BY <2>1
<1> HIDE DEF k
<1>4. Snapshot(eng') /\ eng'.rev = eng.rev + k /\ eng.rev \in Nat
  <2>1. Snapshot(eng)
    BY DEF WaitInv, WireType
  <2> QED BY <1>2, <1>3, <2>1, SnapshotFinished, SnapshotNat
<1>5. WireType'
  <2>1. <<>> \in Seq(Tags)
    OBVIOUS
  <2> QED BY <1>1, <1>4, <2>1 DEF WaitInv, WireType
<1>6. RevInv'
  <2>1. view.rev \in Nat /\ shared.rev \in Nat
    BY SnapshotNat DEF WaitInv, WireType
  <2> QED BY <1>1, <1>2, <1>4, <2>1 DEF WaitInv, RevInv
<1>7. HeldInv'
  <2> SUFFICES ASSUME active # Nil, active.tag # Nil
               PROVE  Accounted(active.tag, active.safety)'
    BY <1>1 DEF HeldInv
  <2>1. Accounted(active.tag, active.safety)
    BY DEF WaitInv, HeldInv
  <2>2. active.safety \in Nat /\ active.safety <= eng.rev
    BY DEF WaitInv, RevInv
  <2>3. CASE Given(active.tag)
    <3>1. Completed(active.tag)'
      BY <2>3 DEF Evicts
    <3> QED BY <3>1 DEF Accounted, Given
  <2>4. CASE cur.kind \in SafetyKinds
    <3>1. eng'.rev > active.safety
      BY <1>2, <1>4, <2>2, <2>4
    <3> QED BY <1>1, <3>1 DEF Accounted
  <2>5. CASE eng.rev > active.safety
    <3>1. eng'.rev > active.safety
      BY <1>2, <1>4, <2>2, <2>5
    <3> QED BY <1>1, <3>1 DEF Accounted
  <2>6. CASE Upstream(active.tag) \/ Dropping
    <3>1. Elems(queue') = Elems(queue) /\ Elems(pipe') = Elems(pipe) /\ Elems(equeue') = Elems(equeue)
      BY <1>1
    <3>2. (Upstream(active.tag) => Upstream(active.tag)') /\ (Dropping => Dropping')
      BY <1>1, <3>1 DEF Upstream, Dropping
    <3> QED BY <2>6, <3>2 DEF Accounted
  <2>7. CASE OffComing /\ cur.kind \notin SafetyKinds
    <3>1. Elems(pipe') = Elems(pipe) /\ Elems(equeue') = Elems(equeue)
      BY <1>1
    <3>2. OffComing'
      BY <2>7, <3>1 DEF OffComing
    <3> QED BY <3>2 DEF Accounted
  <2> QED BY <1>1, <2>1, <2>3, <2>4, <2>5, <2>6, <2>7 DEF Accounted
<1> QED BY <1>5, <1>6, <1>7 DEF WaitInv

-----------------------------------------------------------------------------
\* Nobody waits at first.
LEMMA InitWait == Init => WaitInv
<1> SUFFICES ASSUME Init PROVE WaitInv
  OBVIOUS
<1>1. /\ pipe = <<>> /\ equeue = <<>> /\ rejects = <<>> /\ cur = Nil
      /\ eng = InitSnapshot /\ feed = InitSnapshot /\ shared = InitSnapshot /\ view = InitSnapshot
      /\ active = Nil
  BY DEF Init, ClientInit
<1>2. Snapshot(InitSnapshot) /\ InitSnapshot.rev = 0
  BY DEF Snapshot, InitSnapshot
<1>3. WireType
  BY <1>1, <1>2 DEF WireType
<1> QED BY <1>1, <1>2, <1>3 DEF WaitInv, RevInv, HeldInv

\* Every step but one that pushes out the awaited completion keeps the account.
LEMMA NextWait ==
    ASSUME Inv, Inv', WaitInv, [Next]_vars, ~Evicts
    PROVE  WaitInv'
<1> USE DEF Inv
<1>1. CASE Frame \/ FrameExpires \/ Request \/ Operator
  <2>1. GuiHolds
    BY <1>1, FrameHolds, RequestHolds, OperatorHolds
  <2> QED BY <2>1, GuiWait DEF ClientInv
<1>2. CASE Threads
  <2>1. UNCHANGED gui
    BY <1>2 DEF Threads
  <2> QED BY <1>2, <2>1, WriterWait, ReaderWait, ReadWait, TakeWait, DoneWait
          DEF Threads, Engine, ClientInv
<1>3. CASE Crash
  <2>1. UNCHANGED <<active, view, queue, pipe, wpc, line, mask, shared, feed, equeue, rejects, cur, eng>>
        /\ dead'
    BY <1>3 DEF Crash, EngineCrash, client, writer, gui, work
  <2>2. pipe' \in Seq(Cmd)
    BY <2>1 DEF WaitInv, WireType
  <2>3. \A t, s : Accounted(t, s)'
    BY <2>1 DEF Accounted
  <2> QED BY <2>1, <2>2, <2>3, WaitKept
<1>4. CASE UNCHANGED vars
  <2>1. UNCHANGED <<active, view, queue, pipe, wpc, line, mask, shared, feed, equeue, rejects,
                    cur, eng, dead>>
    BY <1>4 DEF vars, evars, client, writer, engine, gui, work
  <2>2. pipe' \in Seq(Cmd)
    BY <2>1 DEF WaitInv, WireType
  <2>3. \A t, s : Accounted(t, s) => Accounted(t, s)'
    BY <2>1 DEF Accounted, Upstream, Given, Completed, Dropping, OffComing, Elems
  <2> QED BY <2>1, <2>2, <2>3, WaitKept
<1> QED BY <1>1, <1>2, <1>3, <1>4 DEF Next

\* What is accounted for is where NoStrandedJob looks for it.
LEMMA HeldShows == Inv /\ WaitInv => NoStrandedJob
<1> SUFFICES ASSUME Inv, WaitInv, active # Nil, active.tag # Nil
             PROVE  \/ \E c \in InFlight : c.tag = active.tag \/ c.kind \in SafetyKinds
                    \/ \E i \in DOMAIN rejects : rejects[i] = active.tag
                    \/ \E i \in DOMAIN eng.done : eng.done[i].tag = active.tag
                    \/ mask # {} \/ eng.rev > active.safety
                    \/ dead
  BY DEF NoStrandedJob
<1>1. Accounted(active.tag, active.safety)
  BY DEF WaitInv, HeldInv
<1>2. /\ queue \in Seq(Line) /\ pipe \in Seq(Cmd) /\ equeue \in Seq(Cmd) /\ rejects \in Seq(Tags)
  BY DEF Inv, ClientInv, ClientType, WaitInv, WireType
<1>3. /\ Elems(queue) = {queue[i] : i \in DOMAIN queue} /\ Elems(pipe) = {pipe[i] : i \in DOMAIN pipe}
      /\ Elems(equeue) = {equeue[i] : i \in DOMAIN equeue}
      /\ Elems(rejects) = {rejects[i] : i \in DOMAIN rejects}
  BY <1>2 DEF Elems
<1>4. wpc = "received" => line # Nil
  <2>1. wpc = "received" => line \in Cmd
    BY LineFacts DEF Inv, ClientInv, ClientType
  <2> QED BY <2>1, NilAssumption DEF Cmd, JobKinds, Tags
<1>5. CASE Upstream(active.tag)
  <2>1. \E c \in InFlight : c.tag = active.tag
    BY <1>3, <1>4, <1>5 DEF Upstream, InFlight
  <2> QED BY <2>1
<1>6. CASE Given(active.tag)
  <2>1. CASE cur # Nil /\ cur.tag = active.tag
    <3>1. \E c \in InFlight : c.tag = active.tag
      BY <2>1 DEF InFlight
    <3> QED BY <3>1
  <2>2. CASE active.tag \in Elems(rejects)
    BY <1>3, <2>2
  <2>3. CASE Completed(active.tag)
    BY <2>3 DEF Completed
  <2> QED BY <1>6, <2>1, <2>2, <2>3 DEF Given
<1>7. CASE Dropping
  BY <1>7 DEF Dropping, Inv, ClientInv
<1>8. CASE OffComing
  <2>1. \E c \in InFlight : c.kind \in SafetyKinds
    BY <1>3, <1>8 DEF OffComing, InFlight
  <2> QED BY <2>1
<1> QED BY <1>1, <1>5, <1>6, <1>7, <1>8 DEF Accounted

\* A job never waits for something that cannot come, as long as the engine's
\* window of four completions does not push out the one it waits for: what the
\* writer drops is followed by a safety line and that by a newer revision, and
\* everything else is executed, refused or completed.
THEOREM NobodyStranded == Spec /\ [][~Evicts]_vars => []NoStrandedJob
<1>1. Inv /\ Inv' /\ WaitInv /\ [Next]_vars /\ [~Evicts]_vars => WaitInv'
  <2> SUFFICES ASSUME Inv, Inv', WaitInv, [Next]_vars, [~Evicts]_vars
               PROVE  WaitInv'
    OBVIOUS
  <2>1. CASE ~Evicts
    BY <2>1, NextWait
  <2>2. CASE UNCHANGED vars
    <3>1. ~Evicts
      <4>1. cur' = cur
        BY <2>2 DEF vars, evars, engine
      <4> QED BY <4>1 DEF Evicts, EngineDone
    <3> QED BY <3>1, NextWait
  <2> QED BY <2>1, <2>2
<1> QED BY <1>1, InitWait, HeldShows, GuiInvariant, PTL DEF Spec

=============================================================================
