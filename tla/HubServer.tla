----------------------------- MODULE HubServer -----------------------------
(***************************************************************************)
(* instrument-hub/src/server.rs: client connections, their bounded event   *)
(* queue and the one worker that owns the controller state of HubCore.     *)
(*                                                                         *)
(* A connection has a reader and a writer thread.  The reader queues one   *)
(* command per turn: the turn token is spent when a command is read and a  *)
(* new one is issued with its reply.  The worker drops lost sessions, then *)
(* takes the first queued OFF, or else the oldest event.                   *)
(***************************************************************************)
EXTENDS HubCore, SequencesExt

CONSTANTS
    QueueSize,    \* capacity of `inbox` and of `pending` (64 in the code)
    MaxCommands   \* bound: commands one connection sends

ASSUME QueueAssumption == QueueSize \in Nat \ {0} /\ MaxCommands \in Nat

VARIABLES
    conn,         \* where serve_client is
    alive,        \* Session.alive
    turn,         \* expected_nonce is Some
    slot,         \* the reply channel (capacity one) holds a reply
    sent,         \* commands read from a connection
    inbox,        \* the event channel
    pending,      \* the worker's own queue
    sessions,     \* sessions the worker has registered
    lost,         \* sessions the worker found dead in this round
    wpc, cur,     \* the worker's place and the command it serves
    stop          \* worker_stop

clientVars == <<conn, alive, turn, slot, sent>>
workerVars == <<inbox, pending, sessions, lost, wpc, cur>>
vars == <<coreVars, clientVars, workerVars, stop>>

Kinds == {"claim", "transfer", "off", "release", "close", "list", "recover"}
Requests == [kind : Kinds, address : Addresses]
Register(s) == [kind |-> "register", session |-> s, address |-> None]
Command(s, r) == [kind |-> r.kind, session |-> s, address |-> r.address]

Init ==
    /\ CoreInit
    /\ conn = [s \in Sessions |-> "new"]
    /\ alive = [s \in Sessions |-> FALSE]
    /\ turn = [s \in Sessions |-> FALSE]
    /\ slot = [s \in Sessions |-> FALSE]
    /\ sent = [s \in Sessions |-> 0]
    /\ inbox = <<>> /\ pending = <<>>
    /\ sessions = {} /\ lost = {}
    /\ wpc = "top" /\ cur = None
    /\ stop = FALSE

-----------------------------------------------------------------------------
(* A connection. *)

Full == Len(inbox) >= QueueSize

\* The hello is accepted and the session queued for registration, or refused
\* (version, token, or a full queue).
Accept(s) ==
    /\ conn[s] = "new" /\ ~stop
    /\ \/ /\ ~Full
          /\ inbox' = Append(inbox, Register(s))
          /\ conn' = [conn EXCEPT ![s] = "hello"]
          /\ alive' = [alive EXCEPT ![s] = TRUE]
       \/ /\ conn' = [conn EXCEPT ![s] = "closed"]
          /\ UNCHANGED <<inbox, alive>>
    /\ UNCHANGED <<coreVars, turn, slot, sent, pending, sessions, lost, wpc, cur, stop>>

\* The hello reply carries the first turn token.
Greet(s) ==
    /\ conn[s] = "hello"
    /\ \/ /\ conn' = [conn EXCEPT ![s] = "open"]
          /\ turn' = [turn EXCEPT ![s] = TRUE]
          /\ UNCHANGED alive
       \/ /\ conn' = [conn EXCEPT ![s] = "closed"]
          /\ alive' = [alive EXCEPT ![s] = FALSE]
          /\ UNCHANGED turn
    /\ UNCHANGED <<coreVars, slot, sent, workerVars, stop>>

Close(s) ==
    /\ conn' = [conn EXCEPT ![s] = "closed"]
    /\ alive' = [alive EXCEPT ![s] = FALSE]

\* A command with the current turn token.  A full queue closes the connection.
ReadCommand(s, r) ==
    /\ conn[s] = "open" /\ alive[s] /\ turn[s]
    /\ sent[s] < MaxCommands
    /\ turn' = [turn EXCEPT ![s] = FALSE]
    /\ sent' = [sent EXCEPT ![s] = @ + 1]
    /\ \/ ~Full /\ inbox' = Append(inbox, Command(s, r)) /\ UNCHANGED <<conn, alive>>
       \/ Full /\ Close(s) /\ UNCHANGED inbox
    /\ UNCHANGED <<coreVars, slot, pending, sessions, lost, wpc, cur, stop>>

\* End of file, an invalid frame, or a command out of turn.
ReadEnd(s) ==
    /\ conn[s] = "open"
    /\ Close(s)
    /\ UNCHANGED <<coreVars, turn, slot, sent, workerVars, stop>>

\* Mutant: the reply goes out without a new turn token.
WriteNoTurn(s) ==
    /\ conn[s] = "open" /\ alive[s] /\ slot[s]
    /\ slot' = [slot EXCEPT ![s] = FALSE]
    /\ UNCHANGED <<coreVars, conn, alive, turn, sent, workerVars, stop>>
\* The writer issues the next turn token with the reply.
WriteReply(s) ==
    /\ conn[s] = "open" /\ alive[s] /\ slot[s]
    /\ slot' = [slot EXCEPT ![s] = FALSE]
    /\ turn' = [turn EXCEPT ![s] = TRUE]
    /\ alive' \in {alive, [alive EXCEPT ![s] = FALSE]}
    /\ UNCHANGED <<coreVars, conn, sent, workerVars, stop>>

-----------------------------------------------------------------------------
(* The worker. *)

Goto(pc) == wpc' = pc
Owned(s) == {a \in Addresses : owner[a] = s}

\* Mutant: a session that dies is noticed only when it sends something.
TopForgets ==
    /\ wpc = "top"
    /\ Goto(IF stop THEN "drain" ELSE "sweep")
    /\ UNCHANGED <<coreVars, clientVars, inbox, pending, sessions, lost, cur, stop>>
\* The head of the loop: which sessions are dead now.
WorkerTop ==
    /\ wpc = "top"
    /\ \/ /\ ~stop
          /\ lost' = {s \in sessions : ~alive[s]}
          /\ Goto("sweep")
       \/ /\ stop
          /\ Goto("drain")
          /\ UNCHANGED lost
    /\ UNCHANGED <<coreVars, clientVars, inbox, pending, sessions, cur, stop>>

\* What disconnect(session) does, and then the session is gone.
Drop(s) ==
    \/ Owned(s) # {} /\ Disconnect(s) /\ UNCHANGED sessions
    \/ Owned(s) = {} /\ Ready /\ sessions' = sessions \ {s} /\ UNCHANGED coreVars

WorkerSweep ==
    /\ wpc = "sweep"
    /\ \/ /\ \E s \in lost : Drop(s) /\ lost' = lost \cap sessions'
          /\ UNCHANGED wpc
       \/ lost = {} /\ Goto("fill") /\ UNCHANGED <<coreVars, sessions, lost>>
    /\ UNCHANGED <<clientVars, inbox, pending, cur, stop>>

\* recv_timeout while nothing is pending, try_recv up to the queue size.
WorkerFill ==
    /\ wpc = "fill"
    /\ \/ /\ inbox # <<>> /\ Len(pending) < QueueSize
          /\ pending' = Append(pending, Head(inbox)) /\ inbox' = Tail(inbox)
          /\ UNCHANGED wpc
       \/ /\ inbox = <<>> \/ Len(pending) >= QueueSize
          /\ Goto(IF pending = <<>> THEN "top" ELSE "pick")
          /\ UNCHANGED <<inbox, pending>>
    /\ UNCHANGED <<coreVars, clientVars, sessions, lost, cur, stop>>

\* The first OFF of a registered session, else the oldest event.
Chosen ==
    LET off == SelectInSeq(pending, LAMBDA e : e.kind = "off" /\ e.session \in sessions)
    IN  IF off = 0 THEN 1 ELSE off

\* The core's handler of a request, refused without a step when its checks fail.
Request(e) ==
    \/ e.kind = "claim" /\ Claim(e.session, e.address)
    \/ e.kind \in {"transfer", "off"} /\ Transfer(e.session, e.address)
    \/ e.kind = "release" /\ Release(e.session, e.address)
    \/ e.kind = "close" /\ Disconnect(e.session)
    \/ e.kind = "list" /\ List
    \/ e.kind = "recover" /\ Recover(e.address)

\* Mutant: a command is served without asking whether its session is known.
PickUnchecked ==
    /\ wpc = "pick"
    /\ LET e == pending[1]
       IN  /\ pending' = Tail(pending)
           /\ IF e.kind = "register"
                THEN /\ sessions' = sessions \cup {e.session}
                     /\ Goto("top") /\ UNCHANGED <<coreVars, cur>>
                ELSE /\ cur' = e.session /\ Goto("reply")
                     /\ Request(e) \/ UNCHANGED coreVars
                     /\ UNCHANGED sessions
    /\ UNCHANGED <<clientVars, inbox, lost, stop>>
\* One event.  A dead, expired or unknown client's command is answered with an
\* error; expiry may hit any command.
WorkerPick ==
    /\ wpc = "pick"
    /\ LET e == pending[Chosen]
       IN  /\ pending' = RemoveAt(pending, Chosen)
           /\ IF e.kind = "register"
                THEN /\ sessions' = sessions \cup {e.session}
                     /\ Goto("top") /\ UNCHANGED <<coreVars, cur>>
                ELSE /\ cur' = e.session /\ Goto("reply")
                     /\ \/ e.session \in sessions /\ alive[e.session] /\ Request(e)
                        \/ UNCHANGED coreVars
                     /\ UNCHANGED sessions
    /\ UNCHANGED <<clientVars, inbox, lost, stop>>

\* The core's handler runs to its end, then the reply is offered to the writer.
WorkerCore ==
    /\ Handler
    /\ UNCHANGED <<clientVars, workerVars, stop>>

WorkerReply ==
    /\ wpc = "reply" /\ Ready
    /\ slot' = [slot EXCEPT ![cur] = TRUE]
    /\ cur' = None /\ Goto("top")
    /\ UNCHANGED <<coreVars, conn, alive, turn, sent, inbox, pending, sessions, lost, stop>>

\* After the loop every registered session is disconnected.
WorkerDrain ==
    /\ wpc = "drain"
    /\ \/ /\ \E s \in sessions : Drop(s) /\ alive' = [alive EXCEPT ![s] = FALSE]
          /\ UNCHANGED wpc
       \/ sessions = {} /\ Goto("ended") /\ UNCHANGED <<coreVars, sessions, alive>>
    /\ UNCHANGED <<conn, turn, slot, sent, inbox, pending, lost, cur, stop>>

\* A signal, or a listener that fails.
Stop ==
    /\ ~stop /\ stop' = TRUE
    /\ UNCHANGED <<coreVars, clientVars, workerVars>>

-----------------------------------------------------------------------------
Client(s) ==
    \/ Accept(s) \/ Greet(s) \/ ReadEnd(s) \/ WriteReply(s)
    \/ \E r \in Requests : ReadCommand(s, r)
Worker == \/ WorkerTop \/ WorkerSweep \/ WorkerFill \/ WorkerPick
          \/ WorkerCore \/ WorkerReply \/ WorkerDrain

Next == Stop \/ Worker \/ \E s \in Sessions : Client(s)
Spec == Init /\ [][Next]_vars

\* The worker's waits and transactions all have timeouts, and a writer blocked
\* on its peer gives up after three seconds: both threads keep being scheduled.
\* Clients owe nothing.
Fairness == WF_vars(Worker) /\ \A s \in Sessions : WF_vars(WriteReply(s))
FairSpec == Spec /\ Fairness

-----------------------------------------------------------------------------
(* Properties. *)

\* Every lease belongs to a registered session, so a dead client's instrument
\* is always found by the sweep; and whatever was queued or being served when
\* the service was told to stop, the worker has released every instrument when
\* it ends.
NoOrphanLease ==
    \A a \in Addresses : owner[a] # None => owner[a] \in sessions /\ wpc # "ended"

\* A client that goes away loses its instruments.
LostReleased == \A s \in Sessions : ~alive[s] ~> Owned(s) = {}

\* Every command is answered, or its connection ends: queued OFFs may pass it
\* but not hold it up for ever, as long as clients do not send without end.
Answered == \A s \in Sessions : (conn[s] = "open" /\ ~turn[s]) ~> (turn[s] \/ ~alive[s] \/ stop)
=============================================================================
