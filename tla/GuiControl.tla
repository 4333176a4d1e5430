---------------------------- MODULE GuiControl ----------------------------
(***************************************************************************)
(* Job control in the GUI process (gui_control.rs, ui/control.rs and the   *)
(* frame of ui.rs): the control lease of a Python client, its jobs and     *)
(* their receipts, the buttons that remain available to the operator, on   *)
(* top of the engine client.                                               *)
(*                                                                         *)
(* The GUI thread runs frames: it takes the client's newest snapshot,      *)
(* looks at the lease and at the engine, advances the active job, serves   *)
(* the requests that have arrived, advances again and reads the operator's *)
(* clicks.  A step makes at most one change that the writer thread can     *)
(* see.  Read-only requests, heartbeats and refused requests change        *)
(* nothing and are left out; a request that waited for more than 10 s is   *)
(* refused likewise.                                                       *)
(***************************************************************************)
EXTENDS EngineClient

CONSTANTS
    Clients,      \* Python clients
    Ids,          \* the request_ids they use
    History,      \* receipts kept (32 in the code)
    MaxEvents     \* bound: requests under a lease, clicks, expired leases, lost engines

ASSUME HistoryAssumption == History \in Nat \ {0}
ASSUME MaxEventsAssumption == MaxEvents \in Nat

\* `None` is no command.
ASSUME NilAssumption ==
    Nil \notin [kind : SafetyKinds \cup {"Run", "SetGate", "Connect"},
               tag : {Nil} \cup (Ids \X Nat), n : Nat]

\* The job methods, with the commands of each; the other roles' connections
\* and disconnections are like `connect`.
Commands == [start |-> <<"Run">>, connect |-> <<"Connect", "Connect">>,
             set_gate_voltage |-> <<"SetGate">>]
Methods == DOMAIN Commands

VARIABLES
    view, pending,                     \* IvApp.state; pending_run, pending_base, pending_safety
    fpc,                               \* position in the frame
    owner, revoked,                    \* the lease and the clients that lost it
    active, jobs, used,                \* the active job, the receipts, every id with its method
    retiring, retire_safety, closing,
    spent,                             \* bookkeeping: commands dispatched for each job
    events                             \* budget

lease == <<owner, revoked, retiring, retire_safety>>
work == <<active, jobs, used, spent>>
gui == <<view, pending, fpc, lease, work, closing>>
outside == <<writer, pipe, shared, engine, feed, exposed>>
vars == <<evars, gui, events>>

NoRun == [on |-> FALSE, base |-> 0, safety |-> 0]

Init ==
    /\ ClientInit
    /\ view = InitSnapshot /\ pending = NoRun /\ fpc = "sync"
    /\ owner = Nil /\ revoked = {}
    /\ active = Nil /\ jobs = <<>> /\ used = {}
    /\ retiring = FALSE /\ retire_safety = 0 /\ closing = FALSE
    /\ spent = [i \in Ids |-> 0]
    /\ events = 0

-----------------------------------------------------------------------------
Event == events < MaxEvents /\ events' = events + 1

\* `busy` and `IvApp::active`.
Busy(s) == s.phase \in {"connecting", "preparing", "running"}
Measuring(s) == s.phase \in {"preparing", "running"}

\* `has_lease`, which locks the GUI's own controls.
HasLease == owner # Nil \/ retiring \/ active # Nil

\* `api_idle`; open dialogs only refuse more.
ApiIdle == alive /\ ~Busy(view) /\ ~pending.on /\ active = Nil /\ ~closing

\* `finish`: the receipt of the active job gets its verdict, if it is still kept.
Finish(status) ==
    /\ active' = Nil
    /\ jobs' = [i \in DOMAIN jobs |->
                  IF jobs[i].id = active.id THEN [jobs[i] EXCEPT !.status = status] ELSE jobs[i]]

\* Mutant: a takeover leaves the job's remaining commands in place.
RevokeKeepsCommands(rev) ==
    /\ retire_safety' = rev /\ retiring' = TRUE
    /\ owner' = Nil
    /\ revoked' = IF owner = Nil THEN revoked ELSE revoked \cup {owner.client}
    /\ UNCHANGED active

\* `revoke`: the lease ends, the lock stays, unsent commands are dropped.
Revoke(rev) ==
    /\ retire_safety' = rev /\ retiring' = TRUE
    /\ owner' = Nil
    /\ revoked' = IF owner = Nil THEN revoked ELSE revoked \cup {owner.client}
    /\ active' = IF active = Nil THEN Nil ELSE [active EXCEPT !.commands = <<>>]

\* `cancel_pending`
CancelPending == active' = IF active = Nil THEN Nil ELSE [active EXCEPT !.commands = <<>>]

-----------------------------------------------------------------------------
(* The beginning of a frame. *)

\* `sync`: the newest snapshot, held back while a submitted Run has not yet
\* shown up in it.
Sync ==
    IF ~fresh THEN UNCHANGED <<view, pending>>
      ELSE IF /\ pending.on /\ shared.run <= pending.base
              /\ shared.phase # "failed" /\ shared.rev <= pending.safety
        THEN view' = [view EXCEPT !.phase = "preparing"] /\ UNCHANGED pending
        ELSE view' = shared /\ pending' = [pending EXCEPT !.on = FALSE]

\* The lease is in time.
LeaseKept == (alive \/ ~HasLease) /\ UNCHANGED <<lease, active, jobs, client>>

\* 10 s passed without a request: `expired` revokes or, by the client's
\* policy, lets the work go on without an owner.
LeaseExpired ==
    /\ owner # Nil /\ ~retiring /\ alive
    /\ IF owner.stops
         THEN Revoke(view'.rev) /\ Send("OutputOff")
         ELSE /\ owner' = Nil /\ revoked' = revoked \cup {owner.client}
              /\ UNCHANGED <<retiring, retire_safety, active, client>>
    /\ UNCHANGED jobs

\* `engine_lost`: no acknowledgement can come any more.
EngineLost ==
    /\ ~alive /\ HasLease
    /\ owner' = Nil
    /\ revoked' = IF owner = Nil THEN revoked ELSE revoked \cup {owner.client}
    /\ retire_safety' = 0 /\ retiring' = FALSE
    /\ IF active = Nil THEN UNCHANGED <<active, jobs>> ELSE Finish("error")
    /\ UNCHANGED client

FrameBegin ==
    /\ fpc = "sync" /\ ~(closing /\ ~Measuring(view))
    /\ Sync
    /\ LeaseKept \/ EngineLost
    /\ fresh' = FALSE /\ fpc' = "advance"
    /\ UNCHANGED <<outside, used, spent, closing, events>>

FrameExpires ==
    /\ Event
    /\ fpc = "sync" /\ ~(closing /\ ~Measuring(view))
    /\ Sync /\ LeaseExpired
    /\ fresh' = FALSE /\ fpc' = "advance"
    /\ UNCHANGED <<outside, used, spent, closing>>

-----------------------------------------------------------------------------
(* The active job. *)

KindOf(id) == (CHOOSE u \in used : u[1] = id)[2]

\* A completion that ends the job unsuccessfully.
Unsuccessful(c) ==
    c.err \/ c.phase = "failed" \/ (KindOf(active.id) = "start" /\ c.phase = "stopped")

\* `dispatch_api_command`: a Run shows as Preparing before it is sent; a
\* refused command fails the job and asks for OFF.
Dispatch(kind, rest) ==
    LET tag == <<active.id, spent[active.id] + 1>>
        ok == Accepts(kind)
    IN /\ view' = IF kind = "Run" THEN [view EXCEPT !.err = FALSE, !.phase = "preparing"] ELSE view
       /\ pending' = IF kind = "Run"
                       THEN [on |-> ok, base |-> view.run, safety |-> view.rev] ELSE pending
       /\ spent' = [spent EXCEPT ![active.id] = @ + 1]
       /\ IF ok
            THEN /\ Submit(kind, tag)
                 /\ active' = [active EXCEPT !.tag = tag, !.commands = rest]
                 /\ UNCHANGED jobs
            ELSE Finish("error") /\ Send("OutputOff")

\* The completions of the active job's command in the adopted snapshot.
Completions == {c \in {view.done[i] : i \in DOMAIN view.done} : c.tag = active.tag}

\* `advance`: a newer safety revision of an idle engine ends the job, then the
\* tagged completion counts, then the next command is due.
AdvanceJob ==
    IF active = Nil THEN UNCHANGED <<view, pending, active, jobs, spent, client>>
    ELSE IF view.rev > active.safety /\ ~Busy(view)
      THEN /\ Finish(IF view.err \/ "source" \in view.on THEN "error" ELSE "stopped")
           /\ UNCHANGED <<view, pending, spent, client>>
    ELSE IF \E c \in Completions : Unsuccessful(c)
      THEN /\ \E c \in Completions : Finish(IF c.phase = "stopped" THEN "stopped" ELSE "error")
           /\ UNCHANGED <<view, pending, spent, client>>
    ELSE IF active.tag # Nil /\ Completions = {}
      THEN UNCHANGED <<view, pending, active, jobs, spent, client>>
    ELSE IF active.commands = <<>>
      THEN Finish("completed") /\ UNCHANGED <<view, pending, spent, client>>
    ELSE Dispatch(Head(active.commands), Tail(active.commands))

\* `settle_release`: the lock goes when a later safety command of an idle
\* engine has left every output OFF.
Settle ==
    retiring' = (retiring /\ ~(/\ active' = Nil /\ ~Busy(view')
                               /\ view'.rev > retire_safety /\ view'.on = {}))

AdvanceFirst ==
    /\ fpc = "advance"
    /\ AdvanceJob /\ Settle
    /\ fpc' = "requests"
    /\ UNCHANGED <<outside, fresh, owner, revoked, retire_safety, used, closing, events>>

\* No request is waiting, or eight were served: advance again.
AdvanceAgain ==
    /\ fpc = "requests"
    /\ AdvanceJob
    /\ fpc' = "sync"
    /\ UNCHANGED <<outside, fresh, lease, used, closing, events>>

-----------------------------------------------------------------------------
(* The requests of a frame: `authorize`, then `external_action`.  All but
   `acquire` need the lease. *)

Answer ==
    /\ fpc = "requests"
    /\ UNCHANGED <<outside, fresh, view, pending, fpc, spent, closing>>

Serve ==
    /\ Answer
    /\ owner # Nil /\ Event

\* `acquire`: renews the owner's lease and policy, or grants a free one.
Acquire(c, stops) ==
    /\ Answer
    /\ c \notin revoked
    /\ IF owner = Nil THEN ApiIdle /\ ~HasLease ELSE owner.client = c
    /\ owner' = [client |-> c, stops |-> stops]
    /\ UNCHANGED <<client, revoked, retiring, retire_safety, active, jobs, used, events>>

\* `detach`, when no stop condition was asked for.
Detach ==
    /\ Serve
    /\ ~owner.stops
    /\ owner' = Nil /\ revoked' = revoked \cup {owner.client}
    /\ UNCHANGED <<client, retiring, retire_safety, active, jobs, used>>

\* `release`: the common form cancels and turns off, the native form requires
\* that this has been done.
Release ==
    /\ Serve
    /\ \/ CancelPending
       \/ view.on = {} /\ ~Busy(view) /\ active = Nil /\ UNCHANGED active
    /\ IF Accepts("OutputOff")
         THEN owner' = Nil /\ retire_safety' = view.rev /\ retiring' = TRUE
         ELSE UNCHANGED <<owner, retire_safety, retiring>>
    /\ Send("OutputOff")
    /\ UNCHANGED <<revoked, jobs, used>>

\* `stop`, `output_off`, `gate_output_off`
RequestSafety(kind) ==
    /\ Serve
    /\ CancelPending
    /\ Send(kind)
    /\ UNCHANGED <<lease, jobs, used>>

\* Mutant: only the receipts still kept are remembered.
KnownByReceipt(id) == \E i \in DOMAIN jobs : jobs[i].id = id

\* `existing_job` and `used`: an id that was ever used is answered with its
\* receipt, a conflict, or its expiry.
Known(id) == \E m \in Methods : <<id, m>> \in used

\* `begin_job`: a new id, an idle GUI; the oldest receipt makes room.
BeginJob(id, method) ==
    /\ Serve
    /\ ~Known(id) /\ ApiIdle
    /\ active' = [id |-> id, tag |-> Nil, commands |-> Commands[method], safety |-> view.rev]
    /\ jobs' = Append(IF Len(jobs) = History THEN Tail(jobs) ELSE jobs,
                      [id |-> id, status |-> "running"])
    /\ used' = used \cup {<<id, method>>}
    /\ UNCHANGED <<client, lease>>

-----------------------------------------------------------------------------
(* The operator. *)

Click ==
    /\ fpc = "sync" /\ Event
    /\ UNCHANGED <<outside, fresh, fpc, used, spent>>

\* `python_banner`: Stop and Take control stay available under the lock.
BannerStop ==
    /\ Click /\ HasLease
    /\ CancelPending /\ Send("Stop")
    /\ UNCHANGED <<view, pending, lease, jobs, closing>>

TakeControl ==
    /\ Click /\ HasLease
    /\ Revoke(view.rev) /\ Send("OutputOff")
    /\ UNCHANGED <<view, pending, jobs, closing>>

\* `start_run_impl`
StartRun ==
    /\ Click
    /\ ~Busy(view) /\ ~pending.on /\ ~HasLease /\ Accepts("Run")
    /\ Submit("Run", Nil)
    /\ pending' = [on |-> TRUE, base |-> view.run, safety |-> view.rev]
    /\ view' = [view EXCEPT !.err = FALSE, !.phase = "preparing"]
    /\ UNCHANGED <<lease, active, jobs, closing>>

\* The Stop button of the run controls.
StopButton ==
    /\ Click /\ Measuring(view)
    /\ Send("Stop")
    /\ UNCHANGED <<view, pending, lease, active, jobs, closing>>

\* Closing the window during a measurement asks for Stop and waits.
RequestClose ==
    /\ Click /\ Measuring(view) /\ Accepts("Stop")
    /\ Send("Stop") /\ closing' = TRUE
    /\ UNCHANGED <<view, pending, lease, active, jobs>>

\* The window closes: `Drop for Client` submits Shutdown.
Close ==
    /\ fpc = "sync" /\ ~Measuring(view)
    /\ IF closing THEN UNCHANGED events ELSE Event
    /\ fpc' = "closed"
    /\ Send("Shutdown")
    /\ UNCHANGED <<outside, fresh, view, pending, lease, work, closing>>

-----------------------------------------------------------------------------
Frame == FrameBegin \/ AdvanceFirst \/ AdvanceAgain

Request ==
    \/ \E c \in Clients, stops \in BOOLEAN : Acquire(c, stops)
    \/ Detach \/ Release
    \/ \E kind \in {"Stop", "OutputOff", "GateOff"} : RequestSafety(kind)
    \/ \E id \in Ids, method \in Methods : BeginJob(id, method)

Operator == BannerStop \/ TakeControl \/ StartRun \/ StopButton \/ RequestClose \/ Close

Threads == (Writer \/ ReaderState \/ ReaderEnd \/ Engine) /\ UNCHANGED <<gui, events>>

Crash == EngineCrash /\ Event /\ UNCHANGED gui

Next == Frame \/ FrameExpires \/ Request \/ Operator \/ Threads \/ Crash

Spec == Init /\ [][Next]_vars

-----------------------------------------------------------------------------
\* A request_id runs its commands at most once, however often it is repeated
\* and also when its receipt has been evicted.
AtMostOnce == \A u \in used : spent[u[1]] <= Len(Commands[u[2]])

\* From a takeover, an expired lease or a release until the lock is settled,
\* no command of a job is dispatched, whatever completions still come in.
RetiringSilent == [][retiring => spent' = spent]_vars

InFlight == {queue[i] : i \in DOMAIN queue} \cup {pipe[i] : i \in DOMAIN pipe}
              \cup {equeue[i] : i \in DOMAIN equeue} \cup ({cur, line} \ {Nil})

\* A job never waits for something that cannot come: the command it waits for
\* is on its way, refused or completed, or a safety command whose
\* acknowledgement ends the job is, or the engine is lost.  In particular the
\* writer drops a command only with an acknowledgement to follow.  The engine
\* shows four completions: commands of five earlier jobs, each ended by a safety
\* revision while its command was still in the pipe, could push this one's out.
NoStrandedJob ==
    active # Nil /\ active.tag # Nil =>
        \/ \E c \in InFlight : c.tag = active.tag \/ c.kind \in SafetyKinds
        \/ \E i \in DOMAIN rejects : rejects[i] = active.tag
        \/ \E i \in DOMAIN eng.done : eng.done[i].tag = active.tag
        \/ mask # {} \/ eng.rev > active.safety
        \/ dead

=============================================================================
