# A TLA+ model of kohdalab-iv

kohdalab-iv measures current-voltage curves: it drives source-measure units
through a sweep, reads one or two meters, may hold a gate bias, and records
what it saw.  Its instruments can destroy a sample, so most of its code is
about one question: *is an output really off, and does everybody know it?*
This directory models that part of the program.  `PROJECT.json` lists the
components, the runs, the source lines behind every definition, the hazards
and the theorems; this file explains them.

## 1. The system

| part | source | state | operations | talks to |
|---|---|---|---|---|
| engine control | `iv-desktop/src/engine.rs`, `serve` | `Control` (stop, off, pending_safety, running, closed, heartbeat, three rejected slots), a channel of 8, the last 4 completed jobs | stdin reader, engine loop, stdout writer | GUI or CLI over pipes |
| engine output handlers | `engine.rs`, `engine/gate.rs`, `engine/source_dc.rs` | `Snapshot`: connections, outputs, held DC settings, phase, error | connect, disconnect, DC and gate setting, OFF, Stop, idle polls, lease | transport |
| single-source sweep | `execute` and `SweepMonitor` in `engine.rs`, `engine/{meter,reference,workflow,safety}.rs` | the run's locals, the three recordings | preflight, configure, ramp, wait, read, save, protect, clean up, finalize | transport, disk |
| balanced sweep | `engine/balanced.rs` | the same, with two levels at once | the same for two sources | transport, disk |
| hub core | `instrument-hub/src/core.rs` | owners, quarantine (`unknown`), fault, the journal file | claim, transfer, release, close, list, recover | one GPIB controller |
| hub server | `instrument-hub/src/server.rs` | sessions, event channel, backlog, turn tokens | accept, hello, read, reply, sweep, stop | clients over TCP |
| transport | `iv-transport` | helper sessions, device leases, `usable`, `recovery_pending`, ADCMT discards | connect, disconnect, discover, write, query, verified OFF with recovery | helper processes, hub |
| GUI job control | `gui_control.rs`, `ui/control.rs` | control lease, active job, receipts, retiring lease | acquire, begin, dispatch, advance, stop, release, revoke | Python clients, engine client |
| engine client | `client.rs` | command queue, safety mask, last snapshot | submit, write, heartbeat, read | engine control over pipes |
| measurement core | `iv-core` | none | plans, ranges, ramps, catalogue, CSV | engine, UI |
| recordings | `raw_csv.rs`, `run_export.rs`, the writers of `engine.rs` and `iv-core` | CSV, audit and manifest of every run | record, replace, export, roll back | disk, other processes |
| UI, CLI, bindings, native helpers | `ui*`, `main.rs`, `bindings/`, `native/` | - | - | - |

The hard behaviour is: three threads of the engine that share atomics without
a lock; an OFF request that must overtake a full queue and a running ramp;
transactions that fail after they took effect, or take effect after they were
given up; leases that lapse; cleanups that fail themselves; a service that
crashes between a journal write and a grant; clients that die with commands
queued; jobs whose end has to be read off snapshots of another process.

What makes each part correct:

* engine control: one owner of the outputs; a latched OFF is never lost, never
  outlived, and stops a ramp within one write; rejected work is not replayed;
  the engine ends with everything off or reported.
* output handlers: "Off" is shown only when it is true; receipts are true; a
  failure closes the gate; nothing is detached while on.
* sweep: OFF before evidence; no jump in level; a run that does not end as
  failed is clean in every respect; rows are exactly the accepted targets.
* balanced sweep: the same, and the two sources never move apart.
* hub: no session is ever handed a live output, across crashes and failures;
  a lost client loses its instruments.
* transport: an answer belongs to its request; a source reported off stays
  off; a replaced helper is not trusted before it has identified its
  instruments; a reading is younger than the level it is recorded with.
* job control and client: a Stop or OFF is never lost and never overtaken by
  what was submitted before it; a request_id runs once; no job is waited for
  in vain; a revoked lease sends nothing more.
* planner: points, limits, shares and ramps are exact on the hardware's grid.
* recordings: a manifest that calls a run finished is true of the files beside
  it, and nobody touches another's files.

## 2. Modules

    OutputFence ......... what the hub promises about sources (abstract)
      ^ refined by
    HubCore ............. core.rs, with journal and crashes       *
      ^ extended by
    HubServer ........... server.rs around the same core          *
    EngineControl ....... the three threads of serve              *
    Instruments ......... the snapshot and the shared OFF/ON helpers
      ^ extended by
    EngineOutputs ....... every handler of serve but Run          *
    Sweep ............... execute, one single-source run          *
    Balanced ............ balanced.rs, one run of two sources (also on Planning)  *
    Planning ............ iv-core's planner, as operators
      ^ extended by
    Planner ............. plans made, DC levels set and changed   *
    Transport ........... DevicePair and its helper processes     *
    EngineClient ........ client.rs, and an engine that answers
      ^ extended by
    GuiControl .......... gui_control.rs and the frames that drive it  *
    RunFiles ............ the files of runs and of their copies   *
    MC<module> .......... values of the constants for TLC
    <module>_proofs ..... theorems, for the modules marked *; those of the two hub
                          modules are in Hub_proofs, those of Planner with Balanced's

**EngineControl** has one step per atomic access of `Control`.  The reader's
program counter `rpc` walks through the match of `serve` (latch, off, stop,
send; or load running, load pending, reject or reserve, send), the engine's
`epc` through the loop (lease, receive, perform, error path, acknowledge in
three accesses, release, take three slots, complete).  What a command does to
instruments is reduced to *drives* (one write that may energise a role) and
*cuts* (an OFF that is verified or recorded in `fault`), with a test of
`cancelled` before every drive, as `source_dc::set`, `gate::set_voltage` and
the sweep have.  A job tag is the number of the line that carried it.

**Instruments** writes the helpers that several handlers call (`force_off`,
`fail_closed`, `clean_output`, `shutdown_sweep_sources`, `shutdown_gate`,
`protection_output_off`, the error path of `serve`) as sets of outcomes: a
snapshot goes in, the possible results come out, each `Ok` or `Err`.  Beside
the published fields a snapshot holds `phys`, what the instruments really do.
A transaction succeeds, fails without effect, or fails after its effect.

**EngineOutputs** has one action per command and per idle poll.  Each action
is the whole handler including the error path and the acknowledgement text
(`receipt`) a client reads.

**Sweep** is cut where the code looks at the control flags, because the
reader may set them between any two of these places.  `pc` names the place,
`run` the locals, `rec` the recordings.  Readings are the choice whether they
are unreadable, at the limit or accepted; a source's status register is the
choice whether it trips.  Levels are integers, in a unit of which the ramp
step need not divide a target.

**HubCore** keeps a handler as steps in `op`: every bus transaction and journal
write is one step that may fail, and `Crash` is possible between any two.
`hot` is the truth about outputs, `foreign` marks outputs that something else
turned on while the service was down.  **HubServer** adds connections, the
bounded inbox and backlog, the worker, and the stop of the service; it extends
HubCore, and the worker runs the core's handlers step by step, failures
included (only the crash of the whole service is left to HubCore).

**Balanced** is cut like Sweep and also between the writes to the two sources,
which is where a stop finds the pair apart.  It drives the plan that Planning
computes for its `Request`, so the levels of the run are those of the planner
and not a list of their own.

**Planning** holds the planner as operators on integers, in a unit that every
quotient of the instance divides.  A function that can refuse yields the set
of its results, empty or of one element.  **Planner** turns it into a system:
a panel's configuration is planned or refused, and DC levels are set, nudged
and changed in any order on the range in force.

**Transport** cuts a call of `DevicePair` at its requests.  A session is open,
poisoned or closed; a helper may answer, fail, be late, hang or die, and holds
the commands it was given and has not executed, which it may execute at any
later moment.  The forced OFF of one or both sources is the code's sequence
of identification, dispatch, verification and recovery, with one deadline.

**EngineClient** models the writer thread access by access: the look at the
safety mask, the clearing of the queue, the command in hand.  The engine behind
the pipe is what EngineControl shows of it: latches, one command at a time, a
snapshot after each.  **GuiControl** adds frames: the newest snapshot, the
lease, the active job, requests, operator clicks.

**RunFiles** gives every path a file with its creator, its content as a stage
of a run, and whether it is durable.  Recorders and exporters take one file
operation per step; `Killed` and `PowerLoss` come between any two, and power
loss tears what was not synchronised.

## 3. What TLC checks

| run | instance | asks |
|---|---|---|
| `engine_safety` | 3 lines of 7 kinds, channel of 2 | one owner, flags backed by a request, one write after a latch, no replay |
| `engine_live` | 2 lines, channel of 1, fair | latches processed, lapses cut, closing ends with all off, jobs complete |
| `outputs` | a real bench, second source real or simulated | OFF and receipts are true, a failure closes the gate, nothing detached while on |
| `sweep` | targets 3 and -2 with step 2, two readings per point, one live conversion per wait, three kits | verdict, rows, stop bound, OFF first, slew, termination |
| `sweep_gate` | the same | finding: a failed cleanup leaves the gate on |
| `balanced` | points 18 and -6 shared 2 : 1, reached by ramps, two readings per point | the pair moves together, verdict and manifest, termination |
| `hub_core` | 2 sessions, 2 sources, 1 meter | journal, grants and quarantine, refinement of OutputFence |
| `hub_server` | 2 clients, 1 source, queues of 2, 1 command each, fair | no orphaned lease, lost clients released, commands answered |
| `transport` | two sources on one helper (local or the hub's) or on two, and a source with two ADCMT meters; one unanswered command | own answers, OFF stays, identification first, fresh readings |
| `gui` | 2 clients, 2 request_ids, 1 receipt, queue of 2, 3 events | safety first, at most once, no stranded job, silent retirement |
| `plans` | 10 380 requests over two models, three ratios, DC changes on 8 panels | points, protection, shares, DC levels |
| `files` | 1 engine, 2 interfaces, 2 free names, 2 jobs, 1 fault | manifests are true, own files only |

Bounds and why they are enough:

* Engine: the race between reader and engine needs a command that owns the
  outputs, a second one, and a safety request between them: three lines.  A
  channel of 1 or 2 overflows within them; the code's 8 only moves that point.
  The history keeps the code's 4.  The seven request kinds cover
  two rejected slots, three latch bits (Stop alone does not raise `off`), and
  connect/disconnect; gate and second source only repeat them.
* Outputs: the state is finite without bounds.
* Hub core: two sources so that a disconnect can fail on the first and go on
  to the second, a meter for the other policy, two sessions for takeovers.  No
  bound: TLC explores all reachable states.
* Hub server: a queue of 2 is full with a registration and a command, or with
  the commands of both clients; one command each lets a client claim and die,
  or be overtaken by the other's OFF.  Two commands each were also checked once
  (2.2 million states).
* Sweep: targets on both sides of zero, the first not a multiple of the step;
  two readings so that an average can be interrupted between them; one live
  conversion per wait (`MaxConversions`) because a second one starts from the
  same state as the first; kits from bare instruments to all protections.
* Balanced: the ramp step (`RampShare` 2 of the range, 100 in the code) is
  shorter than the way to each point, so a move has ramp levels; the ratio 2 : 1
  makes the shares differ; the points lie on either side of zero.
* Transport: `MaxLate` 1, one command that a helper still holds, is enough for
  a late ON, a late answer or a late OFF to meet every later request.
* GUI: three events are enough for a job, a Stop that overtakes it, and one of
  a repeated request, a take-over, an expired lease or a lost engine.  A
  history of one receipt (32 in the code) evicts the first job's receipt when
  the second begins.  Clients and request_ids are interchangeable (symmetry).
* Plans: limits, steps and protections on, between and beyond the bounds of two
  ranges; one model whose small range has a limiter of its own; `MaxPoints` 14
  so that some sweeps are refused for their length; `DcPanels` keeps the DC
  changes to eight panels that differ in model and protection.
* Files: two jobs that share a name, or a recording and a copy of it, and one
  fault (`MaxJobs`, `MaxFaults`).  Three jobs were also checked once (5.6
  million states).  Interfaces and free names are interchangeable.

Fairness:

* EngineControl: weak fairness of both threads (the operating system runs
  them) and strong fairness of the end of an output operation, because ramps
  and sweeps are finite; `Sweep`'s `RunEnds` checks that for sweeps.  Nothing
  is assumed of the peer, the heartbeat or the writer.
* HubServer: weak fairness of the worker (all of its waits have timeouts) and
  of each writer thread (its socket has a write timeout).  Clients owe nothing.
* Sweep and Balanced: weak fairness of the engine thread; every transaction has
  a timeout, and a wait ends by its clock.

Deadlock is checked in EngineControl, where the ended process stutters
explicitly, in EngineOutputs and in HubCore.  The others may stop: clients stop
sending (HubServer, GuiControl), a run returns (Sweep, Balanced), a plan is made
(Planner), the events or jobs of the instance are used up (GuiControl, RunFiles),
a helper is gone for good (Transport).

Every property has a mutant in `PROJECT.json`: a plausible bug in a mapped
definition (defined just before it and marked `Mutant:`) under which TLC finds
the property violated.

Modelling notes on Sweep: `late` counts writes and rows after a request as
ordered by the model's steps, that is by what the thread has observed.  The
check and the write of one step of the return to zero are one step, so a bound
on writes after OFF is stated only for the way to a target.  A mean of
readings below the limit may round up to it (`Record`).  `quiet` stands for
both a closed engine and a missed heartbeat, which `cancelled` treats alike.

## 4. What TLAPS proves

All proofs hold for every value of the constants that satisfies the named
`ASSUME`s of the modules.

The proofs of a component are in `<module>_proofs` (both hub modules in `Hub_proofs`,
Planner and Balanced in `Balanced_proofs`); each begins with the inductive invariant
and then has, for every action, one lemma.

* **EngineControl.**  `ExclusiveOwnership` (`OneOutputOwner`): it is not inductive, for
  when the reader has loaded `running = FALSE` it is about to reserve on stale
  knowledge.  `OwnerInv` adds that from the moment the reader has seen `running` clear
  until it stores, the flag stays clear, because no other thread raises it, and
  so there is no owner at all.  `SafetyBranch` (a reader on its latch branch
  holds a safety command) and `Typed` (`TypedInvariant`) come first.
  `AtMostOneLateWrite`: an operation about to write was cleared by a test that saw
  no latch, so a latch that is up now came later and no write has been counted.
  `FlagsNeverStuck`: every raised flag has a witness, which is the line in the
  reader's hand, a command in the channel or one the engine performs; the proof
  follows the witness from one place to the next.  `RejectedNeverReplayed`: tags are line numbers, so
  they are unique in reader, channel, engine, both sets of slots and the
  history taken together.
* **HubCore.**  `CoreInv` adds to the type invariant and `HotJournaled` what a
  handler knows between its steps: `Leased` (an owned source is in quarantine
  memory and in the journal, and was off when it was handed out), `Known` (a
  running service has every live output in memory; a stopped one keeps
  nothing), `Holding` (what a handler knows of the address it works on, for
  instance that it is off between the verified OFF and the journal write).
  From it: `LiveOutputsJournaled`, `FenceImplemented` (the refinement mapping hides
  journal, handlers and crashes: while the service is down every source counts
  as fenced) and `InstrumentSteps`.
* **HubServer.**  `ServerImplementsCore`: every step of the server is a step of the core
  or leaves the core's state alone, so the theorems about HubCore hold of the
  server.  `LeasesNeverOrphaned`: the claim in the worker's hand is of a registered session,
  a session is forgotten only after its instruments are released, and the
  worker ends with none.
* **EngineOutputs.**  `ReceiptsTrue`, `FailureClosesTheGate` and `DetachedOnlyOff` from one
  argument about `Instruments`: the helpers never turn an output on, never
  forget that the gate's OFF failed, keep connections, and leave a display that
  is true; every handler is a composition of them and of the commands' own
  outcomes.
* **Sweep.**  `Inv` says for every place of `execute` what its locals,
  recordings and snapshot know of the instruments (`SweepInvariant`).  `StopsSoon`,
  `VerdictClean` and `CsvTrue` follow from it, the action properties
  `SlewNeverExceeded` and `TripTurnsOffFirst` from it and one look at each action.
  The constants are any targets, ramp step and bench.
* **Planner.**  Induction over data takes a set here instead of an operator: `LeastOf`
  (from the well-foundedness of the numbers) gives `Induct` and `InductTo`, with which the
  recursive functions of Planning are shown to have the solution that is wanted.
  *Points*: `ForwardIsLeg` gives forward_points in closed form, `LegFacts` and the
  `Joined...` lemmas carry pace, bounds, grid and turns through append_joined to every
  pattern (`BaseFacts`), `DirectionsAre` and `TurnsBend` tie the labels to the turns.
  *Shares*: `GcdIs` (Euclid and Bezout), from which `SplitFacts`: a level is a multiple of
  split_increment exactly if both sources follow it; `ScaledBase`: the points of a share are
  the shares of the points; `TwoFacts` collects what is known of an accepted plan.
  *Paths*: `LevelsTrack`, no level of a path, ramps included, leaves the grid or the reach of
  its targets, so each source follows it (`SideKeeps`, `PairsAreKept`).  `PlannerInvariant`
  adds what is on: a DC output whose limiters are no weaker than what was last asked for.
  From it `PlannerPointsExact`, `PlannerPairExact`, `PlannerLimitKept`, `PlannerDcOnGrid`.
* **Balanced.**  `Inv` (`BalancedInvariant`) is that of Sweep for two sources, with `LevelInv`:
  at every place of a move, at which differential level each of the two sources stands.  The
  two are then shares of levels no more than a ramp step apart, which bounds the gap
  (`AheadClose`).  That the levels have shares at all is the planner's promise, cited as a
  lemma (`DriveFacts`) and not assumed: the theorems hold of any request with a plan.  From
  the invariant `BalancedPairMoves` and `BalancedEndsTrue`.
* **Transport.**  `TransportInvariant`: only the helper of a poisoned or closed
  session still holds commands or answers; no helper holds one that could turn
  on a source that was reported OFF; a role that need not be validated was
  identified; a meter with no conversion since the last level is marked.  From it: `AnswersAreOwn`,
  `ReportedOffStays`, `TransfersIdentified`, `ReadingsFresh`.
* **GuiControl** with EngineClient.  `GuiInvariant` says that what can still be written is
  younger than every safety request whose flag is down, and that the commands
  a job has left and those it has spent are together its method's.  From it: `SafetyNeverOvertaken`,
  `JobsAtMostOnce`, `LockedStaysSilent`.  `WaitInv` follows the command a job waits for
  from the queue to the window of completions: a writer that drops it is on its way to
  a safety line (`Dropping`), that line to the engine (`OffComing`), and its end to a
  safety revision above the one the job began with, because revisions only grow from
  the GUI's copy to the engine's (`RevInv`).  From it `NobodyStranded`, whose
  condition `[][~Evicts]_vars` is needed: see `engine.rs:1175` in section 5.
* **RunFiles.**  `IInv` (`RunInvariant`): processes have numbers of their own and files
  bear them, so that what a process knows of its own files stands whatever the
  others do (`OtherRecorders`, `OtherExporters`); `SealInv`, a final manifest without
  error vouches for files of its own run, whole, hashed and durable, which is what makes it
  survive a power failure.  From it: `RunsNeverMislead` and, step by step, `OnlyOwnFiles`.

Assumptions on constants are few: sizes are natural numbers, sets of actors or roles are
disjoint where the code's types are, and `None` or `Nil` is not one of the things it
stands beside (TLC evaluates them on every run).  Bounds such as `MaxRequests`,
`MaxLate`, `MaxEvents`, `MaxJobs` and `MaxFaults` are constants too, so the theorems hold for every
value of them.  `PlanningAssumption` says what `specs/sources.toml` gives: resolutions are not
zero and divide their ranges' ends, ranges of a source differ in reach, and of two ranges the
larger has no higher limiter of its own.  The last is needed by `DcOnGrid` alone, where a DC
level is planned on one range and set on another that was asked for.

Only model-checked:

* all liveness (`SafetyProcessed`, `LapseCutsOff`, `ClosedEnds`, `QueuedCompletes`, `LostReleased`,
  `Answered`, `RunEnds`, `BalancedEnds`): fairness and ENABLED are out of the
  prover's reach.

Every safety invariant and action property of the runs is stated by a theorem; `NoStrandedJob`
alone carries a condition there.  It cannot be replaced by a bound on the jobs under way:
the window is cut out of a `SelectSeq`, a recursive definition the provers cannot expand.

The planner's levels are integers in the model, so its theorems say nothing of the tolerance
for binary floating point that the code adds (section 6).

## 5. Findings and observations

`sweep_gate`: a sweep whose only failure is its cleanup ends as Failed with the
gate on, against the comment at the decision (`engine.rs:3612`) and the
reference manual (`docs/reference/dual-source-and-gui-control.md:40`).

The following were met while modelling, most of them as counterexamples to a
property that was then narrowed to what the code does.  They have no run here.

* `engine.rs:249`, `263` and `811`: the rejection of a tagged job can be stored
  after the owner has drained the slots; the job has no completion until some
  other command passes, which is then reported as failed for it.
* `engine/gate.rs:492`: the first query of `check` returns its error without
  closing the gate, against the function's comment.  `gate.rs:136`: a plain OFF
  whose transport fails leaves `gate_output` as it was, where
  `docs/reference/manual-dc-output.md:98` says unknown.
* `engine.rs:749`: a Stop or Output Off whose cleanup fails stays in the phase
  `CleaningUp`, which clients treat as busy.
* `engine/balanced.rs:505` and `512`: a set-up that is cancelled by a quiet lease
  returns without an error.  `cancelled` is not latched, so a heartbeat before
  the loop looks again lets the sweep run, and record rows, with one or both
  outputs off.  `Balanced` has this behaviour; `EndsTrue` is about runs whose
  set-up switched both on (`run.armed`).
* `iv-transport/src/lib.rs:1045`: both sources share one deadline, so a helper that
  hangs on the first source's OFF can leave the second, on a healthy helper of
  its own, without an attempt; the comment above says a failure on one never
  prevents an attempt on the other.
* `lib.rs:669`: the disconnect of an ADCMT meter contains transfers, which a
  session poisoned by an earlier failure refuses (1944), and it does not
  revalidate a replaced helper first.  `lib.rs:1330`: when the new helper cannot be
  started its device lease is gone, and later attempts refuse for want of it.
* `gui_control.rs:543`: a start that is followed by a stop in the same frame is
  reported as completed although nothing was sent.  `gui_control.rs:462`: a job
  begun while the acknowledgement of an earlier Stop is on its way is reported as
  stopped, and its command is executed afterwards.
* `engine.rs:1175`: the window of completions holds four.  A job is over when a later safety
  revision is seen, although its command may still be in the pipe; when five jobs
  have gone that way, the first with a Run, the sixth sends a Gate change, which is refused
  because of that Run, and the other four commands end before the GUI looks again, then
  they push the sixth's completion out and it waits until Stop or until the engine
  is lost.  The run `gui` is too small for it (11 requests); a larger instance of
  GuiControl shows `NoStrandedJob` violated.  Hence the condition of `NobodyStranded`.
* `engine/source_dc.rs:127`: with an automatic range, a ramp step longer than the
  range is accepted.
* `run_export.rs:208`: when the rollback of a failed copy cannot remove the
  manifest, a whole manifest stays without its CSV; the error message says so.

## 6. Not modelled, and why

The catalogue's numbers, unit prefixes, measurement arithmetic and CSV text are
data, tested by example in the repository, and the planner's tolerance for
binary floating point needs floats, which TLC does not have.  Wire encodings and
authentication, drawing, settings and command line, native device helpers
and packaging keep no state that the modelled parts depend on; where the models
need the outcome of one of them (an instrument's transaction, a file operation,
a client's request) it is a nondeterministic choice.

## 7. Plan

1. Composition: the outcomes that `Instruments` takes of a forced OFF (`Known`,
   `TurnedOff`, `Missed`) as an abstraction of `Transport`; EngineClient's engine as an
   abstraction of EngineControl.
2. The settings and DC panels of the UI, whose guards decide which commands
   are sent.
