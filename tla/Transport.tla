----------------------------- MODULE Transport -----------------------------
(***************************************************************************)
(* iv-transport: the DevicePair of the engine thread and the helper        *)
(* processes it talks to.  A role (source, gate, meter...) is attached to  *)
(* a port; the GPIB roles share one helper session, the others have one    *)
(* each.  A request is a line to the helper and one line back within a     *)
(* deadline.  A helper may answer late, fail, hang or die, and what it was *)
(* told but did not answer in time it may still execute later.             *)
(*                                                                         *)
(* The engine thread makes one call at a time; a call is cut at its        *)
(* requests.                                                               *)
(***************************************************************************)
EXTENDS Naturals, Sequences, FiniteSets

CONSTANTS
    Benches,     \* the instruments there are: port of every role, whether the
                 \* bus is the shared hub's, which meters are ADCMT ones
    MaxLate      \* bound: commands a helper has not answered

Bus == "bus"                        \* the port of ResourceKind::Gpib

ASSUME TransportAssumption ==
    /\ MaxLate \in Nat \ {0}
    /\ \A b \in Benches : DOMAIN b = {"port", "hub", "adc"} /\ b.adc \subseteq DOMAIN b.port

VARIABLES
    bench,       \* one of Benches
    attached,    \* roles with an endpoint
    helper,      \* the session of every port
    usable, pending,      \* DevicePair.usable and recovery_pending
    discard,     \* meters whose next conversion is thrown away
    call,        \* the call of the engine thread
    on,          \* external: the sources whose output is ON
    said,        \* history: sources reported OFF and not switched on since
    known,       \* history: roles identified through their present helper
    first,       \* history: meters without a conversion since a level was set
    crossed      \* history: an SCPI answer was that of an earlier request

vars == <<bench, attached, helper, usable, pending, discard, call, on, said, known, first, crossed>>

Roles == DOMAIN bench.port
Sources == Roles \cap {"source", "source2", "gate"}
Meters == Roles \ Sources
Ports == {bench.port[r] : r \in Roles}
Port(r) == bench.port[r]
OnPort(p) == {r \in attached : Port(r) = p}
Hub(p) == p = Bus /\ bench.hub

\* todo: commands not executed yet.  ready: answers nobody has read.
Closed == [open |-> FALSE, poisoned |-> FALSE, dead |-> FALSE, lease |-> FALSE,
           todo |-> <<>>, ready |-> 0]
Fresh == [Closed EXCEPT !.open = TRUE, !.lease = TRUE]
\* finish_process kills the helper with whatever it had still to do.
Ended(h) == [Closed EXCEPT !.lease = h.lease]

Idle == [op |-> "idle", role |-> "none", at |-> "idle", steps |-> <<>>, sent |-> {},
         tried |-> {}, tries |-> 0, expired |-> FALSE, failed |-> FALSE, spoiled |-> FALSE]

Init ==
    /\ bench \in Benches
    /\ attached = {} /\ usable = TRUE /\ pending = {} /\ discard = {}
    /\ helper = [p \in Ports |-> Closed]
    /\ call = Idle
    /\ on \in SUBSET Sources
    /\ said = {} /\ known = {} /\ first = {} /\ crossed = FALSE

-----------------------------------------------------------------------------
(* One request *)

\* What an executed command does to the outputs; an instrument may ignore it.
Executed(cmd, outputs) ==
    {outputs} \cup (CASE cmd.op = "ON"  -> {outputs \cup {cmd.role}}
                      [] cmd.op = "OFF" -> {outputs \ {cmd.role}}
                      [] OTHER -> {outputs})

\* What a helper has to do; only ON and OFF are told apart.
Command(r, op) == IF op \in {"ON", "OFF"} THEN [role |-> r, op |-> op]
                                          ELSE [role |-> "any", op |-> "other"]

Scpi == {"ON", "OFF", "LEVEL", "WRITE", "QUERY", "READ"}

\* The outcomes of a request: answered or not, with our own answer or not, the
\* helper and the outputs afterwards, and whether all the time was used up.
Outcome(ok, own, h, outputs, slow) ==
    [ok |-> ok, own |-> own, h |-> h, on |-> outputs, slow |-> slow]
Refused(h) == Outcome(FALSE, FALSE, h, on, FALSE)

\* Mutant: a transfer that times out leaves the session in use.
UnpoisonedRequest(h, r, op) ==
    LET sent == Append(h.todo, Command(r, op))
        read == IF h.ready > 0 THEN [h EXCEPT !.ready = @ - 1, !.todo = sent]
                               ELSE [h EXCEPT !.todo = Tail(sent)]
    IN  IF ~h.open THEN {Refused(h)}
        ELSE {Outcome(TRUE, h.ready = 0 /\ Len(sent) = 1, read, on, FALSE)}
             \cup (IF Len(sent) + h.ready <= MaxLate
                     THEN {Outcome(FALSE, FALSE, [h EXCEPT !.todo = sent], on, TRUE)} ELSE {})
\* HelperSession::request of one command.  The answer read is the oldest unread
\* one; it is our own only if nothing is owed.
Request(h, r, op) ==
    LET scpi == op \in Scpi
        sent == Append(h.todo, Command(r, op))
        bad(g) == [g EXCEPT !.poisoned = @ \/ scpi]
        late(g) == [g EXCEPT !.poisoned = TRUE]
        read == IF h.ready > 0 THEN [h EXCEPT !.ready = @ - 1, !.todo = sent]
                               ELSE [h EXCEPT !.todo = Tail(sent)]
        after == IF h.ready > 0 THEN {on} ELSE Executed(Head(sent), on)
        died == [h EXCEPT !.dead = TRUE, !.todo = <<>>, !.ready = 0]
    IN  CASE ~h.open \/ (scpi /\ h.poisoned) -> {Refused(h)}
          [] h.open /\ ~(scpi /\ h.poisoned) /\ h.dead -> {Refused(late(h))}
          [] OTHER ->
               {Outcome(TRUE, h.ready = 0 /\ Len(sent) = 1, read, o, FALSE) : o \in after}
               \cup {Outcome(FALSE, FALSE, bad(read), o, FALSE) : o \in after}
               \cup {Outcome(FALSE, FALSE, bad(died), o, FALSE) :
                        o \in Executed(Command(r, op), on)}
               \cup {Outcome(FALSE, FALSE, late(h), on, TRUE)}
               \cup (IF Len(sent) + h.ready <= MaxLate
                       THEN {Outcome(FALSE, FALSE, late([h EXCEPT !.todo = sent]), on, TRUE)}
                       ELSE {})

\* What outcome x of a request to role r changes.
Took(r, op, x) ==
    /\ helper' = [helper EXCEPT ![Port(r)] = x.h]
    /\ on' = x.on
    /\ crossed' = (crossed \/ (x.ok /\ op \in Scpi /\ ~x.own))

\* A helper executes later what it did not answer in time.
HelperRuns(p) ==
    LET h == helper[p]
    IN  /\ h.todo # <<>>
        /\ on' \in Executed(Head(h.todo), on)
        /\ helper' = [helper EXCEPT ![p] = [h EXCEPT !.todo = Tail(@), !.ready = @ + 1]]
        /\ UNCHANGED <<bench, attached, usable, pending, discard, call, said, known, first, crossed>>

\* Going on, and returning to the engine.
At(step) == call' = [call EXCEPT !.at = step]
Return == call' = Idle
Begin(op, r, step) == call.op = "idle" /\ call' = [Idle EXCEPT !.op = op, !.role = r, !.at = step]

-----------------------------------------------------------------------------
(* connect_model *)

\* The GPIB session in use is shared, else the lease is taken and a helper
\* started; either may fail.
Connect(r) ==
    LET p == Port(r)
        next == IF Hub(p) THEN "claim" ELSE "identify"
    IN  /\ r \notin attached
        /\ \/ Begin("connect", r, next) /\ OnPort(p) # {} /\ UNCHANGED <<helper, known>>
           \/ /\ Begin("connect", r, next) /\ OnPort(p) = {}
              /\ helper' = [helper EXCEPT ![p] = Fresh]
              /\ known' = {q \in known : Port(q) # p}
           \/ /\ call.op = "idle" /\ OnPort(p) = {} /\ Return
              /\ UNCHANGED <<helper, known>>
        /\ UNCHANGED <<bench, attached, usable, pending, discard, on, said, first, crossed>>

\* A session no role was attached to is dropped, which ends its helper.
Dropped(hs, p) == IF OnPort(p) = {} THEN [hs EXCEPT ![p] = [Ended(hs[p]) EXCEPT !.lease = FALSE]]
                                    ELSE hs

Claim ==
    LET p == Port(call.role)
    IN  /\ call.at = "claim"
        /\ \E x \in Request(helper[p], call.role, "CLAIM") :
             LET hs == [helper EXCEPT ![p] = x.h]
             IN  /\ on' = x.on
                 /\ IF x.ok THEN At("identify") /\ helper' = hs
                            ELSE Return /\ helper' = Dropped(hs, p)
        /\ UNCHANGED <<bench, attached, usable, pending, discard, said, known, first, crossed>>

\* identify_endpoint and verify_model; only then is the role usable.
Identify ==
    LET r == call.role
    IN  /\ call.op = "connect" /\ call.at = "identify"
        /\ \E x \in Request(helper[Port(r)], r, "QUERY") :
             /\ Took(r, "QUERY", x)
             /\ \/ /\ x.ok /\ Return
                   /\ attached' = attached \cup {r} /\ known' = known \cup {r} /\ usable' = TRUE
                   /\ discard' = IF r \in bench.adc THEN discard \cup {r} ELSE discard \ {r}
                \/ At("reject") /\ UNCHANGED <<attached, known, usable, discard>>
        /\ UNCHANGED <<bench, pending, said, first>>

\* A rejected instrument is released, or returned to local control, or its
\* helper closed.
Reject ==
    LET r == call.role
        p == Port(r)
    IN  /\ call.at = "reject"
        /\ \E x \in Request(helper[p], r, IF Hub(p) THEN "RELEASE"
                                          ELSE IF OnPort(p) # {} THEN "LOCAL" ELSE "EXIT") :
             /\ on' = x.on
             /\ helper' = Dropped([helper EXCEPT ![p] = x.h], p)
        /\ Return
        /\ UNCHANGED <<bench, attached, usable, pending, discard, said, known, first, crossed>>

-----------------------------------------------------------------------------
(* disconnect and discover *)

Detaching(r) ==
    (IF r \in bench.adc THEN <<"CLEAR", "ABORT", "CLS">> ELSE <<>>) \o <<"LOCAL">>
    \o (IF Hub(Port(r)) THEN <<"RELEASE">> ELSE <<>>)
    \o (IF OnPort(Port(r)) = {r} THEN <<"REN", "EXIT">> ELSE <<>>)

Disconnect(r) ==
    /\ r \in attached /\ call.op = "idle"
    /\ call' = [Idle EXCEPT !.op = "disconnect", !.role = r, !.at = "detach",
                            !.steps = Detaching(r)]
    /\ UNCHANGED <<bench, attached, helper, usable, pending, discard, on, said, known, first, crossed>>

\* One request of it.  An error keeps the role attached, except that of EXIT.
Detach ==
    LET r == call.role
        p == Port(r)
        step == Head(call.steps)
        cleared == /\ attached' = attached \ {r}
                   /\ discard' = IF r = "reference" THEN discard \ {r} ELSE discard
    IN  /\ call.at = "detach"
        /\ \E x \in Request(helper[p], r, IF step \in {"ABORT", "CLS"} THEN "WRITE" ELSE step) :
             /\ on' = x.on
             /\ crossed' = (crossed \/ (x.ok /\ step \in {"ABORT", "CLS"} /\ ~x.own))
             /\ CASE step = "EXIT" ->
                       /\ helper' = [helper EXCEPT ![p] = [Ended(x.h) EXCEPT !.lease = FALSE]]
                       /\ cleared /\ known' = known \ {r}
                       /\ Return
                  [] step # "EXIT" ->
                       /\ helper' = [helper EXCEPT ![p] = x.h]
                       /\ \/ ~x.ok /\ Return /\ UNCHANGED <<attached, discard, known>>
                          \/ /\ x.ok /\ Len(call.steps) > 1
                             /\ call' = [call EXCEPT !.steps = Tail(@)]
                             /\ UNCHANGED <<attached, discard, known>>
                          \/ /\ x.ok /\ Len(call.steps) = 1
                             /\ cleared /\ known' = known \ {r} /\ Return
        /\ UNCHANGED <<bench, usable, pending, said, first>>

\* LIST through the bridge in use; without one a helper is started for it and
\* closed again.
Discover(r) ==
    /\ call.op = "idle" /\ r \in attached /\ Port(r) = Bus
    /\ \E x \in Request(helper[Bus], r, "LIST") :
         /\ on' = x.on /\ helper' = [helper EXCEPT ![Bus] = x.h]
         /\ Return
    /\ UNCHANGED <<bench, attached, usable, pending, discard, said, known, first, crossed>>

-----------------------------------------------------------------------------
(* Ordinary writes and readings *)

\* ensure_usable, then validate_recovery if the helper was replaced.
Ordinary(op, r) ==
    /\ r \in attached
    /\ IF usable THEN Begin(op, r, IF r \in pending THEN "validate" ELSE op)
                 ELSE call.op = "idle" /\ Return
    /\ UNCHANGED <<bench, attached, helper, usable, pending, discard, on, said, known, first, crossed>>
WriteOn(r) == r \in Sources /\ Ordinary("ON", r)
WriteLevel(r) == r \in Sources /\ Ordinary("LEVEL", r)
Read(m) == m \in Meters /\ Ordinary("READ", m)

Validate ==
    LET r == call.role
    IN  /\ call.at = "validate"
        /\ \E x \in Request(helper[Port(r)], r, "QUERY") :
             /\ Took(r, "QUERY", x)
             /\ \/ /\ x.ok /\ At(call.op)
                   /\ pending' = pending \ {r} /\ known' = known \cup {r} /\ UNCHANGED usable
                \/ usable' = FALSE /\ Return /\ UNCHANGED <<pending, known>>
        /\ UNCHANGED <<bench, attached, discard, said, first>>

\* A level that was set marks every ADCMT meter.
Write ==
    LET r == call.role
    IN  /\ call.at \in {"ON", "LEVEL"}
        /\ said' = IF call.at = "ON" THEN said \ {r} ELSE said
        /\ \E x \in Request(helper[Port(r)], r, call.at) :
             /\ Took(r, call.at, x)
             /\ Return
             /\ IF x.ok /\ call.at = "LEVEL"
                  THEN discard' = discard \cup bench.adc /\ first' = bench.adc
                  ELSE UNCHANGED <<discard, first>>
        /\ UNCHANGED <<bench, attached, usable, pending, known>>

\* Mutant: one flag for both meters.
ConvertShared ==
    LET m == call.role
    IN  /\ call.at = "READ"
        /\ \E x \in Request(helper[Port(m)], m, "READ") :
             /\ Took(m, "READ", x)
             /\ first' = IF x.ok THEN first \ {m} ELSE first
             /\ IF x.ok /\ discard # {} THEN discard' = {} /\ UNCHANGED call
                ELSE call' = [Idle EXCEPT !.spoiled = x.ok /\ m \in first] /\ UNCHANGED discard
        /\ UNCHANGED <<bench, attached, usable, pending, said, known>>
\* adc_query of READ?: the first conversion after a level is thrown away.
Convert ==
    LET m == call.role
    IN  /\ call.at = "READ"
        /\ \E x \in Request(helper[Port(m)], m, "READ") :
             /\ Took(m, "READ", x)
             /\ first' = IF x.ok THEN first \ {m} ELSE first
             /\ IF x.ok /\ m \in discard
                  THEN discard' = discard \ {m} /\ UNCHANGED call
                  ELSE /\ call' = [Idle EXCEPT !.spoiled = x.ok /\ m \in first]
                       /\ UNCHANGED discard
        /\ UNCHANGED <<bench, attached, usable, pending, said, known>>

-----------------------------------------------------------------------------
(* Forcing outputs off *)

Forcing == call.op \in {"off", "off all"}
\* The attached ones of SOURCE_ROLES, in its order.
Sweepers == (IF "source" \in attached THEN <<"source">> ELSE <<>>)
              \o (IF "source2" \in attached THEN <<"source2">> ELSE <<>>)
FirstStep(r) == IF usable /\ r \notin pending THEN "dispatch" ELSE "verify"

\* force_output_off_role.
Off(r) ==
    /\ r \in attached \cap Sources
    /\ Begin("off", r, FirstStep(r))
    /\ UNCHANGED <<bench, attached, helper, usable, pending, discard, on, said, known, first, crossed>>

\* force_sources_output_off: first a dispatch to every source, then the rest.
OffAll ==
    /\ call.op = "idle" /\ Sweepers # <<>>
    /\ call' = [Idle EXCEPT !.op = "off all", !.role = Head(Sweepers),
                            !.at = FirstStep(Head(Sweepers)), !.steps = Tail(Sweepers)]
    /\ UNCHANGED <<bench, attached, helper, usable, pending, discard, on, said, known, first, crossed>>

\* Time passes; 28 seconds for everything.
Deadline ==
    /\ Forcing /\ ~call.expired
    /\ call' = [call EXCEPT !.expired = TRUE]
    /\ UNCHANGED <<bench, attached, helper, usable, pending, discard, on, said, known, first, crossed>>

\* Endpoint::request_before: refused after the deadline; a hung helper uses up
\* all that is left of it.
Answers(r, op) ==
    IF call.expired THEN {Refused(helper[Port(r)])} ELSE Request(helper[Port(r)], r, op)
Elapsed(x) == call.expired \/ x.slow

\* The dispatch of one source is done; the other's follows, then the answers.
Dispatched(c, ok) ==
    LET sent == IF ok THEN c.sent \cup {c.role} ELSE c.sent
        lead == Head(Sweepers)
    IN  IF c.steps # <<>>
          THEN [c EXCEPT !.sent = sent, !.role = Head(c.steps), !.steps = Tail(c.steps),
                         !.at = FirstStep(Head(c.steps))]
          ELSE [c EXCEPT !.sent = sent, !.role = lead, !.steps = Tail(Sweepers),
                         !.at = IF lead \in sent THEN "check" ELSE "recover"]
\* Is this the first round of force_sources_output_off?
FirstRound == call.op = "off all" /\ call.tries = 0 /\ call.at \in {"verify", "dispatch"}

\* verify_recovered_role before the first OFF.  The single source gives it at
\* most five of its seconds.
Verify ==
    LET r == call.role
    IN  /\ call.at = "verify"
        /\ \E x \in Answers(r, "QUERY"), match \in BOOLEAN :
             LET good == x.ok /\ match
                 c == [call EXCEPT !.expired = IF call.op = "off" THEN @ ELSE Elapsed(x)]
             IN  /\ Took(r, "QUERY", x)
                 /\ known' = IF good THEN known \cup {r} ELSE known
                 /\ call' = CASE good -> [c EXCEPT !.at = "dispatch"]
                              [] ~good /\ FirstRound -> Dispatched(c, FALSE)
                              [] ~good /\ ~FirstRound -> [c EXCEPT !.at = "recover"]
        /\ UNCHANGED <<bench, attached, usable, pending, discard, said, first>>

\* output_off_dispatch.
Dispatch ==
    LET r == call.role
        taken == ~call.expired /\ helper[Port(r)].open /\ ~helper[Port(r)].poisoned
    IN  /\ call.at = "dispatch"
        /\ \E x \in Answers(r, "OFF") :
             LET c == [call EXCEPT !.expired = Elapsed(x),
                                   !.tried = IF taken THEN @ \cup {r} ELSE @]
             IN  /\ Took(r, "OFF", x)
                 /\ call' = CASE FirstRound -> Dispatched(c, x.ok)
                              [] ~FirstRound -> [c EXCEPT !.at = IF x.ok THEN "check" ELSE "recover"]
        /\ UNCHANGED <<bench, attached, usable, pending, discard, said, known, first>>

\* Mutant: the acknowledged write is taken for the output state.
CheckTrusts ==
    /\ call.at = "check" /\ At("zero")
    /\ UNCHANGED <<bench, attached, helper, usable, pending, discard, on, said, known, first, crossed>>
\* output_off_verify_and_zero: the state is asked for, not assumed.
Check ==
    LET r == call.role
    IN  /\ call.at = "check"
        /\ \E x \in Answers(r, "QUERY"), off \in BOOLEAN :
             /\ Took(r, "QUERY", x)
             /\ x.own => off = (r \notin x.on)
             /\ call' = [call EXCEPT !.expired = Elapsed(x),
                                     !.at = IF x.ok /\ off THEN "zero" ELSE "recover"]
        /\ UNCHANGED <<bench, attached, usable, pending, discard, said, known, first>>

\* The next source of the second round, or the end.
Finished(c, ok) ==
    CASE c.op = "off" -> Idle
      [] c.op = "off all" /\ c.steps = <<>> ->
           [c EXCEPT !.at = "finish", !.failed = @ \/ ~ok, !.tries = 0]
      [] c.op = "off all" /\ c.steps # <<>> ->
           [c EXCEPT !.role = Head(c.steps), !.steps = Tail(c.steps), !.failed = @ \/ ~ok,
                     !.tries = 0, !.at = IF Head(c.steps) \in c.sent THEN "check" ELSE "recover"]

\* The level follows; its failure is only a warning of the verified report.
Zero ==
    LET r == call.role
    IN  /\ call.at = "zero"
        /\ \E x \in Answers(r, "LEVEL") :
             /\ Took(r, "LEVEL", x)
             /\ said' = said \cup {r}
             /\ call' = Finished([call EXCEPT !.expired = Elapsed(x)], TRUE)
        /\ UNCHANGED <<bench, attached, usable, pending, discard, known, first>>

\* Mutant: only the recovering role is marked for validation.
RecoverAlone ==
    LET r == call.role
        p == Port(r)
    IN  /\ call.at = "recover"
        /\ \/ /\ call.tries < 2 /\ ~call.expired /\ ~Hub(p) /\ helper[p].lease
              /\ helper' = [helper EXCEPT ![p] = Fresh]
              /\ pending' = pending \cup {r} /\ known' = {q \in known : Port(q) # p}
              /\ call' = [call EXCEPT !.tries = @ + 1, !.at = "identify"]
              /\ UNCHANGED usable
           \/ /\ (call.tries = 2 \/ call.expired)
              /\ call' = Finished(call, FALSE) /\ usable' = FALSE
              /\ UNCHANGED <<helper, pending, known>>
        /\ UNCHANGED <<bench, attached, discard, on, said, first, crossed>>
\* output_off_recover and replace_source_helper, twice at most: the old helper
\* is ended before a fresh one gets its lease, and every role of the port must
\* be identified again.  The hub's helper is never replaced.  A start that fails
\* drops the lease.
Recover ==
    LET r == call.role
        p == Port(r)
        again == [call EXCEPT !.tries = @ + 1]
    IN  /\ call.at = "recover"
        /\ \/ /\ call.tries = 2 \/ call.expired
              /\ call' = Finished(call, FALSE) /\ usable' = (usable /\ call.op # "off")
              /\ UNCHANGED <<helper, pending, known>>
           \/ /\ call.tries < 2 /\ ~call.expired /\ UNCHANGED usable
              /\ \/ Hub(p) /\ call' = again /\ UNCHANGED <<helper, pending, known>>
                 \/ /\ ~Hub(p) /\ call' = again
                    /\ helper' = [helper EXCEPT ![p] = [Ended(@) EXCEPT !.lease = FALSE]]
                    /\ UNCHANGED <<pending, known>>
                 \/ /\ ~Hub(p) /\ helper[p].lease
                    /\ call' = [again EXCEPT !.at = "identify"]
                    /\ helper' = [helper EXCEPT ![p] = Fresh]
                    /\ pending' = pending \cup OnPort(p)
                    /\ known' = {q \in known : Port(q) # p}
        /\ UNCHANGED <<bench, attached, discard, on, said, first, crossed>>

\* Only the source about to be turned off is identified now.
Reidentify ==
    LET r == call.role
    IN  /\ Forcing /\ call.at = "identify"
        /\ \E x \in Answers(r, "QUERY"), match \in BOOLEAN :
             LET good == x.ok /\ match
             IN  /\ Took(r, "QUERY", x)
                 /\ known' = IF good THEN known \cup {r} ELSE known
                 /\ pending' = IF good THEN pending \ {r} ELSE pending
                 /\ call' = [call EXCEPT !.expired = Elapsed(x),
                                         !.at = IF good THEN "dispatch" ELSE "recover"]
        /\ UNCHANGED <<bench, attached, usable, discard, said, first>>

Finish ==
    /\ call.at = "finish"
    /\ usable' = (usable /\ ~call.failed)
    /\ Return
    /\ UNCHANGED <<bench, attached, helper, pending, discard, on, said, known, first, crossed>>

-----------------------------------------------------------------------------
Engine ==
    \/ OffAll
    \/ \E r \in Roles : \/ Connect(r) \/ Disconnect(r) \/ Discover(r)
                        \/ WriteOn(r) \/ WriteLevel(r) \/ Read(r) \/ Off(r)
Step ==
    \/ Claim \/ Identify \/ Reject \/ Detach
    \/ Validate \/ Write \/ Convert
    \/ Verify \/ Dispatch \/ Check \/ Zero \/ Recover \/ Reidentify \/ Finish
Next == Engine \/ Step \/ Deadline \/ (\E p \in Ports : HelperRuns(p))
Spec == Init /\ [][Next]_vars

-----------------------------------------------------------------------------
(* Properties *)

\* HelperSession: the answer a transfer is given is its own, never the late
\* answer of an earlier request, on a replaced helper or on the same one.
OwnAnswer == ~crossed

\* A source reported OFF is OFF and stays OFF until it is switched on again,
\* whatever the helper was told before and had not done yet.
OffStays == said \cap on = {}

\* replace_source_helper: no ordinary transfer and no OFF goes to an instrument
\* that was not identified through the helper in use.
IdentifiedFirst ==
    call.at \in {"ON", "LEVEL", "READ", "dispatch"} =>
        LET h == helper[Port(call.role)]
        IN  h.open /\ ~h.poisoned => call.role \in known

\* adc_query: a reading that is returned is never the first conversion after a
\* level was set, with two such meters as with one.
FreshReading == ~call.spoiled

=============================================================================
