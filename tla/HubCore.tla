------------------------------ MODULE HubCore ------------------------------
(***************************************************************************)
(* instrument-hub/src/core.rs: the single-owner state of one GPIB          *)
(* controller.  One worker runs the handlers, so they never overlap; but a *)
(* handler makes several bus transactions and one journal write, each of   *)
(* which may fail, and the service may crash between any two of them.  A   *)
(* handler is therefore a sequence of steps held in `op`.                  *)
(*                                                                         *)
(* `hot` is the instruments' own state (external): which source outputs    *)
(* are really ON.  A transaction that fails may or may not have acted.     *)
(* `foreign` marks the outputs something other than the service turned ON  *)
(* (front panel, another program) while the service was not running.       *)
(***************************************************************************)
EXTENDS FiniteSets, Naturals

CONSTANTS
    Sessions,    \* client sessions (a session id is a fresh UUID)
    Addresses,   \* GPIB addresses of the device map
    Sources,     \* those registered with SafetyPolicy::Source
    None         \* no owner, no operation

ASSUME SourcesAssumption == Sources \subseteq Addresses
ASSUME NoneAssumption == None \notin Sessions /\ None \notin Addresses

VARIABLES
    owner,     \* Core.owners
    unknown,   \* Core.unknown: quarantined or claimed sources
    fault,     \* Core.fault
    journal,   \* the durable journal file
    hot,       \* outputs that are really ON (external)
    foreign,   \* those of them the service never saw turned ON (external)
    up,        \* the service process is running
    op         \* the handler in progress

instruments == <<hot, foreign>>
coreVars == <<owner, unknown, fault, journal, hot, foreign, up, op>>

Steps == {"idle", "claim_off", "claim_persist", "release", "release_off", "release_local",
          "release_persist", "recover_off", "recover_persist"}
\* step, address and session of the handler; `todo` is what a disconnect still
\* has to release.
Idle == [step |-> "idle", address |-> None, session |-> None, todo |-> {}]
Op == [step : Steps, address : Addresses \cup {None}, session : Sessions \cup {None},
       todo : SUBSET Addresses]

CoreInit ==
    /\ owner = [a \in Addresses |-> None]
    /\ journal \in SUBSET Sources /\ unknown = journal /\ fault = FALSE
    /\ hot \in SUBSET Sources /\ foreign = hot \ journal
    /\ up = TRUE /\ op = Idle

Ready == up /\ op.step = "idle"

\* `healthy`: a faulted controller serves nothing until the service restarts.
Healthy == ~fault

\* The OFF sequence of a source, read back; and one that reported a failure.
SourceOff(a) == hot' = hot \ {a} /\ foreign' = foreign \ {a}
SourceOffFailed(a) == SourceOff(a) \/ UNCHANGED instruments

At(step) == up /\ op.step = step
GoTo(step) == op' = [op EXCEPT !.step = step]
Finish == op' = IF op.todo = {} THEN Idle ELSE [op EXCEPT !.step = "release", !.address = None]

\* `persist`: temporary file, rename, directory sync.
Persisted == journal' = unknown'
\* It reports failure from any of those, before or after the rename.
PersistFailed == journal' \in {journal, unknown}

-----------------------------------------------------------------------------
(* Claim *)

\* The checks, then for a source the first bus transaction.
Claim(s, a) ==
    /\ Ready /\ Healthy
    /\ owner[a] = None
    /\ a \notin unknown
    /\ \/ /\ fault' = TRUE               \* prepare: the controller does not open
          /\ UNCHANGED <<owner, op>>
       \/ /\ a \in Sources
          /\ op' = [Idle EXCEPT !.step = "claim_off", !.address = a, !.session = s]
          /\ UNCHANGED <<owner, fault>>
       \/ /\ a \notin Sources
          /\ owner' = [owner EXCEPT ![a] = s]
          /\ UNCHANGED <<op, fault>>
    /\ UNCHANGED <<unknown, journal, hot, foreign, up>>

\* verify_source and source_off, before anything is recorded.
ClaimOff ==
    /\ At("claim_off")
    /\ \/ /\ SourceOff(op.address)
          /\ unknown' = unknown \cup {op.address}
          /\ GoTo("claim_persist")
       \/ /\ SourceOffFailed(op.address)
          /\ Finish
          /\ UNCHANGED unknown
    /\ UNCHANGED <<owner, fault, journal, up>>

\* Mutant: the lease is granted although the journal could not be written.
ClaimGrantsUnsaved ==
    /\ At("claim_persist")
    /\ UNCHANGED unknown
    /\ \/ journal' = unknown \/ PersistFailed
    /\ owner' = [owner EXCEPT ![op.address] = op.session]
    /\ Finish
    /\ UNCHANGED <<fault, hot, foreign, up>>
\* The claim is durable before the session may write.
ClaimPersist ==
    /\ At("claim_persist")
    /\ UNCHANGED unknown
    /\ \/ /\ Persisted
          /\ owner' = [owner EXCEPT ![op.address] = op.session]
       \/ /\ PersistFailed
          /\ UNCHANGED owner
    /\ Finish
    /\ UNCHANGED <<fault, hot, foreign, up>>

-----------------------------------------------------------------------------
(* Transfer and List *)

\* An addressed transaction of the owner.  What it does to an output is the
\* client's business; a failure faults the whole controller.
Transfer(s, a) ==
    /\ Ready /\ Healthy
    /\ owner[a] = s
    /\ hot' \in IF a \in Sources THEN {hot, hot \cup {a}, hot \ {a}} ELSE {hot}
    /\ foreign' = foreign \cap hot'
    /\ fault' \in BOOLEAN
    /\ UNCHANGED <<owner, unknown, journal, up, op>>

\* The bus is only scanned while nobody owns anything.
List ==
    /\ Ready /\ Healthy
    /\ \A a \in Addresses : owner[a] = None
    /\ fault' \in BOOLEAN
    /\ UNCHANGED <<owner, unknown, journal, hot, foreign, up, op>>

-----------------------------------------------------------------------------
(* Release, Close and a lost client *)

\* Release of one address, Close of a session, or the cleanup of a lost one.
StartRelease(s, S) ==
    /\ Ready
    /\ S # {} /\ \A a \in S : owner[a] = s
    /\ op' = [Idle EXCEPT !.step = "release", !.todo = S, !.session = s]
    /\ UNCHANGED <<owner, unknown, fault, journal, hot, foreign, up>>

Release(s, a) == StartRelease(s, {a})
Disconnect(s) == StartRelease(s, {a \in Addresses : owner[a] = s})

\* Live ownership goes first, whatever happens to the cleanup.
ReleaseOwner ==
    /\ At("release")
    /\ \E a \in op.todo :
        /\ owner' = [owner EXCEPT ![a] = None]
        /\ op' = [op EXCEPT !.step = IF a \in Sources THEN "release_off" ELSE "release_local",
                            !.address = a, !.todo = op.todo \ {a}]
    /\ UNCHANGED <<unknown, fault, journal, hot, foreign, up>>

\* source_off of a released source, refused by a faulted controller.
ReleaseOff ==
    /\ At("release_off")
    /\ \/ /\ Healthy /\ SourceOff(op.address) /\ GoTo("release_local")
       \/ /\ Healthy /\ SourceOffFailed(op.address) /\ Finish
       \/ /\ ~Healthy /\ Finish /\ UNCHANGED instruments
    /\ UNCHANGED <<owner, unknown, fault, journal, up>>

\* CLEAR for a lost meter, then LOCAL; either failing faults the controller.
ReleaseLocal ==
    /\ At("release_local")
    /\ \/ /\ Healthy
          /\ IF op.address \in Sources
               THEN unknown' = unknown \ {op.address} /\ GoTo("release_persist")
               ELSE UNCHANGED unknown /\ Finish
          /\ UNCHANGED fault
       \/ /\ fault' = TRUE /\ Finish /\ UNCHANGED unknown
    /\ UNCHANGED <<owner, journal, hot, foreign, up>>

\* The source leaves the quarantine, or is put back when that is not durable.
ReleasePersist ==
    /\ At("release_persist")
    /\ \/ /\ UNCHANGED unknown /\ journal' = unknown
       \/ /\ PersistFailed /\ unknown' = unknown \cup {op.address}
    /\ Finish
    /\ UNCHANGED <<owner, fault, hot, foreign, up>>

-----------------------------------------------------------------------------
(* Recover *)

\* Explicit recovery of a quarantined source nobody owns.
Recover(a) ==
    /\ Ready /\ Healthy
    /\ owner[a] = None /\ a \in unknown
    /\ op' = [Idle EXCEPT !.step = "recover_off", !.address = a]
    /\ UNCHANGED <<owner, unknown, fault, journal, hot, foreign, up>>

\* Mutant: the answer of source_off is ignored.
RecoverUnverified ==
    /\ At("recover_off")
    /\ SourceOffFailed(op.address)
    /\ unknown' = unknown \ {op.address}
    /\ GoTo("recover_persist")
    /\ UNCHANGED <<owner, fault, journal, up>>
\* verify_source and source_off; only then does it leave the quarantine.
RecoverOff ==
    /\ At("recover_off")
    /\ \/ /\ SourceOff(op.address) /\ unknown' = unknown \ {op.address}
          /\ GoTo("recover_persist")
       \/ /\ SourceOffFailed(op.address) /\ Finish /\ UNCHANGED unknown
    /\ UNCHANGED <<owner, fault, journal, up>>

RecoverPersist ==
    /\ At("recover_persist")
    /\ \/ journal' = unknown \/ PersistFailed
    /\ Finish
    /\ UNCHANGED <<owner, unknown, fault, hot, foreign, up>>

-----------------------------------------------------------------------------
(* Crash and restart *)

\* The process dies between any two steps; outputs keep what they had.
Crash ==
    /\ up
    /\ up' = FALSE /\ op' = Idle
    /\ owner' = [a \in Addresses |-> None]
    /\ unknown' = {} /\ fault' = FALSE
    /\ UNCHANGED <<journal, hot, foreign>>

\* Mutant: an unreadable journal counts as an empty one.
RestartForgets ==
    /\ ~up
    /\ up' = TRUE
    /\ unknown' \in {journal, {}}
    /\ UNCHANGED <<owner, fault, journal, hot, foreign, op>>
\* `Core::new`: everything in the journal is quarantined.
Restart ==
    /\ ~up
    /\ up' = TRUE
    /\ unknown' = journal
    /\ UNCHANGED <<owner, fault, journal, hot, foreign, op>>

\* While the service does not run, anyone may turn an output on.
Outside(a) ==
    /\ ~up
    /\ a \notin hot
    /\ hot' = hot \cup {a} /\ foreign' = foreign \cup {a}
    /\ UNCHANGED <<owner, unknown, fault, journal, up, op>>

-----------------------------------------------------------------------------
Handler == \/ ClaimOff \/ ClaimPersist
           \/ ReleaseOwner \/ ReleaseOff \/ ReleaseLocal \/ ReleasePersist
           \/ RecoverOff \/ RecoverPersist

CoreNext ==
    \/ \E s \in Sessions, a \in Addresses : Claim(s, a) \/ Transfer(s, a) \/ Release(s, a)
    \/ \E s \in Sessions : Disconnect(s)
    \/ List
    \/ \E a \in Addresses : Recover(a)
    \/ Handler
    \/ Crash \/ Restart
    \/ \E a \in Sources : Outside(a)

CoreSpec == CoreInit /\ [][CoreNext]_coreVars

-----------------------------------------------------------------------------
(* Properties. *)

CoreTypeOK ==
    /\ owner \in [Addresses -> Sessions \cup {None}]
    /\ unknown \subseteq Sources /\ journal \subseteq Sources
    /\ hot \subseteq Sources /\ foreign \subseteq hot
    /\ fault \in BOOLEAN /\ up \in BOOLEAN
    /\ op \in Op

\* Whatever crashes and whatever fails, an output a client turned ON is in the
\* durable journal, so that the next service process quarantines it.
HotJournaled == hot \ foreign \subseteq journal

\* A session is only handed an instrument whose output is OFF: never a live
\* output left by an owner that failed, was lost or crashed, nor one that was
\* turned ON behind the service's back.
Cold == \A a \in Addresses : owner[a] = None /\ owner'[a] # None => a \notin hot'
\* A running service lets a source out of its quarantine only when it is OFF.
Kept == up /\ up' => (unknown \ unknown') \cap hot' = {}
\* Two sessions never command the same instrument: ownership passes through
\* nobody.
Passed == \A a \in Addresses : owner[a] # None /\ owner'[a] # owner[a] => owner'[a] = None
\* What no step of claim, release, recover, crash or restart may do.
SourcesGuarded == [][Cold /\ Kept /\ Passed]_coreVars

\* A source is fenced when the running service refuses to hand it out, and
\* when the service is down; the claim being granted is not fenced yet.
Granting == IF op.step = "claim_persist" THEN {op.address} ELSE {}
Fenced == IF up THEN {a \in unknown \ Granting : owner[a] = None} ELSE Sources
FenceOf == INSTANCE OutputFence WITH
             holder <- [a \in Sources |-> owner[a]], fenced <- Fenced, hot <- hot \ foreign
\* Handlers, journal and crashes together implement OutputFence: the promise
\* that a live output is always owned or fenced off.
ImplementsFence == FenceOf!FenceSpec

\* In the terms of that specification: a live output is owned or fenced off,
\* at every moment of every handler.
LiveHeld == FenceOf!HotHeld
=============================================================================
